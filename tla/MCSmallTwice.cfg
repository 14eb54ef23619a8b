SPECIFICATION TreeSpec
CONSTANTS
    Chunks = 1
    RunSize = 3
    UnitSize = 5
    HeaderSize = 1
    Class = {1, 2}
    ElemSize <- TwoSizes
INVARIANT GivenOnce
CHECK_DEADLOCK FALSE
