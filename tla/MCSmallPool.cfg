SPECIFICATION TreeSpec
CONSTANTS
    Chunks = 2
    RunSize = 3
    UnitSize = 3
    HeaderSize = 1
    Class = {1}
    ElemSize <- OneSize
INVARIANT RootHasSlot
CHECK_DEADLOCK FALSE
