SPECIFICATION BeforeOldLinks
CONSTANTS
    Chunks = 2
    RunSize = 3
    UnitSize = 5
    HeaderSize = 1
    Class = {1, 2}
    ElemSize <- TwoSizes
INVARIANTS TypeOK FreeListExact PoolHasRoom ChunkCounts AssertsHold
PROPERTIES HeapSpec ChunkSpec
CHECK_DEADLOCK FALSE
