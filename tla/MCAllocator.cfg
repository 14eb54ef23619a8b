SPECIFICATION FewBlocks
CONSTANTS
    ArenaMax = 3
    ArenaChunks = 2
    Units = 3
    PageSlots = 2
    ArenaSpan = 12
    Requests = {1, 2, 4, 5}
INVARIANTS ChunksInUse PoolsTrue CopyFits
PROPERTY BlocksKept
CHECK_DEADLOCK FALSE
