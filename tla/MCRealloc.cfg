SPECIFICATION Spec
CONSTANTS
    ArenaMax = 3
    ArenaChunks = 2
    Units = 3
    PageSlots = 2
    ArenaSpan = 12
    Requests = {1, 2, 4, 5}
INVARIANT ReallocGrows
CHECK_DEADLOCK FALSE
