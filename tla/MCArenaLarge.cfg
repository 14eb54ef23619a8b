SPECIFICATION Spec
CONSTANTS
    Proc = {p1, p2}
    ArenaMax = 2
    ArenaChunks = 2
    Shmid = {s1, s2}
INVARIANT LargeIsMapped
CHECK_DEADLOCK FALSE
