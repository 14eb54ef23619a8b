SPECIFICATION Spec
CONSTANTS
    Proc = {p1, p2}
    ArenaMax = 3
    ArenaChunks = 2
    Shmid = {s1, s2, s3, s4}
SYMMETRY Interchangeable
INVARIANTS TypeOK NoDangling TableSound DeathNeedsLoss AddrIsCurrent
PROPERTY HeapSpec
CHECK_DEADLOCK FALSE
