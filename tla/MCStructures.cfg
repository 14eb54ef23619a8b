SPECIFICATION MCSpec
CONSTANTS
    Pointer = {1, 2, 3, 4, 5, 6, 7, 8}
    RB_NULL = 0
    NoKey = 0
    RB_COMPARE <- IntCompare
    KeyOf <- PairedKeys
    Node = {1, 2, 3, 4, 5, 6, 7}
    SHM_NULL = 0
    W = 3
    Bits = 9
    SizeLimit = 4194304
    Requests <- MCRequests
INVARIANTS HoldsMembers RedBlack SearchComplete PoolLinked BitmapIsSet RequestFits
CHECK_DEADLOCK FALSE
