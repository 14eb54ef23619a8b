SPECIFICATION Spec
CONSTANTS
    Proc = {p1, p2, p3}
    Creates = {TRUE}
    NoProc = NoProc
    CountLimit = 8
    MaxSeg = 2
    MaxFault = 0
INVARIANT OneContext
CHECK_DEADLOCK FALSE
