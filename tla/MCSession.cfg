SPECIFICATION Spec
CONSTANTS
    Proc = {p1, p2}
    Creates = {TRUE, FALSE}
    NoProc = NoProc
    CountLimit = 8
    MaxSeg = 2
    MaxFault = 1
INVARIANTS TypeOK CreatorReady CountExact NoLeak MutualExclusion
PROPERTY InitEnds MutexLive
CHECK_DEADLOCK FALSE
