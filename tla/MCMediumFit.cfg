SPECIFICATION TreeSpec
CONSTANT Units = 6
INVARIANT FitFound
CHECK_DEADLOCK FALSE
