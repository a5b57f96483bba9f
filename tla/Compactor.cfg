CONSTANTS
    Nodes = {n1}
    None = None
    Parts = {p1}
    NumIn = 3
    FullSize = 3
    Threads = 2
    Early <- MCEarly
    MaxRuns = 3
    MaxStall = 1
    MaxFault = 1
SPECIFICATION FairSpec
INVARIANT TypeOK
INVARIANT RowsListed
INVARIANT ListedOnce
PROPERTY HourSealed
PROPERTY GarbageDeleted
CHECK_DEADLOCK FALSE
