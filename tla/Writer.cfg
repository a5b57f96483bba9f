CONSTANTS
    Batches = {b1, b2}
    Ticks = {t1, t2}
    MaxWal = 4
    MaxMem = 7
    MaxWriter = 3
    QueueCap = 2
    Modes = {TRUE, FALSE}
    FlushModes = {TRUE}
    Fsync = TRUE
    WalErrors = TRUE
SPECIFICATION FairSpec
INVARIANT TypeOK
INVARIANT Paired
INVARIANT AnsweredKept
PROPERTY EverythingEnds
CHECK_DEADLOCK FALSE
