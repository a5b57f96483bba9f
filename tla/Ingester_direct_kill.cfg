CONSTANTS
    Batches = {b1, b2}
    Ticks = {t1}
    MaxWal = 3
    MaxMem = 4
    MaxWriter = 1
    QueueCap = 1
    QueueMode = FALSE
    Fsync = TRUE
    Flushes = FALSE
    WalErrors = FALSE
    MaxTry = 0
    MaxCrash = 1
    FailSteps = {}
    TornLock = FALSE
SPECIFICATION Spec
SYMMETRY Symmetry
INVARIANT LockListsEverything
CHECK_DEADLOCK FALSE
