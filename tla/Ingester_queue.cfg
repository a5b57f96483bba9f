CONSTANTS
    Batches = {b1, b2}
    Ticks = {t1}
    MaxWal = 3
    MaxMem = 5
    MaxWriter = 2
    QueueCap = 2
    QueueMode = TRUE
    Fsync = TRUE
    Flushes = TRUE
    WalErrors = FALSE
    MaxTry = 0
    MaxCrash = 1
    FailSteps = {}
    TornLock = FALSE
SPECIFICATION Spec
SYMMETRY Symmetry
INVARIANT SyncedDurable
PROPERTY ImplementsPersist
CHECK_DEADLOCK FALSE
