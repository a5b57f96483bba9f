CONSTANTS
    Batches = {b1}
    WalIds = {w1, w2}
    MemIds = {m1, m2, m3, m4}
    None = None
    MaxTry = 1
    MaxCrash = 2
    FailSteps = {"dump", "lock", "unlink", "orphan", "replay"}
    TornLock = FALSE
SPECIFICATION FairSpec
INVARIANT TypeOK
INVARIANT NothingDoubled
INVARIANT LockListsEverything
PROPERTY EventuallyStored
CHECK_DEADLOCK FALSE
