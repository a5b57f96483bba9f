CONSTANTS
    Batches = {b1, b2}
    WalIds = {w1}
    MemIds = {m1}
    None = None
    MaxTry = 1
    MaxCrash = 0
    FailSteps = {"rename"}
    TornLock = FALSE
SPECIFICATION Spec
INVARIANT DiscardOnlyStored
CHECK_DEADLOCK FALSE
