CONSTANTS
    Batches = {b1, b2}
    WalIds = {w1, w2}
    MemIds = {m1, m2, m3}
    None = None
    MaxTry = 2
    MaxCrash = 1
    FailSteps = {"dump", "lock", "unlink", "discard", "unlock", "orphan", "replay"}
    TornLock = TRUE
SPECIFICATION Spec
SYMMETRY Symmetry
INVARIANT StoredOnce
INVARIANT DiscardOnlyStored
PROPERTY NothingForgotten
CHECK_DEADLOCK FALSE
