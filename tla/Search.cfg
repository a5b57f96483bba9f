CONSTANTS
    Files = {f1}
    Workers = {k1, k2}
    Queries = {q1}
    None = None
    MaxFail = 1
    MaxCrash = 1
SPECIFICATION FairSpec
INVARIANT TypeOK
INVARIANT RemovedIsListed
INVARIANT UploadedOnce
INVARIANT Complete
INVARIANT AtMostOnce
PROPERTY HeldStays
PROPERTY FilesMoved
CHECK_DEADLOCK FALSE
