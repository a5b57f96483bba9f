CONSTANTS
    Paths = {p1, p2, p3}
    Workers = {k1, k2}
    None = None
    MaxFail = 2
SPECIFICATION QueueFairSpec
INVARIANT TypeOK
INVARIANT OneWorkerPerTable
PROPERTY TablesPersisted
CHECK_DEADLOCK FALSE
