\* A composite alert, two handlers, one request at a time: a fault, edits and
\* two changes of the child.
CONSTANTS
    s1 = s1
    s2 = s2
    u1 = u1
    NoRun = NoRun
    Runs = {s1, s2}
    Users = {u1}
    MaxLevel = 2
    MaxUser = 2
    MaxFault = 1
SPECIFICATION FairSpec
INVARIANT TypeOK
INVARIANT WakeupKept
PROPERTY NeverBackwards
PROPERTY CatchesUp
CHECK_DEADLOCK FALSE
