CONSTANTS
    Nodes = {n1, n2}
    None = None
    Gone = Gone
    Created = 1
    MaxHour = 3
    MaxMove = 2
    MaxError = 1
    MaxCrash = 1
SPECIFICATION FairSpec
INVARIANT TypeOK
INVARIANT NoHourSkipped
PROPERTY EveryHourGenerated
CHECK_DEADLOCK FALSE
