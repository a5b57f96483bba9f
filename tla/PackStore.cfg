CONSTANTS
    Packs = {p1}
    Streams = {s1,s2}
    Readers = {r1,r2}
    MaxFail = 2
    MaxCrash = 1
SPECIFICATION FairSpec
INVARIANT TypeOK
INVARIANT PacksStayForReaders
INVARIANT DeletedIsMoved
INVARIANT UploadedOnce
PROPERTY PacksMoved
CHECK_DEADLOCK FALSE
