SPECIFICATION FairSpec
CONSTANTS
    q1 = q1
    q2 = q2
    q3 = q3
    i1 = i1
    i2 = i2
    Identities <- Generated
    Taken <- TakenPlates
    RingCapacity = 2
    MaxFaults = 2
    MaxQueue = 2
    None = None
    Foreign = Foreign
INVARIANTS
    TypeOK
    OnlineAuthenticated
    NothingBeforeAuth
PROPERTIES
    ComesOnline
    OldLoopsEnd
CHECK_DEADLOCK FALSE
