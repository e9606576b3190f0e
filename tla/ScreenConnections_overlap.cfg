SPECIFICATION FairSpec
CONSTANTS
    k1 = k1
    k2 = k2
    Conns = {k1, k2}
    NoConn = NoConn
    MaxConnections = 1
    LongLived = TRUE
    MaxBeats = 1
    MaxRequests = 1
    MaxFailures = 1
    MaxDeaths = 1
CHECK_DEADLOCK FALSE
INVARIANTS
    TypeOK
    RegisteredIsInGroup
    
PROPERTIES
    SilentGoesOffline
    NeverLockedOut
