SPECIFICATION PartsSpec
CONSTANTS
    c1 = c1
    c2 = c2
    Commands = {c1, c2}
    NoCommand = none
    Workers = {w1, w2}
    Pollers = {p1, p2, legacy}
    LegacyPollers = {legacy}
    Kind <- OnePush
    Rank <- InOrder
    Limit = 2
    Expiries = {1, 2}
    HasSocket = TRUE
    MaxTime = 1
    MaxRequests = 2
    MaxLosses = 1
    Requests = {"execute", "retry", "edit"}
    MaxLegacyPulls = 1
CHECK_DEADLOCK FALSE
SYMMETRY Symmetric
INVARIANTS
    DoneHasEvidence
    TakenOncePerQueueing
PROPERTIES
    
    KeepsContract
