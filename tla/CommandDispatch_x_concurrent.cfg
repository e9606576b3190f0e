SPECIFICATION Spec
CONSTANTS
    c1 = c1
    c2 = c2
    Commands = {c1}
    NoCommand = none
    Workers = {w1, w2}
    Pollers = {}
    LegacyPollers = {}
    Kind <- OnePush
    Rank <- InOrder
    Limit = 1
    Expiries = {2}
    HasSocket = TRUE
    MaxTime = 1
    MaxRequests = 2
    MaxLosses = 0
    Requests = {"execute", "retry", "edit"}
    MaxLegacyPulls = 0
CHECK_DEADLOCK FALSE
INVARIANT NoConcurrentExecution
