SPECIFICATION LiveSpec
CONSTANTS
    Commands = {c1}
    NoCommand = none
    Workers = {w1}
    Pollers = {p1}
    LegacyPollers = {}
    Limit = 1
    Expiries = {1, 2}
    HasSocket = FALSE
    MaxCommandTime = 1
    MaxRequests = 2
    MaxCommandLosses = 0
    Requests = {"execute", "retry"}
    MaxLegacyPulls = 0
    Sessions = {s1, s2}
    Devices = {d1}
    Polls = {q1}
    Binders = {b1}
    NoSession = NoSession
    NoDevice = NoDevice
    DeviceLimit = 1
    Lifetime = 1
    MaxTokenOps = 0
    MaxTime = 3
    MaxLosses = 2
    Elements = {1, 2}
    Pages = {e1}
    Puts = {h1}
    MaxEdits = 2
    MaxSaves = 2
CHECK_DEADLOCK FALSE
INVARIANTS
    StoredIdentityWorks
    
    WithinPlan
PROPERTIES
    PendingIsTaken
    ExecutingSettles
    BoundIsActivated
    PlayerCatchesUp
