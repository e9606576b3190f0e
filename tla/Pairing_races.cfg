SPECIFICATION Spec
CONSTANTS
    s1 = s1
    s2 = s2
    d1 = d1
    d2 = d2
    p1 = p1
    p2 = p2
    b1 = b1
    b2 = b2
    Sessions = {s1, s2}
    Devices = {d1}
    Polls = {p1, p2}
    Binders = {b1, b2}
    NoSession = NoSession
    NoDevice = NoDevice
    DeviceLimit = 2
    Lifetime = 0
    MaxTime = 1
    MaxTokenOps = 1
    MaxLosses = 1
CHECK_DEADLOCK FALSE
SYMMETRY Symmetric
PROPERTIES
    KeepsContract
    NoLateClaim
