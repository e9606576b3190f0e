SPECIFICATION Spec
CONSTANTS
    w1 = w1
    w2 = w2
    other = other
    Workers = {w1, w2}
    Callers = {w1, w2, other}
    Duties <- ServeAndManage
    Installs = {i1, i2}
    NoInstall = none
    MaxActivations = 2
    MaxOrders = 1
    CacheTTL = 1
    Grace = 1
    Warn = 1
    ReadOnly = 2
SYMMETRY Symmetric
CHECK_DEADLOCK FALSE
INVARIANTS
    OneInstallation
    AllowedOnRecentYes
    
