SPECIFICATION FairSpec
CONSTANTS
    Databases = {d1, d2}
    Default = d1
    None = none
    Workers = {w1, w2}
    MaxFaults = 1
CHECK_DEADLOCK FALSE
INVARIANTS
    EnvIsWhole
    InstalledIsUsable
    InstalledIsProvisioned
PROPERTIES
    InstallationCompletes
