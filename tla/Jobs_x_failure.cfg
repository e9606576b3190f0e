SPECIFICATION JobsSpec
CONSTANTS
    s1 = s1
    s2 = s2
    x1 = x1
    x2 = x2
    t1 = t1
    t2 = t2
    p1 = p1
    p2 = p2
    k1 = k1
    k2 = k2
    b1 = b1
    b2 = b2
    c1 = c1
    c2 = c2
    e1 = e1
    e2 = e2
    h1 = h1
    h2 = h2
    Schedules = {s1, s2}
    Screens = {x1, x2}
    Templates = {t1, t2}
    Runners = {p1, p2}
    Senders = {k1, k2}
    TemplateOf <- TwoTemplates
    Assigned <- SomeShared
    IsFile <- OneFile
    Choices <- AllKinds
    Budgets <- JobBudgets
    NoTemplate = none
    NoSchedule = none
    Day = 4
    WeekDays = 2
    MostRuns = 4
    Horizon = 16
    Backups = {b1, b2}
    Cleaners = {c1, c2}
    Orders <- EveryOrder
    Retention = 1
    Engines = {"sqlite", "postgresql"}
    Troubles <- SomeTroubles
    MaxClock = 2
    Elements = {1, 2}
    Pages = {e1, e2}
    Puts = {h1, h2}
    MaxEdits = 2
    MaxSaves = 2
CHECK_DEADLOCK FALSE
PROPERTY
    FailureHasCause
