SPECIFICATION Spec
CONSTANTS
    s1 = s1
    s2 = s2
    x1 = x1
    x2 = x2
    t1 = t1
    t2 = t2
    p1 = p1
    p2 = p2
    k1 = k1
    k2 = k2
    Schedules = {s1, s2}
    Screens = {x1, x2}
    Templates = {t1, t2}
    Runners = {p1}
    Senders = {}
    TemplateOf <- TwoTemplates
    Assigned <- SomeShared
    IsFile <- OneFile
    Choices <- OnceOnly
    Budgets <- OneRun
    NoTemplate = none
    NoSchedule = none
    Day = 4
    WeekDays = 2
    MostRuns = 4
    Horizon = 16
CHECK_DEADLOCK FALSE
PROPERTY DueIsShown
