SPECIFICATION ServiceSpec
CONSTANTS
    a1 = a1
    a2 = a2
    page = page
    c1 = c1
    c2 = c2
    watch = watch
    offline = offline
    mail = mail
    sms = sms
    t1 = t1
    t2 = t2
    q1 = q1
    q2 = q2
    q3 = q3
    Agents = {a1, a2}
    Callers = {c1, c2}
    OtherNotices = {offline}
    Budgets <- Instances
    Notices <- AllNotices
    Rules = {page, watch}
    Channels = {mail, sms}
    RulesOf <- ForBreaches
    ChannelsOf <- Both
    Nothing = nothing
    Window = 1
    Cooldown <- OneTick
    MaxRetries = 1
    MaxLogs = 4
    Policy <- Minutes
    Threshold = 50
    MaxTime = 2
    Threads = {t1, t2}
    Posts = {q1, q2, q3}
    Allowances <- Traffic
SYMMETRY Symmetric
CHECK_DEADLOCK FALSE
INVARIANTS
    
    CooldownEarned
    
    MirrorIsFaithful
    RepliesFollow
PROPERTIES
    
    InvalidMoveIsStale
    MirrorsKeepContract
