CONSTANTS
    q1 = q1
    q2 = q2
    q3 = q3
    t1 = t1
    t2 = t2
    t3 = t3
    a1 = a1
    a2 = a2
    c1 = c1
    v1 = v1
    v2 = v2
    l1 = l1
    ip = ip
    admin = admin
    other = other
    p1 = p1
    p2 = p2
    e4 = e4
    panel = panel
    cli = cli
    Query = {q1, q2, q3}
    Token = {t1, t2, t3}
    Attempt = {a1, a2}
    Change = {c1}
    Visit = {v1, v2}
    Link = {l1}
    Address = {ip}
    Name = {admin, other}
    Password = {p1, p2}
    Threshold = 2
    MaxHashes = 4
    Cli = TRUE
    MaxCalls = 3
    MaxRestarts = 1
    Call = {q1, q2, q3}
    Id = {1}
    Burst = 1
    Refill = 1
    Idle = 2
    Stall = 1
    MaxClock = 3
    Entry = {q1, q2, q3, e4}
    LogThreshold = 2
    LogCap = 3
    Chunk = 1
    Panel = panel
    Command = {cli}
    OldToken = {a1, a2}
    Client = {v1, v2}
    MaxStarts = 4
    Form = {a1, a2}
    Pem = {t1}
    Slug = {t2}
    Bot = {p1, p2}
    MaxWriters = 2
SPECIFICATION Spec
INVARIANTS
    TypeOK
    CacheIsTheRow
    RotatedIsRefused
    NoStaleSession
    OneLoginPerLink
    ThrottleHolds
    BudgetHolds
    RevokedIsRefused
    UpgradeIsWhole
    LastWordHolds
    WholeSettingsAreSound
PROPERTY AuditedOnce
SYMMETRY Symmetry
CHECK_DEADLOCK FALSE
