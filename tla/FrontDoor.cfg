SPECIFICATION MCSpec
CONSTANTS
    Parts = {"limiter", "signin", "sessions", "bulk", "serve", "visits", "tables", "console"}
    IPs = {a}
    Requests = {r1, r2}
    TokenCost = 3
    Capacity = 6
    Second = 2
    IdleThreshold = 7
    MaxLag = 1
    MaxTime = 9
    NoIP = NoIP
    Emails = {e1, e2}
    Handlers = {h1, h2}
    Sessions = {s1, s2}
    Links = {l1}
    AbsoluteTimeout = 2
    IdleTimeout = 1
    LinkExpiry = 1
    Debounce = 1
    MaxNow = 3
    MaxFaults = 1
    MaxDrops = 1
    Nobody = Nobody
    NoLink = NoLink
    Calls = {c1, c2}
    Keys = {"k0", "k1", "k2"}
    Headerless = "k0"
    Batch <- TwoAndOne
    Oversize = {"k2"}
    MaxItemFaults = 1
    MaxAborts = 1
    MaxRestarts = 1
    MaxExpiries = 1
    Pages = {p1}
    Targets = {t1, t2}
    Watched = t1
    Operator = o1
    Regular = g1
    Windows = {w1}
    Incidents = {1, 2}
    Ancient = {}
    RecentCap = 1
    FeedCap = 1
    Statuses = {"up", "error", "down"}
    Severities = {"minor", "major"}
    Readers = {g1, g2}
    Operators = {o1, o2}
    MaxWrites = 2
    MaxStorageFaults = 1
    MaxLeavers = 1
    MaxHour = 1
    Nothing = Nothing
INVARIANTS
    FrontDoorTypeOK
    NeverOverspent RetryAfterIsEnough
    OneBootstrapOwner LinkOpensOneSession IdleClockKeepsUp
    KeyedBodyRunsOnce
    SettledWritesShow SnapshotCoherent AnswersNeverGoBack SurfacesAgree
PROPERTIES
    GoneStaysGone EveryCallAnswered EveryReadAnswered
CHECK_DEADLOCK FALSE
