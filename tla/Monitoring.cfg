SPECIFICATION MCSpec
CONSTANTS
    Parts = {"scheduler", "faults", "channels", "kinds", "cache", "oncall", "probes"}
    Targets = {t1, t2}
    Steady = {t2}
    RefreshEvery = 2
    Deadline = 1
    Interval = 0
    MaxBehind = 1
    MaxEdits = 1
    MaxFailures = 1
    NoTarget = NoTarget
    Channels = {c1, c2}
    Kinds = {"email", "telegram"}
    Rules = {r1}
    Tokens = {k1}
    Visitors = {v1}
    Dispatches = {d1}
    MaxChanges = 1
    MaxSetbacks = 1
    Nothing = Nothing
    Ids = {i1}
    Values = {a, b}
    Callers = {w1, w2}
    TTL = 1
    MaxCall = 1
    Absent = Absent
    Hour = 2
    Day = 6
    Zones <- ClockChanges
    Horizon <- Instants
    Plans <- SomePlans
    Swaps <- SomeSwaps
    MaxSchedules = 2
    Requests <- AllRequests
INVARIANTS
    MutedChannelsSilent SecretsStayInside
    HandoffsOnTime VerdictsMatch
PROPERTIES
    SchedulerFollowsTable SilenceIsNoticed
    CacheServesRecentRows
CHECK_DEADLOCK FALSE
