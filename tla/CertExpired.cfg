SPECIFICATION MCSpec
CONSTANTS
    Parts = {"probes"}
    Targets = {t1, t2}
    Steady = {t2}
    RefreshEvery = 2
    Deadline = 1
    Interval = 0
    MaxBehind = 1
    MaxEdits = 0
    MaxFailures = 0
    NoTarget = NoTarget
    Channels = {c1}
    Kinds = {"email"}
    Rules = {}
    Tokens = {}
    Visitors = {}
    Dispatches = {}
    MaxChanges = 0
    MaxSetbacks = 0
    Nothing = Nothing
    Ids = {}
    Values = {}
    Callers = {}
    TTL = 0
    MaxCall = 0
    Absent = Absent
    Hour = 2
    Day = 6
    Zones = {}
    Horizon = {0}
    Plans = {}
    Swaps = {}
    MaxSchedules = 0
    Requests <- AllRequests
INVARIANT ExpiredIsDown
CHECK_DEADLOCK FALSE
