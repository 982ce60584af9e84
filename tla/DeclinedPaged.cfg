SPECIFICATION MCSpec
CONSTANTS
    Parts = {"channels"}
    Targets = {t1, t2}
    Steady = {t2}
    RefreshEvery = 2
    Deadline = 1
    Interval = 0
    MaxBehind = 1
    MaxEdits = 0
    MaxFailures = 0
    NoTarget = NoTarget
    Channels = {c1}
    Kinds = {"email"}
    Rules = {r1}
    Tokens = {k1, k2}
    Visitors = {v1}
    Dispatches = {d1}
    MaxChanges = 2
    MaxSetbacks = 0
    Nothing = Nothing
    Ids = {}
    Values = {}
    Callers = {}
    TTL = 0
    MaxCall = 0
    Absent = Absent
    Hour = 2
    Day = 6
    Zones = {}
    Horizon = {0}
    Plans = {}
    Swaps = {}
    MaxSchedules = 0
    Requests = {}
INVARIANT DeclinedIsSilent
CHECK_DEADLOCK FALSE
