SPECIFICATION MCSpec
CONSTANTS
    Parts = {"oncall"}
    Targets = {t1, t2}
    Steady = {t2}
    RefreshEvery = 2
    Deadline = 1
    Interval = 0
    MaxBehind = 1
    MaxEdits = 0
    MaxFailures = 0
    NoTarget = NoTarget
    Channels = {c1}
    Kinds = {"email"}
    Rules = {}
    Tokens = {}
    Visitors = {}
    Dispatches = {}
    MaxChanges = 0
    MaxSetbacks = 0
    Nothing = Nothing
    Ids = {}
    Values = {}
    Callers = {}
    TTL = 0
    MaxCall = 0
    Absent = Absent
    Hour = 2
    Day = 6
    Zones <- ClockChanges
    Horizon <- Instants
    Plans <- SomePlans
    Swaps = {}
    MaxSchedules = 1
    Requests = {}
INVARIANT SkippedHandoffAtJump
CHECK_DEADLOCK FALSE
