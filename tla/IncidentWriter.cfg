\* Two targets with a request or a fault, so that the sweep holds stale windows while
\* it works on another one; and one target with a request, an edit and a fault.
SPECIFICATION MCSpec
CONSTANTS
    Parts = {"targets", "target"}
    Targets = {t1, t2}
    Sole = t1
    Scheduler = sched
    Handlers = {}
    Sweeper = sweep
    FLAP_THRESHOLD = 2
    LOOKBACK = 3
    MaxProbes = 4
    MaxOps = 1
    MaxFaults = 1
INVARIANTS
    Justified
    BoundedDuplicates
    BoundedNotices
PROPERTIES
    MaintenanceSilence
    OutageOpens
    RecoveryCloses
