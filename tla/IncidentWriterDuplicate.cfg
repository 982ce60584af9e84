\* The shortest run with two open incidents.
SPECIFICATION MCSpec
CONSTANTS
    Parts = {"target"}
    Sole = t1
    Targets = {t1}
    Scheduler = sched
    Handlers = {}
    Sweeper = sweep
    FLAP_THRESHOLD = 2
    LOOKBACK = 3
    MaxProbes = 4
    MaxOps = 0
    MaxFaults = 0
INVARIANTS
    AtMostOneOpen
