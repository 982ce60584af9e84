\* One delivery that keeps failing, one worker, no faults.
SPECIFICATION MCSpec
CONSTANTS
    Parts = {"backlog"}
    Workers = {w1}
    NumDeliveries = 1
    MAX_ATTEMPTS = 6
    BATCH_LIMIT = 1
    Faults = FALSE
    Incidents = {i1}
    Policies <- OneLadder
    Kept = {}
    NoRow = NoRow
    NoPolicy = NoPolicy
    CanEdit = FALSE
    Shortcuts = FALSE
    MaxFaults = 0
INVARIANT AttemptsWithinMaximum
CHECK_DEADLOCK FALSE
