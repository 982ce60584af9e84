\* One ladder, no edits and no faults: an acknowledgement that lands during a page.
SPECIFICATION MCSpec
CONSTANTS
    Parts = {"escalation"}
    Workers = {}
    NumDeliveries = 0
    MAX_ATTEMPTS = 1
    BATCH_LIMIT = 1
    Faults = FALSE
    Incidents = {i1}
    Policies <- OneLadder
    Kept = {}
    NoRow = NoRow
    NoPolicy = NoPolicy
    CanEdit = FALSE
    Shortcuts = FALSE
    MaxFaults = 0
PROPERTY AckNotLost
CHECK_DEADLOCK FALSE
