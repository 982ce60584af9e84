\* Two workers with a backlog, two workers with storage errors and crashes, and the
\* escalation of an incident while operators use every handler, edit some of the
\* policies, and a storage call fails or the process stops.
SPECIFICATION MCSpec
CONSTANTS
    Parts = {"backlog", "faults", "escalation"}
    Workers = {w1, w2}
    NumDeliveries = 3
    MAX_ATTEMPTS = 2
    BATCH_LIMIT = 2
    Faults = TRUE
    Incidents = {i1}
    Policies <- AllPolicies
    Kept <- SortedPolicies
    NoRow = NoRow
    NoPolicy = NoPolicy
    CanEdit = TRUE
    Shortcuts = TRUE
    MaxFaults = 1
INVARIANTS
    AtMostOnceAccepted ExclusiveClaim DeadLetterOnlyWhenSpent
    SetbacksNeedFaults AtMostOnePageAfterEnd NoRungSkipped
PROPERTIES
    TerminalIsFinal EventuallySettled ActsAsQueue
    SettledAckHolds LadderEnds OpenIsPaged
CHECK_DEADLOCK FALSE
