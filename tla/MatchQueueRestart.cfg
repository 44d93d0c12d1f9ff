\* The process may be down for good once its restart is used up.
CHECK_DEADLOCK FALSE
SPECIFICATION Spec
SYMMETRY Symmetry
CONSTANTS
    Player = {p1, p2}
    Thread = {r1}
    match_timeout_ms = 1
    result_ttl_ms = 1
    max_queue_size = 2
    max_pending_allocations = 1
    HasStore = TRUE
    kStart = 1
    MaxTime = 2
    MaxMatches = 1
    MaxRestarts = 1
    MaxSignals = 1
    MaxLate = 1
INVARIANT SnapshotIsCurrent
PROPERTY Matchmaking
