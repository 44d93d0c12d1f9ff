\* One of two players cancels while their room is allocated; a third waits.
CHECK_DEADLOCK FALSE
SPECIFICATION Spec
SYMMETRY Symmetry
CONSTANTS
    Player = {p1, p2, p3}
    Thread = {r1, r2}
    match_timeout_ms = 1
    result_ttl_ms = 1
    max_queue_size = 2
    max_pending_allocations = 1
    HasStore = FALSE
    kStart = 1
    MaxTime = 2
    MaxMatches = 2
    MaxRestarts = 0
    MaxSignals = 0
    MaxLate = 0
INVARIANT NobodyIsStranded
