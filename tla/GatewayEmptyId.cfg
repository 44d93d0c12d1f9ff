CONSTANTS
    Thread = {t1, t2}
    Player = {p1, p2}
    MaxIds = 1
    MaxRequests = 3
    MaxFaults = 0
    EmptyId = EmptyId
    OkText = OkText
    NoToken = NoToken
    NoPlayer = NoPlayer
    NoId = NoId
    NoThread = NoThread
    session_ttl_seconds = 1
    kIdempotencyTtlSeconds = 1
    AllowEmptyId = TRUE
SPECIFICATION Spec
INVARIANT EmptyIdIsOneShot
CHECK_DEADLOCK FALSE
