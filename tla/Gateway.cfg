CONSTANTS
    Thread = {t1, t2}
    Player = {p1, p2}
    MaxIds = 1
    MaxRequests = 3
    MaxFaults = 2
    EmptyId = EmptyId
    OkText = OkText
    NoToken = NoToken
    NoPlayer = NoPlayer
    NoId = NoId
    NoThread = NoThread
    session_ttl_seconds = 1
    kIdempotencyTtlSeconds = 1
    AllowEmptyId = FALSE
SPECIFICATION Spec
SYMMETRY Symmetry
INVARIANTS
    TypeOK
    OneSessionPerRequest
    ActsForItsPlayer
    GivenSessionsExpire
    LoggedOutStaysOut
    UnauthenticatedMeansGone
    NoStraySession
    ConnectionIsHandedOver
CHECK_DEADLOCK FALSE
