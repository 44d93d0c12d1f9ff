\* A player's old stream is found out to be dead after he has reconnected.
CHECK_DEADLOCK FALSE
SPECIFICATION Spec
CONSTANTS
    Player = {p1}
    kMaxSnapshotHistory = 2
    kHeartbeat = 2
    RoomMayFail = FALSE
    Since <- FirstTimers
    MaxConns = 2
    MaxFrame <- NoFrame
    MaxLag = 1
INVARIANT PresenceIsTrue
