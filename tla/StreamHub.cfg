\* The hub stops for good once it has been drained.
CHECK_DEADLOCK FALSE
SPECIFICATION FairSpec
CONSTANTS
    Player = {p1}
    kMaxSnapshotHistory = 2
    kHeartbeat = 2
    RoomMayFail = TRUE
    Since <- AloneOrTwo
    MaxConns = 2
    MaxFrame <- FramesAlone
    MaxLag = 1
INVARIANTS
    TypeOK
    OneFarewell
PROPERTIES
    ResumesWhereItLeft
    DeadStreamIsDropped
    DrainEnds
