\* The process may be down for good once its restarts are used up.
CHECK_DEADLOCK FALSE
SPECIFICATION Spec
CONSTANTS
    Match = {m1}
    kInitialHp = 1
    kAttackDamage = 1
    kMaxFrames = 1
    kMaxCatchUpFrames = 1
    kMaxSnapshotHistory = 1
    kFrameIntervalMs = 1
    kWaitingTimeoutMs = 1
    kReconnectGraceMs = 0
    kResultRetryIntervalMs = 1
    kFinishedRetentionMs = 1
    kSnapshotIntervalMs = 1
    Leavers = {1}
    kStart = 1
    MaxTime = 2
    MaxRestarts = 1
INVARIANTS
    TypeOK
    FinishedIsDurable
    StoredIsReached
PROPERTIES
    KeepsLedger
    RowsMoveForward
