\* A FINISHING row whose reason is "disconnect" meets Restore.
CHECK_DEADLOCK FALSE
SPECIFICATION Spec
CONSTANTS
    Match = {m1}
    kInitialHp = 1
    kAttackDamage = 1
    kMaxFrames = 2
    kMaxCatchUpFrames = 1
    kMaxSnapshotHistory = 1
    kFrameIntervalMs = 1
    kWaitingTimeoutMs = 1
    kReconnectGraceMs = 2
    kResultRetryIntervalMs = 1
    kFinishedRetentionMs = 1
    kSnapshotIntervalMs = 2
    Leavers = {1}
    kStart = 1
    MaxTime = 3
    MaxRestarts = 1
PROPERTY StoredVerdictSurvives
