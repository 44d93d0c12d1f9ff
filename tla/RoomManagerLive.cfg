\* Results are retried at once, because the clock of the model stops.
CHECK_DEADLOCK FALSE
SPECIFICATION FairSpec
CONSTANTS
    Match = {m1}
    kInitialHp = 1
    kAttackDamage = 1
    kMaxFrames = 1
    kMaxCatchUpFrames = 1
    kMaxSnapshotHistory = 1
    kFrameIntervalMs = 1
    kWaitingTimeoutMs = 1
    kReconnectGraceMs = 1
    kResultRetryIntervalMs = 0
    kFinishedRetentionMs = 1
    kSnapshotIntervalMs = 2
    Leavers = {1}
    kStart = 1
    MaxTime = 2
    MaxRestarts = 0
PROPERTIES
    VerdictIsStored
    DrainEnds
