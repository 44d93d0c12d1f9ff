\* Two frames per catch-up, an overkill attack (3 - 2 - 2), a ring of two.
SPECIFICATION Spec
CONSTANTS
    kInitialHp = 3
    kAttackDamage = 2
    kMaxFrames = 3
    kMaxCatchUpFrames = 2
    kMaxSnapshotHistory = 2
    kFrameIntervalMs = 2
    kWaitingTimeoutMs = 3
    kReconnectGraceMs = 2
    kResultRetryIntervalMs = 1
    kFinishedRetentionMs = 2
    kStart = 1
    MaxTime = 7
    MaxBacks = 1
INVARIANTS
    TypeOK
    VerdictIsFair
    OneHitPerFrame
    NeverAheadOfClock
    BackfillIsComplete
PROPERTIES
    PauseFreezesGame
    OverIsFinal
