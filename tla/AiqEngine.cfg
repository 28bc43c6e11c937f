SPECIFICATION Spec
CONSTANTS
    Modes = {TRUE, FALSE}
    ExposureLag = 2
    GainLag = 1
    kMaxExposureAppliedDelay = 2
    kAiqStatsStorageSize = 3
    kStorageSize = 3
    Cadence = 1
    InitialSkip = 1
    PipeSwitchSkip = 2
    MaxSof = 3
    MaxRuns = 3
    MaxTroubles = 1
    MaxResets = 1
INVARIANTS
    EffectOnFrame
    GainsMatchExposure
    OnlyLostSofsLeak
    AppliedDelayBounded
    ReaderSafe
PROPERTIES
    EffectNeverRegresses
    StatisticsNeverRegress
CHECK_DEADLOCK FALSE
