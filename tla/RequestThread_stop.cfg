SPECIFICATION Spec
CONSTANTS
    PerFrameControl = FALSE
    StatsWithFakes = FALSE
    EnableAiq = TRUE
    MaxRequestsInflight = 2
    ExposureLag = 1
    QueuedExposures = {0}
    Streams = {s1}
    FakeStream = s1
    Kinds = {"video", "reprocess"}
    MaxRequests = 2
    MaxSof = 1
    MaxFakes = 0
    MaxStops = 1
    MayClose = FALSE
INVARIANTS
    TypeOK
    InOrderNoLoss
