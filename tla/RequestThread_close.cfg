SPECIFICATION FairSpec
CONSTANTS
    PerFrameControl = FALSE
    StatsWithFakes = FALSE
    EnableAiq = TRUE
    MaxRequestsInflight = 1
    ExposureLag = 1
    QueuedExposures = {0}
    Streams = {s1}
    FakeStream = s1
    Kinds = {"video"}
    MaxRequests = 2
    MaxSof = 1
    MaxFakes = 0
    MaxStops = 0
    MayClose = TRUE
PROPERTIES
    RequestsServed
    StopTerminates
CHECK_DEADLOCK FALSE
