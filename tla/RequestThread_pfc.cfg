SPECIFICATION Spec
CONSTANTS
    PerFrameControl = TRUE
    StatsWithFakes = TRUE
    EnableAiq = TRUE
    MaxRequestsInflight = 2
    ExposureLag = 1
    QueuedExposures = {0}
    Streams = {s1}
    FakeStream = s1
    Kinds = {"video"}
    MaxRequests = 2
    MaxSof = 1
    MaxFakes = 1
    MaxStops = 0
    MayClose = FALSE
INVARIANTS
    NoLostWakeup
    InFlightBounded
    InFlightExact
PROPERTIES
    OneRequestPerSof
    NewSofServed
