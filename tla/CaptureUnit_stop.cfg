SPECIFICATION FairSpec
CONSTANTS
    NumBuffers = 2
    mMaxBuffersInDevice = 2
    Returners = {"r1"}
    main = "main"
    poll = "poll"
    InitialSkip = 1
    MaxStops = 1
    MaxPutFails = 0
    MaxBadFrames = 0
PROPERTIES
    CaptureGoesOn
    StopTerminates
CHECK_DEADLOCK FALSE
