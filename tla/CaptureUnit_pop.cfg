SPECIFICATION Spec
CONSTANTS
    NumBuffers = 3
    mMaxBuffersInDevice = 2
    Returners = {"r1"}
    main = "main"
    poll = "poll"
    InitialSkip = 0
    MaxStops = 1
    MaxPutFails = 0
    MaxBadFrames = 0
INVARIANTS
    PoppedIsPut
CHECK_DEADLOCK FALSE
