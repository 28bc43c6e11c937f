SPECIFICATION Spec
CONSTANTS
    NumBuffers = 4
    mMaxBuffersInDevice = 2
    Returners = {"r1"}
    main = "main"
    poll = "poll"
    InitialSkip = 1
    MaxStops = 0
    MaxPutFails = 1
    MaxBadFrames = 1
INVARIANTS
    TypeOK
    DeviceBounded
    DriverAgrees
    NoBufferLost
    NoLostKick
CHECK_DEADLOCK FALSE
