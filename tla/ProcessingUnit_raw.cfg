SPECIFICATION Spec
CONSTANTS
    NumPorts = 2
    Pipes = {"video", "still"}
    StillPorts = {2}
    NumRaw = 2
    RawHold = 1
    MAX_FRAME_NUM = 2
    TnrFrames = 0
    Wants <- VideoOrBoth
    Scenarios <- TwoPipesLossy
    MaxSeq = 2
    MaxRequests = 2
INVARIANTS
    RawSafe
CHECK_DEADLOCK FALSE
