SPECIFICATION FairSpec
CONSTANTS
    NumStreams = 1
    kMaxProcessingRequest = 2
    MaxOutstanding = 2
    Wants <- Video
    Scenarios <- MovedThrice
    MaxRequests = 4
PROPERTIES
    ServedAfterReturn
CHECK_DEADLOCK FALSE
