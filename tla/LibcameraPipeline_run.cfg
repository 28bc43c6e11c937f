SPECIFICATION FairSpec
CONSTANTS
    NumStreams = 2
    kMaxProcessingRequest = 2
    MaxOutstanding = 2
    Wants <- VideoOrAll
    Scenarios <- MovedAndStopped
    MaxRequests = 3
INVARIANTS
    RecordsAccounted
    CompletedInFull
    InProgressExact
    BuffersInSource
    StopIsFinal
PROPERTIES
    SwitchedQuiet
    AllServed
CHECK_DEADLOCK FALSE
