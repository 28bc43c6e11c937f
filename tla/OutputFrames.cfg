SPECIFICATION FairSpec
CONSTANTS
    NumStreams = 2
    c1 = c1
    c2 = c2
    c3 = c3
    Consumers = {c1, c2, c3}
    StreamOf <- OneAndTwo
    MaxFrames = 3
    MaxStops = 1
INVARIANTS
    ConsumerAwake
    ReleasedOnExit
PROPERTIES
    ConsumersReleased
CHECK_DEADLOCK FALSE
