SPECIFICATION FairSpec
CONSTANTS
    Clients = {c1}
    Windows = {1, 2}
    MaxEvents = 3
    MaxStreams = 2
    MaxRequests = 2
    MaxResponses = 2
    MaxCalls = 2
CHECK_DEADLOCK FALSE
INVARIANTS
    WindowIsRespected
    NoLostWakeUp
    LatestIsAhead
    NextIsNoGap
PROPERTY
    StreamsAreDelivered
