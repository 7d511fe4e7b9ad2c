SPECIFICATION RingSpec
CONSTANTS
    NumEvents = 5
    Workers = {w1, w2}
    QueueSize = 2
    SrcCap = 1
    InitSinks = 3
    MaxSinks = 3
    DropOnBackpressure = TRUE
    FilterActive = TRUE
    NetworkEvents = {1, 2}
    Malformed = {1}
    Matching = {}
    Event = {1, 2, 3, 4, 5}
    NoEvent = 0
    Capacity = 3
INVARIANTS
    RBInv
    LastIsSuffix
    ShowsDeliveredEvents
    HoldsAllWhileNotFull
    OrderedUpToWorkers
PROPERTIES
    ImplementsRecentLog
