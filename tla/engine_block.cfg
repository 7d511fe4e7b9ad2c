SPECIFICATION FairSpec
CONSTANTS
    NumEvents = 4
    Workers = {w1, w2}
    QueueSize = 2
    SrcCap = 1
    InitSinks = 2
    MaxSinks = 3
    DropOnBackpressure = FALSE
    FilterActive = TRUE
    NetworkEvents = {1, 2, 3}
    Malformed = {1}
    Matching = {3}
INVARIANTS
    AtMostOnce
    Conservation
    StopDrainsQueue
    UsedSinksAreClosed
    LossOnlyByCancel
PROPERTIES
    NoDeliveryAfterClose
    ImplementsDelivery
    EveryEventSettles
    ImplementsFairDelivery
    StopTerminates
    CancelEndsGoroutines
