SPECIFICATION FairSpec
CONSTANTS
    NumEvents = 5
    Workers = {w1, w2}
    QueueSize = 1
    SrcCap = 1
    InitSinks = 2
    MaxSinks = 3
    DropOnBackpressure = TRUE
    FilterActive = TRUE
    NetworkEvents = {1, 2, 3}
    Malformed = {1}
    Matching = {3}
INVARIANTS
    IInv
PROPERTIES
    EveryEventSettles
