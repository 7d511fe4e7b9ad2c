SPECIFICATION FairSpec
CONSTANTS
    Workers = {w1, w2, w3}
    Readers = {r1}
    NoReader = NoReader
    Pool <- MCPool
    Info <- MCInfo
    MaxDrops = 1
    MaxSnapshots = 0
INVARIANTS
    ExactAtRest
    ProtocolPartition
PROPERTIES
    ExtremesMonotone
    OnEventReturns
