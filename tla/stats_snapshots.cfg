SPECIFICATION FairSpec
CONSTANTS
    Workers = {w1}
    Readers = {r1, r2}
    NoReader = NoReader
    Pool <- SnapPool
    Info <- SnapInfo
    MaxDrops = 0
    MaxSnapshots = 2
PROPERTIES
    RatesNeverUnderflow
    SnapshotsMonotone
