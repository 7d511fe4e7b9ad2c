SPECIFICATION Spec
CONSTANTS
    Workers = {w1}
    Readers = {r1}
    NoReader = NoReader
    Pool <- SnapPool
    Info <- SnapInfo
    MaxDrops = 0
    MaxSnapshots = 1
INVARIANTS
    SnapshotIsInstantaneous
