SPECIFICATION Spec
CONSTANTS
    L1Len = 1
    L2Len = 2
    Words = 2
    Clusters = 6
    Writers = {w1}
    Readers = {r1}
    Nobody = Nobody
    Images <- SnapshotImages
    FirstFit = TRUE
    FirstValue = 10
    MaxWrites = 2
    MaxReads = 1
    MaxFaults = 0
    MaxCrashes = 0
CHECK_DEADLOCK FALSE
INVARIANTS
    SnapshotIntact
