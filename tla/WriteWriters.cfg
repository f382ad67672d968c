SPECIFICATION Spec
CONSTANTS
    L1Len = 1
    L2Len = 2
    Words = 2
    Clusters = 6
    Writers = {w1, w2}
    Readers = {}
    Nobody = Nobody
    Images <- WriterImages
    FirstFit = TRUE
    FirstValue = 10
    MaxWrites = 2
    MaxReads = 0
    MaxFaults = 0
    MaxCrashes = 0
CHECK_DEADLOCK FALSE
INVARIANTS
    NothingLeaks
    L1MatchesDevice
    WriteIsVisible
    SnapshotIntact
