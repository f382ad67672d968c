SPECIFICATION Spec
CONSTANTS
    L1Len = 1
    L2Len = 2
    Words = 2
    Clusters = 6
    Writers = {w1}
    Readers = {}
    Nobody = Nobody
    Images <- CrashImages
    FirstFit = TRUE
    FirstValue = 10
    MaxWrites = 2
    MaxReads = 0
    MaxFaults = 0
    MaxCrashes = 1
CHECK_DEADLOCK FALSE
INVARIANTS
    TypeOK
    CountsCoverReferences
    CopiedIsHonest
PROPERTIES
    ImplementsDisk
