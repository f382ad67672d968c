SPECIFICATION FairSpec
CONSTANTS
    r1 = r1
    w1 = w1
    w2 = w2
    Readers <- OneReader
    Writers <- TwoWriters
    Depth = 2
    MaxChunks = 1
INVARIANTS
    NoWaitCycle
PROPERTIES
    CallsReturn
