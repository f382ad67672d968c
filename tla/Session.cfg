CONSTANTS
    Task = {"p", "q", "c"}
    Caller = "c"
    Handle = {h1, h2, h3}
    Nowhere = Nowhere
    None = None
    MinClusterBits = 9
    MaxClusterBits = 21
    TableEntryBytes = 8
    MaxDepth = 3
    MaxName = 1024
    Chunk = 2
    LongestInput = 6
    Guest <- TheGuest
    Path <- AllPaths
    Scenarios <- AllScenarios
SPECIFICATION Spec
CHECK_DEADLOCK FALSE
INVARIANTS
    TypeOK
    ChainIsSound
    HandlesBalance
    FileIsWhole
    TransferIsExact
PROPERTIES
    CallsEnd
