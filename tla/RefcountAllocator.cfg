SPECIFICATION Spec
CONSTANTS
    Slots = 3
    PerBlock = 3
    Images <- MCImages
    Capacity <- MCCapacity
    MaxFaults = 1
    MaxCrashes = 1
INVARIANTS
    TypeOK
    HeldIsCounted
    MetadataIsCounted
    ResidentIsSafe
    Inductive
    RoomFirst
    ScanMissesNothing
    FullMeansFull
PROPERTIES
    ImplementsPool
