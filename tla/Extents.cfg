SPECIFICATION Spec
CONSTANTS
    Sector = 4
    OffsetLimit = 64
    BodyLimit = 256
    EntryBytes = 4
    MaxWrites = 2
    None = None
    Images <- AllImages
CHECK_DEADLOCK FALSE
INVARIANTS
    TypeOK
    ExtentsTile
    ExtentsWereTrue
    StaleOnlyIfBehind
    WalkIsExact
    PayloadIsCovered
PROPERTIES
    WalkEnds
