SPECIFICATION Spec
CONSTANTS
    Blocks <- MCBlocks
    Size <- MCSize
    Primary = "first"
    Secondaries <- MCSecondaries
    ChunkOf <- MCChunkOf
    Schemes <- AnyScheme
    Solo <- NoSolo
    Pausable = {"first", "second"}
    MaxCorrupt = 1
    MaxCrash = 0
    MaxRecheck = 0
INVARIANTS
    TypeOK
    BitmapFollowsBlocks
    PrimaryAgrees
    SecondaryBehindPrimary
    NoAssertFails
PROPERTIES
    OnlyBadDataIsLost
CHECK_DEADLOCK FALSE
