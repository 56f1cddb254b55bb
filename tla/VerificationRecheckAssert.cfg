SPECIFICATION SpecRecheck
CONSTANTS
    Blocks <- SmallBlocks
    Size <- SmallSize
    Primary = "first"
    Secondaries <- MCSecondaries
    ChunkOf <- SmallChunkOf
    Schemes <- HashScheme
    Solo <- NoSolo
    Pausable = {"first", "second"}
    MaxCorrupt = 1
    MaxCrash = 0
    MaxRecheck = 6
INVARIANTS
    NoAssertFails
CHECK_DEADLOCK FALSE
