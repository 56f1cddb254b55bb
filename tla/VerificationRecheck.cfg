SPECIFICATION SpecRecheck
CONSTANTS
    Blocks <- SmallBlocks
    Size <- SmallSize
    Primary = "first"
    Secondaries <- MCSecondaries
    ChunkOf <- SmallChunkOf
    Schemes <- HashScheme
    Solo <- NoSolo
    Pausable = {"first"}
    MaxCorrupt = 2
    MaxCrash = 0
    MaxRecheck = 6
PROPERTIES
    VerifiedByHash
CHECK_DEADLOCK FALSE
