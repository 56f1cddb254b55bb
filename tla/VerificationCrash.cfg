SPECIFICATION FairSpec
CONSTANTS
    Blocks <- SmallBlocks
    Size <- SmallSize
    Primary = "first"
    Secondaries <- MCSecondaries
    ChunkOf <- SmallChunkOf
    Schemes <- HashScheme
    Solo <- NoSolo
    Pausable = {"first"}
    MaxCorrupt = 1
    MaxCrash = 1
    MaxRecheck = 0
INVARIANTS
    CountersAgree
    VerifiedIsGood
    DownloadedFileIsGood
PROPERTIES
    ImplementsLedger
    EventuallyDownloaded
CHECK_DEADLOCK FALSE
