SPECIFICATION Spec
CONSTANTS
    FileSize = 4
    InitPos <- MCPos
    Uploaders <- TwoUploaders
    ChunkSize = 4
    RangeSize <- MCRangeSize
    Offers <- MCOffers
    MergeSize = 2
    ObjIds = {1, 2, 3, 4, 5, 6, 7, 8}
    RangeIds = {1, 2, 3, 4, 5, 6, 7, 8}
    MaxFail = 1
INVARIANTS
    TypeOK
    BlockInvariant
    HolesAreMissing
    ReferencesAgree
    HeldRangesAreLive
