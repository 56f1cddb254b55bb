SPECIFICATION SpecMerge
CONSTANTS
    FileSize = 6
    InitPos <- OnePos
    Uploaders <- OneUploader
    ChunkSize = 6
    RangeSize <- OneRangeSize
    Offers <- OneOffer
    MergeSize = 3
    ObjIds = {1, 2, 3, 4, 5, 6, 7, 8, 9, 10, 11, 12}
    RangeIds = {1, 2, 3, 4, 5, 6, 7, 8, 9, 10, 11, 12}
    MaxFail = 0
INVARIANT
    RemainingAgrees
CHECK_DEADLOCK FALSE
