SPECIFICATION Spec
CONSTANTS
    Directories <- MCDirectories
    Size <- MCSize
    Md4Block = 3
    TigerBlock = 2
    Asks <- MCAsks
    MaxShares = 1
    MaxGone = 1
    None = None
INVARIANTS
    TypeOK
    HashesCoverFile
    NoAskForgotten
    HashedOnce
PROPERTIES
    HashingEnds
