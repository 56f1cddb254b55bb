SPECIFICATION FairSpec
CONSTANTS
    MAX_MAPS = 1
    MaxTries = 1
    Items <- MCItems
    Threads = {1}
    Gateways <- MCGateways
INVARIANTS
    TypeOK
    MappingsKnown
PROPERTIES
    UnmapsDrain
    NegotiationEnds
