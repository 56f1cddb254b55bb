SPECIFICATION Spec
CONSTANTS
    Clients = {"a", "b", "c"}
    Files = {"f", "g"}
    Friends = {"a"}
    Release = {}
    Small = {"g"}
    Dir <- MCDir
    Prio <- MCPrio
    MaxSlots = 1
    MinSlots = 0
    ReleaseSlots = 0
    CompleteChunks = TRUE
    MaxCredit = 1
    MaxChunks = 1
    MaxQueue = 2
    Queries <- MCQueries
    Asks <- MCAsks
    Unsharable = {"g"}
    None = None
INVARIANTS
    TypeOK
    SlotsConsistent
    NoLostUpload
PROPERTIES
    PendingGetsSlot
    UploadStarts
