SPECIFICATION FairSpec
CONSTANTS
    Jobs <- MCJobs
    Len <- MCLen
    TigerJobs <- MCTigerJobs
    NoJob = NoJob
    MainTiger = TRUE
INVARIANTS
    TypeOK
    NoRace
PROPERTIES
    ImplementsService
    JobsHandled
CHECK_DEADLOCK FALSE
