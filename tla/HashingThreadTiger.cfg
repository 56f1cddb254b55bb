SPECIFICATION Spec
CONSTANTS
    Jobs <- MCJobs
    Len <- MCLen
    TigerJobs <- MCTigerJobs
    NoJob = NoJob
    MainTiger = TRUE
INVARIANT
    TigerBufferUnshared
CHECK_DEADLOCK FALSE
