SPECIFICATION FairSpec
CONSTANTS
    QueueDepth = 2
    RetryCount = 1
    RecordCounts = {1}
    Faults = {"spawn", "encode", "panic"}
    MaxRequests = 1
    MaxBatches = 4
INVARIANTS
    NoBatchLeftBehind
    AtMostOneLatePost
PROPERTIES
    ShutdownCompletes
    EveryBatchResolved
    ThreadCountsDown
