SPECIFICATION Spec
CONSTANTS
    QueueDepth = 1
    RetryCount = 1
    RecordCounts = {1, 2}
    Faults = {"spawn", "encode", "panic"}
    MaxRequests = 2
    MaxBatches = 3
INVARIANTS
    TypeOK
    BudgetExact
    LaterBatchReportsDrop
    NoticesExact
PROPERTIES
    ImplementsHandOff
