SPECIFICATION Spec
CONSTANTS
    QueueDepth = 1
    RetryCount = 0
    RecordCounts = {1}
    Faults = {"spawn"}
    MaxRequests = 1
    MaxBatches = 1
INVARIANTS
    SenderNeverMissing
