SPECIFICATION DeliverySpec
CONSTANTS
    f = f
    g = g
    Functions = {f}
    NameBytes <- MCNameBytes
    MaxDepth = 1
    BufferCap = 100000
    FlushRecords = 1
    FlushBytes = 150
    QueueDepth = 1
    Throws = {FALSE}
    SpawnOutcomes = {"open", "no_sender"}
    MayPanic = TRUE
    MaxRequests = 1
    MaxCalls = 2
    AuthToken = token
    CaptureDirs = {"usable", "unusable"}
    AnswerStatuses = {200, 500}
    Truncated = truncated
    StubRequests = {}
    RetryCount = 1
    KindOf <- MCKindOf
    Failures = {"encode", "timeout"}
    Probes <- MCProbes
    MaxProbes = 1
INVARIANTS
    AtLeastOnce
    StoredInOrder
    NoSilentGap
    FnIdsResolve
    ServerReconciles
    StoreConsistent
CHECK_DEADLOCK FALSE
