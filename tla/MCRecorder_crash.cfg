SPECIFICATION Spec
CONSTANTS
    f = f
    g = g
    Functions = {f}
    NameBytes <- MCNameBytes
    MaxDepth = 2
    BufferCap = 200
    FlushRecords = 2
    FlushBytes = 150
    QueueDepth = 1
    Throws = {FALSE, TRUE}
    SpawnOutcomes = {"open", "no_sender"}
    MayPanic = TRUE
    MaxRequests = 2
    MaxCalls = 3
INVARIANTS
    LedgersBalance
CHECK_DEADLOCK FALSE
PROPERTIES
    ImplementsHandOff
