SPECIFICATION Spec
CONSTANTS
    f = f
    g = g
    Functions = {f, g}
    NameBytes <- MCNameBytes
    MaxDepth = 3
    BufferCap = 100000
    FlushRecords = 1
    FlushBytes = 10000
    QueueDepth = 1
    Throws = {FALSE}
    SpawnOutcomes = {"open"}
    MayPanic = FALSE
    MaxRequests = 1
    MaxCalls = 4
INVARIANTS
    ParentEarlierOrSameBatch
CHECK_DEADLOCK FALSE
