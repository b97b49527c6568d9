SPECIFICATION Spec
CONSTANTS
    f = f
    g = g
    Functions = {f, g}
    NameBytes <- MCNameBytes
    MaxDepth = 3
    BufferCap = 250
    FlushRecords = 3
    FlushBytes = 250
    QueueDepth = 1
    Throws = {FALSE}
    SpawnOutcomes = {"open"}
    MayPanic = FALSE
    MaxRequests = 1
    MaxCalls = 4
INVARIANTS
    EndPairsWithItsBegin
CHECK_DEADLOCK FALSE
