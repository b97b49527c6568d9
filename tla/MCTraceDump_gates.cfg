SPECIFICATION DumpSpec
CONSTANTS
    f = f
    g = g
    Functions = {f, g}
    NameBytes <- MCNameBytes
    MaxDepth = 3
    BufferCap = 250
    FlushRecords = 2
    FlushBytes = 150
    QueueDepth = 1
    Throws = {FALSE}
    SpawnOutcomes = {"open"}
    MayPanic = FALSE
    MaxRequests = 1
    MaxCalls = 5
    DumpPathSet = TRUE
INVARIANTS
    TypeOK
    StackConsistent
    PairingUntilCapDrop
    BudgetBound
    RecordsFormATree
    DictionaryAnnounced
    DumpFaithful
CHECK_DEADLOCK FALSE
