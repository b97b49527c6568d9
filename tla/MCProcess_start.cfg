SPECIFICATION Spec
CONSTANTS
    None = None
    Empty = Empty
    Junk = Junk
    Lower <- MCLower
    DEFAULT_SKIP_FUNCTIONS <- MCDefaultSkip
    MAX_BUFFER_CAP_BYTES = 2000000000
    MAX_I64 = 2100000000
    U32 = 16
    Lossy <- MCLossy
    ClosureNames <- MCClosureNames
    Length <- MCLength
    FxHash <- MCFxHash
    Unset = Unset
    Redacted = Redacted
    IniFiles <- MCIniFiles
    ReloadedFiles <- MCReloadedFiles
    CallSites <- MCCallSites
    SapiStates <- MCSapiStates
    MaxStarts = 2
    MaxCalls = 2
INVARIANTS
    TypeOK
    ConfigConsistent
    OneReasonLogged
    TokenFileDecides
    SkippedNeverRecorded
    NamedSitesKeepIdentity
    
    ProjectionExact
    NoSilentLimit
    InfoReadsBack
    BatchesReachTheShipper
PROPERTIES
    FilterIsStatic
CHECK_DEADLOCK FALSE
