\* One database monitor, a backup of two monitors, two imports.
SPECIFICATION Spec
CONSTANTS
    None = None
    n1 = n1
    n256 = n256
    u1 = u1
    h1 = h1
    log1 = log1
    inc1 = inc1
    Name <- TwoNames
    Url <- OneUrl
    Host <- OneHost
    Port <- OnePort
    DSN <- OneDSN
    Box <- Boxes
    Long <- TooLong
    MaxColumn = 200
    MaxInt = 300
    HasKey = TRUE
    InitRows <- OneDatabase
    MaxId = 3
    MaxTyped = 2
    MaxWork = 2
    Log <- OneLog
    Incident <- OneIncident
    InitFile <- TwoEntries
    MaxImports = 2
CHECK_DEADLOCK FALSE
INVARIANT AcceptedByServer
INVARIANT DatabaseHasDSN
INVARIANT ImportComplete
PROPERTY StoredDSNKept
PROPERTY RetryAddsNothing
