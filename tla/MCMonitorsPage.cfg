\* Two monitors, one group and two labels.
SPECIFICATION Spec
CONSTANTS
    None = None
    g1 = g1
    l1 = l1
    l2 = l2
    escaped = escaped
    Param <- Params
    Group <- OneGroup
    Label <- TwoLabels
    Number <- ZeroOne
    Form <- OneForm
    BulkForm <- BulkForms
    Search <- Searches
    Mobile = FALSE
    InitDb <- OneMonitor
    MaxId = 2
    MaxWork = 3
CHECK_DEADLOCK FALSE
INVARIANT PicksKeepIdentity
INVARIANT OwnWritesVisible
PROPERTY RenameKeepsLabels
