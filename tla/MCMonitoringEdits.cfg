\* One monitor, two requests of any kind while it is checked, and one fault of
\* any kind: a statement that fails, a crash, a graceful restart.
SPECIFICATION FairMonitoringSpec
CONSTANTS
    m1 = m1
    m2 = m2
    t1 = t1
    t2 = t2
    t3 = t3
    t4 = t4
    Monitor <- OneMonitor
    Slot <- TwoSlots
    Workers = 2
    TickEvery = 2
    CtxLimit = 6
    RetryWait = 1
    Interval <- Six
    Timeout <- One
    MaxRetries <- Zero
    Answer <- Graded
    DbDelay = 0
    FaultKinds <- AnyFault
    MaxFaults = 1
    EditKinds <- AnyEdit
    MaxEdits = 2
INVARIANT ResetLeavesNothing
PROPERTY DeletedGoesQuiet
PROPERTY StatusRecovers
