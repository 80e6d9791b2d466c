\* One monitor whose checks fit in a tick (timeout 5 s, one retry, interval
\* 30 s), its target up, down or hanging at will, and a graceful restart.
SPECIFICATION FairSpec
CONSTANTS
    m1 = m1
    m2 = m2
    t1 = t1
    t2 = t2
    t3 = t3
    t4 = t4
    Monitor <- OneMonitor
    Slot <- TwoSlots
    Workers = 2
    TickEvery = 2
    CtxLimit = 6
    RetryWait = 1
    Interval <- Six
    Timeout <- One
    MaxRetries <- One
    Answer <- Binary
    DbDelay = 1
    FaultKinds <- StopFault
    MaxFaults = 1
INVARIANT IncidentsFollowStatus
INVARIANT AlertsAlternate
INVARIANT StatusFollowsLog
PROPERTY OutageLifecycle
PROPERTY OutageAnnounced
PROPERTY RecoveryAnnounced
