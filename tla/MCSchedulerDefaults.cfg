\* The defaults of a new monitor: interval 60 s, timeout 30 s, one retry; its
\* target never answers.
SPECIFICATION FairSpec
CONSTANTS
    m1 = m1
    m2 = m2
    t1 = t1
    t2 = t2
    t3 = t3
    t4 = t4
    Monitor <- OneMonitor
    Slot <- TwoSlots
    Workers = 2
    TickEvery = 2
    CtxLimit = 6
    RetryWait = 1
    Interval <- Twelve
    Timeout <- Six
    MaxRetries <- One
    Answer <- Hanging
    DbDelay = 0
    FaultKinds <- NoFault
    MaxFaults = 0
PROPERTY OutageAnnounced
