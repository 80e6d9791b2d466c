\* A monitor due at every tick (interval 10 s) that answers or stalls for up to
\* 15 s per attempt: ticks overlap and contexts expire.
SPECIFICATION Spec
CONSTANTS
    m1 = m1
    m2 = m2
    t1 = t1
    t2 = t2
    t3 = t3
    t4 = t4
    Monitor <- OneMonitor
    Slot <- FourSlots
    Workers = 2
    TickEvery = 2
    CtxLimit = 6
    RetryWait = 1
    Interval <- Two
    Timeout <- Three
    MaxRetries <- Two
    Answer <- Stalling
    DbDelay = 1
    FaultKinds <- NoFault
    MaxFaults = 0
SYMMETRY SlotSymmetry
INVARIANT TicksBounded
