\* Two monitors, a worker for each, and a crash at any moment.
SPECIFICATION Spec
CONSTANTS
    m1 = m1
    m2 = m2
    t1 = t1
    t2 = t2
    t3 = t3
    t4 = t4
    Monitor <- TwoMonitors
    Slot <- TwoSlots
    Workers = 2
    TickEvery = 2
    CtxLimit = 6
    RetryWait = 1
    Interval <- Six
    Timeout <- One
    MaxRetries <- One
    Answer <- Binary
    DbDelay = 1
    FaultKinds <- CrashFault
    MaxFaults = 1
SYMMETRY SlotSymmetry
INVARIANT SingleFlight
INVARIANT NeverCutShort
PROPERTY LastCheckedMonotone
