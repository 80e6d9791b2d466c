\* One tab of the console, one visitor, two monitors and one channel.
SPECIFICATION Spec
CONSTANTS
    None = None
    m1 = m1
    m2 = m2
    blank = blank
    u1 = u1
    Monitor <- TwoMonitors
    Name <- Names
    Text <- Texts
    Blank = blank
    MaxId = 2
    MaxWork = 3
CHECK_DEADLOCK FALSE
SYMMETRY MonitorSymmetry
INVARIANT SwitchTellsTruth
INVARIANT GroupLinkReaches
PROPERTY TypingSurvives
