\* Two tabs, in one browser or in two; three clicks, so that a form can be sent
\* again before the first answer is acted on.
SPECIFICATION Spec
CONSTANTS
    None = None
    t1 = t1
    t2 = t2
    b1 = b1
    b2 = b2
    e1 = e1
    p1 = p1
    p2 = p2
    Tab <- TwoTabs
    Browser <- TwoBrowsers
    Sharing <- OneBrowserOrTwo
    Email <- OneEmail
    Password <- TwoPasswords
    MaxId = 2
    MaxWork = 3
CHECK_DEADLOCK FALSE
INVARIANT SavingIsUnderWay
INVARIANT CredentialsNameTheirOwner
PROPERTY SignOutReachesEveryTab
