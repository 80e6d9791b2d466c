\* Every type of monitor against targets around the limits of its checker.
SPECIFICATION CheckerSpec
CONSTANTS
    Input <- AnyAttempt
    HttpTimeout = 4
    UdpWait = 2
    DbTimeout = 3
    RedisCommands = 2
INVARIANT VerdictInTime
INVARIANT OnlyCertificatesDegrade
INVARIANT WarnedInTime
INVARIANT UpHasEvidence
INVARIANT PingFallsBack
CHECK_DEADLOCK FALSE
