CONSTANTS
    MaxConns = 3
    MaxPingFailures = 2
    ReconnectBackoff = 1
    MaxBackoff = 1
    HasContexts = TRUE
    PingWatchdog = TRUE
    PeersFallSilent = TRUE
SPECIFICATION FairSpec
INVARIANTS
    SingleDriver
    ReadsCurrentConn
PROPERTIES
    StopEndsEveryGoroutine
    HalfOpenDetected
CHECK_DEADLOCK FALSE
