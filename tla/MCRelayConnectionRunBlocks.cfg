CONSTANTS
    MaxConns = 2
    MaxPingFailures = 1
    ReconnectBackoff = 1
    MaxBackoff = 1
    HasContexts = TRUE
    PingWatchdog = FALSE
    PeersFallSilent = FALSE
SPECIFICATION Spec
INVARIANT RunBlocksUntilStop
CHECK_DEADLOCK FALSE
