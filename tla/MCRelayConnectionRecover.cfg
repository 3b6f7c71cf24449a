CONSTANTS
    MaxConns = 3
    MaxPingFailures = 1
    ReconnectBackoff = 1
    MaxBackoff = 3
    HasContexts = FALSE
    PingWatchdog = FALSE
    PeersFallSilent = FALSE
SPECIFICATION FairSpec
PROPERTIES
    LostConnectionIsReplaced
CHECK_DEADLOCK FALSE
