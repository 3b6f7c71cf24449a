CONSTANTS
    typed = typed
    plain = plain
    ended = ended
    h = h
    Waiters <- MCWaiters
    Kind <- MCKind
    Target <- MCTarget
    Handlers <- MCHandlers
    SkipsStates = TRUE
    MaxCallEvents = 2
SPECIFICATION CallFairSpec
INVARIANTS
    WaiterNeverLost
    WaitResultSound
    HandlersSeeEveryEvent
PROPERTIES
    RegisteredWaiterReturns
CHECK_DEADLOCK FALSE
