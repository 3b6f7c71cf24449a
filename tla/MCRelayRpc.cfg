CONSTANTS
    r1 = r1
    r2 = r2
    h1 = h1
    Requests <- MCRequests
    HookRequests <- MCHookRequests
    Bodies <- MCBodies
    MaxInbox = 2
SPECIFICATION FairSpec
INVARIANTS
    ReaderNeverBlocks
    OwnAnswer
    PendingOnlyLeaksOnStop
PROPERTIES
    ImplementsRpcAbstract
    ExecuteReturns
CHECK_DEADLOCK FALSE
