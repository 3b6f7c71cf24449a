CONSTANTS
    a1 = a1
    a2 = a2
    m1 = m1
    in1 = in1
    Actions <- MCActions
    Type <- MCType
    Partials = TRUE
    MaxEvents = 2
    Outbound <- MCOutbound
    Inbound <- MCInbound
    MaxFrames = 3
SPECIFICATION MCSpec
INVARIANTS
    CallbackBeforeDone
    ResultSound
    TracksServer
PROPERTIES
    ActionsImplementCompletion
    MessagesImplementCompletion
    CompletionReleasesWait
    TrackedWaitReturns
CHECK_DEADLOCK FALSE
