CONSTANTS
    m1 = m1
    m2 = m2
    in1 = in1
    Outbound <- MCOne
    Inbound <- MCNone
    MaxFrames = 3
SPECIFICATION MessageFairSpec
PROPERTY SentMessageWaitReturns
CHECK_DEADLOCK FALSE
