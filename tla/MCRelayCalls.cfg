CONSTANTS
    d1 = d1
    d2 = d2
    t1 = t1
    t2 = t2
    l1 = l1
    l2 = l2
    i1 = i1
    Dials <- MCTwoDials
    Tags <- MCTwoTags
    TagOf <- MCTagOf
    Calls <- MCMixedCalls
    LegTag <- MCMixedLegTag
    ServerStates <- MCAnswerOnly
    MaxActiveCalls = 1
    MaxEvents = 2
SPECIFICATION Spec
INVARIANTS
    DialsSound
CHECK_DEADLOCK FALSE
