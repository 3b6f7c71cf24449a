CONSTANTS
    d1 = d1
    d2 = d2
    t1 = t1
    t2 = t2
    l1 = l1
    l2 = l2
    i1 = i1
    Dials <- MCOneDial
    Tags <- MCOneTag
    TagOf <- MCOneTagOf
    Calls <- MCTwoLegs
    LegTag <- MCTwoLegsTag
    ServerStates <- MCFullLife
    MaxActiveCalls = 1
    MaxEvents = 2
SPECIFICATION Spec
INVARIANTS
    WinnerStaysRegistered
    NoZombieCalls
PROPERTIES
    StateNeverRegresses
SYMMETRY LegSymmetry
CHECK_DEADLOCK FALSE
