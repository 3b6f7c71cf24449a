CONSTANTS
    c1 = c1
    c2 = c2
    set = set
    Seed = Seed
    Calls <- MCCalls
    Setters <- MCSetters
SPECIFICATION RequestsSpec
PROPERTY OriginalUnchanged
CHECK_DEADLOCK FALSE
