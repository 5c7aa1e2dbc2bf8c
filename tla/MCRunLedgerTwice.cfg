SPECIFICATION Spec
CONSTANTS
    i1 = i1
    i2 = i2
    Insts <- MCOne
    PriorSolved <- MCOne
    MaxAttempts = 2
    MaxCrashes = 0
    MaxFailures = 0
INVARIANT SeenTwice
CHECK_DEADLOCK FALSE
