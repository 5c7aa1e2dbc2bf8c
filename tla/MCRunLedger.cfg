SPECIFICATION Spec
CONSTANTS
    i1 = i1
    i2 = i2
    Insts <- MCTwo
    PriorSolved <- MCOne
    MaxAttempts = 2
    MaxCrashes = 1
    MaxFailures = 1
INVARIANTS MemoryIsOnRecord ContradictionConfirmed
PROPERTY BankedStaysBanked
CHECK_DEADLOCK FALSE
