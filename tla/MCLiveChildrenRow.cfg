SPECIFICATION Spec
CONSTANTS
    w1 = w1
    w2 = w2
    p1 = p1
    p2 = p2
    Workers <- MCWorkers
    Pids <- MCPids
    MaxClock = 2
    MaxCrashes = 2
    MaxReboots = 1
    StartsSinceBoot = FALSE
SYMMETRY Alike
INVARIANTS RegisteredIsOnRecord
CHECK_DEADLOCK FALSE
