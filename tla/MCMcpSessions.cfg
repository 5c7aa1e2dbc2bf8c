SPECIFICATION FairSpec
CONSTANTS
    Clients = {a, b}
    Ids = {1, 2}
    Shelves = {"k"}
    Worlds = {"w1", "w2"}
    MaxPlan = 1
    LogCap = 2
    MaxRequests = 3
    Requests <- MCRequests
    Opened = {1, 2}
INVARIANTS
    LineageKept
    LedgerIsTheChain
    CursorWithinPlan
PROPERTIES
    EpochNamesTheWorld
    EveryCallIsAnswered
CHECK_DEADLOCK FALSE
