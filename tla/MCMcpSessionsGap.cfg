SPECIFICATION Spec
CONSTANTS
    Clients = {a, b}
    Ids = {1, 2}
    Shelves = {"k"}
    Worlds = {"w1", "w2"}
    MaxPlan = 1
    LogCap = 2
    MaxRequests = 3
    Requests <- MCGapRequests
    Opened = {1}
PROPERTIES
    SuccessorsCarryOn
CHECK_DEADLOCK FALSE
