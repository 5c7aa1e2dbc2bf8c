SPECIFICATION Spec
CONSTANTS
    Clients = {a, b}
    Ids = {1, 2}
    Shelves = {"k"}
    Worlds = {"w1", "w2"}
    MaxPlan = 1
    LogCap = 2
    MaxRequests = 4
    Requests <- MCStaleRequests
    Opened = {1}
PROPERTIES
    StaleIsRefused
CHECK_DEADLOCK FALSE
