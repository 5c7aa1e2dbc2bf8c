CONSTANTS
    big = big
    mid = mid
    low = low
    NoItem = NoItem
    Width = 2
    Items = {big, mid, low}
    Bytes <- MCBytes
    Budget = 3
    FirstQueue <- MCQueue
    QuietOnly = TRUE
    AdmitBelowFull = TRUE
    MaxMoves = 1
SPECIFICATION FairSpec
INVARIANTS MemoryWithinBudget NothingLost NothingTwice NeighboursHonest
PROPERTY BatchEnds
