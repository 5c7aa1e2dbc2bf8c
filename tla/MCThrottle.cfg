SPECIFICATION FairSpec
CONSTANTS
    PoliteDwell = 2
    GameDwell = 3
    ResumeDwell = 4
    MaxGap = 2
    ManualHolds = TRUE
INVARIANT LoadNeverHolds
PROPERTIES CannotFlap CalmRestoresFull GameGetsTheBox
