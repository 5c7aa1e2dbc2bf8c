SPECIFICATION RefereeSpec
CONSTANTS
    RhoMin = 3
    RhoScale = 4
    RhoFloor = 2
    RhoOverhead = 2
    MaxWall = 9
INVARIANT IdleBoxBanks
PROPERTY DoubtNeverBanks
