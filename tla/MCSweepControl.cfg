SPECIFICATION ControlFairSpec
CONSTANTS
    w1 = w1
    w2 = w2
    Workers <- OneWorker
    MaxMoves = 4
INVARIANTS LevelReachesPlanner PausedWhileReading
PROPERTY StopIsFollowedByCont
