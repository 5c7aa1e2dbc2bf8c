SPECIFICATION ControlSpec
CONSTANTS
    w1 = w1
    w2 = w2
    Workers <- MCWorkers
    MaxMoves = 1
INVARIANT ReachesAll
