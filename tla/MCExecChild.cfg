SPECIFICATION RunFairSpec
CONSTANTS
    Timeout = 4
    TermGrace = 2
    Nap = 3
    MaxNaps = 2
    MaxMessages = 3
INVARIANT ClockIsHonest
PROPERTY RunEnds
