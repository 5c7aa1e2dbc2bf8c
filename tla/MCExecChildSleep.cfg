SPECIFICATION RunSpec
CONSTANTS
    Timeout = 4
    TermGrace = 2
    Nap = 3
    MaxNaps = 1
    MaxMessages = 1
INVARIANT DeadlineBites
