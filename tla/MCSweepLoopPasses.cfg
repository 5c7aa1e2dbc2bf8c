SPECIFICATION Spec
CONSTANTS
    a = a
    b = b
    c = c
    d = d
    Boards = {1, 2}
    Work = {a, b, c, d}
    BoardOf <- MCBoardOf
    Class <- MCClass
    PackWidth = 2
    NarrowWidth = 2
    PassLimits = {0, 1}
    Bankable = {a, c, d}
    Cap = 4
INVARIANT PassesAreCapped
