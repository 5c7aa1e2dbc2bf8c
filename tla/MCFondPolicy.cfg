SPECIFICATION Spec
CONSTANTS
    N = 4
    K = 2
    Problems <- MCProblems
INVARIANTS
    StrongIsStrong
    CyclicIsStrongCyclic
    NoPlanIsTrue
    FailsafeNeverFires
