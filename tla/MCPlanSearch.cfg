SPECIFICATION FairSpec
CONSTANTS
    N = 4
    Batch = 2
    MaxRounds = 2
    Problems <- MCProblems
INVARIANTS
    ProofIsAProof
    DrainedIsOptimal
    PlanIsAPlan
PROPERTIES
    SolveEnds
CHECK_DEADLOCK FALSE
