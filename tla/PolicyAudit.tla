------------------------------ MODULE PolicyAudit ------------------------------
(***************************************************************************)
(* What a FOND policy promises, as policy_validation.rs audits it apart    *)
(* from the synthesiser: the graph the policy reaches is closed and safe,  *)
(* and each initial state is won, either for every outcome (strong) or     *)
(* under fair outcomes (strong cyclic).                                    *)
(*                                                                         *)
(* The loops of the code compute least fixed points over finite sets; here *)
(* a state is in the fixed point when it is in every set closed under the  *)
(* rule.  Outcome masses, labels and observations are left out: the        *)
(* problems are those whose masses are normalised, and an entry's outcomes *)
(* are copied from the transitions by policy_from_choices.                 *)
(***************************************************************************)
EXTENDS Naturals

CONSTANTS
    N,          \* number of states; 1..N is the order of problem.states
    K,          \* number of action names; 1..K is their order in the groups' map
    Problems    \* the problems considered

States == 1..N
Actions == 1..K
NoAction == 0

Problem == [out: [States -> [Actions -> SUBSET States]],
            goal: SUBSET States, unsafe: SUBSET States, initial: SUBSET States]

ASSUME AuditAssumption ==
    /\ N \in Nat \ {0}
    /\ K \in Nat \ {0}
    /\ Problems \subseteq Problem
    /\ \A p \in Problems : p.initial # {}

\* A policy: the chosen action of each state, or no entry.
Policy == [States -> Actions \cup {NoAction}]

\* The outcomes the policy leaves open in s; a goal state is not acted in.
Outcomes(p, c, s) ==
    IF s \in p.goal \/ c[s] = NoAction THEN {} ELSE p.out[s][c[s]]

Reachable(p, c) ==
    {s \in States :
        \A X \in SUBSET States :
            (p.initial \subseteq X /\ \A t \in X : Outcomes(p, c, t) \subseteq X) => s \in X}

\* The issues: an entry on a goal state, an unsafe state in reach, a reached
\* state with no entry or with an action it does not have, no goal in reach.
Admitted(p, c) ==
    LET R == Reachable(p, c) IN
    /\ \A s \in p.goal : c[s] = NoAction
    /\ R \cap p.unsafe = {}
    /\ \A s \in R \ p.goal : Outcomes(p, c, s) # {}
    /\ R \cap p.goal # {}

\* Won whatever the outcomes: every outcome of the entry is already won.
WonStrongly(p, c) ==
    {s \in States :
        \A X \in SUBSET States :
            (/\ p.goal \subseteq X
             /\ \A t \in States \ p.goal :
                    (Outcomes(p, c, t) # {} /\ Outcomes(p, c, t) \subseteq X) => t \in X)
            => s \in X}

\* Won under fairness: some outcome of the entry leads on towards a goal.
CanReachGoal(p, c) ==
    {s \in States :
        \A X \in SUBSET States :
            (/\ p.goal \subseteq X
             /\ \A t \in States \ p.goal : Outcomes(p, c, t) \cap X # {} => t \in X)
            => s \in X}

IsStrong(p, c) == Admitted(p, c) /\ p.initial \subseteq WonStrongly(p, c)
IsStrongCyclic(p, c) == Admitted(p, c) /\ Reachable(p, c) \subseteq CanReachGoal(p, c)

\* PolicyGuarantee of the report.
Guarantee(p, c) ==
    CASE IsStrong(p, c) -> "Strong"
      [] ~IsStrong(p, c) /\ IsStrongCyclic(p, c) -> "StrongCyclic"
      [] OTHER -> "Invalid"
=============================================================================
