------------------------------ MODULE FondPolicy ------------------------------
(***************************************************************************)
(* The FOND synthesiser of planning_runtime.rs: solve_planning_type tries  *)
(* fond_policy (a least fixed point grown from the goals) and, when that   *)
(* finds no plan, fond_policy_strong_cyclic (weak reachability, a witness  *)
(* prune, then the alternation of prune and committable reachability with  *)
(* the rewrite to advancing actions).                                      *)
(*                                                                         *)
(* One step visits one state, in the order of problem.states, as the inner *)
(* loop does; `at` = 0 is the head of a round.  Each round's head may find *)
(* the wall deadline passed (check_wall_deadline).                         *)
(***************************************************************************)
EXTENDS PolicyAudit, FiniteSets

VARIABLES
    problem,    \* the request's problem, never changed
    phase,      \* which loop runs
    at,         \* the state the loop visits next, 0 at the head of a round
    changed,    \* did this round admit or prune a state
    rounds,     \* `rounds`, the count the failsafe bounds
    outer,      \* `phase3_rounds`
    winning,    \* fond_policy's winning states
    surviving,  \* `weak`, then `surviving`
    reach,      \* committable goal-reachability of phase 3 (b)
    rank,       \* the discovery rank of a state of reach
    choice,     \* choices
    result      \* what solve_planning_type returns

vars == <<problem, phase, at, changed, rounds, outer, winning, surviving, reach, rank, choice, result>>

Phases == {"strong", "weak", "prune", "alternate", "close", "reach", "rewrite", "check", "done"}
Results == {"None", "Strong", "StrongCyclic", "NoPlan", "Deadline", "Failsafe"}

TypeOK ==
    /\ problem \in Problem
    /\ phase \in Phases
    /\ at \in 0..N
    /\ changed \in BOOLEAN
    /\ rounds \in 0..(N + 1)
    /\ outer \in 0..(N + 1)
    /\ winning \in SUBSET States
    /\ surviving \in SUBSET States
    /\ reach \in SUBSET States
    /\ rank \in [States -> Nat]
    /\ choice \in Policy
    /\ result \in Results

NoChoice == [s \in States |-> NoAction]

\* The actions of s that commit every outcome to X, and the first of a set.
Committed(s, X) ==
    {a \in Actions : problem.out[s][a] # {} /\ problem.out[s][a] \subseteq X}
First(A) == CHOOSE a \in A : \A b \in A : a <= b

Init ==
    /\ problem \in Problems
    /\ phase = "strong" /\ at = 0 /\ changed = TRUE /\ rounds = 0 /\ outer = 0
    /\ winning = problem.goal
    /\ surviving = {} /\ reach = {}
    /\ rank = [s \in States |-> 0]
    /\ choice = NoChoice
    /\ result = "None"

\* ---- rounds ----

Counted == {"strong", "weak", "prune"}

After(s) == IF s = N THEN 0 ELSE s + 1

\* The head of a round: the deadline, then the failsafe, then the sweep.
Deadline ==
    /\ phase \in Counted \cup {"alternate", "close"} /\ at = 0
    /\ phase # "alternate" => changed
    /\ phase' = "done" /\ result' = "Deadline"
    /\ UNCHANGED <<problem, at, changed, rounds, outer, winning, surviving, reach, rank, choice>>

\* Mutant: a cap below what the fixed point needs, as max_iterations once was.
CountedRoundCapped ==
    /\ phase \in Counted /\ at = 0 /\ changed
    /\ IF rounds < N - 1
       THEN /\ rounds' = rounds + 1 /\ at' = 1 /\ changed' = FALSE
            /\ UNCHANGED <<phase, result>>
       ELSE /\ phase' = "done" /\ result' = "Failsafe"
            /\ UNCHANGED <<rounds, at, changed>>
    /\ UNCHANGED <<problem, outer, winning, surviving, reach, rank, choice>>

CountedRound ==
    /\ phase \in Counted /\ at = 0 /\ changed
    /\ IF rounds < N + 1
       THEN /\ rounds' = rounds + 1 /\ at' = 1 /\ changed' = FALSE
            /\ UNCHANGED <<phase, result>>
       ELSE /\ phase' = "done" /\ result' = "Failsafe"
            /\ UNCHANGED <<rounds, at, changed>>
    /\ UNCHANGED <<problem, outer, winning, surviving, reach, rank, choice>>

FreeRound ==
    /\ phase \in {"close", "reach"} /\ at = 0 /\ changed
    /\ at' = 1 /\ changed' = FALSE
    /\ UNCHANGED <<problem, phase, rounds, outer, winning, surviving, reach, rank, choice, result>>

Alternate ==
    /\ phase = "alternate"
    /\ IF outer < N + 1
       THEN /\ outer' = outer + 1 /\ phase' = "close" /\ at' = 0 /\ changed' = TRUE
            /\ UNCHANGED result
       ELSE /\ phase' = "done" /\ result' = "Failsafe"
            /\ UNCHANGED <<outer, at, changed>>
    /\ UNCHANGED <<problem, rounds, winning, surviving, reach, rank, choice>>

\* Into the next loop, its first round still to start.
Enter(ph) ==
    /\ phase' = ph /\ at' = 0 /\ changed' = TRUE /\ rounds' = 0

Settled(ph) == phase = ph /\ at = 0 /\ ~changed

\* ---- fond_policy ----

\* Mutant: unsafe states are not skipped.
AdmissibleUnsafe(s) == s \notin winning /\ Committed(s, winning) # {}

Admissible(s) ==
    /\ s \notin winning
    /\ s \notin problem.unsafe
    /\ Committed(s, winning) # {}

StrongVisit ==
    /\ phase = "strong" /\ at # 0
    /\ IF Admissible(at)
       THEN /\ winning' = winning \cup {at}
            /\ choice' = [choice EXCEPT ![at] = First(Committed(at, winning))]
            /\ changed' = TRUE
       ELSE UNCHANGED <<winning, choice, changed>>
    /\ at' = After(at)
    /\ UNCHANGED <<problem, phase, rounds, outer, surviving, reach, rank, result>>

StrongSolved ==
    /\ Settled("strong") /\ problem.initial \subseteq winning
    /\ phase' = "done" /\ result' = "Strong"
    /\ UNCHANGED <<problem, at, changed, rounds, outer, winning, surviving, reach, rank, choice>>

\* NoPlan of the strong solver: the strong-cyclic one starts afresh.
Fallback ==
    /\ Settled("strong") /\ ~(problem.initial \subseteq winning)
    /\ Enter("weak")
    /\ surviving' = problem.goal
    /\ choice' = NoChoice
    /\ UNCHANGED <<problem, outer, winning, reach, rank, result>>

\* ---- fond_policy_strong_cyclic, phase 1 ----

\* Mutant: phase 1 already asks for every outcome.
TouchesWholly(s, X) == Committed(s, X) # {}
Touches(s, X) == \E a \in Actions : problem.out[s][a] \cap X # {}

WeakVisit ==
    /\ phase = "weak" /\ at # 0
    /\ IF at \notin surviving /\ at \notin problem.unsafe /\ Touches(at, surviving)
       THEN surviving' = surviving \cup {at} /\ changed' = TRUE
       ELSE UNCHANGED <<surviving, changed>>
    /\ at' = After(at)
    /\ UNCHANGED <<problem, phase, rounds, outer, winning, reach, rank, choice, result>>

WeakDone ==
    /\ Settled("weak")
    /\ Enter("prune")
    /\ UNCHANGED <<problem, outer, winning, surviving, reach, rank, choice, result>>

\* ---- phase 2, and phase 3 (a) ----

\* The witness of a surviving state, or its removal.
PruneVisit ==
    /\ phase \in {"prune", "close"} /\ at # 0
    /\ LET witnesses == Committed(at, surviving) IN
       IF at \notin surviving \/ at \in problem.goal
       THEN UNCHANGED <<surviving, choice, changed>>
       ELSE IF witnesses # {}
       THEN /\ choice' = [choice EXCEPT ![at] = First(witnesses)]
            /\ UNCHANGED <<surviving, changed>>
       ELSE /\ surviving' = surviving \ {at}
            /\ choice' = [choice EXCEPT ![at] = NoAction]
            /\ changed' = TRUE
    /\ at' = After(at)
    /\ UNCHANGED <<problem, phase, rounds, outer, winning, reach, rank, result>>

PruneDone ==
    /\ Settled("prune")
    /\ Enter("alternate")
    /\ UNCHANGED <<problem, outer, winning, surviving, reach, rank, choice, result>>

CloseDone ==
    /\ Settled("close")
    /\ Enter("reach")
    /\ reach' = surviving \cap problem.goal
    /\ rank' = [s \in States |-> 0]
    /\ UNCHANGED <<problem, outer, winning, surviving, choice, result>>

\* ---- phase 3 (b) ----

\* The ranked outcomes of the actions of s committed to the region.
Ahead(s) == reach \cap UNION {problem.out[s][a] : a \in Committed(s, surviving)}
Nearest(s) == CHOOSE r \in {rank[t] : t \in Ahead(s)} : \A t \in Ahead(s) : r <= rank[t]

ReachVisit ==
    /\ phase = "reach" /\ at # 0
    /\ IF at \in surviving \ reach /\ Ahead(at) # {}
       THEN /\ reach' = reach \cup {at}
            /\ rank' = [rank EXCEPT ![at] = Nearest(at) + 1]
            /\ changed' = TRUE
       ELSE UNCHANGED <<reach, rank, changed>>
    /\ at' = After(at)
    /\ UNCHANGED <<problem, phase, rounds, outer, winning, surviving, choice, result>>

\* Some survivors never reach a goal: they go, and the alternation runs again.
ReachShrinks ==
    /\ Settled("reach") /\ Cardinality(reach) # Cardinality(surviving)
    /\ Enter("alternate")
    /\ surviving' = reach
    /\ choice' = [s \in States |-> IF s \in reach THEN choice[s] ELSE NoAction]
    /\ UNCHANGED <<problem, outer, winning, reach, rank, result>>

ReachCloses ==
    /\ Settled("reach") /\ Cardinality(reach) = Cardinality(surviving)
    /\ phase' = "rewrite" /\ at' = 1
    /\ UNCHANGED <<problem, changed, rounds, outer, winning, surviving, reach, rank, choice, result>>

\* ---- the closing rewrite ----

Advancing(s) ==
    {a \in Committed(s, surviving) :
        s \in reach /\ \E t \in problem.out[s][a] \cap reach : rank[t] < rank[s]}

\* Mutant: the witnesses of the prune are returned as they are.
RewriteVisitKeeps ==
    /\ phase = "rewrite" /\ at # 0
    /\ at' = After(at)
    /\ UNCHANGED <<problem, phase, changed, rounds, outer, winning, surviving, reach, rank, choice, result>>

RewriteVisit ==
    /\ phase = "rewrite" /\ at # 0
    /\ IF at \notin surviving \/ at \in problem.goal
       THEN UNCHANGED <<surviving, choice, changed>>
       ELSE IF Advancing(at) # {}
       THEN /\ choice' = [choice EXCEPT ![at] = First(Advancing(at))]
            /\ UNCHANGED <<surviving, changed>>
       ELSE /\ surviving' = surviving \ {at}
            /\ choice' = [choice EXCEPT ![at] = NoAction]
            /\ changed' = TRUE
    /\ at' = After(at)
    /\ UNCHANGED <<problem, phase, rounds, outer, winning, reach, rank, result>>

\* A survivor without an advancing action would send the alternation round again.
RewriteDone ==
    /\ phase = "rewrite" /\ at = 0
    /\ Enter(IF changed THEN "alternate" ELSE "check")
    /\ UNCHANGED <<problem, outer, winning, surviving, reach, rank, choice, result>>

\* ---- the closing checks ----

Covered == problem.initial \subseteq surviving

\* Every surviving state has a choice whose outcomes are goals or survivors
\* that have a choice.
OutcomesClosed ==
    \A s \in surviving \ problem.goal :
        /\ choice[s] # NoAction
        /\ \A t \in problem.out[s][choice[s]] \ problem.goal :
               t \in surviving /\ choice[t] # NoAction

Check ==
    /\ phase = "check"
    /\ phase' = "done"
    /\ result' = IF Covered /\ OutcomesClosed THEN "StrongCyclic" ELSE "NoPlan"
    /\ UNCHANGED <<problem, at, changed, rounds, outer, winning, surviving, reach, rank, choice>>

\* solve_planning_type has returned.
Returned == phase = "done" /\ UNCHANGED vars

Next ==
    \/ Deadline \/ CountedRound \/ FreeRound \/ Alternate
    \/ StrongVisit \/ StrongSolved \/ Fallback
    \/ WeakVisit \/ WeakDone
    \/ PruneVisit \/ PruneDone \/ CloseDone
    \/ ReachVisit \/ ReachShrinks \/ ReachCloses
    \/ RewriteVisit \/ RewriteDone
    \/ Check \/ Returned

Spec == Init /\ [][Next]_vars

-----------------------------------------------------------------------------
\* Goals that are also unsafe are won by both synthesisers and refused by the
\* audit: the promises below are about the problems that have none.
SafeGoals == problem.goal \cap problem.unsafe = {}

\* What fond_policy returns wins each initial state whatever the outcomes: no
\* choice of an early round is undone by a later one.
StrongIsStrong == (result = "Strong" /\ SafeGoals) => IsStrong(problem, choice)

\* What the fallback returns is admitted by the audit and leads to a goal from
\* every state it reaches; it is run only where no strong policy exists, so
\* what it returns is never a strong one.  A choice kept from an earlier prune
\* or a rewrite against ranks of another round would break it.
CyclicIsStrongCyclic ==
    (result = "StrongCyclic" /\ SafeGoals) => Guarantee(problem, choice) = "StrongCyclic"

\* NoPlan is an answer about the problem: no policy at all passes the audit.
NoPlanIsTrue ==
    (result = "NoPlan" /\ SafeGoals) => \A c \in Policy : Guarantee(problem, c) = "Invalid"

\* The `states + 1` failsafe of the four bounded loops is unreachable, as the
\* comments of the code argue: it would turn a solvable problem into Timeout.
FailsafeNeverFires == result # "Failsafe"

\* The closing checks never refuse a region that covers the initial states:
\* no choice in it is stale.
ChecksAreRedundant == (phase = "check" /\ Covered) => OutcomesClosed
=============================================================================
