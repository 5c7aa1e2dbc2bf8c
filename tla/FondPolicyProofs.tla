--------------------------- MODULE FondPolicyProofs ---------------------------
(***************************************************************************)
(* FOND synthesis is sound and complete, and its failsafe unreachable, for *)
(* every problem, any number of states and any number of actions.          *)
(***************************************************************************)
EXTENDS FondPolicy, FiniteSetTheorems, WellFoundedInduction, TLAPS

-----------------------------------------------------------------------------
\* The audit's fixed points.

LEMMA LeastElement ==
    ASSUME NEW T, T \subseteq Nat, T # {}
    PROVE  \E m \in T : \A n \in T : m <= n
<1>1. \E m \in T : \A n \in T : ~ (<<n, m>> \in OpToRel(<, Nat))
    BY NatLessThanWellFounded, WFMin
<1>2. PICK m \in T : \A n \in T : ~ (<<n, m>> \in OpToRel(<, Nat)) BY <1>1
<1>3. \A n \in T : ~ (n < m) BY <1>2 DEF OpToRel
<1>4. ASSUME NEW n \in T PROVE m <= n
    <2>1. m \in Nat /\ n \in Nat OBVIOUS
    <2>2. QED BY <1>3, <2>1
<1>5. QED BY <1>4

LEMMA OutcomesType ==
    ASSUME NEW p \in Problem, NEW c \in Policy, NEW s \in States
    PROVE  Outcomes(p, c, s) \subseteq States
BY DEF Problem, Policy, Outcomes

LEMMA ReachableClosed ==
    ASSUME NEW p \in Problem, NEW c \in Policy
    PROVE  /\ Reachable(p, c) \subseteq States
           /\ p.initial \subseteq Reachable(p, c)
           /\ \A t \in Reachable(p, c) : Outcomes(p, c, t) \subseteq Reachable(p, c)
<1>1. Reachable(p, c) \subseteq States BY DEF Reachable
<1>2. p.initial \subseteq States BY DEF Problem
<1>3. p.initial \subseteq Reachable(p, c) BY <1>2 DEF Reachable
<1>4. ASSUME NEW t \in Reachable(p, c), NEW s \in Outcomes(p, c, t)
      PROVE  s \in Reachable(p, c)
    <2>1. s \in States BY <1>1, <1>4, OutcomesType
    <2>2. ASSUME NEW X \in SUBSET States,
                 p.initial \subseteq X, \A u \in X : Outcomes(p, c, u) \subseteq X
          PROVE  s \in X
        BY <1>4, <2>2 DEF Reachable
    <2>3. QED BY <2>1, <2>2 DEF Reachable
<1>5. QED BY <1>1, <1>3, <1>4

LEMMA ReachableLeast ==
    ASSUME NEW p \in Problem, NEW c \in Policy, NEW X \in SUBSET States,
           p.initial \subseteq X, \A t \in X : Outcomes(p, c, t) \subseteq X
    PROVE  Reachable(p, c) \subseteq X
BY DEF Reachable

\* A policy that wins strongly stays winning inside what it reaches.
LEMMA WonWithin ==
    ASSUME NEW p \in Problem, NEW c \in Policy, NEW W \in SUBSET States,
           p.goal \subseteq W,
           \A t \in Reachable(p, c) \ p.goal :
               (Outcomes(p, c, t) # {} /\ Outcomes(p, c, t) \subseteq W) => t \in W
    PROVE  WonStrongly(p, c) \cap Reachable(p, c) \subseteq W
<1> DEFINE R == Reachable(p, c)
           X == W \cup (States \ R)
<1>1. X \in SUBSET States /\ p.goal \subseteq X OBVIOUS
<1>2. ASSUME NEW t \in States \ p.goal, Outcomes(p, c, t) # {}, Outcomes(p, c, t) \subseteq X
      PROVE  t \in X
    <2>1. CASE t \in R
        <3>1. Outcomes(p, c, t) \subseteq W BY <1>2, <2>1, ReachableClosed
        <3>2. QED BY <1>2, <2>1, <3>1
    <2>2. CASE t \notin R BY <2>2
    <2>3. QED BY <2>1, <2>2
<1>3. WonStrongly(p, c) \subseteq X BY <1>1, <1>2 DEF WonStrongly
<1>4. QED BY <1>3

LEMMA CanReachWithin ==
    ASSUME NEW p \in Problem, NEW c \in Policy, NEW W \in SUBSET States,
           p.goal \cap Reachable(p, c) \subseteq W,
           \A t \in Reachable(p, c) \ p.goal :
               Outcomes(p, c, t) \cap W # {} => t \in W
    PROVE  CanReachGoal(p, c) \cap Reachable(p, c) \subseteq W
<1> DEFINE R == Reachable(p, c)
           X == W \cup (States \ R)
<1>1. X \in SUBSET States /\ p.goal \subseteq X BY DEF Problem
<1>2. ASSUME NEW t \in States \ p.goal, Outcomes(p, c, t) \cap X # {}
      PROVE  t \in X
    <2>1. CASE t \in R
        <3>1. Outcomes(p, c, t) \cap W # {} BY <1>2, <2>1, ReachableClosed
        <3>2. QED BY <1>2, <2>1, <3>1
    <2>2. CASE t \notin R BY <2>2
    <2>3. QED BY <2>1, <2>2
<1>3. CanReachGoal(p, c) \subseteq X BY <1>1, <1>2 DEF CanReachGoal
<1>4. QED BY <1>3

\* Where every reached state is won, a goal is reached.
LEMMA GoalReached ==
    ASSUME NEW p \in Problem, NEW c \in Policy, p.initial # {},
           Reachable(p, c) \subseteq CanReachGoal(p, c)
    PROVE  Reachable(p, c) \cap p.goal # {}
<1> SUFFICES ASSUME Reachable(p, c) \cap p.goal = {} PROVE FALSE
    OBVIOUS
<1>1. CanReachGoal(p, c) \cap Reachable(p, c) \subseteq {} BY CanReachWithin
<1>2. QED BY <1>1, ReachableClosed

-----------------------------------------------------------------------------
\* The inductive invariant.

\* The states the current sweep has passed.
Visited == IF at = 0 THEN States ELSE 1..(at - 1)

Late == \/ phase \in {"weak", "prune", "alternate", "close", "reach", "rewrite", "check"}
        \/ result \in {"StrongCyclic", "NoPlan"}

TypeInv ==
    /\ TypeOK
    /\ problem \in Problems
    /\ phase \in {"alternate", "check"} => at = 0
    /\ phase # "done" <=> result = "None"

\* fond_policy: its region is won, and once it has settled nothing is missing.
StrongInv ==
    /\ problem.goal \subseteq winning
    /\ (phase = "strong" \/ result = "Strong") =>
          /\ \A s \in winning \ problem.goal :
                /\ s \notin problem.unsafe /\ choice[s] # NoAction
                /\ problem.out[s][choice[s]] # {} /\ problem.out[s][choice[s]] \subseteq winning
          /\ \A s \in States : choice[s] # NoAction => s \in winning \ problem.goal
          /\ winning \subseteq WonStrongly(problem, choice)
    /\ (phase = "strong" /\ ~changed) => \A s \in Visited : ~Admissible(s)
    /\ result = "Strong" => problem.initial \subseteq winning
    /\ Late => (\A s \in States : ~Admissible(s)) /\ ~(problem.initial \subseteq winning)

\* The fallback: no state of any strong-cyclic policy is ever lost.
RegionInv ==
    Late =>
    /\ problem.goal \subseteq surviving
    /\ surviving \cap problem.unsafe \subseteq problem.goal
    /\ \A s \in States : choice[s] # NoAction => s \in surviving \ problem.goal
    /\ (phase = "weak" /\ ~changed) =>
          \A s \in Visited : s \notin surviving => s \in problem.unsafe \/ ~Touches(s, surviving)
    /\ phase # "weak" =>
          \A c \in Policy : IsStrongCyclic(problem, c) => Reachable(problem, c) \subseteq surviving

\* The ranks of phase 3 fall along some outcome of a committed action.
RankInv ==
    /\ phase \in {"reach", "rewrite"} =>
          /\ reach \subseteq surviving /\ problem.goal \subseteq reach
          /\ \A s \in reach \ problem.goal : \E t \in Ahead(s) : rank[t] < rank[s]
    /\ (phase = "reach" /\ ~changed) => \A s \in Visited : s \in surviving \ reach => Ahead(s) = {}
    /\ phase = "rewrite" =>
          /\ reach = surviving /\ ~changed
          /\ \A s \in Visited : s \in surviving \ problem.goal => choice[s] \in Advancing(s)
    /\ (phase = "check" \/ result \in {"StrongCyclic", "NoPlan"}) =>
          /\ reach = surviving
          /\ \A s \in surviving \ problem.goal : choice[s] \in Advancing(s)
    /\ result = "StrongCyclic" => Covered
    /\ result = "NoPlan" => ~Covered

Grace == IF changed THEN 0 ELSE 1

\* Every round but the last of its loop admits or removes a state.
CountInv ==
    /\ phase = "strong" => rounds <= Cardinality(winning) + Grace
    /\ phase = "weak" => rounds <= Cardinality(surviving) + Grace
    /\ phase = "prune" => rounds + Cardinality(surviving) <= N + Grace
    /\ phase \in {"strong", "weak", "prune"} => outer = 0
    /\ phase = "alternate" => outer + Cardinality(surviving) <= N
    /\ phase \in {"close", "reach", "rewrite"} => outer + Cardinality(surviving) <= N + 1
    /\ result # "Failsafe"

Inv == TypeInv /\ StrongInv /\ RegionInv /\ RankInv /\ CountInv

LEMMA FirstIn ==
    ASSUME NEW A \in SUBSET Actions, A # {}
    PROVE  First(A) \in A
<1>1. A \subseteq Nat BY DEF Actions
<1>2. \E a \in A : \A b \in A : a <= b BY <1>1, LeastElement
<1>3. QED BY <1>2 DEF First

LEMMA NearestIn ==
    ASSUME TypeInv, NEW s \in States, Ahead(s) # {}
    PROVE  /\ Nearest(s) \in Nat
           /\ \E t \in Ahead(s) : rank[t] = Nearest(s)
<1> DEFINE T == {rank[t] : t \in Ahead(s)}
<1>1. Ahead(s) \subseteq States BY DEF TypeInv, TypeOK, Ahead
<1>2. T \subseteq Nat /\ T # {} BY <1>1 DEF TypeInv, TypeOK
<1>3. \E m \in T : \A n \in T : m <= n BY <1>2, LeastElement
<1>4. \E m \in T : \A t \in Ahead(s) : m <= rank[t] BY <1>3
<1>5. Nearest(s) \in T BY <1>4 DEF Nearest
<1>6. QED BY <1>2, <1>5

\* A sweep stays in range.
LEMMA AfterType ==
    ASSUME NEW s \in States
    PROVE  After(s) \in 0..N
BY AuditAssumption DEF After, States

LEMMA CommittedType ==
    ASSUME NEW s, NEW X
    PROVE  Committed(s, X) \in SUBSET Actions
BY DEF Committed

LEMMA TypeInvInductive ==
    /\ Init => TypeInv
    /\ TypeInv /\ [Next]_vars => TypeInv'
<1>1. Init => TypeInv
    BY AuditAssumption DEF Init, TypeInv, TypeOK, Phases, Results, Policy, NoChoice, NoAction, Problem, States
<1>2. ASSUME TypeInv, [Next]_vars PROVE TypeInv'
    <2> USE <1>2 DEF TypeInv, TypeOK
    <2>0. N \in Nat \ {0} /\ 1 \in 0..N BY AuditAssumption
    <2>1. CASE Deadline BY <2>1 DEF Deadline, Phases, Results, Counted
    <2>2. CASE CountedRound
        <3>0. changed' \in BOOLEAN BY <2>2 DEF CountedRound
        <3>1. rounds' \in 0..(N + 1) /\ at' \in 0..N
            <4>1. CASE rounds < N + 1
                <5>1. rounds' = rounds + 1 /\ at' = 1 BY <2>2, <4>1 DEF CountedRound
                <5>2. rounds \in 0..(N + 1) OBVIOUS
                <5>3. QED BY <2>0, <4>1, <5>1, <5>2
            <4>2. CASE ~(rounds < N + 1) BY <2>2, <4>2 DEF CountedRound
            <4>3. QED BY <4>1, <4>2
        <3>2. phase' \in Phases /\ result' \in Results /\ (phase' # "done" <=> result' = "None")
            BY <2>2 DEF CountedRound, Phases, Results, Counted
        <3>3. phase' \notin {"alternate", "check"} BY <2>2 DEF CountedRound, Counted
        <3>4. QED BY <2>2, <3>0, <3>1, <3>2, <3>3 DEF CountedRound
    <2>3. CASE FreeRound BY <2>0, <2>3 DEF FreeRound, Phases
    <2>4. CASE Alternate
        <3>0. changed' \in BOOLEAN BY <2>4 DEF Alternate
        <3>1. outer' \in 0..(N + 1) /\ at' \in 0..N
            BY <2>0, <2>4 DEF Alternate
        <3>2. phase' \in Phases /\ result' \in Results /\ (phase' # "done" <=> result' = "None")
            BY <2>4 DEF Alternate, Phases, Results
        <3>3. phase' \notin {"alternate", "check"} BY <2>4 DEF Alternate
        <3>4. QED BY <2>4, <3>0, <3>1, <3>2, <3>3 DEF Alternate
    <2>5. CASE StrongVisit
        <3>1. at \in States BY <2>5 DEF StrongVisit, States
        <3>2. Admissible(at) => First(Committed(at, winning)) \in Actions
            BY FirstIn, CommittedType DEF Admissible
        <3>3. winning' \in SUBSET States /\ choice' \in Policy /\ changed' \in BOOLEAN
            BY <2>5, <3>1, <3>2 DEF StrongVisit, Policy
        <3>4. QED BY <2>5, <3>1, <3>3, AfterType DEF StrongVisit, Phases
    <2>6. CASE StrongSolved BY <2>6 DEF StrongSolved, Phases, Results
    <2>7. CASE Fallback
        BY <2>0, <2>7 DEF Fallback, Settled, Enter, Phases, Policy, NoChoice, NoAction, Problem
    <2>8. CASE WeakVisit
        <3>1. at \in States BY <2>8 DEF WeakVisit, States
        <3>2. QED BY <2>8, <3>1, AfterType DEF WeakVisit, Phases
    <2>9. CASE WeakDone BY <2>0, <2>9 DEF WeakDone, Settled, Enter, Phases
    <2>10. CASE PruneVisit
        <3>1. at \in States BY <2>10 DEF PruneVisit, States
        <3>2. Committed(at, surviving) # {} => First(Committed(at, surviving)) \in Actions
            BY FirstIn, CommittedType
        <3>3. surviving' \in SUBSET States /\ choice' \in Policy /\ changed' \in BOOLEAN
            BY <2>10, <3>1, <3>2 DEF PruneVisit, Policy, NoAction
        <3>4. QED BY <2>10, <3>1, <3>3, AfterType DEF PruneVisit, Phases
    <2>11. CASE PruneDone BY <2>0, <2>11 DEF PruneDone, Settled, Enter, Phases
    <2>12. CASE CloseDone BY <2>0, <2>12 DEF CloseDone, Settled, Enter, Phases
    <2>13. CASE ReachVisit
        <3>1. at \in States BY <2>13 DEF ReachVisit, States
        <3>2. Ahead(at) # {} => Nearest(at) + 1 \in Nat BY <3>1, NearestIn
        <3>3. reach' \in SUBSET States /\ rank' \in [States -> Nat] /\ changed' \in BOOLEAN
            BY <2>13, <3>1, <3>2 DEF ReachVisit
        <3>4. QED BY <2>13, <3>1, <3>3, AfterType DEF ReachVisit, Phases
    <2>14. CASE ReachShrinks BY <2>0, <2>14 DEF ReachShrinks, Settled, Enter, Phases, Policy, NoAction
    <2>15. CASE ReachCloses BY <2>0, <2>15 DEF ReachCloses, Settled, Phases
    <2>16. CASE RewriteVisit
        <3>1. at \in States BY <2>16 DEF RewriteVisit, States
        <3>2. Advancing(at) # {} => First(Advancing(at)) \in Actions
            BY FirstIn, CommittedType DEF Advancing
        <3>3. surviving' \in SUBSET States /\ choice' \in Policy /\ changed' \in BOOLEAN
            BY <2>16, <3>1, <3>2 DEF RewriteVisit, Policy, NoAction
        <3>4. QED BY <2>16, <3>1, <3>3, AfterType DEF RewriteVisit, Phases
    <2>17. CASE RewriteDone BY <2>0, <2>17 DEF RewriteDone, Enter, Phases
    <2>18. CASE Check BY <2>18 DEF Check, Phases, Results
    <2>19. CASE Returned BY <2>19 DEF Returned, vars
    <2>20. CASE UNCHANGED vars BY <2>20 DEF vars
    <2>21. QED
        BY <2>1, <2>2, <2>3, <2>4, <2>5, <2>6, <2>7, <2>8, <2>9, <2>10, <2>11, <2>12, <2>13,
           <2>14, <2>15, <2>16, <2>17, <2>18, <2>19, <2>20 DEF Next
<1>3. QED BY <1>1, <1>2

-----------------------------------------------------------------------------
\* fond_policy.

LEMMA WonGrows ==
    ASSUME NEW p \in Problem, NEW c \in Policy, NEW d \in Policy,
           \A s \in States : c[s] # NoAction => d[s] = c[s]
    PROVE  WonStrongly(p, c) \subseteq WonStrongly(p, d)
<1> SUFFICES ASSUME NEW s \in WonStrongly(p, c), NEW X \in SUBSET States, p.goal \subseteq X,
                    \A t \in States \ p.goal :
                        (Outcomes(p, d, t) # {} /\ Outcomes(p, d, t) \subseteq X) => t \in X
             PROVE  s \in X
    BY DEF WonStrongly
<1>1. ASSUME NEW t \in States \ p.goal, Outcomes(p, c, t) # {}, Outcomes(p, c, t) \subseteq X
      PROVE  t \in X
    <2>1. c[t] # NoAction BY <1>1 DEF Outcomes
    <2>2. Outcomes(p, d, t) = Outcomes(p, c, t) BY <2>1 DEF Outcomes
    <2>3. QED BY <1>1, <2>2
<1>2. QED BY <1>1 DEF WonStrongly

LEMMA WonStep ==
    ASSUME NEW p \in Problem, NEW c \in Policy, NEW s \in States \ p.goal,
           Outcomes(p, c, s) # {}, Outcomes(p, c, s) \subseteq WonStrongly(p, c)
    PROVE  s \in WonStrongly(p, c)
<1> SUFFICES ASSUME NEW X \in SUBSET States, p.goal \subseteq X,
                    \A t \in States \ p.goal :
                        (Outcomes(p, c, t) # {} /\ Outcomes(p, c, t) \subseteq X) => t \in X
             PROVE  s \in X
    BY DEF WonStrongly
<1>1. WonStrongly(p, c) \subseteq X BY DEF WonStrongly
<1>2. QED BY <1>1

LEMMA VisitedType ==
    ASSUME TypeInv PROVE Visited \subseteq States
<1>1. at \in 0..N /\ N \in Nat \ {0} BY AuditAssumption DEF TypeInv, TypeOK
<1>2. QED BY <1>1 DEF Visited, States

\* At the end of a sweep every state has been passed.
LEMMA VisitedGrows ==
    ASSUME TypeInv, at # 0, at' = After(at)
    PROVE  Visited' \subseteq Visited \cup {at}
<1>1. at \in States /\ N \in Nat \ {0} BY AuditAssumption DEF TypeInv, TypeOK, States
<1>2. Visited = 1..(at - 1) BY DEF Visited
<1>3. CASE at = N
    <2>1. Visited' = States BY <1>1, <1>3 DEF Visited, After
    <2>2. QED BY <1>1, <1>2, <1>3, <2>1 DEF States
<1>4. CASE at # N
    <2>1. at' = at + 1 BY <1>4 DEF After
    <2>2. Visited' = 1..at BY <1>1, <2>1 DEF Visited, States
    <2>3. QED BY <1>1, <1>2, <2>2 DEF States
<1>5. QED BY <1>3, <1>4

LEMMA StrongInvInductive ==
    /\ Init => StrongInv
    /\ TypeInv /\ StrongInv /\ [Next]_vars => StrongInv'
<1>1. ASSUME Init PROVE StrongInv
    <2>1. problem \in Problem BY <1>1, AuditAssumption DEF Init
    <2>2. problem.goal \subseteq WonStrongly(problem, choice) BY <2>1 DEF WonStrongly, Problem
    <2>3. QED BY <1>1, <2>2 DEF Init, StrongInv, Late, NoChoice
<1>2. ASSUME TypeInv, StrongInv, [Next]_vars PROVE StrongInv'
    <2> USE <1>2 DEF StrongInv, Late
    <2>t. TypeInv' BY TypeInvInductive
    <2>1. CASE Deadline BY <2>1 DEF Deadline, Counted, TypeInv
    <2>2. CASE CountedRound
        <3>1. CASE rounds < N + 1
            <4>1. at' = 1 /\ N \in Nat BY <2>2, <3>1, AuditAssumption DEF CountedRound
            <4>2. Visited' = {} BY <4>1 DEF Visited
            <4>3. QED BY <2>2, <3>1, <4>2 DEF CountedRound, Counted, TypeInv, Admissible, Committed
        <3>2. CASE ~(rounds < N + 1) BY <2>2, <3>2 DEF CountedRound, Counted, TypeInv
        <3>3. QED BY <3>1, <3>2
    <2>3. CASE FreeRound BY <2>3 DEF FreeRound, TypeInv, Admissible, Committed
    <2>4. CASE Alternate BY <2>4 DEF Alternate, TypeInv, Admissible, Committed
    <2>5. CASE StrongVisit
        <3>0. /\ at \in States /\ problem \in Problem /\ problem' = problem /\ phase = "strong"
              /\ choice \in Policy /\ choice' \in Policy /\ result = "None" /\ UNCHANGED <<phase, result>>
            BY <2>5, <2>t DEF StrongVisit, TypeInv, TypeOK, States
        <3>1. CASE Admissible(at)
            <4> DEFINE a == First(Committed(at, winning))
            <4>1. a \in Committed(at, winning) BY <3>1, FirstIn, CommittedType DEF Admissible
            <4>2. /\ winning' = winning \cup {at} /\ changed'
                  /\ choice' = [choice EXCEPT ![at] = a]
                BY <2>5, <3>1 DEF StrongVisit
            <4>3. /\ a \in Actions /\ problem.out[at][a] # {} /\ problem.out[at][a] \subseteq winning
                  /\ at \notin problem.unsafe /\ at \notin winning
                BY <3>1, <4>1 DEF Committed, Admissible
            <4>4. a # NoAction BY <4>3 DEF Actions, NoAction
            <4>5. choice'[at] = a /\ \A s \in States \ {at} : choice'[s] = choice[s]
                BY <3>0, <4>2 DEF Policy
            <4>6. WonStrongly(problem, choice) \subseteq WonStrongly(problem, choice')
                <5>1. \A s \in States : choice[s] # NoAction => choice'[s] = choice[s]
                    BY <3>0, <4>3, <4>5
                <5>2. QED BY <3>0, <5>1, WonGrows
            <4>7. at \in WonStrongly(problem, choice')
                <5>1. at \notin problem.goal BY <4>3
                <5>2. Outcomes(problem, choice', at) = problem.out[at][a]
                    BY <4>4, <4>5, <5>1 DEF Outcomes
                <5>3. Outcomes(problem, choice', at) \subseteq WonStrongly(problem, choice')
                    BY <3>0, <4>3, <4>6, <5>2
                <5>4. QED BY <3>0, <4>3, <5>1, <5>2, <5>3, WonStep
            <4>8. winning' \subseteq WonStrongly(problem', choice')
                BY <3>0, <4>2, <4>6, <4>7
            <4>9. \A s \in winning' \ problem.goal :
                    /\ s \notin problem.unsafe /\ choice'[s] # NoAction
                    /\ problem.out[s][choice'[s]] # {} /\ problem.out[s][choice'[s]] \subseteq winning'
                BY <3>0, <4>2, <4>3, <4>4, <4>5 DEF TypeInv, TypeOK
            <4>10. \A s \in States : choice'[s] # NoAction => s \in winning' \ problem.goal
                BY <3>0, <4>2, <4>3, <4>5
            <4>11. QED BY <3>0, <4>2, <4>8, <4>9, <4>10
        <3>2. CASE ~Admissible(at)
            <4>1. UNCHANGED <<winning, choice, changed>> /\ at # 0 /\ at' = After(at)
                BY <2>5, <3>2 DEF StrongVisit
            <4>2. Visited' \subseteq Visited \cup {at} BY <4>1, VisitedGrows
            <4>3. ~changed => \A s \in Visited' : ~Admissible(s)' 
                BY <3>0, <3>2, <4>1, <4>2 DEF Admissible, Committed
            <4>4. QED BY <3>0, <4>1, <4>3
        <3>3. QED BY <3>1, <3>2
    <2>6. CASE StrongSolved BY <2>6 DEF StrongSolved, Settled, TypeInv
    <2>7. CASE Fallback
        <3>1. \A s \in States : ~Admissible(s) BY <2>7 DEF Fallback, Settled, Visited
        <3>2. QED BY <2>7, <3>1 DEF Fallback, Settled, Enter, TypeInv, Admissible, Committed
    <2>8. CASE WeakVisit BY <2>8 DEF WeakVisit, TypeInv, Admissible, Committed
    <2>9. CASE WeakDone BY <2>9 DEF WeakDone, Settled, Enter, TypeInv, Admissible, Committed
    <2>10. CASE PruneVisit BY <2>10 DEF PruneVisit, TypeInv, Admissible, Committed
    <2>11. CASE PruneDone BY <2>11 DEF PruneDone, Settled, Enter, TypeInv, Admissible, Committed
    <2>12. CASE CloseDone BY <2>12 DEF CloseDone, Settled, Enter, TypeInv, Admissible, Committed
    <2>13. CASE ReachVisit BY <2>13 DEF ReachVisit, TypeInv, Admissible, Committed
    <2>14. CASE ReachShrinks BY <2>14 DEF ReachShrinks, Settled, Enter, TypeInv, Admissible, Committed
    <2>15. CASE ReachCloses BY <2>15 DEF ReachCloses, Settled, TypeInv, Admissible, Committed
    <2>16. CASE RewriteVisit BY <2>16 DEF RewriteVisit, TypeInv, Admissible, Committed
    <2>17. CASE RewriteDone BY <2>17 DEF RewriteDone, Enter, TypeInv, Admissible, Committed
    <2>18. CASE Check BY <2>18 DEF Check, TypeInv, Admissible, Committed
    <2>19. CASE Returned BY <2>19 DEF Returned, vars, Visited, Admissible, Committed
    <2>20. CASE UNCHANGED vars BY <2>20 DEF vars, Visited, Admissible, Committed
    <2>21. QED
        BY <2>1, <2>2, <2>3, <2>4, <2>5, <2>6, <2>7, <2>8, <2>9, <2>10, <2>11, <2>12, <2>13,
           <2>14, <2>15, <2>16, <2>17, <2>18, <2>19, <2>20 DEF Next
<1>3. QED BY <1>1, <1>2

-----------------------------------------------------------------------------
\* fond_policy_strong_cyclic: the ranks.

LEMMA AdvancingIn ==
    ASSUME TypeInv, RankInv, phase = "rewrite", NEW s \in surviving \ problem.goal
    PROVE  Advancing(s) # {}
<1>1. s \in reach \ problem.goal BY DEF RankInv
<1>2. PICK t \in Ahead(s) : rank[t] < rank[s] BY <1>1 DEF RankInv
<1>3. PICK a \in Committed(s, surviving) : t \in problem.out[s][a] BY <1>2 DEF Ahead
<1>4. a \in Advancing(s) BY <1>1, <1>2, <1>3 DEF Advancing, Ahead
<1>5. QED BY <1>4

LEMMA RankInvInductive ==
    /\ Init => RankInv
    /\ TypeInv /\ RegionInv /\ RankInv /\ [Next]_vars => RankInv'
<1>1. Init => RankInv BY DEF Init, RankInv
<1>2. ASSUME TypeInv, RegionInv, RankInv, [Next]_vars PROVE RankInv'
    <2> USE <1>2 DEF RankInv
    <2>t. TypeInv' BY TypeInvInductive
    <2>1. CASE Deadline BY <2>1 DEF Deadline, Counted, TypeInv
    <2>2. CASE CountedRound BY <2>2 DEF CountedRound, Counted, TypeInv
    <2>3. CASE FreeRound
        <3>1. Visited' = {}
            <4>1. at' = 1 /\ N \in Nat BY <2>3, AuditAssumption DEF FreeRound
            <4>2. QED BY <4>1 DEF Visited
        <3>2. QED BY <2>3, <3>1 DEF FreeRound, TypeInv, Ahead, Committed
    <2>4. CASE Alternate BY <2>4 DEF Alternate, TypeInv
    <2>5. CASE StrongVisit BY <2>5 DEF StrongVisit, TypeInv
    <2>6. CASE StrongSolved BY <2>6 DEF StrongSolved, Settled, TypeInv
    <2>7. CASE Fallback BY <2>7 DEF Fallback, Settled, Enter, TypeInv
    <2>8. CASE WeakVisit BY <2>8 DEF WeakVisit, TypeInv
    <2>9. CASE WeakDone BY <2>9 DEF WeakDone, Settled, Enter, TypeInv
    <2>10. CASE PruneVisit BY <2>10 DEF PruneVisit, TypeInv
    <2>11. CASE PruneDone BY <2>11 DEF PruneDone, Settled, Enter, TypeInv
    <2>12. CASE CloseDone
        <3>1. problem.goal \subseteq surviving BY <2>12 DEF RegionInv, Late, CloseDone, Settled
        <3>2. /\ reach' = problem.goal /\ surviving' = surviving /\ problem' = problem
              /\ phase' = "reach" /\ changed' /\ result' = "None"
            BY <2>12, <3>1 DEF CloseDone, Settled, Enter, TypeInv
        <3>3. QED BY <3>1, <3>2
    <2>13. CASE ReachVisit
        <3>0. /\ at \in States /\ phase = "reach" /\ result = "None" /\ at # 0 /\ at' = After(at)
              /\ UNCHANGED <<problem, phase, surviving, choice, result>>
            BY <2>13 DEF ReachVisit, TypeInv, TypeOK, States
        <3>1. CASE at \in surviving \ reach /\ Ahead(at) # {}
            <4>1. /\ reach' = reach \cup {at} /\ changed'
                  /\ rank' = [rank EXCEPT ![at] = Nearest(at) + 1]
                BY <2>13, <3>1 DEF ReachVisit
            <4>2. /\ rank'[at] = Nearest(at) + 1 /\ \A t \in States \ {at} : rank'[t] = rank[t]
                BY <3>0, <4>1 DEF TypeInv, TypeOK
            <4>3. \A s \in States : Ahead(s) \subseteq Ahead(s)'
                BY <3>0, <4>1 DEF Ahead, Committed
            <4>4. \A s \in States : Ahead(s) \subseteq reach /\ reach \subseteq States
                BY DEF Ahead, TypeInv, TypeOK
            <4>5. ASSUME NEW s \in reach' \ problem.goal
                  PROVE  \E t \in Ahead(s)' : rank'[t] < rank'[s]
                <5>1. CASE s = at
                    <6>1. PICK t \in Ahead(at) : rank[t] = Nearest(at) /\ Nearest(at) \in Nat
                        BY <3>0, <3>1, NearestIn
                    <6>2. t # at /\ t \in States BY <3>0, <3>1, <4>4, <6>1
                    <6>3. rank'[t] < rank'[at] BY <4>2, <6>1, <6>2
                    <6>4. QED BY <3>0, <4>3, <5>1, <6>1, <6>3
                <5>2. CASE s # at
                    <6>1. s \in reach \ problem.goal /\ s \in States BY <4>1, <4>4, <5>2, <3>0
                    <6>2. PICK t \in Ahead(s) : rank[t] < rank[s] BY <3>0, <6>1
                    <6>3. t \in reach /\ t \in States BY <4>4, <6>1, <6>2
                    <6>4. rank'[t] = rank[t] /\ rank'[s] = rank[s] BY <3>1, <4>2, <5>2, <6>1, <6>3
                    <6>5. QED BY <4>3, <6>1, <6>2, <6>4
                <5>3. QED BY <5>1, <5>2
            <4>6. reach' \subseteq surviving' /\ problem'.goal \subseteq reach'
                BY <3>0, <3>1, <4>1
            <4>7. QED BY <3>0, <4>1, <4>5, <4>6
        <3>2. CASE ~(at \in surviving \ reach /\ Ahead(at) # {})
            <4>1. UNCHANGED <<reach, rank, changed>> BY <2>13, <3>2 DEF ReachVisit
            <4>2. Visited' \subseteq Visited \cup {at} BY <3>0, VisitedGrows
            <4>3. \A s : Ahead(s)' = Ahead(s) BY <3>0, <4>1 DEF Ahead, Committed
            <4>4. ~changed => \A s \in Visited' : s \in surviving \ reach => Ahead(s) = {}
                BY <3>0, <3>2, <4>2
            <4>5. QED BY <3>0, <4>1, <4>3, <4>4
        <3>3. QED BY <3>1, <3>2
    <2>14. CASE ReachShrinks BY <2>14 DEF ReachShrinks, Settled, Enter, TypeInv
    <2>15. CASE ReachCloses
        <3>1. reach = surviving
            <4>1. IsFiniteSet(States) BY AuditAssumption, FS_Interval DEF States
            <4>2. surviving \in SUBSET States /\ reach \in SUBSET surviving
                BY <2>15 DEF TypeInv, TypeOK, ReachCloses, Settled
            <4>3. IsFiniteSet(surviving) BY <4>1, <4>2, FS_Subset
            <4>4. QED BY <2>15, <4>2, <4>3, FS_Subset DEF ReachCloses
        <3>2. Visited' = {}
            <4>1. at' = 1 /\ N \in Nat BY <2>15, AuditAssumption DEF ReachCloses
            <4>2. QED BY <4>1 DEF Visited
        <3>3. \A s : Ahead(s)' = Ahead(s) BY <2>15 DEF ReachCloses, Ahead, Committed
        <3>4. QED BY <2>15, <3>1, <3>2, <3>3 DEF ReachCloses, Settled, TypeInv
    <2>16. CASE RewriteVisit
        <3>0. /\ at \in States /\ phase = "rewrite" /\ result = "None" /\ at # 0 /\ at' = After(at)
              /\ UNCHANGED <<problem, phase, reach, rank, result>>
            BY <2>16 DEF RewriteVisit, TypeInv, TypeOK, States
        <3>1. at \in surviving \ problem.goal => Advancing(at) # {} BY <3>0, AdvancingIn
        <3>2. UNCHANGED <<surviving, changed>> BY <2>16, <3>1 DEF RewriteVisit
        <3>3. \A s \in States : Ahead(s)' = Ahead(s) /\ Advancing(s)' = Advancing(s)
            BY <3>0, <3>2 DEF Ahead, Advancing, Committed
        <3>4. Visited' \subseteq Visited \cup {at} BY <3>0, VisitedGrows
        <3>5. \A s \in Visited : s \in States BY VisitedType
        <3>6. ASSUME NEW s \in Visited', s \in surviving \ problem.goal
              PROVE  choice'[s] \in Advancing(s)
            <4>1. CASE s = at
                <5>1. choice'[at] = First(Advancing(at))
                    BY <2>16, <3>0, <3>1, <3>6, <4>1 DEF RewriteVisit, TypeInv, TypeOK, Policy
                <5>2. First(Advancing(at)) \in Advancing(at)
                    BY <3>1, <3>6, <4>1, FirstIn, CommittedType DEF Advancing
                <5>3. QED BY <4>1, <5>1, <5>2
            <4>2. CASE s # at
                <5>1. choice'[s] = choice[s]
                    BY <2>16, <3>0, <3>1, <3>6, <4>2 DEF RewriteVisit, TypeInv, TypeOK, Policy
                <5>2. QED BY <3>0, <3>4, <3>6, <4>2, <5>1
            <4>3. QED BY <4>1, <4>2
        <3>7. reach \subseteq States BY DEF TypeInv, TypeOK
        <3>8. QED BY <3>0, <3>2, <3>3, <3>4, <3>5, <3>6, <3>7
    <2>17. CASE RewriteDone
        <3>1. Visited = States /\ surviving \subseteq States
            BY <2>17 DEF RewriteDone, Visited, TypeInv, TypeOK
        <3>2. ~changed BY <2>17 DEF RewriteDone
        <3>3. QED BY <2>17, <3>1, <3>2 DEF RewriteDone, Enter, TypeInv, Advancing, Committed
    <2>18. CASE Check
        <3>1. OutcomesClosed
            <4>1. ASSUME NEW s \in surviving \ problem.goal
                  PROVE  /\ choice[s] # NoAction
                         /\ \A t \in problem.out[s][choice[s]] \ problem.goal :
                                t \in surviving /\ choice[t] # NoAction
                <5>1. \A t \in surviving \ problem.goal :
                        /\ choice[t] \in Actions
                        /\ problem.out[t][choice[t]] \subseteq surviving
                    BY <2>18 DEF Check, Advancing, Committed
                <5>2. QED BY <4>1, <5>1 DEF Actions, NoAction
            <4>2. QED BY <4>1 DEF OutcomesClosed
        <3>2. \A s : Advancing(s)' = Advancing(s) BY <2>18 DEF Check, Advancing, Committed
        <3>3. Covered' <=> Covered BY <2>18 DEF Check, Covered
        <3>4. QED BY <2>18, <3>1, <3>2, <3>3 DEF Check
    <2>19. CASE Returned BY <2>19 DEF Returned, vars, Advancing, Committed, Covered
    <2>20. CASE UNCHANGED vars BY <2>20 DEF vars, Visited, Ahead, Advancing, Committed, Covered
    <2>21. QED
        BY <2>1, <2>2, <2>3, <2>4, <2>5, <2>6, <2>7, <2>8, <2>9, <2>10, <2>11, <2>12, <2>13,
           <2>14, <2>15, <2>16, <2>17, <2>18, <2>19, <2>20 DEF Next
<1>3. QED BY <1>1, <1>2

-----------------------------------------------------------------------------
\* fond_policy_strong_cyclic: no solution is lost.

\* What a strong-cyclic policy does in a state it reaches short of a goal.
LEMMA SolutionStep ==
    ASSUME NEW p \in Problem, NEW c \in Policy, IsStrongCyclic(p, c),
           NEW s \in Reachable(p, c) \ p.goal
    PROVE  /\ s \in States /\ s \notin p.unsafe /\ c[s] \in Actions
           /\ Outcomes(p, c, s) = p.out[s][c[s]]
           /\ p.out[s][c[s]] # {} /\ p.out[s][c[s]] \subseteq Reachable(p, c)
<1>1. s \in States BY ReachableClosed
<1>2. Outcomes(p, c, s) # {} /\ s \notin p.unsafe BY DEF IsStrongCyclic, Admitted
<1>3. c[s] # NoAction /\ Outcomes(p, c, s) = p.out[s][c[s]] BY <1>2 DEF Outcomes
<1>4. c[s] \in Actions BY <1>1, <1>3 DEF Policy
<1>5. QED BY <1>1, <1>2, <1>3, <1>4, ReachableClosed

\* A region that holds the goals and is left by no committed step towards it
\* holds whatever a strong-cyclic policy reaches.
LEMMA SolutionWithin ==
    ASSUME NEW p \in Problem, NEW c \in Policy, IsStrongCyclic(p, c),
           NEW W \in SUBSET States, p.goal \subseteq W,
           \A t \in Reachable(p, c) \ p.goal : p.out[t][c[t]] \cap W # {} => t \in W
    PROVE  Reachable(p, c) \subseteq W
<1>1. \A t \in Reachable(p, c) \ p.goal : Outcomes(p, c, t) \cap W # {} => t \in W
    BY SolutionStep
<1>2. CanReachGoal(p, c) \cap Reachable(p, c) \subseteq W BY <1>1, CanReachWithin
<1>3. QED BY <1>2 DEF IsStrongCyclic

LEMMA RegionInvInductive ==
    /\ Init => RegionInv
    /\ TypeInv /\ RegionInv /\ RankInv /\ [Next]_vars => RegionInv'
<1>1. Init => RegionInv BY DEF Init, RegionInv, Late
<1>2. ASSUME TypeInv, RegionInv, RankInv, [Next]_vars PROVE RegionInv'
    <2> USE <1>2 DEF RegionInv, Late
    <2>t. TypeInv' /\ problem \in Problem BY TypeInvInductive DEF TypeInv, TypeOK
    <2>1. CASE Deadline BY <2>1 DEF Deadline, Counted, TypeInv
    <2>2. CASE CountedRound
        <3>1. CASE rounds < N + 1
            <4>1. at' = 1 /\ N \in Nat BY <2>2, <3>1, AuditAssumption DEF CountedRound
            <4>2. Visited' = {} BY <4>1 DEF Visited
            <4>3. QED BY <2>2, <3>1, <4>2 DEF CountedRound, Counted, TypeInv
        <3>2. CASE ~(rounds < N + 1) BY <2>2, <3>2 DEF CountedRound, Counted, TypeInv
        <3>3. QED BY <3>1, <3>2
    <2>3. CASE FreeRound BY <2>3 DEF FreeRound, TypeInv
    <2>4. CASE Alternate BY <2>4 DEF Alternate, TypeInv
    <2>5. CASE StrongVisit BY <2>5 DEF StrongVisit, TypeInv
    <2>6. CASE StrongSolved BY <2>6 DEF StrongSolved, Settled, TypeInv
    <2>7. CASE Fallback BY <2>7 DEF Fallback, Settled, Enter, TypeInv, NoChoice
    <2>8. CASE WeakVisit
        <3>0. /\ at \in States /\ phase = "weak" /\ result = "None" /\ at # 0 /\ at' = After(at)
              /\ UNCHANGED <<problem, phase, choice, result>>
            BY <2>8 DEF WeakVisit, TypeInv, TypeOK, States
        <3>1. CASE at \notin surviving /\ at \notin problem.unsafe /\ Touches(at, surviving)
            BY <2>8, <3>0, <3>1 DEF WeakVisit
        <3>2. CASE ~(at \notin surviving /\ at \notin problem.unsafe /\ Touches(at, surviving))
            <4>1. UNCHANGED <<surviving, changed>> BY <2>8, <3>2 DEF WeakVisit
            <4>2. Visited' \subseteq Visited \cup {at} BY <3>0, VisitedGrows
            <4>3. ~changed => \A s \in Visited' : s \notin surviving =>
                                s \in problem.unsafe \/ ~Touches(s, surviving)
                BY <3>0, <3>2, <4>2
            <4>4. QED BY <3>0, <4>1, <4>3 DEF Touches
        <3>3. QED BY <3>1, <3>2
    <2>9. CASE WeakDone
        <3>1. ASSUME NEW c \in Policy, IsStrongCyclic(problem, c)
              PROVE  Reachable(problem, c) \subseteq surviving
            <4>1. Visited = States BY <2>9 DEF WeakDone, Settled, Visited
            <4>2. ASSUME NEW t \in Reachable(problem, c) \ problem.goal,
                         problem.out[t][c[t]] \cap surviving # {}
                  PROVE  t \in surviving
                <5>1. t \in States /\ t \notin problem.unsafe /\ c[t] \in Actions
                    BY <2>t, <3>1, SolutionStep
                <5>2. Touches(t, surviving) BY <4>2, <5>1 DEF Touches
                <5>3. QED BY <2>9, <4>1, <5>1, <5>2 DEF WeakDone, Settled
            <4>3. problem.goal \subseteq surviving /\ surviving \in SUBSET States
                BY <2>9 DEF WeakDone, Settled, TypeInv, TypeOK
            <4>4. QED BY <2>t, <3>1, <4>2, <4>3, SolutionWithin
        <3>2. QED BY <2>9, <3>1 DEF WeakDone, Settled, Enter, TypeInv
    <2>10. CASE PruneVisit
        <3>0. /\ at \in States /\ phase \in {"prune", "close"} /\ result = "None"
              /\ UNCHANGED <<problem, phase, result>>
            BY <2>10 DEF PruneVisit, TypeInv, TypeOK, States
        <3>1. CASE at \notin surviving \/ at \in problem.goal
            BY <2>10, <3>0, <3>1 DEF PruneVisit
        <3>2. CASE at \in surviving \ problem.goal /\ Committed(at, surviving) # {}
            <4>1. surviving' = surviving /\ choice' = [choice EXCEPT ![at] = First(Committed(at, surviving))]
                BY <2>10, <3>2 DEF PruneVisit
            <4>2. \A s \in States \ {at} : choice'[s] = choice[s]
                BY <4>1 DEF TypeInv, TypeOK, Policy
            <4>3. QED BY <3>0, <3>2, <4>1, <4>2
        <3>3. CASE at \in surviving \ problem.goal /\ Committed(at, surviving) = {}
            <4>1. surviving' = surviving \ {at} /\ choice' = [choice EXCEPT ![at] = NoAction]
                BY <2>10, <3>3 DEF PruneVisit
            <4>2. choice'[at] = NoAction /\ \A s \in States \ {at} : choice'[s] = choice[s]
                BY <3>0, <4>1 DEF TypeInv, TypeOK, Policy
            <4>3. ASSUME NEW c \in Policy, IsStrongCyclic(problem, c), at \in Reachable(problem, c)
                  PROVE  FALSE
                <5>1. /\ c[at] \in Actions /\ problem.out[at][c[at]] # {}
                      /\ problem.out[at][c[at]] \subseteq Reachable(problem, c)
                    BY <2>t, <3>3, <4>3, SolutionStep
                <5>2. Reachable(problem, c) \subseteq surviving BY <3>0, <4>3
                <5>3. c[at] \in Committed(at, surviving) BY <5>1, <5>2 DEF Committed
                <5>4. QED BY <3>3, <5>3
            <4>4. \A c \in Policy : IsStrongCyclic(problem, c) => Reachable(problem, c) \subseteq surviving'
                BY <3>0, <4>1, <4>3
            <4>5. QED BY <3>0, <3>3, <4>1, <4>2, <4>4
        <3>4. QED BY <3>1, <3>2, <3>3
    <2>11. CASE PruneDone BY <2>11 DEF PruneDone, Settled, Enter, TypeInv
    <2>12. CASE CloseDone BY <2>12 DEF CloseDone, Settled, Enter, TypeInv
    <2>13. CASE ReachVisit BY <2>13 DEF ReachVisit, TypeInv
    <2>14. CASE ReachShrinks
        <3>0. /\ phase = "reach" /\ result = "None" /\ Visited = States /\ reach \subseteq surviving
              /\ problem.goal \subseteq reach /\ reach \in SUBSET States
              /\ \A s \in States : s \in surviving \ reach => Ahead(s) = {}
            BY <2>14 DEF ReachShrinks, Settled, Visited, RankInv, TypeInv, TypeOK
        <3>1. ASSUME NEW c \in Policy, IsStrongCyclic(problem, c)
              PROVE  Reachable(problem, c) \subseteq reach
            <4>1. Reachable(problem, c) \subseteq surviving BY <3>0, <3>1
            <4>2. ASSUME NEW t \in Reachable(problem, c) \ problem.goal,
                         problem.out[t][c[t]] \cap reach # {}
                  PROVE  t \in reach
                <5>1. /\ t \in States /\ c[t] \in Actions /\ problem.out[t][c[t]] # {}
                      /\ problem.out[t][c[t]] \subseteq Reachable(problem, c)
                    BY <2>t, <3>1, SolutionStep
                <5>2. c[t] \in Committed(t, surviving) BY <4>1, <5>1 DEF Committed
                <5>3. Ahead(t) # {} BY <4>2, <5>2 DEF Ahead
                <5>4. QED BY <3>0, <4>1, <5>1, <5>3
            <4>3. QED BY <2>t, <3>0, <3>1, <4>2, SolutionWithin
        <3>2. \A s \in States : choice'[s] # NoAction => s \in reach \ problem.goal
            BY <2>14, <3>0 DEF ReachShrinks
        <3>3. /\ surviving' = reach /\ phase' = "alternate" /\ problem' = problem /\ result' = result
            BY <2>14 DEF ReachShrinks, Enter
        <3>4. surviving \cap problem.unsafe \subseteq problem.goal BY <3>0
        <3>5. QED BY <3>0, <3>1, <3>2, <3>3, <3>4
    <2>15. CASE ReachCloses BY <2>15 DEF ReachCloses, Settled, TypeInv
    <2>16. CASE RewriteVisit
        <3>0. /\ at \in States /\ phase = "rewrite" /\ result = "None"
              /\ UNCHANGED <<problem, phase, result>>
            BY <2>16 DEF RewriteVisit, TypeInv, TypeOK, States
        <3>1. at \in surviving \ problem.goal => Advancing(at) # {} BY <3>0, AdvancingIn
        <3>2. surviving' = surviving BY <2>16, <3>1 DEF RewriteVisit
        <3>3. \A s \in States : choice'[s] # NoAction => s \in surviving \ problem.goal
            BY <2>16, <3>0, <3>1 DEF RewriteVisit, TypeInv, TypeOK, Policy
        <3>4. QED BY <3>0, <3>2, <3>3
    <2>17. CASE RewriteDone BY <2>17 DEF RewriteDone, Enter, TypeInv
    <2>18. CASE Check BY <2>18 DEF Check, TypeInv
    <2>19. CASE Returned BY <2>19 DEF Returned, vars, Visited, Touches
    <2>20. CASE UNCHANGED vars BY <2>20 DEF vars, Visited, Touches
    <2>21. QED
        BY <2>1, <2>2, <2>3, <2>4, <2>5, <2>6, <2>7, <2>8, <2>9, <2>10, <2>11, <2>12, <2>13,
           <2>14, <2>15, <2>16, <2>17, <2>18, <2>19, <2>20 DEF Next
<1>3. QED BY <1>1, <1>2

-----------------------------------------------------------------------------
\* The rounds.

LEMMA SetSizes ==
    ASSUME NEW S \in SUBSET States
    PROVE  /\ IsFiniteSet(S) /\ Cardinality(S) \in 0..N
           /\ \A x \in States \ S : Cardinality(S \cup {x}) = Cardinality(S) + 1
           /\ \A x \in S : Cardinality(S \ {x}) = Cardinality(S) - 1
           /\ \A T \in SUBSET S : /\ Cardinality(T) \in Nat /\ Cardinality(T) <= Cardinality(S)
<1>1. IsFiniteSet(States) /\ Cardinality(States) = N
    BY AuditAssumption, FS_Interval DEF States
<1>2. IsFiniteSet(S) /\ Cardinality(S) <= N BY <1>1, FS_Subset
<1>3. Cardinality(S) \in Nat BY <1>2, FS_CardinalityType
<1>4. \A T \in SUBSET S : Cardinality(T) \in Nat /\ Cardinality(T) <= Cardinality(S)
    BY <1>2, FS_Subset, FS_CardinalityType
<1>5. \A x \in States \ S : Cardinality(S \cup {x}) = Cardinality(S) + 1 BY <1>2, FS_AddElement
<1>6. \A x \in S : Cardinality(S \ {x}) = Cardinality(S) - 1 BY <1>2, FS_RemoveElement
<1>7. QED BY <1>2, <1>3, <1>4, <1>5, <1>6, AuditAssumption

LEMMA CountInvInductive ==
    /\ Init => CountInv
    /\ TypeInv /\ RankInv /\ CountInv /\ [Next]_vars => CountInv'
<1>1. ASSUME Init PROVE CountInv
    <2>1. problem.goal \in SUBSET States BY <1>1, AuditAssumption DEF Init, Problem
    <2>2. Cardinality(problem.goal) \in 0..N BY <2>1, SetSizes
    <2>3. QED BY <1>1, <2>2 DEF Init, CountInv, Grace
<1>2. ASSUME TypeInv, RankInv, CountInv, [Next]_vars PROVE CountInv'
    <2> USE <1>2 DEF CountInv
    <2>n. N \in Nat /\ rounds \in Nat /\ outer \in Nat /\ at \in 0..N
        BY AuditAssumption DEF TypeInv, TypeOK
    <2>w. winning \in SUBSET States /\ surviving \in SUBSET States /\ reach \in SUBSET States
        BY DEF TypeInv, TypeOK
    <2>c. Cardinality(winning) \in 0..N /\ Cardinality(surviving) \in 0..N /\ Cardinality(reach) \in 0..N
        BY <2>w, SetSizes
    <2>g. /\ changed => Grace = 0
          /\ ~changed => Grace = 1
          /\ changed' => Grace' = 0
          /\ ~changed' => Grace' = 1
        BY DEF Grace
    <2>r. Grace \in {0, 1} /\ Grace' \in {0, 1} BY DEF Grace
    <2>1. CASE Deadline BY <2>1 DEF Deadline
    <2>2. CASE CountedRound
        <3>1. rounds <= N BY <2>2, <2>n, <2>c, <2>g DEF CountedRound, Counted
        <3>2. /\ rounds' = rounds + 1 /\ ~changed' /\ changed
              /\ UNCHANGED <<phase, outer, winning, surviving, result>>
            <4>1. rounds < N + 1 BY <2>n, <3>1
            <4>2. QED BY <2>2, <4>1 DEF CountedRound
        <3>3. Grace = 0 /\ Grace' = 1 BY <2>g, <3>2
        <3>4. phase \in {"strong", "weak", "prune"} BY <2>2 DEF CountedRound, Counted
        <3>5. QED BY <2>n, <2>c, <3>2, <3>3, <3>4
    <2>3. CASE FreeRound
        <3>1. phase \in {"close", "reach"} /\ UNCHANGED <<phase, outer, surviving, result>>
            BY <2>3 DEF FreeRound
        <3>2. QED BY <3>1
    <2>4. CASE Alternate
        <3>1. outer < N + 1 BY <2>4, <2>n, <2>c DEF Alternate
        <3>2. /\ outer' = outer + 1 /\ phase' = "close" /\ phase = "alternate"
              /\ UNCHANGED <<surviving, result>>
            BY <2>4, <3>1 DEF Alternate
        <3>3. QED BY <2>n, <2>c, <3>2
    <2>5. CASE StrongVisit
        <3>0. phase = "strong" /\ UNCHANGED <<phase, rounds, outer, result>> /\ at \in States
            BY <2>5, <2>n DEF StrongVisit, States
        <3>1. CASE Admissible(at)
            <4>1. winning' = winning \cup {at} /\ changed' /\ at \notin winning
                BY <2>5, <3>1 DEF StrongVisit, Admissible
            <4>2. Cardinality(winning') = Cardinality(winning) + 1 BY <2>w, <3>0, <4>1, SetSizes
            <4>3. QED BY <2>n, <2>c, <2>g, <2>r, <3>0, <4>1, <4>2
        <3>2. CASE ~Admissible(at)
            <4>1. UNCHANGED <<winning, changed>> BY <2>5, <3>2 DEF StrongVisit
            <4>2. Grace' = Grace BY <4>1 DEF Grace
            <4>3. QED BY <3>0, <4>1, <4>2
        <3>3. QED BY <3>1, <3>2
    <2>6. CASE StrongSolved BY <2>6 DEF StrongSolved, Settled
    <2>7. CASE Fallback
        <3>1. /\ phase = "strong" /\ phase' = "weak" /\ rounds' = 0 /\ surviving' = problem.goal
              /\ UNCHANGED <<outer, result>>
            BY <2>7 DEF Fallback, Settled, Enter
        <3>2. problem.goal \in SUBSET States BY DEF TypeInv, TypeOK, Problem
        <3>3. Cardinality(surviving') \in 0..N BY <3>1, <3>2, SetSizes
        <3>4. QED BY <2>r, <3>1, <3>3
    <2>8. CASE WeakVisit
        <3>0. phase = "weak" /\ UNCHANGED <<phase, rounds, outer, result>> /\ at \in States
            BY <2>8, <2>n DEF WeakVisit, States
        <3>1. CASE at \notin surviving /\ at \notin problem.unsafe /\ Touches(at, surviving)
            <4>1. surviving' = surviving \cup {at} /\ changed' BY <2>8, <3>1 DEF WeakVisit
            <4>2. Cardinality(surviving') = Cardinality(surviving) + 1
                BY <2>w, <3>0, <3>1, <4>1, SetSizes
            <4>3. QED BY <2>n, <2>c, <2>g, <2>r, <3>0, <4>1, <4>2
        <3>2. CASE ~(at \notin surviving /\ at \notin problem.unsafe /\ Touches(at, surviving))
            <4>1. UNCHANGED <<surviving, changed>> BY <2>8, <3>2 DEF WeakVisit
            <4>2. Grace' = Grace BY <4>1 DEF Grace
            <4>3. QED BY <3>0, <4>1, <4>2
        <3>3. QED BY <3>1, <3>2
    <2>9. CASE WeakDone
        <3>1. /\ phase = "weak" /\ phase' = "prune" /\ rounds' = 0 /\ UNCHANGED <<outer, surviving, result>>
            BY <2>9 DEF WeakDone, Settled, Enter
        <3>2. QED BY <2>n, <2>c, <2>r, <3>1
    <2>10. CASE PruneVisit
        <3>0. /\ phase \in {"prune", "close"} /\ UNCHANGED <<phase, rounds, outer, result>>
              /\ surviving' \in SUBSET surviving
            BY <2>10 DEF PruneVisit
        <3>1. Cardinality(surviving') \in Nat /\ Cardinality(surviving') <= Cardinality(surviving)
            BY <2>w, <3>0, SetSizes
        <3>2. CASE UNCHANGED <<surviving, changed>>
            <4>1. Grace' = Grace BY <3>2 DEF Grace
            <4>2. QED BY <3>0, <3>2, <4>1
        <3>3. CASE ~UNCHANGED <<surviving, changed>>
            <4>1. surviving' = surviving \ {at} /\ changed' /\ at \in surviving
                BY <2>10, <3>3 DEF PruneVisit
            <4>2. Cardinality(surviving') = Cardinality(surviving) - 1 BY <2>w, <4>1, SetSizes
            <4>3. QED BY <2>n, <2>c, <2>g, <2>r, <3>0, <4>1, <4>2
        <3>4. QED BY <3>2, <3>3
    <2>11. CASE PruneDone
        <3>1. /\ phase = "prune" /\ phase' = "alternate" /\ UNCHANGED <<outer, surviving, result>>
            BY <2>11 DEF PruneDone, Settled, Enter
        <3>2. QED BY <2>n, <2>c, <3>1
    <2>12. CASE CloseDone
        <3>1. phase = "close" /\ phase' = "reach" /\ UNCHANGED <<outer, surviving, result>>
            BY <2>12 DEF CloseDone, Settled, Enter
        <3>2. QED BY <3>1
    <2>13. CASE ReachVisit BY <2>13 DEF ReachVisit
    <2>14. CASE ReachShrinks
        <3>1. /\ phase = "reach" /\ phase' = "alternate" /\ surviving' = reach
              /\ reach \in SUBSET surviving /\ Cardinality(reach) # Cardinality(surviving)
              /\ UNCHANGED <<outer, result>>
            BY <2>14 DEF ReachShrinks, Settled, Enter, RankInv
        <3>2. Cardinality(reach) <= Cardinality(surviving) BY <2>w, <3>1, SetSizes
        <3>3. QED BY <2>n, <2>c, <3>1, <3>2
    <2>15. CASE ReachCloses BY <2>15 DEF ReachCloses, Settled
    <2>16. CASE RewriteVisit
        <3>0. /\ phase = "rewrite" /\ UNCHANGED <<phase, outer, result>>
              /\ surviving' \in SUBSET surviving
            BY <2>16 DEF RewriteVisit
        <3>1. Cardinality(surviving') \in Nat /\ Cardinality(surviving') <= Cardinality(surviving)
            BY <2>w, <3>0, SetSizes
        <3>2. QED BY <2>n, <2>c, <3>0, <3>1
    <2>17. CASE RewriteDone
        <3>1. phase = "rewrite" /\ ~changed BY <2>17 DEF RewriteDone, RankInv
        <3>2. phase' = "check" /\ result' = result BY <2>17, <3>1 DEF RewriteDone, Enter
        <3>3. QED BY <3>2
    <2>18. CASE Check BY <2>18 DEF Check
    <2>19. CASE Returned BY <2>19 DEF Returned, vars, Grace
    <2>20. CASE UNCHANGED vars BY <2>20 DEF vars, Grace
    <2>21. QED
        BY <2>1, <2>2, <2>3, <2>4, <2>5, <2>6, <2>7, <2>8, <2>9, <2>10, <2>11, <2>12, <2>13,
           <2>14, <2>15, <2>16, <2>17, <2>18, <2>19, <2>20 DEF Next
<1>3. QED BY <1>1, <1>2

-----------------------------------------------------------------------------
\* What the invariant says of the answers.

LEMMA InvInductive ==
    /\ Init => Inv
    /\ Inv /\ [Next]_vars => Inv'
BY TypeInvInductive, StrongInvInductive, RegionInvInductive, RankInvInductive, CountInvInductive DEF Inv

LEMMA Invariance == Spec => []Inv
<1>1. QED BY InvInductive, PTL DEF Spec

\* Where the strong solver settled short of an initial state, nobody is strong.
LEMMA NoneStrong ==
    ASSUME Inv, Late, NEW c \in Policy
    PROVE  ~IsStrong(problem, c)
<1> SUFFICES ASSUME IsStrong(problem, c) PROVE FALSE
    OBVIOUS
<1>1. problem \in Problem /\ winning \in SUBSET States BY DEF Inv, TypeInv, TypeOK
<1>2. problem.goal \subseteq winning /\ (\A s \in States : ~Admissible(s))
      /\ ~(problem.initial \subseteq winning)
    BY DEF Inv, StrongInv
<1>3. ASSUME NEW t \in Reachable(problem, c) \ problem.goal,
             Outcomes(problem, c, t) # {}, Outcomes(problem, c, t) \subseteq winning
      PROVE  t \in winning
    <2>1. t \in States BY <1>1, ReachableClosed
    <2>2. t \notin problem.unsafe BY <1>3 DEF IsStrong, Admitted
    <2>3. c[t] \in Actions /\ Outcomes(problem, c, t) = problem.out[t][c[t]]
        BY <1>3, <2>1 DEF Outcomes, Policy
    <2>4. c[t] \in Committed(t, winning) BY <1>3, <2>3 DEF Committed
    <2>5. QED BY <1>2, <2>1, <2>2, <2>4 DEF Admissible
<1>4. WonStrongly(problem, c) \cap Reachable(problem, c) \subseteq winning
    BY <1>1, <1>2, <1>3, WonWithin
<1>5. problem.initial \subseteq Reachable(problem, c) BY <1>1, ReachableClosed
<1>6. QED BY <1>2, <1>4, <1>5 DEF IsStrong

LEMMA StrongAnswer == Inv => StrongIsStrong
<1> SUFFICES ASSUME Inv, result = "Strong", SafeGoals PROVE IsStrong(problem, choice)
    BY DEF StrongIsStrong
<1> DEFINE R == Reachable(problem, choice)
<1>1. /\ problem \in Problem /\ choice \in Policy /\ winning \in SUBSET States
      /\ problem.initial # {} /\ problem.goal \subseteq winning
      /\ problem.initial \subseteq winning
    BY AuditAssumption DEF Inv, TypeInv, TypeOK, StrongInv
<1>2. /\ \A s \in winning \ problem.goal :
            /\ s \notin problem.unsafe /\ choice[s] # NoAction
            /\ problem.out[s][choice[s]] # {} /\ problem.out[s][choice[s]] \subseteq winning
      /\ \A s \in States : choice[s] # NoAction => s \in winning \ problem.goal
      /\ winning \subseteq WonStrongly(problem, choice)
    BY DEF Inv, StrongInv
<1>3. \A t \in winning : Outcomes(problem, choice, t) \subseteq winning BY <1>2 DEF Outcomes
<1>4. R \subseteq winning BY <1>1, <1>3, ReachableLeast
<1>5. \A s \in problem.goal : choice[s] = NoAction BY <1>1, <1>2
<1>6. R \cap problem.unsafe = {} BY <1>2, <1>4 DEF SafeGoals
<1>7. \A s \in R \ problem.goal : Outcomes(problem, choice, s) # {} BY <1>2, <1>4 DEF Outcomes
<1>8. R \cap problem.goal # {}
    <2> SUFFICES ASSUME R \cap problem.goal = {} PROVE FALSE
        OBVIOUS
    <2>1. WonStrongly(problem, choice) \cap R \subseteq States \ R
        <3> DEFINE W == States \ R
        <3>1. problem.goal \subseteq W /\ W \in SUBSET States BY <1>1 DEF Problem
        <3>2. \A t \in R \ problem.goal :
                (Outcomes(problem, choice, t) # {} /\ Outcomes(problem, choice, t) \subseteq W) => t \in W
            BY <1>1, ReachableClosed
        <3> HIDE DEF W
        <3>3. WonStrongly(problem, choice) \cap R \subseteq W BY <1>1, <3>1, <3>2, WonWithin
        <3>4. QED BY <3>3 DEF W
    <2>2. problem.initial \subseteq R BY <1>1, ReachableClosed
    <2>3. QED BY <1>1, <1>2, <2>1, <2>2
<1>9. QED BY <1>1, <1>2, <1>5, <1>6, <1>7, <1>8 DEF IsStrong, Admitted

LEMMA CyclicAnswer == Inv => CyclicIsStrongCyclic
<1> SUFFICES ASSUME Inv, result = "StrongCyclic", SafeGoals
             PROVE  Guarantee(problem, choice) = "StrongCyclic"
    BY DEF CyclicIsStrongCyclic
<1> DEFINE R == Reachable(problem, choice)
<1>1. /\ problem \in Problem /\ choice \in Policy /\ surviving \in SUBSET States
      /\ problem.initial # {} /\ rank \in [States -> Nat]
    BY AuditAssumption DEF Inv, TypeInv, TypeOK
<1>2. /\ problem.goal \subseteq surviving /\ surviving \cap problem.unsafe \subseteq problem.goal
      /\ \A s \in States : choice[s] # NoAction => s \in surviving \ problem.goal
    BY DEF Inv, RegionInv, Late
<1>3. /\ problem.initial \subseteq surviving /\ reach = surviving
      /\ \A s \in surviving \ problem.goal : choice[s] \in Advancing(s)
    BY DEF Inv, RankInv, Covered
<1>4. ASSUME NEW s \in surviving \ problem.goal
      PROVE  /\ Outcomes(problem, choice, s) # {} /\ Outcomes(problem, choice, s) \subseteq surviving
             /\ \E t \in Outcomes(problem, choice, s) : rank[t] < rank[s]
    <2>1. choice[s] \in Actions /\ choice[s] \in Advancing(s) BY <1>3, <1>4 DEF Advancing, Committed
    <2>2. Outcomes(problem, choice, s) = problem.out[s][choice[s]]
        BY <1>4, <2>1 DEF Outcomes, Actions, NoAction
    <2>3. QED BY <2>1, <2>2 DEF Advancing, Committed
<1>5. R \subseteq surviving
    <2>1. \A t \in surviving : Outcomes(problem, choice, t) \subseteq surviving
        BY <1>4 DEF Outcomes
    <2>2. QED BY <1>1, <1>3, <2>1, ReachableLeast
<1>6. R \subseteq CanReachGoal(problem, choice)
    <2> SUFFICES ASSUME NEW X \in SUBSET States, problem.goal \subseteq X,
                        \A t \in States \ problem.goal : Outcomes(problem, choice, t) \cap X # {} => t \in X,
                        R \ X # {}
                 PROVE  FALSE
        BY <1>1, ReachableClosed DEF CanReachGoal
    <2> DEFINE T == {rank[s] : s \in R \ X}
    <2>1. R \subseteq States BY <1>1, ReachableClosed
    <2>2. T \subseteq Nat /\ T # {} BY <1>1, <2>1
    <2>3. \E m \in T : \A n \in T : m <= n BY <2>2, LeastElement
    <2>4. PICK s \in R \ X : \A u \in R \ X : rank[s] <= rank[u] BY <2>3
    <2>5. s \in surviving \ problem.goal BY <1>5, <2>4
    <2>6. PICK t \in Outcomes(problem, choice, s) : rank[t] < rank[s] BY <1>4, <2>5
    <2>7. t \in R BY <1>1, <2>4, <2>6, ReachableClosed
    <2>8. rank[t] \in Nat /\ rank[s] \in Nat BY <1>1, <2>1, <2>4, <2>7
    <2>9. t \in X BY <2>4, <2>6, <2>7, <2>8
    <2>10. QED BY <2>1, <2>4, <2>5, <2>6, <2>9
<1>7. R \cap problem.goal # {} BY <1>1, <1>6, GoalReached
<1>8. IsStrongCyclic(problem, choice)
    <2>1. \A s \in problem.goal : choice[s] = NoAction BY <1>1, <1>2 DEF Problem
    <2>2. R \cap problem.unsafe = {} BY <1>2, <1>5 DEF SafeGoals
    <2>3. \A s \in R \ problem.goal : Outcomes(problem, choice, s) # {} BY <1>4, <1>5
    <2>4. QED BY <1>6, <1>7, <2>1, <2>2, <2>3 DEF IsStrongCyclic, Admitted
<1>9. ~IsStrong(problem, choice) BY <1>1, NoneStrong DEF Late
<1>10. QED BY <1>8, <1>9 DEF Guarantee

LEMMA NoPlanAnswer == Inv => NoPlanIsTrue
<1> SUFFICES ASSUME Inv, result = "NoPlan", NEW c \in Policy PROVE Guarantee(problem, c) = "Invalid"
    BY DEF NoPlanIsTrue
<1>1. problem \in Problem BY DEF Inv, TypeInv, TypeOK
<1>2. ~IsStrong(problem, c) BY NoneStrong DEF Late
<1>3. ~IsStrongCyclic(problem, c)
    <2>1. phase # "weak" BY DEF Inv, TypeInv
    <2>2. IsStrongCyclic(problem, c) => Reachable(problem, c) \subseteq surviving
        BY <2>1 DEF Inv, RegionInv, Late
    <2>3. ~(problem.initial \subseteq surviving) BY DEF Inv, RankInv, Covered
    <2>4. QED BY <1>1, <2>2, <2>3, ReachableClosed
<1>4. QED BY <1>2, <1>3 DEF Guarantee

\* Type correctness of the synthesiser's state.
THEOREM FondTypeCorrect == Spec => []TypeOK
<1>1. Inv => TypeOK BY DEF Inv, TypeInv
<1>2. QED BY <1>1, Invariance, PTL

\* fond_policy is sound: its plans win for every outcome.
THEOREM StrongSound == Spec => []StrongIsStrong
BY StrongAnswer, Invariance, PTL

\* fond_policy_strong_cyclic is sound, and is only asked where no strong policy exists.
THEOREM CyclicSound == Spec => []CyclicIsStrongCyclic
BY CyclicAnswer, Invariance, PTL

\* The synthesiser is complete: NoPlan is returned only where there is none.
THEOREM FondComplete == Spec => []NoPlanIsTrue
BY NoPlanAnswer, Invariance, PTL

\* The region that comes out of the alternation is closed: the last checks pass.
THEOREM RegionClosed == Spec => []ChecksAreRedundant
<1>1. Inv => ChecksAreRedundant
    <2> SUFFICES ASSUME Inv, phase = "check" PROVE OutcomesClosed
        BY DEF ChecksAreRedundant
    <2>1. \A t \in surviving \ problem.goal :
            choice[t] \in Actions /\ problem.out[t][choice[t]] \subseteq surviving
        BY DEF Inv, RankInv, Advancing, Committed
    <2>2. QED BY <2>1 DEF OutcomesClosed, Actions, NoAction
<1>2. QED BY <1>1, Invariance, PTL

\* The failsafe of the rounds is unreachable.
THEOREM FailsafeUnreachable == Spec => []FailsafeNeverFires
<1>1. Inv => FailsafeNeverFires BY DEF Inv, CountInv, FailsafeNeverFires
<1>2. QED BY <1>1, Invariance, PTL
=============================================================================
