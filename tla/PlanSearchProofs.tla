--------------------------- MODULE PlanSearchProofs ---------------------------
(***************************************************************************)
(* What PlanSearch's model checking shows on small graphs, for every graph, *)
(* every order of the open list and every cap: the type invariant, that an  *)
(* exhausted search is a proof, that a drained cost sweep is optimal and    *)
(* that an answered plan is one.                                            *)
(***************************************************************************)
EXTENDS PlanSearch, FiniteSetTheorems, WellFoundedInduction, TLAPS

Exploring == phase \in {"pop", "batch", "insert"}

\* No length incumbent cuts the search.
Uncut == problem.caller # "length" \/ incumbent = 0

\* A node under the bound is still to be expanded, or it is no goal and all it
\* leads to under the bound is on its way or in the arena.
Covered(i) ==
    nodes[i].cost < bound =>
        \/ i \in open \cup batch
        \/ /\ nodes[i].state \notin problem.goal
           /\ \/ nodes[i].state \in problem.dead
              \/ \A t \in problem.next[nodes[i].state] :
                    CostTo(i, t) < bound => <<i, t>> \in pending \/ Duplicate(i, t)

Phases ==
    /\ phase \in {"ehc", "root", "pop", "batch"} => pending = {}
    /\ phase \in {"ehc", "root", "pop", "insert"} => batch = {}
    /\ phase \in {"ehc", "root"} => open = {}
    /\ phase = "ehc" => incumbent = 0
    /\ phase \notin {"ehc", "done"} => queue \in Seq({1})
    /\ phase # "done" => ~drained /\ outcome.kind = "none"

Bounds ==
    /\ incumbent = 0 => bound = problem.first /\ lenBound = 0
    /\ problem.first > 0 => bound > 0
    /\ Exploring => problem.first > 0

Frontier ==
    /\ Exploring => nodes[1] = Root
    /\ phase = "batch" /\ Uncut => \A i \in batch : nodes[i].state \notin problem.goal
    /\ Exploring /\ Uncut => \A i \in Indices : Covered(i)

IInv == TypeOK /\ Phases /\ Bounds /\ Frontier /\ ProofIsAProof /\ DrainedIsOptimal

-----------------------------------------------------------------------------
(* Proofs of absence. *)

\* The states a goal-free closed set holds.
Hopeless(p) == {s \in States : \E X \in SUBSET States : s \in X /\ Closed(p, X) /\ X \cap p.goal = {}}

LEMMA ProblemTypes ==
    ASSUME NEW p \in Problems
    PROVE  /\ p \in Problem
           /\ p.next \in [States -> SUBSET States]
           /\ p.helpful \in [States -> SUBSET States]
           /\ p.cost \in [States -> [States -> Nat]]
           /\ p.first \in Nat
           /\ p.goal \subseteq States /\ p.dead \subseteq States
           /\ Start \in States
<1>1. p \in Problem
  BY SearchAssumption
<1>2. Start \in States
  BY SearchAssumption DEF Start, States
<1> QED
  BY <1>1, <1>2 DEF Problem

\* What the relaxation calls dead is hopeless, and what is hopeless leads to no
\* goal and only to what is hopeless.
LEMMA DeadIsHopeless ==
    ASSUME NEW p \in Problems
    PROVE  /\ p.dead \subseteq Hopeless(p)
           /\ Hopeless(p) \cap p.goal = {}
           /\ \A s \in Hopeless(p) : \A t \in p.next[s] : t \in Hopeless(p)
<1>1. p.dead \subseteq Hopeless(p)
  <2> SUFFICES ASSUME NEW d \in p.dead PROVE d \in Hopeless(p)
    OBVIOUS
  <2>1. PICK X \in SUBSET States : d \in X /\ Closed(p, X) /\ X \cap p.goal = {}
    BY SearchAssumption
  <2> QED
    BY <2>1 DEF Hopeless
<1>2. Hopeless(p) \cap p.goal = {}
  BY DEF Hopeless
<1>3. ASSUME NEW s \in Hopeless(p), NEW t \in p.next[s]
      PROVE  t \in Hopeless(p)
  <2>1. PICK X \in SUBSET States : s \in X /\ Closed(p, X) /\ X \cap p.goal = {}
    BY DEF Hopeless
  <2>2. t \in X
    BY <2>1 DEF Closed
  <2> QED
    BY <2>1, <2>2 DEF Hopeless
<1> QED
  BY <1>1, <1>2, <1>3

\* A dead start is a proof for every bound.
LEMMA DeadStart ==
    ASSUME NEW p \in Problems, Start \in p.dead, p.first > 0
    PROVE  NothingCheaper(p, p.first)
<1> DEFINE Y == {y \in States \X (0..(p.first - 1)) : y[1] \in Hopeless(p)}
<1>1. p.first \in Nat /\ Start \in States /\ p.cost \in [States -> [States -> Nat]]
      /\ p.next \in [States -> SUBSET States]
  BY ProblemTypes
<1>2. <<Start, 0>> \in Y
  BY <1>1, DeadIsHopeless
<1>3. \A y \in Y : y[1] \notin p.goal
  BY DeadIsHopeless
<1>4. ASSUME NEW y \in Y, NEW t \in p.next[y[1]], y[2] + p.cost[y[1]][t] < p.first
      PROVE  <<t, y[2] + p.cost[y[1]][t]>> \in Y
  <2>1. y[1] \in States /\ y[2] \in 0..(p.first - 1) /\ y[1] \in Hopeless(p)
    OBVIOUS
  <2>2. t \in States /\ t \in Hopeless(p)
    BY <1>1, <2>1, DeadIsHopeless
  <2>3. p.cost[y[1]][t] \in Nat
    BY <1>1, <2>1, <2>2
  <2>4. y[2] + p.cost[y[1]][t] \in 0..(p.first - 1)
    BY <1>1, <1>4, <2>1, <2>3
  <2> QED
    BY <2>2, <2>4
<1>5. Y \in SUBSET (States \X (0..(p.first - 1)))
  OBVIOUS
<1> HIDE DEF Y
<1> QED
  BY <1>2, <1>3, <1>4, <1>5 DEF NothingCheaper

\* An empty open list proves that nothing is below the bound.
LEMMA DrainProves ==
    ASSUME TypeOK, Phases, Bounds, Frontier, phase = "pop", open = {}, Uncut
    PROVE  NothingCheaper(problem, bound)
<1> DEFINE Y == {y \in States \X (0..(bound - 1)) :
                    \/ y[1] \in Hopeless(problem)
                    \/ \E i \in Indices : nodes[i].state = y[1] /\ nodes[i].cost = y[2]}
<1>1. /\ problem \in Problems /\ bound \in Nat /\ bound > 0
      /\ nodes \in Seq(Node) /\ Len(nodes) \in Nat /\ batch = {} /\ pending = {}
      /\ nodes[1] = Root /\ 1 \in Indices
      /\ \A i \in Indices : Covered(i)
      /\ \A i \in Indices : nodes[i] \in Node
  <2>1. problem \in Problems /\ bound \in Nat /\ nodes \in Seq(Node) /\ Len(nodes) > 0
    BY DEF TypeOK
  <2>2. Len(nodes) \in Nat /\ 1 \in Indices /\ \A i \in Indices : nodes[i] \in Node
    BY <2>1 DEF Indices
  <2>3. batch = {} /\ pending = {}
    BY DEF Phases
  <2>4. nodes[1] = Root /\ \A i \in Indices : Covered(i)
    BY DEF Frontier, Exploring
  <2>5. bound > 0
    BY DEF Bounds, Exploring
  <2> QED
    BY <2>1, <2>2, <2>3, <2>4, <2>5
<1>2. /\ Start \in States /\ problem.cost \in [States -> [States -> Nat]]
      /\ problem.next \in [States -> SUBSET States]
  BY <1>1, ProblemTypes
<1>3. <<Start, 0>> \in Y
  BY <1>1, <1>2 DEF Root
<1>4. ASSUME NEW i \in Indices, nodes[i].cost < bound
      PROVE  /\ nodes[i].state \notin problem.goal
             /\ nodes[i].state \notin problem.dead =>
                    \A t \in problem.next[nodes[i].state] :
                        CostTo(i, t) < bound => Duplicate(i, t)
  BY <1>1, <1>4 DEF Covered
<1>5. ASSUME NEW y \in Y
      PROVE  y[1] \notin problem.goal
  <2>1. CASE y[1] \in Hopeless(problem)
    BY <1>1, <2>1, DeadIsHopeless
  <2>2. CASE \E i \in Indices : nodes[i].state = y[1] /\ nodes[i].cost = y[2]
    <3>1. PICK i \in Indices : nodes[i].state = y[1] /\ nodes[i].cost = y[2]
      BY <2>2
    <3>2. nodes[i].cost < bound
      BY <1>1, <3>1
    <3> QED
      BY <1>4, <3>1, <3>2
  <2> QED
    BY <2>1, <2>2
<1>6. ASSUME NEW y \in Y, NEW t \in problem.next[y[1]], y[2] + problem.cost[y[1]][t] < bound
      PROVE  <<t, y[2] + problem.cost[y[1]][t]>> \in Y
  <2>1. y[1] \in States /\ y[2] \in 0..(bound - 1)
    OBVIOUS
  <2>2. t \in States
    BY <1>2, <2>1
  <2>3. problem.cost[y[1]][t] \in Nat
    BY <1>2, <2>1, <2>2
  <2>4. y[2] + problem.cost[y[1]][t] \in 0..(bound - 1)
    BY <1>1, <1>6, <2>1, <2>3
  <2>5. CASE y[1] \in Hopeless(problem)
    <3>1. t \in Hopeless(problem)
      BY <1>1, <2>5, DeadIsHopeless
    <3> QED
      BY <2>2, <2>4, <3>1
  <2>6. CASE y[1] \notin Hopeless(problem)
    <3>1. PICK i \in Indices : nodes[i].state = y[1] /\ nodes[i].cost = y[2]
      BY <2>6
    <3>2. nodes[i].state \notin problem.dead
      BY <1>1, <2>6, <3>1, DeadIsHopeless
    <3>3. CostTo(i, t) = y[2] + problem.cost[y[1]][t]
      BY <3>1 DEF CostTo
    <3>4. Duplicate(i, t)
      BY <1>1, <1>4, <1>6, <2>1, <3>1, <3>2, <3>3
    <3>5. \E j \in Indices : nodes[j].state = t /\ nodes[j].cost = y[2] + problem.cost[y[1]][t]
      BY <3>3, <3>4 DEF Duplicate
    <3> QED
      BY <2>2, <2>4, <3>5
  <2> QED
    BY <2>5, <2>6
<1>7. Y \in SUBSET (States \X (0..(bound - 1)))
  OBVIOUS
<1> HIDE DEF Y
<1> QED
  BY <1>3, <1>5, <1>6, <1>7 DEF NothingCheaper

-----------------------------------------------------------------------------
(* Types. *)

LEMMA InitTypes == Init => TypeOK
<1> SUFFICES ASSUME Init PROVE TypeOK
  OBVIOUS
<1>1. Start \in States /\ problem \in Problems /\ problem.first \in Nat /\ MaxRounds \in Nat
  BY SearchAssumption, ProblemTypes DEF Init
<1>2. nodes = <<Root>> /\ Root \in Node
  BY <1>1 DEF Init, Root, Node
<1>3. nodes \in Seq(Node) /\ Len(nodes) = 1 /\ Indices = {1} /\ queue \in Seq(Indices)
  BY <1>2 DEF Init, Indices
<1>4. phase \in {"ehc", "root", "pop", "batch", "insert", "done"}
  BY DEF Init
<1>5. /\ incumbent \in {0} \cup Indices /\ bound \in Nat /\ lenBound \in Nat
      /\ round \in 0..MaxRounds /\ drained \in BOOLEAN /\ outcome.kind \in Kinds
      /\ open \subseteq Indices /\ batch \subseteq Indices /\ pending \subseteq Indices \X States
  <2>1. outcome.kind = "none"
    BY DEF Init, NoOutcome
  <2>2. 0 \in 0..MaxRounds
    BY <1>1
  <2> QED
    BY <1>1, <2>1, <2>2 DEF Init, Kinds
<1>6. \A i \in Indices : nodes[i].father < i
  BY <1>2, <1>3 DEF Root
<1> QED
  BY <1>1, <1>3, <1>4, <1>5, <1>6 DEF TypeOK

\* An answer leaves the arena; its kind is one of the known.
LEMMA AnswerTypes ==
    ASSUME TypeOK, NEW kind \in Kinds, NEW plan, Answer(kind, plan), drained' \in BOOLEAN
    PROVE  TypeOK'
BY DEF TypeOK, Answer, limits, climb, Indices

LEMMA RefusedKind == \A c \in BOOLEAN : Refused(c) \in Kinds
BY DEF Refused, Kinds

LEMMA FoundTypes ==
    ASSUME TypeOK, NEW i \in Indices, Found(i), drained' \in BOOLEAN
    PROVE  TypeOK'
<1>1. (IF problem.caller = "improve" THEN "improved" ELSE "plan") \in Kinds
  BY DEF Kinds
<1> QED
  BY <1>1, AnswerTypes DEF Found

\* A longer arena keeps the indices.
LEMMA Longer ==
    ASSUME TypeOK, NEW more \in Seq(Node), nodes' = nodes \o more,
           \A k \in 1..Len(more) : more[k].father \in Indices
    PROVE  /\ nodes' \in Seq(Node) /\ Len(nodes') > 0
           /\ Len(nodes') = Len(nodes) + Len(more)
           /\ Indices \subseteq Indices'
           /\ \A j \in Indices : nodes'[j] = nodes[j]
           /\ \A j \in Indices' : nodes'[j].father < j
<1>1. nodes \in Seq(Node) /\ Len(nodes) \in Nat /\ Len(nodes) > 0 /\ Len(more) \in Nat
  BY DEF TypeOK
<1>2. /\ nodes' \in Seq(Node) /\ Len(nodes') = Len(nodes) + Len(more)
      /\ \A j \in 1..Len(nodes) : nodes'[j] = nodes[j]
      /\ \A j \in (Len(nodes) + 1)..(Len(nodes) + Len(more)) : nodes'[j] = more[j - Len(nodes)]
  BY <1>1
<1>3. ASSUME NEW j \in Indices'
      PROVE  nodes'[j].father < j
  <2>1. CASE j \in Indices
    BY <1>2, <2>1 DEF TypeOK, Indices
  <2>2. CASE j \notin Indices
    <3>1. j - Len(nodes) \in 1..Len(more) /\ nodes'[j] = more[j - Len(nodes)] /\ j > Len(nodes) /\ j \in Nat
      BY <1>1, <1>2, <2>2 DEF Indices
    <3>2. more[j - Len(nodes)].father \in 1..Len(nodes)
      BY <3>1 DEF Indices
    <3> QED
      BY <1>1, <3>1, <3>2
  <2> QED
    BY <2>1, <2>2
<1> QED
  BY <1>1, <1>2, <1>3 DEF Indices

LEMMA ClimbTypes == TypeOK /\ Phases /\ Climb => TypeOK'
<1> SUFFICES ASSUME TypeOK, Phases, Climb PROVE TypeOK'
  OBVIOUS
<1>1. /\ Start \in States /\ problem \in Problems
      /\ \A s \in States : problem.helpful[s] \subseteq States
  BY ProblemTypes DEF TypeOK
<1>2. ASSUME NEW t \in States
      PROVE  [Root EXCEPT !.state = t] \in Node /\ [Root EXCEPT !.state = t].father = 0
  BY DEF Root, Node
<1>3. ASSUME phase = "ehc", NEW r \in Node, r.father = 0, nodes' = <<r>>, queue' \in Seq({1}),
             phase' \in {"ehc", "root"},
             UNCHANGED <<problem, open, batch, pending, limits, round, drained, outcome>>
      PROVE  TypeOK'
  <2>1. nodes' \in Seq(Node) /\ Len(nodes') = 1 /\ Indices' = {1}
    BY <1>3 DEF Indices
  <2>2. open' = {} /\ batch' = {} /\ pending' = {} /\ incumbent' = 0
    BY <1>3 DEF Phases, limits
  <2>3. queue' \in Seq(Indices')
    BY <1>3, <2>1
  <2>4. problem' \in Problems /\ bound' \in Nat /\ lenBound' \in Nat /\ round' \in 0..MaxRounds
        /\ drained' \in BOOLEAN /\ outcome'.kind \in Kinds
    BY <1>3 DEF TypeOK, limits
  <2>5. phase' \in {"ehc", "root", "pop", "batch", "insert", "done"}
    BY <1>3
  <2>6. \A i \in Indices' : nodes'[i].father < i
    BY <1>3, <2>1
  <2> QED
    BY <2>1, <2>2, <2>3, <2>4, <2>5, <2>6 DEF TypeOK
<1>4. CASE EhcGivesUp
  <2>1. Root \in Node /\ Root.father = 0 /\ nodes' = <<Root>> /\ queue' \in Seq({1}) /\ phase' = "root" /\ phase = "ehc"
    BY <1>1, <1>4 DEF EhcGivesUp, Root, Node
  <2> QED
    BY <1>3, <1>4, <2>1 DEF EhcGivesUp
<1>5. CASE EhcArrives
  BY <1>5, AnswerTypes DEF EhcArrives, Kinds, TypeOK
<1>6. ASSUME queue # <<>>
      PROVE  Head(queue) \in Indices /\ nodes[Head(queue)].state \in States /\ News \subseteq States
  <2>1. Head(queue) \in Indices
    BY <1>6 DEF TypeOK
  <2>2. nodes[Head(queue)] \in Node
    BY <2>1 DEF TypeOK, Indices
  <2> QED
    BY <1>1, <2>1, <2>2 DEF News, Node
<1>7. CASE EhcJumps
  <2>1. PICK t \in News : nodes' = <<[Root EXCEPT !.state = t]>> /\ queue' = <<1>>
    BY <1>7 DEF EhcJumps
  <2>2. t \in States
    BY <1>6, <1>7 DEF EhcJumps
  <2>3. /\ [Root EXCEPT !.state = t] \in Node /\ [Root EXCEPT !.state = t].father = 0
        /\ queue' \in Seq({1}) /\ phase = "ehc" /\ phase' = "ehc"
    BY <1>2, <1>7, <2>1, <2>2 DEF EhcJumps, Climbing
  <2> QED
    BY <1>3, <1>7, <2>1, <2>3 DEF EhcJumps
<1>8. CASE EhcLooks
  <2>1. PICK f \in [1..Cardinality(News) -> News] :
            /\ nodes' = nodes \o [i \in DOMAIN f |->
                    [state |-> f[i], father |-> Head(queue), g |-> 0, cost |-> 0]]
            /\ queue' = Tail(queue) \o [i \in DOMAIN f |-> Len(nodes) + i]
    BY <1>8 DEF EhcLooks
  <2> DEFINE more == [i \in DOMAIN f |->
                    [state |-> f[i], father |-> Head(queue), g |-> 0, cost |-> 0]]
             late == [i \in DOMAIN f |-> Len(nodes) + i]
  <2>2. Head(queue) \in Indices /\ News \subseteq States /\ queue # <<>>
    BY <1>6, <1>8 DEF EhcLooks
  <2>3. IsFiniteSet(News)
    <3>1. IsFiniteSet(States)
      BY FS_Interval, SearchAssumption DEF States
    <3> QED
      BY <2>2, <3>1, FS_Subset
  <2>4. Cardinality(News) \in Nat /\ DOMAIN f = 1..Cardinality(News)
    BY <2>3, FS_CardinalityType
  <2>5. Head(queue) \in Nat /\ Len(nodes) \in Nat
    BY <2>2 DEF TypeOK, Indices
  <2>6. /\ more \in Seq(Node) /\ Len(more) = Cardinality(News)
        /\ \A k \in 1..Len(more) : more[k].father \in Indices
    <3>1. ASSUME NEW i \in 1..Cardinality(News)
          PROVE  more[i] \in Node /\ more[i].father = Head(queue)
      <4>1. f[i] \in States /\ more[i] = [state |-> f[i], father |-> Head(queue), g |-> 0, cost |-> 0]
        BY <2>2, <2>4
      <4> QED
        BY <2>5, <4>1 DEF Node
    <3>2. more = [i \in 1..Cardinality(News) |-> more[i]]
      BY <2>4
    <3> HIDE DEF more
    <3>3. more \in Seq(Node) /\ Len(more) = Cardinality(News)
      BY <2>4, <3>1, <3>2
    <3> QED
      BY <2>2, <3>1, <3>3
  <2>7. late \in Seq(1..(Len(nodes) + Cardinality(News)))
    BY <2>4, <2>5
  <2>8. /\ nodes' \in Seq(Node) /\ Len(nodes') > 0
        /\ Len(nodes') = Len(nodes) + Cardinality(News) /\ Indices \subseteq Indices'
        /\ \A j \in Indices' : nodes'[j].father < j
    BY <2>1, <2>6, Longer
  <2>9. Tail(queue) \in Seq(Indices')
    BY <2>2, <2>8 DEF TypeOK
  <2>10. queue' \in Seq(Indices')
    <3>1. late \in Seq(Indices')
      BY <2>7, <2>8 DEF Indices
    <3>2. queue' = Tail(queue) \o late
      BY <2>1
    <3> HIDE DEF late
    <3> QED
      BY <2>9, <3>1, <3>2
  <2> HIDE DEF more, late
  <2> QED
    BY <1>8, <2>8, <2>10 DEF EhcLooks, TypeOK, limits
<1> QED
  BY <1>4, <1>5, <1>7, <1>8 DEF Climb

\* What keeps the arena and the queue keeps their types.
LEMMA SameArena ==
    ASSUME TypeOK, UNCHANGED <<problem, nodes, queue, outcome, drained>>,
           phase' \in {"root", "pop", "batch", "insert"},
           open' \subseteq Indices, batch' \subseteq Indices, pending' \subseteq Indices \X States,
           incumbent' \in {0} \cup Indices, bound' \in Nat, lenBound' \in Nat, round' \in 0..MaxRounds
    PROVE  TypeOK'
BY DEF TypeOK, Indices

LEMMA PopTypes ==
    ASSUME TypeOK, Phases, NEW B \in SUBSET open,
           PopGoal(B) \/ PopPlain(B) \/ PopLength(B) \/ PopFree(B) \/ PopCost(B)
    PROVE  TypeOK'
<1>1. /\ B \subseteq Indices /\ pending \subseteq Indices \X States
      /\ incumbent \in {0} \cup Indices /\ bound \in Nat /\ lenBound \in Nat
      /\ round \in 0..MaxRounds /\ drained \in BOOLEAN
      /\ \A i \in B : nodes[i].g \in Nat /\ nodes[i].cost \in Nat
  <2>1. B \subseteq Indices /\ nodes \in Seq(Node)
    BY DEF TypeOK
  <2>2. \A i \in B : nodes[i] \in Node
    BY <2>1 DEF Indices
  <2>3. \A i \in B : nodes[i].g \in Nat /\ nodes[i].cost \in Nat
    BY <2>2 DEF Node
  <2> QED
    BY <2>1, <2>3 DEF TypeOK
<1>2. CASE PopGoal(B)
  BY <1>1, <1>2, FoundTypes DEF PopGoal, Goals
<1>3. CASE PopFree(B)
  BY <1>1, <1>3, FoundTypes DEF PopFree, Cheaper, Goals
<1>4. CASE PopPlain(B)
  <2>1. open \ B \subseteq Indices
    BY DEF TypeOK
  <2> QED
    BY <1>1, <1>4, <2>1, SameArena DEF PopPlain, climb, limits
<1>5. ASSUME NEW kept \in SUBSET B, Retain(B, kept),
             incumbent' \in {0} \cup Indices, bound' \in Nat, lenBound' \in Nat
      PROVE  TypeOK'
  <2>1. open' \subseteq Indices /\ batch' \subseteq Indices /\ pending' = pending /\ round' = round
        /\ phase' \in {"pop", "batch"} /\ UNCHANGED <<problem, nodes, queue, outcome, drained>>
    BY <1>1, <1>5 DEF TypeOK, Retain, climb
  <2> QED
    BY <1>1, <1>5, <2>1, SameArena
<1>6. CASE PopLength(B)
  <2>1. incumbent' \in {0} \cup Indices /\ bound' \in Nat /\ lenBound' \in Nat
    BY <1>1, <1>6 DEF PopLength, Goals
  <2>2. Retain(B, {i \in B : incumbent' = 0 \/ nodes[i].g + 1 < lenBound'})
    BY <1>6 DEF PopLength
  <2> QED
    BY <1>5, <2>1, <2>2
<1>7. CASE PopCost(B)
  <2>1. incumbent' \in {0} \cup Indices /\ bound' \in Nat /\ lenBound' \in Nat
    BY <1>1, <1>7 DEF PopCost, Cheaper, Goals
  <2>2. Retain(B, {i \in B : nodes[i].cost < bound'})
    BY <1>7 DEF PopCost
  <2> QED
    BY <1>5, <2>1, <2>2
<1> QED
  BY <1>2, <1>3, <1>4, <1>6, <1>7

LEMMA InsertTypes ==
    ASSUME TypeOK, Phases, NEW x \in pending, Insert(x[1], x[2])
    PROVE  TypeOK'
<1>1. x[1] \in Indices /\ x[2] \in States /\ nodes[x[1]] \in Node /\ problem \in Problems
  BY DEF TypeOK, Indices
<1>2. problem.cost[nodes[x[1]].state][x[2]] \in Nat
  BY <1>1, ProblemTypes DEF Node
<1>3. CASE UNCHANGED <<nodes, open>>
  <2>1. pending' \subseteq pending /\ phase' = "insert"
    BY DEF Insert
  <2> QED
    BY <1>3, <2>1, SameArena DEF Insert, TypeOK, climb, limits
<1>4. CASE /\ nodes' = Append(nodes, [state |-> x[2], father |-> x[1], g |-> nodes[x[1]].g + 1,
                                     cost |-> CostTo(x[1], x[2])])
           /\ open' = open \cup {Len(nodes) + 1}
  <2> DEFINE new == [state |-> x[2], father |-> x[1], g |-> nodes[x[1]].g + 1,
                     cost |-> CostTo(x[1], x[2])]
  <2>1. new \in Node /\ new.father \in Indices
    <3>1. nodes[x[1]].g \in Nat /\ nodes[x[1]].cost \in Nat
      BY <1>1 DEF Node
    <3>2. x[1] \in Nat
      BY <1>1 DEF Indices
    <3>3. nodes[x[1]].g + 1 \in Nat
      BY <3>1
    <3>4. CostTo(x[1], x[2]) \in Nat
      BY <1>2, <3>1 DEF CostTo
    <3> QED
      BY <1>1, <3>2, <3>3, <3>4 DEF Node
  <2>2. nodes' = nodes \o <<new>> /\ <<new>> \in Seq(Node) /\ Len(<<new>>) = 1
        /\ \A k \in 1..Len(<<new>>) : <<new>>[k].father \in Indices
    <3>1. nodes \in Seq(Node)
      BY DEF TypeOK
    <3>2. nodes' = Append(nodes, new)
      BY <1>4
    <3> HIDE DEF new
    <3> QED
      BY <2>1, <3>1, <3>2
  <2> HIDE DEF new
  <2>3. /\ nodes' \in Seq(Node) /\ Len(nodes') = Len(nodes) + 1 /\ Indices \subseteq Indices'
        /\ \A j \in Indices' : nodes'[j].father < j
    BY <2>2, Longer
  <2>4. Len(nodes) + 1 \in Indices' /\ Len(nodes') > 0
    BY <2>3 DEF Indices, TypeOK
  <2>5. /\ problem' \in Problems /\ phase' = "insert" /\ queue' \in Seq(Indices')
        /\ batch' \subseteq Indices' /\ pending' \subseteq Indices' \X States
        /\ incumbent' \in {0} \cup Indices' /\ bound' \in Nat /\ lenBound' \in Nat
        /\ round' \in 0..MaxRounds /\ drained' \in BOOLEAN /\ outcome'.kind \in Kinds
    <3>1. UNCHANGED <<problem, phase, queue, batch, incumbent, bound, lenBound, round, drained, outcome>>
          /\ pending' \subseteq pending /\ phase = "insert"
      BY DEF Insert, climb, limits
    <3>2. queue \in Seq(Indices')
      BY <2>3 DEF TypeOK
    <3> QED
      BY <2>3, <3>1, <3>2 DEF TypeOK
  <2>6. open' \subseteq Indices'
    BY <1>4, <2>3, <2>4 DEF TypeOK
  <2> QED
    BY <2>3, <2>4, <2>5, <2>6 DEF TypeOK
<1> QED
  BY <1>3, <1>4 DEF Insert

LEMMA SweepTypes == TypeOK /\ Phases /\ Sweep => TypeOK'
<1> SUFFICES ASSUME TypeOK, Phases, Sweep PROVE TypeOK'
  OBVIOUS
<1>1. /\ problem \in Problems /\ problem.first \in Nat /\ MaxRounds \in Nat
      /\ drained \in BOOLEAN /\ incumbent \in {0} \cup Indices
  BY SearchAssumption, ProblemTypes DEF TypeOK
<1>2. CASE NoSweep
  <2>1. (IF problem.first = 0 THEN "proven" ELSE "kept") \in Kinds
    BY DEF Kinds
  <2> QED
    BY <1>1, <1>2, <2>1, AnswerTypes DEF NoSweep
<1>3. CASE DeadAtRoot
  BY <1>1, <1>3, RefusedKind, AnswerTypes DEF DeadAtRoot
<1>4. CASE Begin
  <2>1. Root \in Node /\ Root.father = 0
    BY <1>1, ProblemTypes DEF Root, Node
  <2>2. /\ nodes' \in Seq(Node) /\ Len(nodes') = 1 /\ Indices' = {1}
        /\ \A i \in Indices' : nodes'[i].father < i
    BY <1>4, <2>1 DEF Begin, Indices
  <2>3. queue' \in Seq(Indices') /\ batch' = {} /\ pending' = {} /\ open' = {1}
    BY <1>4, <2>2 DEF Begin, Phases, climb
  <2> QED
    BY <1>1, <1>4, <2>2, <2>3 DEF Begin, TypeOK
<1>5. CASE Capped
  <2>1. CASE incumbent # 0
    BY <1>1, <1>5, <2>1, FoundTypes DEF Capped
  <2>2. CASE incumbent = 0
    BY <1>1, <1>5, <2>2, RefusedKind, AnswerTypes DEF Capped
  <2> QED
    BY <2>1, <2>2
<1>6. CASE Refill
  <2>1. round + 1 \in 0..MaxRounds
    BY <1>1, <1>6 DEF Refill, TypeOK
  <2> QED
    BY <1>6, <2>1, SameArena DEF Refill, TypeOK, climb, limits
<1>7. CASE Expand
  <2>1. pending' \subseteq Indices \X States
    BY <1>7 DEF Expand, TypeOK
  <2> QED
    BY <1>7, <2>1, SameArena DEF Expand, TypeOK, climb, limits
<1>8. CASE Inserted
  BY <1>8, SameArena DEF Inserted, TypeOK, climb, limits
<1>9. CASE Drained
  <2>1. drained' \in BOOLEAN
    BY <1>9 DEF Drained
  <2>2. CASE incumbent # 0
    BY <1>1, <1>9, <2>1, <2>2, FoundTypes DEF Drained
  <2>3. CASE incumbent = 0
    BY <1>1, <1>9, <2>1, <2>3, RefusedKind, AnswerTypes DEF Drained
  <2> QED
    BY <2>2, <2>3
<1>10. CASE \E B \in SUBSET open : PopGoal(B) \/ PopPlain(B) \/ PopLength(B) \/ PopFree(B) \/ PopCost(B)
  BY <1>10, PopTypes
<1>11. CASE \E x \in pending : Insert(x[1], x[2])
  BY <1>11, InsertTypes
<1> QED
  BY <1>2, <1>3, <1>4, <1>5, <1>6, <1>7, <1>8, <1>9, <1>10, <1>11 DEF Sweep

-----------------------------------------------------------------------------
(* Phases, bounds and the frontier. *)

\* An answer ends the search.
LEMMA AnswerEnds ==
    ASSUME NEW kind, NEW plan, Answer(kind, plan)
    PROVE  /\ phase' = "done" /\ outcome'.kind = kind /\ open' = {} /\ batch' = {} /\ pending' = {}
           /\ UNCHANGED <<problem, nodes, incumbent, bound, lenBound>>
BY DEF Answer, limits

\* The ways an answer is given.
Answering ==
    /\ phase' = "done" /\ pending' = {} /\ batch' = {} /\ open' = {}
    /\ UNCHANGED <<problem, nodes, incumbent, bound, lenBound>>

LEMMA WhoAnswers ==
    ASSUME NEW B \in SUBSET open
    PROVE  EhcArrives \/ NoSweep \/ DeadAtRoot \/ Capped \/ Drained \/ PopGoal(B) \/ PopFree(B)
               => Answering
BY AnswerEnds DEF EhcArrives, NoSweep, DeadAtRoot, Capped, Drained, PopGoal, PopFree, Found, Answering

LEMMA InitInv == Init => Phases /\ Bounds /\ Frontier /\ ProofIsAProof /\ DrainedIsOptimal
<1> SUFFICES ASSUME Init PROVE Phases /\ Bounds /\ Frontier /\ ProofIsAProof /\ DrainedIsOptimal
  OBVIOUS
<1>1. /\ phase \in {"ehc", "root"} /\ open = {} /\ batch = {} /\ pending = {} /\ incumbent = 0
      /\ bound = problem.first /\ lenBound = 0 /\ ~drained /\ outcome.kind = "none"
      /\ queue \in Seq({1}) /\ problem \in Problems
  BY DEF Init, NoOutcome
<1>2. problem.first \in Nat
  BY <1>1, ProblemTypes
<1> QED
  BY <1>1, <1>2 DEF Phases, Bounds, Frontier, Exploring, ProofIsAProof, DrainedIsOptimal

LEMMA PhasesStep == TypeOK /\ Phases /\ Next => Phases'
<1> SUFFICES ASSUME TypeOK, Phases, Next PROVE Phases'
  OBVIOUS
<1>1. ASSUME Answering PROVE Phases'
  BY <1>1 DEF Answering, Phases
<1>2. CASE EhcGivesUp
  BY <1>2 DEF EhcGivesUp, Phases, limits
<1>3. CASE EhcJumps
  BY <1>3 DEF EhcJumps, Climbing, Phases, limits
<1>4. CASE EhcLooks
  BY <1>4 DEF EhcLooks, Climbing, Phases, limits
<1>5. CASE Begin
  BY <1>5 DEF Begin, Phases, climb
<1>6. CASE Refill
  BY <1>6 DEF Refill, Phases, climb, limits
<1>7. CASE Expand
  BY <1>7 DEF Expand, Phases, climb, limits
<1>8. CASE Inserted
  BY <1>8 DEF Inserted, Phases, climb, limits
<1>9. ASSUME NEW B \in SUBSET open, NEW kept, Retain(B, kept), phase = "pop" PROVE Phases'
  BY <1>9 DEF Retain, Phases, climb
<1>10. ASSUME NEW B \in SUBSET open, PopPlain(B) \/ PopLength(B) \/ PopCost(B) PROVE Phases'
  <2>1. CASE PopPlain(B)
    BY <2>1 DEF PopPlain, Pops, Phases, climb, limits
  <2>2. CASE PopLength(B)
    BY <1>9, <2>2 DEF PopLength, Pops
  <2>3. CASE PopCost(B)
    BY <1>9, <2>3 DEF PopCost, Pops
  <2> QED
    BY <1>10, <2>1, <2>2, <2>3
<1>11. ASSUME NEW x \in pending, Insert(x[1], x[2]) PROVE Phases'
  BY <1>11 DEF Insert, Phases, climb, limits
<1> QED
  BY <1>1, <1>2, <1>3, <1>4, <1>5, <1>6, <1>7, <1>8, <1>10, <1>11, WhoAnswers DEF Next, Climb, Sweep

LEMMA BoundsStep == TypeOK /\ Phases /\ Bounds /\ Next => Bounds'
<1> SUFFICES ASSUME TypeOK, Phases, Bounds, Next PROVE Bounds'
  OBVIOUS
<1>1. ASSUME Answering PROVE Bounds'
  BY <1>1 DEF Answering, Bounds, Exploring
<1>2. ASSUME UNCHANGED <<problem, incumbent, bound, lenBound>>, Exploring' => Exploring PROVE Bounds'
  BY <1>2 DEF Bounds
<1>3. CASE EhcGivesUp
  BY <1>2, <1>3 DEF EhcGivesUp, Exploring, limits
<1>4. CASE EhcJumps
  BY <1>2, <1>4 DEF EhcJumps, Climbing, Exploring, limits
<1>5. CASE EhcLooks
  BY <1>2, <1>5 DEF EhcLooks, Climbing, Exploring, limits
<1>6. CASE Begin
  BY <1>6 DEF Begin, Bounds, Exploring
<1>7. CASE Refill
  BY <1>2, <1>7 DEF Refill, Exploring, limits
<1>8. CASE Expand
  BY <1>2, <1>8 DEF Expand, Exploring, limits
<1>9. CASE Inserted
  BY <1>2, <1>9 DEF Inserted, Exploring, limits
<1>10. ASSUME NEW B \in SUBSET open, PopPlain(B) PROVE Bounds'
  BY <1>2, <1>10 DEF PopPlain, Pops, Exploring, limits
<1>11. ASSUME NEW B \in SUBSET open, PopLength(B) PROVE Bounds'
  <2>1. \A i \in B : i # 0
    BY DEF TypeOK, Indices
  <2> QED
    BY <1>11, <2>1 DEF PopLength, Pops, Retain, Goals, Bounds, Exploring
<1>12. ASSUME NEW B \in SUBSET open, PopCost(B) PROVE Bounds'
  <2>1. \A i \in B : i # 0
    BY DEF TypeOK, Indices
  <2> QED
    BY <1>12, <2>1 DEF PopCost, Pops, Retain, Cheaper, Goals, Bounds, Exploring
<1>13. ASSUME NEW x \in pending, Insert(x[1], x[2]) PROVE Bounds'
  BY <1>2, <1>13 DEF Insert, Exploring, limits
<1> QED
  BY <1>1, <1>3, <1>4, <1>5, <1>6, <1>7, <1>8, <1>9, <1>10, <1>11, <1>12, <1>13, WhoAnswers
     DEF Next, Climb, Sweep

LEMMA NodeTypes ==
    ASSUME TypeOK, NEW i \in Indices
    PROVE  /\ nodes[i] \in Node /\ nodes[i].state \in States
           /\ nodes[i].cost \in Nat /\ nodes[i].g \in Nat
<1>1. nodes[i] \in Node
  BY DEF TypeOK, Indices
<1> QED
  BY <1>1 DEF Node

\* A node that is covered stays so where nothing is taken from the open list, the
\* batch, the pending candidates or the arena, and the bound is not raised.
LEMMA CoverKept ==
    ASSUME TypeOK, NEW i \in Indices, Covered(i), problem' = problem,
           Indices \subseteq Indices', \A j \in Indices : nodes'[j] = nodes[j],
           bound' \in Nat, bound' <= bound,
           i \in open \cup batch => i \in open' \cup batch',
           \A t \in States : <<i, t>> \in pending => <<i, t>> \in pending' \/ Duplicate(i, t)'
    PROVE  Covered(i)'
<1>1. /\ nodes[i] \in Node /\ nodes[i].cost \in Nat /\ nodes[i].state \in States
      /\ problem \in Problems /\ bound \in Nat
  BY NodeTypes DEF TypeOK
<1>2. \A t \in problem.next[nodes[i].state] : t \in States /\ CostTo(i, t) \in Nat
  BY <1>1, ProblemTypes DEF CostTo
<1>3. \A t : CostTo(i, t)' = CostTo(i, t)
  BY DEF CostTo
<1>4. \A t : Duplicate(i, t) => Duplicate(i, t)'
  BY DEF CostTo, Duplicate
<1> SUFFICES ASSUME nodes[i].cost < bound', i \notin open' \cup batch'
             PROVE  /\ nodes[i].state \notin problem.goal
                    /\ \/ nodes[i].state \in problem.dead
                       \/ \A t \in problem.next[nodes[i].state] :
                            CostTo(i, t) < bound' => <<i, t>> \in pending' \/ Duplicate(i, t)'
  BY <1>3 DEF Covered
<1>5. nodes[i].cost < bound /\ i \notin open \cup batch
  BY <1>1
<1> QED
  BY <1>1, <1>2, <1>4, <1>5 DEF Covered

LEMMA PopFrontier ==
    ASSUME TypeOK, Phases, Bounds, Frontier, NEW B \in SUBSET open,
           PopPlain(B) \/ PopLength(B) \/ PopCost(B)
    PROVE  Frontier'
<1>1. /\ phase = "pop" /\ batch = {} /\ pending = {} /\ nodes[1] = Root
      /\ nodes' = nodes /\ problem' = problem /\ pending' = {} /\ bound \in Nat
      /\ Uncut => \A i \in Indices : Covered(i)
  BY DEF Frontier, Phases, Exploring, TypeOK, PopPlain, PopLength, PopCost, Pops, Retain
<1>2. ASSUME Uncut, bound' \in Nat, bound' <= bound,
             \A i \in B : nodes[i].cost < bound' => i \in batch', open' = open \ B
      PROVE  \A i \in Indices : Covered(i)'
  <2> SUFFICES ASSUME NEW i \in Indices PROVE Covered(i)'
    OBVIOUS
  <2>1. CASE i \in B /\ ~(nodes[i].cost < bound')
    BY <1>1, <2>1 DEF Covered
  <2>2. CASE i \in B => nodes[i].cost < bound'
    <3>1. i \in open \cup batch => i \in open' \cup batch'
      BY <1>1, <1>2, <2>2
    <3>2. Covered(i)
      BY <1>1, <1>2
    <3> QED
      BY <1>1, <1>2, <3>1, <3>2, CoverKept DEF Indices
  <2> QED
    BY <2>1, <2>2
<1>3. CASE PopPlain(B)
  <2>1. /\ open' = open \ B /\ batch' = B /\ bound' = bound /\ Uncut' = Uncut
        /\ \A i \in B : nodes[i].state \notin problem.goal
    BY <1>3 DEF PopPlain, Uncut, limits, Goals
  <2> QED
    BY <1>1, <1>2, <2>1 DEF Frontier, Exploring, Indices
<1>4. CASE PopLength(B)
  <2>1. CASE ~Uncut'
    BY <1>1, <2>1 DEF Frontier, Exploring
  <2>2. CASE Uncut'
    <3>1. incumbent' = 0
      BY <1>4, <2>2 DEF PopLength, Pops, Uncut, Retain
    <3>2. \A i \in B : i # 0
      BY DEF TypeOK, Indices
    <3>3. /\ incumbent = 0 /\ bound' = bound /\ open' = open \ B /\ batch' = B
          /\ {i \in Goals(B) : lenBound = 0 \/ nodes[i].g < lenBound} = {}
      BY <1>4, <3>1, <3>2 DEF PopLength, Retain, Goals
    <3>4. \A i \in B : nodes[i].state \notin problem.goal
      BY <3>3 DEF Bounds, Goals
    <3> QED
      BY <1>1, <1>2, <3>3, <3>4 DEF Frontier, Exploring, Uncut, Indices
  <2> QED
    BY <2>1, <2>2
<1>5. CASE PopCost(B)
  <2>1. \A i \in B : nodes[i].cost \in Nat
    BY NodeTypes DEF TypeOK
  <2>2. /\ Uncut /\ open' = open \ B /\ batch' = {i \in B : nodes[i].cost < bound'}
    BY <1>5 DEF PopCost, Pops, Uncut, Retain
  <2>3. /\ bound' \in Nat /\ bound' <= bound
        /\ \A i \in Cheaper(B) : bound' <= nodes[i].cost
    BY <1>1, <1>5, <2>1 DEF PopCost, Cheaper, Goals
  <2>4. ASSUME NEW i \in batch' PROVE nodes[i].state \notin problem.goal
    <3>1. i \in B /\ nodes[i].cost < bound' /\ nodes[i].cost \in Nat
      BY <2>1, <2>2
    <3>2. nodes[i].cost < bound
      BY <1>1, <2>3, <3>1
    <3>3. nodes[i].state \in problem.goal => i \in Cheaper(B)
      BY <3>1, <3>2 DEF Cheaper, Goals
    <3> QED
      BY <2>3, <3>1, <3>3
  <2>5. \A i \in Indices : Covered(i)'
    BY <1>2, <2>2, <2>3
  <2> QED
    BY <1>1, <2>4, <2>5 DEF Frontier, Exploring, Indices
<1> QED
  BY <1>3, <1>4, <1>5

LEMMA ExpandFrontier ==
    ASSUME TypeOK, Phases, Frontier, Expand
    PROVE  Frontier'
<1>1. /\ phase = "batch" /\ phase' = "insert" /\ pending = {} /\ batch' = {}
      /\ UNCHANGED <<problem, nodes, open, incumbent, bound>> /\ nodes[1] = Root
      /\ pending' = {x \in batch \X States :
            /\ nodes[x[1]].state \notin problem.dead
            /\ x[2] \in problem.next[nodes[x[1]].state]
            /\ CostTo(x[1], x[2]) < bound}
  BY DEF Expand, Phases, Frontier, Exploring, limits
<1>2. Uncut' = Uncut /\ Indices' = Indices
  BY <1>1 DEF Uncut, Indices
<1>3. ASSUME Uncut, NEW i \in Indices PROVE Covered(i)'
  <2>1. Covered(i) /\ bound \in Nat
    BY <1>1, <1>3 DEF Frontier, Exploring, TypeOK
  <2>2. CASE i \notin batch
    BY <1>1, <2>1, <2>2, CoverKept DEF Indices
  <2>3. CASE i \in batch
    <3>1. nodes[i].state \notin problem.goal
      BY <1>1, <1>3, <2>3 DEF Frontier
    <3>2. nodes[i].state \in States /\ problem \in Problems
      BY NodeTypes DEF TypeOK
    <3>3. \A t \in problem.next[nodes[i].state] : t \in States
      BY <3>2, ProblemTypes
    <3>4. ASSUME nodes[i].state \notin problem.dead, NEW t \in problem.next[nodes[i].state],
                 CostTo(i, t) < bound
          PROVE  <<i, t>> \in pending'
      BY <1>1, <2>3, <3>3, <3>4
    <3> QED
      BY <1>1, <3>1, <3>4 DEF Covered, CostTo
  <2> QED
    BY <2>2, <2>3
<1> QED
  BY <1>1, <1>2, <1>3 DEF Frontier, Exploring

LEMMA InsertFrontier ==
    ASSUME TypeOK, Phases, Frontier, NEW x \in pending, Insert(x[1], x[2]), TypeOK'
    PROVE  Frontier'
<1>1. /\ phase = "insert" /\ phase' = "insert" /\ batch = {} /\ batch' = {}
      /\ UNCHANGED <<problem, incumbent, bound>> /\ nodes[1] = Root /\ bound \in Nat
      /\ pending' = pending \ {<<x[1], x[2]>>} /\ Uncut' = Uncut
  BY DEF Insert, Phases, Frontier, Exploring, limits, Uncut, TypeOK
<1>2. /\ Indices \subseteq Indices' /\ \A j \in Indices : nodes'[j] = nodes[j]
      /\ open \subseteq open' /\ Indices' \ Indices \subseteq open' /\ nodes'[1] = Root
  <2>1. nodes \in Seq(Node) /\ Len(nodes) > 0
    BY DEF TypeOK
  <2>2. CASE UNCHANGED <<nodes, open>>
    BY <1>1, <2>2 DEF Indices
  <2>3. CASE ~UNCHANGED <<nodes, open>>
    <3>1. PICK new : nodes' = Append(nodes, new) /\ open' = open \cup {Len(nodes) + 1}
      BY <2>3 DEF Insert
    <3> QED
      BY <1>1, <2>1, <3>1 DEF Indices
  <2> QED
    BY <2>2, <2>3
<1>3. Uncut => Duplicate(x[1], x[2])'
  <2>1. CASE UNCHANGED <<nodes, open>> /\ Duplicate(x[1], x[2])
    BY <1>1, <2>1 DEF Duplicate, CostTo, Indices
  <2>2. CASE incumbent # 0 /\ problem.caller = "length"
    BY <2>2 DEF Uncut
  <2>3. CASE nodes' = Append(nodes, [state |-> x[2], father |-> x[1], g |-> nodes[x[1]].g + 1,
                                     cost |-> CostTo(x[1], x[2])])
    <3>1. nodes \in Seq(Node) /\ Len(nodes) \in Nat /\ x[1] \in Indices
      BY DEF TypeOK
    <3>2. Len(nodes) + 1 \in Indices' /\ CostTo(x[1], x[2])' = CostTo(x[1], x[2])
      BY <1>1, <1>2, <2>3, <3>1 DEF Indices, CostTo
    <3>3. nodes'[Len(nodes) + 1] = [state |-> x[2], father |-> x[1], g |-> nodes[x[1]].g + 1,
                                    cost |-> CostTo(x[1], x[2])]
      BY <2>3, <3>1
    <3>4. nodes'[Len(nodes) + 1].state = x[2] /\ nodes'[Len(nodes) + 1].cost = CostTo(x[1], x[2])
      BY <3>3
    <3> QED
      BY <3>2, <3>4 DEF Duplicate
  <2> QED
    BY <2>1, <2>2, <2>3 DEF Insert
<1>4. ASSUME Uncut, NEW i \in Indices' PROVE Covered(i)'
  <2>1. CASE i \notin Indices
    BY <1>2, <2>1 DEF Covered
  <2>2. CASE i \in Indices
    <3>1. Covered(i)
      BY <1>1, <1>4, <2>2 DEF Frontier, Exploring
    <3>2. i \in open \cup batch => i \in open' \cup batch'
      BY <1>1, <1>2
    <3>3. ASSUME NEW t \in States, <<i, t>> \in pending
          PROVE  <<i, t>> \in pending' \/ Duplicate(i, t)'
      <4>1. CASE <<i, t>> = <<x[1], x[2]>>
        BY <1>3, <1>4, <4>1
      <4>2. CASE <<i, t>> # <<x[1], x[2]>>
        BY <1>1, <3>3, <4>2
      <4> QED
        BY <4>1, <4>2
    <3>4. bound' \in Nat /\ bound' <= bound /\ problem' = problem
      BY <1>1
    <3> QED
      BY <1>2, <2>2, <3>1, <3>2, <3>3, <3>4, CoverKept
  <2> QED
    BY <2>1, <2>2
<1> QED
  BY <1>1, <1>2, <1>4 DEF Frontier, Exploring

LEMMA FrontierStep == IInv /\ Next /\ TypeOK' => Frontier'
<1> SUFFICES ASSUME TypeOK, Phases, Bounds, Frontier, Next, TypeOK' PROVE Frontier'
  BY DEF IInv
<1>1. ASSUME phase' \in {"ehc", "root", "done"} PROVE Frontier'
  BY <1>1 DEF Frontier, Exploring
<1>2. CASE EhcGivesUp \/ EhcJumps \/ EhcLooks \/ Refill
  BY <1>1, <1>2 DEF EhcGivesUp, EhcJumps, EhcLooks, Climbing, Refill
<1>3. ASSUME Answering PROVE Frontier'
  BY <1>1, <1>3 DEF Answering
<1>4. CASE Begin
  <2>1. phase' = "pop" /\ nodes' = <<Root>> /\ open' = {1} /\ Indices' = {1}
    BY <1>4 DEF Begin, Indices
  <2> QED
    BY <2>1 DEF Frontier, Covered
<1>5. CASE Expand
  BY <1>5, ExpandFrontier
<1>6. CASE Inserted
  <2>1. /\ phase = "insert" /\ phase' = "pop" /\ nodes[1] = Root
        /\ UNCHANGED <<problem, nodes, open, batch, pending, incumbent, bound>>
        /\ Uncut' = Uncut /\ Indices' = Indices
    BY <1>6 DEF Inserted, Frontier, Exploring, limits, Uncut, Indices
  <2>2. \A i \in Indices : Covered(i)' <=> Covered(i)
    BY <2>1 DEF Covered, CostTo, Duplicate
  <2> QED
    BY <2>1, <2>2 DEF Frontier, Exploring
<1>7. CASE \E B \in SUBSET open : PopPlain(B) \/ PopLength(B) \/ PopCost(B)
  BY <1>7, PopFrontier
<1>8. CASE \E x \in pending : Insert(x[1], x[2])
  BY <1>8, InsertFrontier
<1> QED
  BY <1>2, <1>3, <1>4, <1>5, <1>6, <1>7, <1>8, WhoAnswers DEF Next, Climb, Sweep

\* Where no answer is given nothing is claimed; where one is, the lemmas above
\* give the proof it stands for.
LEMMA ClaimsStep == IInv /\ Next /\ Phases' => ProofIsAProof' /\ DrainedIsOptimal'
<1> SUFFICES ASSUME IInv, Next, Phases' PROVE ProofIsAProof' /\ DrainedIsOptimal'
  OBVIOUS
<1>0. TypeOK /\ Phases /\ Bounds /\ Frontier /\ problem \in Problems
  BY DEF IInv, TypeOK
<1>1. CASE phase' # "done"
  BY <1>1 DEF Phases, ProofIsAProof, DrainedIsOptimal
<1>2. ASSUME ~drained', outcome'.kind \notin {"unsolvable", "proven"}
      PROVE  ProofIsAProof' /\ DrainedIsOptimal'
  BY <1>2 DEF ProofIsAProof, DrainedIsOptimal
<1>3. ASSUME NEW B \in SUBSET open, EhcArrives \/ PopGoal(B) \/ PopFree(B) \/ Capped
      PROVE  ProofIsAProof' /\ DrainedIsOptimal'
  <2>1. ~drained'
    BY <1>0, <1>3 DEF EhcArrives, PopGoal, PopFree, Capped, Climbing, Pops, Phases
  <2>2. outcome'.kind \in {"plan", "improved", "kept", "gave up"}
    BY <1>3, AnswerEnds DEF EhcArrives, PopGoal, PopFree, Capped, Found, Refused
  <2> QED
    BY <1>2, <2>1, <2>2
<1>4. CASE NoSweep
  <2>1. ~drained' /\ problem' = problem /\ outcome'.kind = IF problem.first = 0 THEN "proven" ELSE "kept"
    BY <1>0, <1>4, AnswerEnds DEF NoSweep, Phases
  <2> QED
    BY <2>1 DEF ProofIsAProof, DrainedIsOptimal
<1>5. CASE DeadAtRoot
  <2>1. ~drained' /\ problem' = problem
    BY <1>0, <1>5, AnswerEnds DEF DeadAtRoot, Phases
  <2>2. NothingCheaper(problem, problem.first)
    BY <1>0, <1>5, DeadStart DEF DeadAtRoot
  <2> QED
    BY <2>1, <2>2 DEF ProofIsAProof, DrainedIsOptimal
<1>6. CASE Drained
  <2>1. phase = "pop" /\ open = {} /\ problem' = problem /\ bound' = bound
    BY <1>6, AnswerEnds DEF Drained, Found
  <2>2. Uncut => NothingCheaper(problem, bound)
    BY <1>0, <2>1, DrainProves
  <2>3. CASE incumbent = 0
    <3>1. Uncut /\ bound = problem.first
      BY <1>0, <2>3 DEF Uncut, Bounds
    <3> QED
      BY <2>1, <2>2, <3>1 DEF ProofIsAProof, DrainedIsOptimal
  <2>4. CASE incumbent # 0
    <3>1. outcome'.kind = IF problem.caller = "improve" THEN "improved" ELSE "plan"
      BY <1>6, <2>4, AnswerEnds DEF Drained, Found
    <3>2. outcome'.kind = "improved" => Uncut
      BY <3>1 DEF Uncut
    <3> QED
      BY <2>1, <2>2, <3>1, <3>2 DEF ProofIsAProof, DrainedIsOptimal
  <2> QED
    BY <2>3, <2>4
<1>7. ASSUME NEW B \in SUBSET open, PopPlain(B) \/ PopLength(B) \/ PopCost(B) PROVE phase' # "done"
  BY <1>7 DEF PopPlain, PopLength, PopCost, Retain
<1>8. CASE EhcGivesUp \/ EhcJumps \/ EhcLooks \/ Begin \/ Refill \/ Expand \/ Inserted
           \/ \E x \in pending : Insert(x[1], x[2])
  <2>1. phase' # "done"
    BY <1>8 DEF EhcGivesUp, EhcJumps, EhcLooks, Climbing, Begin, Refill, Expand, Inserted, Insert
  <2> QED
    BY <1>1, <2>1
<1> QED
  BY <1>1, <1>3, <1>4, <1>5, <1>6, <1>7, <1>8 DEF Next, Climb, Sweep

-----------------------------------------------------------------------------
(* Plans as walks.  What the model's recursive functions compute is shown by   *)
(* the smallest argument that could fail it; that they exist, in the same way. *)

LEMMA FromSmaller ==
    ASSUME NEW n \in Nat, NEW S,
           \A k \in 1..n : (\A j \in 1..(k - 1) : j \in S) => k \in S
    PROVE  \A k \in 1..n : k \in S
<1> DEFINE Bad == (1..n) \ S
<1> SUFFICES ASSUME Bad # {} PROVE FALSE
  OBVIOUS
<1>1. IsWellFoundedOn(OpToRel(<, Nat), Nat)
  BY NatLessThanWellFounded
<1>2. PICK k \in Bad : \A j \in Bad : ~(<<j, k>> \in OpToRel(<, Nat))
  <2>1. Bad \subseteq Nat
    OBVIOUS
  <2> HIDE DEF Bad
  <2> QED  BY <1>1, <2>1, WFMin
<1>3. \A j \in 1..(k - 1) : j \in S
  <2> SUFFICES ASSUME NEW j \in 1..(k - 1), j \notin S PROVE FALSE
    OBVIOUS
  <2>1. j \in Bad /\ j < k /\ j \in Nat /\ k \in Nat
    OBVIOUS
  <2> QED  BY <1>2, <2>1 DEF OpToRel
<1> QED  BY <1>3

\* The plan q leads from s to t.
Leads(p, s, q, t) ==
    /\ q \in Seq(States) /\ s \in States
    /\ (<<s>> \o q)[Len(q) + 1] = t
    /\ \A i \in 2..(Len(q) + 1) : (<<s>> \o q)[i] \in p.next[(<<s>> \o q)[i - 1]]

\* f adds up what the first n steps of the walk w cost.
Spending(p, w, n, f) ==
    f[1] = 0 /\ \A i \in 2..n : f[i] = f[i - 1] + p.cost[w[i - 1]][w[i]]

\* The plan q costs c from s.
Spends(p, s, q, c) ==
    \A f : Spending(p, <<s>> \o q, Len(q) + 1, f) => f[Len(q) + 1] = c

LEMMA WalkOf ==
    ASSUME NEW s \in States, NEW q \in Seq(States)
    PROVE  /\ Len(q) \in Nat /\ Len(<<s>> \o q) = Len(q) + 1
           /\ (<<s>> \o q)[1] = s
           /\ \A i \in 2..(Len(q) + 1) : (<<s>> \o q)[i] = q[i - 1]
           /\ \A i \in 1..(Len(q) + 1) : (<<s>> \o q)[i] \in States
<1>1. <<s>> \in Seq(States) /\ Len(<<s>>) = 1
  OBVIOUS
<1> QED  BY <1>1

LEMMA WalkAppend ==
    ASSUME NEW s \in States, NEW q \in Seq(States), NEW u \in States
    PROVE  /\ Append(q, u) \in Seq(States) /\ Len(Append(q, u)) = Len(q) + 1
           /\ \A i \in 1..(Len(q) + 1) : (<<s>> \o Append(q, u))[i] = (<<s>> \o q)[i]
           /\ (<<s>> \o Append(q, u))[Len(q) + 2] = u
<1>1. /\ Append(q, u) \in Seq(States) /\ Len(Append(q, u)) = Len(q) + 1 /\ Len(q) \in Nat
      /\ \A i \in 1..Len(q) : Append(q, u)[i] = q[i]
      /\ Append(q, u)[Len(q) + 1] = u
  OBVIOUS
<1> DEFINE r == Append(q, u)
<1> HIDE DEF r
<1>2. r \in Seq(States) /\ Len(r) = Len(q) + 1
  BY <1>1 DEF r
<1>3. /\ (<<s>> \o r)[1] = s /\ \A i \in 2..(Len(r) + 1) : (<<s>> \o r)[i] = r[i - 1]
  BY <1>2, WalkOf
<1>4. /\ (<<s>> \o q)[1] = s /\ \A i \in 2..(Len(q) + 1) : (<<s>> \o q)[i] = q[i - 1]
  BY WalkOf
<1>5. ASSUME NEW i \in 1..(Len(q) + 1) PROVE (<<s>> \o r)[i] = (<<s>> \o q)[i]
  <2>1. CASE i = 1
    BY <1>3, <1>4, <2>1
  <2>2. CASE i # 1
    <3>1. i \in 2..(Len(q) + 1) /\ i \in 2..(Len(r) + 1) /\ i - 1 \in 1..Len(q)
      BY <1>1, <1>2, <2>2
    <3>2. r[i - 1] = q[i - 1]
      BY <1>1, <3>1 DEF r
    <3> QED  BY <1>3, <1>4, <3>1, <3>2
  <2> QED  BY <2>1, <2>2
<1>6. (<<s>> \o r)[Len(q) + 2] = u
  <2>1. Len(q) + 2 \in 2..(Len(r) + 1) /\ (Len(q) + 2) - 1 = Len(q) + 1
    BY <1>1, <1>2
  <2>2. r[Len(q) + 1] = u
    BY <1>1 DEF r
  <2> QED  BY <1>3, <2>1, <2>2
<1> QED  BY <1>1, <1>5, <1>6 DEF r

LEMMA LeadsNowhere ==
    ASSUME NEW p, NEW s \in States
    PROVE  Leads(p, s, <<>>, s) /\ Spends(p, s, <<>>, 0)
<1>1. <<>> \in Seq(States) /\ Len(<<>>) = 0
  OBVIOUS
<1>2. (<<s>> \o <<>>)[1] = s
  BY <1>1, WalkOf
<1>3. \A i \in 2..(Len(<<>>) + 1) : FALSE
  BY <1>1
<1>4. Leads(p, s, <<>>, s)
  BY <1>1, <1>2, <1>3 DEF Leads
<1>5. Spends(p, s, <<>>, 0)
  BY <1>1 DEF Spends, Spending
<1> QED  BY <1>4, <1>5

LEMMA LeadsOn ==
    ASSUME NEW p, NEW s, NEW q, NEW t, Leads(p, s, q, t), NEW u \in States, u \in p.next[t]
    PROVE  Leads(p, s, Append(q, u), u)
<1>1. /\ q \in Seq(States) /\ s \in States /\ Len(q) \in Nat
      /\ (<<s>> \o q)[Len(q) + 1] = t
      /\ \A i \in 2..(Len(q) + 1) : (<<s>> \o q)[i] \in p.next[(<<s>> \o q)[i - 1]]
  BY DEF Leads
<1> DEFINE r == Append(q, u)
           v == <<s>> \o Append(q, u)
           w == <<s>> \o q
<1>2. /\ r \in Seq(States) /\ Len(r) = Len(q) + 1
      /\ \A i \in 1..(Len(q) + 1) : v[i] = w[i]
      /\ v[Len(q) + 2] = u
  BY <1>1, WalkAppend
<1>3. w[Len(q) + 1] = t /\ \A i \in 2..(Len(q) + 1) : w[i] \in p.next[w[i - 1]]
  BY <1>1
<1> HIDE DEF r, v, w
<1>4. ASSUME NEW i \in 2..(Len(q) + 2) PROVE v[i] \in p.next[v[i - 1]]
  <2>1. CASE i = Len(q) + 2
    <3>1. i - 1 = Len(q) + 1 /\ i - 1 \in 1..(Len(q) + 1)
      BY <1>1, <2>1
    <3> QED  BY <1>2, <1>3, <2>1, <3>1
  <2>2. CASE i # Len(q) + 2
    <3>1. i \in 2..(Len(q) + 1) /\ i \in 1..(Len(q) + 1) /\ i - 1 \in 1..(Len(q) + 1)
      BY <1>1, <2>2
    <3> QED  BY <1>2, <1>3, <3>1
  <2> QED  BY <2>1, <2>2
<1>5. Len(r) + 1 = Len(q) + 2
  BY <1>1, <1>2
<1>6. v[Len(r) + 1] = u /\ \A i \in 2..(Len(r) + 1) : v[i] \in p.next[v[i - 1]]
  BY <1>2, <1>4, <1>5
<1> QED  BY <1>1, <1>2, <1>6 DEF Leads, r, v

LEMMA SpendsOn ==
    ASSUME NEW p, NEW s, NEW q, NEW t, Leads(p, s, q, t), NEW u \in States,
           NEW c, Spends(p, s, q, c)
    PROVE  Spends(p, s, Append(q, u), c + p.cost[t][u])
<1>1. q \in Seq(States) /\ s \in States /\ Len(q) \in Nat /\ (<<s>> \o q)[Len(q) + 1] = t
  BY DEF Leads
<1> DEFINE r == Append(q, u)
           v == <<s>> \o Append(q, u)
           w == <<s>> \o q
<1>2. /\ Len(r) = Len(q) + 1
      /\ \A i \in 1..(Len(q) + 1) : v[i] = w[i]
      /\ v[Len(q) + 2] = u
  BY <1>1, WalkAppend
<1>3. w[Len(q) + 1] = t
  BY <1>1
<1>4. \A f : Spending(p, w, Len(q) + 1, f) => f[Len(q) + 1] = c
  BY DEF Spends
<1> HIDE DEF r, v, w
<1>5. Len(r) + 1 = Len(q) + 2
  BY <1>1, <1>2
<1>6. ASSUME NEW f, Spending(p, v, Len(q) + 2, f)
      PROVE  f[Len(q) + 2] = c + p.cost[t][u]
  <2>1. f[1] = 0 /\ \A i \in 2..(Len(q) + 2) : f[i] = f[i - 1] + p.cost[v[i - 1]][v[i]]
    BY <1>6 DEF Spending
  <2>2. ASSUME NEW i \in 2..(Len(q) + 1)
        PROVE  f[i] = f[i - 1] + p.cost[w[i - 1]][w[i]]
    <3>1. i \in 2..(Len(q) + 2) /\ i \in 1..(Len(q) + 1) /\ i - 1 \in 1..(Len(q) + 1)
      BY <1>1
    <3>2. f[i] = f[i - 1] + p.cost[v[i - 1]][v[i]]
      BY <2>1, <3>1
    <3>3. v[i] = w[i] /\ v[i - 1] = w[i - 1]
      BY <1>2, <3>1
    <3> QED  BY <3>2, <3>3
  <2>3. f[Len(q) + 1] = c
    BY <1>4, <2>1, <2>2 DEF Spending
  <2>4. Len(q) + 2 \in 2..(Len(q) + 2) /\ (Len(q) + 2) - 1 = Len(q) + 1
        /\ Len(q) + 1 \in 1..(Len(q) + 1)
    BY <1>1
  <2>5. f[Len(q) + 2] = f[Len(q) + 1] + p.cost[v[Len(q) + 1]][v[Len(q) + 2]]
    BY <2>1, <2>4
  <2>6. v[Len(q) + 1] = t
    BY <1>2, <1>3, <2>4
  <2> QED  BY <1>2, <2>3, <2>5, <2>6
<1>7. \A f : Spending(p, v, Len(r) + 1, f) => f[Len(r) + 1] = c + p.cost[t][u]
  BY <1>5, <1>6
<1> QED  BY <1>7 DEF Spends, r, v

LEMMA LeadsThrough ==
    ASSUME NEW p, NEW s, NEW q, NEW t, NEW r, NEW u, Leads(p, s, q, t), Leads(p, t, r, u)
    PROVE  Leads(p, s, q \o r, u)
<1>1. /\ q \in Seq(States) /\ s \in States /\ r \in Seq(States) /\ t \in States
      /\ (<<s>> \o q)[Len(q) + 1] = t
      /\ \A i \in 2..(Len(q) + 1) : (<<s>> \o q)[i] \in p.next[(<<s>> \o q)[i - 1]]
      /\ (<<t>> \o r)[Len(r) + 1] = u
      /\ \A i \in 2..(Len(r) + 1) : (<<t>> \o r)[i] \in p.next[(<<t>> \o r)[i - 1]]
  BY DEF Leads
<1> DEFINE j == q \o r
<1>2. /\ j \in Seq(States) /\ Len(j) = Len(q) + Len(r) /\ Len(q) \in Nat /\ Len(r) \in Nat
      /\ \A i \in 1..Len(q) : j[i] = q[i]
      /\ \A i \in 1..Len(r) : j[Len(q) + i] = r[i]
  BY <1>1
<1> HIDE DEF j
<1> DEFINE v == <<s>> \o j
           w == <<s>> \o q
           x == <<t>> \o r
<1>3. /\ v[1] = s /\ \A i \in 2..(Len(j) + 1) : v[i] = j[i - 1]
      /\ w[1] = s /\ \A i \in 2..(Len(q) + 1) : w[i] = q[i - 1]
      /\ x[1] = t /\ \A i \in 2..(Len(r) + 1) : x[i] = r[i - 1]
  BY <1>1, <1>2, WalkOf
<1>4. /\ w[Len(q) + 1] = t /\ \A i \in 2..(Len(q) + 1) : w[i] \in p.next[w[i - 1]]
      /\ x[Len(r) + 1] = u /\ \A i \in 2..(Len(r) + 1) : x[i] \in p.next[x[i - 1]]
  BY <1>1
<1> HIDE DEF v, w, x
<1>5. ASSUME NEW i \in 1..(Len(q) + 1) PROVE v[i] = w[i]
  <2>1. CASE i = 1
    BY <1>3, <2>1
  <2>2. CASE i # 1
    <3>1. i \in 2..(Len(q) + 1) /\ i \in 2..(Len(j) + 1) /\ i - 1 \in 1..Len(q)
      BY <1>2, <2>2
    <3> QED  BY <1>2, <1>3, <3>1
  <2> QED  BY <2>1, <2>2
<1>6. ASSUME NEW i \in 1..(Len(r) + 1) PROVE v[Len(q) + i] = x[i]
  <2>1. CASE i = 1
    <3>1. Len(q) + 1 \in 1..(Len(q) + 1)
      BY <1>2
    <3> QED  BY <1>3, <1>4, <1>5, <2>1, <3>1
  <2>2. CASE i # 1
    <3>1. /\ i \in 2..(Len(r) + 1) /\ Len(q) + i \in 2..(Len(j) + 1) /\ i - 1 \in 1..Len(r)
          /\ (Len(q) + i) - 1 = Len(q) + (i - 1)
      BY <1>2, <2>2
    <3>2. v[Len(q) + i] = j[Len(q) + (i - 1)] /\ j[Len(q) + (i - 1)] = r[i - 1] /\ x[i] = r[i - 1]
      BY <1>2, <1>3, <3>1
    <3> QED  BY <3>2
  <2> QED  BY <2>1, <2>2
<1>7. v[Len(j) + 1] = u
  <2>1. Len(j) + 1 = Len(q) + (Len(r) + 1) /\ Len(r) + 1 \in 1..(Len(r) + 1)
    BY <1>2
  <2> QED  BY <1>4, <1>6, <2>1
<1>8. ASSUME NEW i \in 2..(Len(j) + 1) PROVE v[i] \in p.next[v[i - 1]]
  <2>1. CASE i <= Len(q) + 1
    <3>1. i \in 2..(Len(q) + 1) /\ i \in 1..(Len(q) + 1) /\ i - 1 \in 1..(Len(q) + 1)
      BY <1>2, <2>1
    <3> QED  BY <1>4, <1>5, <3>1
  <2>2. CASE ~(i <= Len(q) + 1)
    <3>1. PICK k \in 2..(Len(r) + 1) : i = Len(q) + k
      <4>1. i - Len(q) \in 2..(Len(r) + 1) /\ i = Len(q) + (i - Len(q))
        BY <1>2, <2>2
      <4> QED  BY <4>1
    <3>2. i - 1 = Len(q) + (k - 1) /\ k \in 1..(Len(r) + 1) /\ k - 1 \in 1..(Len(r) + 1)
      BY <1>2, <3>1
    <3>3. v[i] = x[k] /\ v[i - 1] = x[k - 1]
      BY <1>6, <3>1, <3>2
    <3> QED  BY <1>4, <3>1, <3>3
  <2> QED  BY <2>1, <2>2
<1>9. (<<s>> \o j)[Len(j) + 1] = u
      /\ \A i \in 2..(Len(j) + 1) : (<<s>> \o j)[i] \in p.next[(<<s>> \o j)[i - 1]]
  BY <1>7, <1>8 DEF v
<1>10. Leads(p, s, j, u)
  BY <1>1, <1>2, <1>9 DEF Leads
<1> QED  BY <1>10 DEF j

\* Where steps are free, so is every walk.
LEMMA FreeWalk ==
    ASSUME NEW p, NEW s, NEW q, NEW t, Leads(p, s, q, t),
           \A x, y \in States : p.cost[x][y] = 0
    PROVE  Spends(p, s, q, 0)
<1>1. q \in Seq(States) /\ s \in States /\ Len(q) \in Nat
  BY DEF Leads
<1> DEFINE w == <<s>> \o q
<1>2. \A i \in 1..(Len(q) + 1) : w[i] \in States
  BY <1>1, WalkOf
<1> HIDE DEF w
<1>3. ASSUME NEW f, Spending(p, w, Len(q) + 1, f)
      PROVE  f[Len(q) + 1] = 0
  <2> DEFINE S == {k \in Nat : f[k] = 0}
  <2>1. f[1] = 0 /\ \A i \in 2..(Len(q) + 1) : f[i] = f[i - 1] + p.cost[w[i - 1]][w[i]]
    BY <1>3 DEF Spending
  <2>2. ASSUME NEW k \in 1..(Len(q) + 1), \A j \in 1..(k - 1) : j \in S
        PROVE  k \in S
    <3>1. CASE k = 1
      BY <2>1, <3>1
    <3>2. CASE k # 1
      <4>1. /\ k \in 2..(Len(q) + 1) /\ k - 1 \in 1..(k - 1) /\ k - 1 \in 1..(Len(q) + 1)
            /\ k \in Nat
        BY <1>1, <3>2
      <4>2. f[k - 1] = 0 /\ w[k - 1] \in States /\ w[k] \in States
        BY <1>2, <2>2, <4>1
      <4>3. f[k] = 0 + 0
        BY <2>1, <4>1, <4>2
      <4> QED  BY <4>1, <4>3
    <3> QED  BY <3>1, <3>2
  <2>3. Len(q) + 1 \in S
    <3> HIDE DEF S
    <3>1. Len(q) + 1 \in Nat /\ Len(q) + 1 \in 1..(Len(q) + 1)
      BY <1>1
    <3>2. \A k \in 1..(Len(q) + 1) : (\A j \in 1..(k - 1) : j \in S) => k \in S
      BY <2>2
    <3>3. \A k \in 1..(Len(q) + 1) : k \in S
      BY <3>1, <3>2, FromSmaller
    <3> QED  BY <3>1, <3>3
  <2> QED  BY <2>3
<1> QED  BY <1>3 DEF Spends, w

\* The recursive function of PlanIsAPlan exists, and it is the cost of the walk.
Adding(p, w, n, f) ==
    f = [i \in 1..n |-> IF i = 1 THEN 0 ELSE f[i - 1] + p.cost[w[i - 1]][w[i]]]

LEMMA AddingExists == ASSUME NEW p, NEW w, NEW n \in Nat \ {0} PROVE \E f : Adding(p, w, n, f)
<1> DEFINE S == {k \in Nat : \E f : Adding(p, w, k, f)}
<1>1. ASSUME NEW k \in 1..n, \A j \in 1..(k - 1) : j \in S PROVE k \in S
  <2>1. CASE k = 1
    <3> DEFINE z == [i \in 1..1 |-> 0]
    <3>1. z = [i \in 1..1 |-> IF i = 1 THEN 0 ELSE z[i - 1] + p.cost[w[i - 1]][w[i]]]
      OBVIOUS
    <3> QED  BY <2>1, <3>1 DEF Adding
  <2>2. CASE k # 1
    <3>1. k - 1 \in 1..(k - 1) /\ k \in Nat
      BY <2>2
    <3>2. k - 1 \in S
      BY <1>1, <3>1
    <3>3. PICK f : Adding(p, w, k - 1, f)
      BY <3>2
    <3>4. \A i \in 1..(k - 1) : f[i] = IF i = 1 THEN 0 ELSE f[i - 1] + p.cost[w[i - 1]][w[i]]
      BY <3>3 DEF Adding
    <3> DEFINE g == [i \in 1..k |-> IF i < k THEN f[i]
                                              ELSE f[k - 1] + p.cost[w[k - 1]][w[k]]]
    <3>5. ASSUME NEW i \in 1..k
          PROVE  g[i] = IF i = 1 THEN 0 ELSE g[i - 1] + p.cost[w[i - 1]][w[i]]
      <4>1. CASE i = 1
        <5>1. i < k /\ i \in 1..(k - 1)
          BY <2>2, <4>1
        <5> QED  BY <3>4, <4>1, <5>1
      <4>2. CASE i # 1 /\ i < k
        <5>1. i \in 1..(k - 1) /\ i - 1 \in 1..k /\ i - 1 < k
          BY <4>2
        <5> QED  BY <3>4, <4>2, <5>1
      <4>3. CASE i = k
        <5>1. i - 1 \in 1..k /\ i - 1 < k /\ ~(i < k) /\ i # 1
          BY <2>2, <4>3
        <5> QED  BY <4>3, <5>1
      <4> QED  BY <4>1, <4>2, <4>3
    <3>6. Adding(p, w, k, g)
      BY <3>5 DEF Adding
    <3> QED  BY <3>1, <3>6
  <2> QED  BY <2>1, <2>2
<1>2. n \in S
  <2> HIDE DEF S
  <2>1. \A k \in 1..n : (\A j \in 1..(k - 1) : j \in S) => k \in S
    BY <1>1
  <2>2. \A k \in 1..n : k \in S
    BY <2>1, FromSmaller
  <2> QED  BY <2>2
<1> QED  BY <1>2

\* What an answered plan has to be.
WellPlanned(p, q) ==
    LET walk == <<Start>> \o q
        spent[i \in 1..Len(walk)] ==
            IF i = 1 THEN 0 ELSE spent[i - 1] + p.cost[walk[i - 1]][walk[i]]
    IN /\ walk[Len(walk)] \in p.goal
       /\ \A i \in 2..Len(walk) : walk[i] \in p.next[walk[i - 1]]
       /\ spent[Len(walk)] < p.first

LEMMA RightPlan ==
    ASSUME NEW p, NEW q, NEW t \in p.goal, NEW c,
           Leads(p, Start, q, t), Spends(p, Start, q, c), c < p.first
    PROVE  WellPlanned(p, q)
<1> DEFINE w == <<Start>> \o q
           f == CHOOSE f : Adding(p, w, Len(w), f)
<1>1. /\ q \in Seq(States) /\ Start \in States /\ Len(q) \in Nat /\ w[Len(q) + 1] = t
      /\ \A i \in 2..(Len(q) + 1) : w[i] \in p.next[w[i - 1]]
  BY DEF Leads
<1>2. Len(w) = Len(q) + 1 /\ Len(w) \in Nat \ {0}
  BY <1>1, WalkOf
<1>3. Adding(p, w, Len(w), f)
  <2> HIDE DEF w
  <2> QED  BY <1>2, AddingExists
<1>4. \A g : Spending(p, w, Len(q) + 1, g) => g[Len(q) + 1] = c
  BY DEF Spends
<1> HIDE DEF f, w
<1>5. Spending(p, w, Len(q) + 1, f)
  <2>1. \A i \in 1..(Len(q) + 1) :
            f[i] = IF i = 1 THEN 0 ELSE f[i - 1] + p.cost[w[i - 1]][w[i]]
    BY <1>2, <1>3 DEF Adding
  <2>2. f[1] = 0
    <3>1. 1 \in 1..(Len(q) + 1)
      BY <1>1
    <3> QED  BY <2>1, <3>1
  <2>3. \A i \in 2..(Len(q) + 1) : f[i] = f[i - 1] + p.cost[w[i - 1]][w[i]]
    <3>1. \A i \in 2..(Len(q) + 1) : i \in 1..(Len(q) + 1) /\ i # 1
      BY <1>1
    <3> QED  BY <2>1, <3>1
  <2> QED  BY <2>2, <2>3 DEF Spending
<1>6. f[Len(w)] = c
  BY <1>2, <1>4, <1>5
<1>7. w[Len(w)] \in p.goal /\ (\A i \in 2..Len(w) : w[i] \in p.next[w[i - 1]])
      /\ f[Len(w)] < p.first
  BY <1>1, <1>2, <1>6
<1> QED  BY <1>7 DEF WellPlanned, Adding, f, w

-----------------------------------------------------------------------------
(* The arena's fathers, and the plans reconstruct reads off them.            *)

\* Every node but those without a father is one step from its father, and those
\* without one are o.
Linked(p, arena, o) ==
    \A i \in 1..Len(arena) :
        IF arena[i].father = 0 THEN arena[i].state = o
        ELSE arena[i].state \in p.next[arena[arena[i].father].state]

\* Every node costs what its father does and the step between them.
Priced(p, arena) ==
    \A i \in 1..Len(arena) :
        IF arena[i].father = 0 THEN arena[i].cost = 0
        ELSE arena[i].cost =
                arena[arena[i].father].cost + p.cost[arena[arena[i].father].state][arena[i].state]

Tracing(arena, n, f) ==
    f = [j \in 1..n |-> IF arena[j].father = 0 THEN <<>>
                        ELSE Append(f[arena[j].father], arena[j].state)]

LEMMA ArenaNode ==
    ASSUME NEW arena \in Seq(Node), NEW i \in 1..Len(arena)
    PROVE  /\ Len(arena) \in Nat /\ arena[i] \in Node
           /\ arena[i].state \in States /\ arena[i].father \in Nat /\ arena[i].cost \in Nat
<1>1. Len(arena) \in Nat /\ arena[i] \in Node
  OBVIOUS
<1>2. arena[i].state \in States
  BY <1>1 DEF Node
<1>3. arena[i].father \in Nat
  BY <1>1 DEF Node
<1>4. arena[i].cost \in Nat
  BY <1>1 DEF Node
<1> QED  BY <1>1, <1>2, <1>3, <1>4

LEMMA TracingExists ==
    ASSUME NEW arena \in Seq(Node), \A j \in 1..Len(arena) : arena[j].father < j,
           NEW n \in 1..Len(arena)
    PROVE  \E f : Tracing(arena, n, f)
<1> DEFINE S == {k \in Nat : \E f : Tracing(arena, k, f)}
<1>1. ASSUME NEW k \in 1..n, \A j \in 1..(k - 1) : j \in S PROVE k \in S
  <2>0. \A j \in 1..k : arena[j].father \in Nat /\ arena[j].father < j
    BY ArenaNode
  <2>1. CASE k = 1
    <3> DEFINE z == [j \in 1..1 |-> <<>>]
    <3>1. arena[1].father = 0
      BY <2>0, <2>1
    <3>2. z = [j \in 1..1 |-> IF arena[j].father = 0 THEN <<>>
                              ELSE Append(z[arena[j].father], arena[j].state)]
      BY <3>1
    <3> QED  BY <2>1, <3>2 DEF Tracing
  <2>2. CASE k # 1
    <3>1. k - 1 \in 1..(k - 1) /\ k \in Nat
      BY <2>2
    <3>2. k - 1 \in S
      BY <1>1, <3>1
    <3>3. PICK f : Tracing(arena, k - 1, f)
      BY <3>2
    <3>4. \A j \in 1..(k - 1) : f[j] = IF arena[j].father = 0 THEN <<>>
                                       ELSE Append(f[arena[j].father], arena[j].state)
      BY <3>3 DEF Tracing
    <3> DEFINE g == [j \in 1..k |-> IF j < k THEN f[j]
                                    ELSE IF arena[k].father = 0 THEN <<>>
                                    ELSE Append(f[arena[k].father], arena[k].state)]
    <3>5. ASSUME NEW j \in 1..k
          PROVE  g[j] = IF arena[j].father = 0 THEN <<>>
                        ELSE Append(g[arena[j].father], arena[j].state)
      <4>1. arena[j].father # 0 => g[arena[j].father] = f[arena[j].father]
        <5> SUFFICES ASSUME arena[j].father # 0 PROVE g[arena[j].father] = f[arena[j].father]
          OBVIOUS
        <5>1. arena[j].father \in 1..k /\ arena[j].father < k
          BY <2>0
        <5> QED  BY <5>1
      <4>2. CASE j < k
        <5>1. j \in 1..(k - 1) /\ g[j] = f[j]
          BY <4>2
        <5> HIDE DEF g
        <5> QED  BY <3>4, <4>1, <5>1
      <4>3. CASE j = k
        <5>1. g[j] = IF arena[k].father = 0 THEN <<>>
                     ELSE Append(f[arena[k].father], arena[k].state)
          BY <4>3
        <5> HIDE DEF g
        <5> QED  BY <4>1, <4>3, <5>1
      <4> QED  BY <4>2, <4>3
    <3>6. Tracing(arena, k, g)
      BY <3>5 DEF Tracing
    <3> QED  BY <3>1, <3>6
  <2> QED  BY <2>1, <2>2
<1>2. n \in S
  <2> HIDE DEF S
  <2>1. \A k \in 1..n : (\A j \in 1..(k - 1) : j \in S) => k \in S
    BY <1>1
  <2>2. n \in Nat /\ n \in 1..n
    OBVIOUS
  <2>3. \A k \in 1..n : k \in S
    BY <2>1, <2>2, FromSmaller
  <2> QED  BY <2>2, <2>3
<1> QED  BY <1>2

\* The plan read off a node's fathers leads to it, at the node's cost.
LEMMA PathLeads ==
    ASSUME NEW p, NEW arena \in Seq(Node), \A j \in 1..Len(arena) : arena[j].father < j,
           NEW o \in States, Linked(p, arena, o), NEW i \in 1..Len(arena)
    PROVE  /\ Leads(p, o, PathOf(arena, i), arena[i].state)
           /\ Priced(p, arena) => Spends(p, o, PathOf(arena, i), arena[i].cost)
<1> DEFINE f == CHOOSE f : Tracing(arena, i, f)
           Good(k) == /\ Leads(p, o, f[k], arena[k].state)
                      /\ Priced(p, arena) => Spends(p, o, f[k], arena[k].cost)
           S == {k \in Nat : Good(k)}
<1>1. PathOf(arena, i) = f[i]
  BY DEF PathOf, Tracing
<1>2. Tracing(arena, i, f)
  BY TracingExists
<1> HIDE DEF f
<1>3. ASSUME NEW k \in 1..i, \A j \in 1..(k - 1) : j \in S PROVE k \in S
  <2>1. f[k] = IF arena[k].father = 0 THEN <<>> ELSE Append(f[arena[k].father], arena[k].state)
    BY <1>2 DEF Tracing
  <2>2. /\ k \in 1..Len(arena) /\ k \in Nat /\ arena[k].state \in States
        /\ arena[k].father \in Nat /\ arena[k].father < k
    BY ArenaNode
  <2>3. CASE arena[k].father = 0
    <3>1. f[k] = <<>> /\ arena[k].state = o /\ (Priced(p, arena) => arena[k].cost = 0)
      BY <2>1, <2>2, <2>3 DEF Linked, Priced
    <3>2. Leads(p, o, f[k], arena[k].state)
      BY <3>1, LeadsNowhere
    <3>3. Priced(p, arena) => Spends(p, o, f[k], arena[k].cost)
      BY <3>1, LeadsNowhere
    <3> QED  BY <2>2, <3>2, <3>3
  <2>4. CASE arena[k].father # 0
    <3> DEFINE d == arena[k].father
    <3>1. d \in 1..(k - 1)
      BY <2>2, <2>4
    <3>2. Leads(p, o, f[d], arena[d].state) /\ (Priced(p, arena) => Spends(p, o, f[d], arena[d].cost))
      BY <1>3, <3>1
    <3>3. /\ f[k] = Append(f[d], arena[k].state) /\ arena[k].state \in p.next[arena[d].state]
          /\ Priced(p, arena) =>
                arena[k].cost = arena[d].cost + p.cost[arena[d].state][arena[k].state]
      BY <2>1, <2>2, <2>4 DEF Linked, Priced
    <3> HIDE DEF d
    <3>4. Leads(p, o, f[k], arena[k].state)
      BY <2>2, <3>2, <3>3, LeadsOn
    <3>5. Priced(p, arena) => Spends(p, o, f[k], arena[k].cost)
      BY <2>2, <3>2, <3>3, SpendsOn
    <3> QED  BY <2>2, <3>4, <3>5
  <2> QED  BY <2>3, <2>4
<1>4. i \in S
  <2> HIDE DEF S
  <2>1. \A k \in 1..i : (\A j \in 1..(k - 1) : j \in S) => k \in S
    BY <1>3
  <2>2. i \in Nat /\ i \in 1..i
    OBVIOUS
  <2>3. \A k \in 1..i : k \in S
    BY <2>1, <2>2, FromSmaller
  <2> QED  BY <2>2, <2>3
<1> QED  BY <1>1, <1>4

LEMMA FirstArena ==
    ASSUME NEW p, NEW r, r.father = 0, r.cost = 0
    PROVE  Linked(p, <<r>>, r.state) /\ Priced(p, <<r>>)
BY DEF Linked, Priced

\* A longer arena stays linked and priced where every new node is.
LEMMA LongerArena ==
    ASSUME NEW p, NEW arena \in Seq(Node), \A j \in 1..Len(arena) : arena[j].father < j,
           NEW o, Linked(p, arena, o), NEW more \in Seq(Node),
           \A k \in 1..Len(more) :
                /\ more[k].father \in 1..Len(arena)
                /\ more[k].state \in p.next[arena[more[k].father].state]
    PROVE  /\ Linked(p, arena \o more, o)
           /\ Priced(p, arena) /\ (\A k \in 1..Len(more) : more[k].cost =
                        arena[more[k].father].cost + p.cost[arena[more[k].father].state][more[k].state])
                => Priced(p, arena \o more)
<1> DEFINE a == arena \o more
<1>1. /\ Len(arena) \in Nat /\ Len(more) \in Nat /\ Len(a) = Len(arena) + Len(more)
      /\ \A i \in 1..Len(arena) : a[i] = arena[i]
      /\ \A k \in 1..Len(more) : a[Len(arena) + k] = more[k]
  OBVIOUS
<1>2. \A i \in 1..Len(a) : i \in 1..Len(arena) \/ \E k \in 1..Len(more) : i = Len(arena) + k
  <2> HIDE DEF a
  <2> SUFFICES ASSUME NEW i \in 1..Len(a), i \notin 1..Len(arena)
               PROVE  \E k \in 1..Len(more) : i = Len(arena) + k
    OBVIOUS
  <2>1. i - Len(arena) \in 1..Len(more) /\ i = Len(arena) + (i - Len(arena))
    BY <1>1
  <2> QED  BY <2>1
<1>3. \A i \in 1..Len(arena) : arena[i].father # 0 => arena[i].father \in 1..Len(arena)
  <2> SUFFICES ASSUME NEW i \in 1..Len(arena), arena[i].father # 0
               PROVE  arena[i].father \in 1..Len(arena)
    OBVIOUS
  <2>1. arena[i].father \in Nat /\ arena[i].father < i /\ Len(arena) \in Nat
    BY ArenaNode
  <2> QED  BY <2>1
<1>4. \A k \in 1..Len(more) : more[k].father # 0
  BY <1>1
<1> HIDE DEF a
<1>5. Linked(p, a, o)
  <2> SUFFICES ASSUME NEW i \in 1..Len(a)
               PROVE  IF a[i].father = 0 THEN a[i].state = o
                      ELSE a[i].state \in p.next[a[a[i].father].state]
    BY DEF Linked
  <2>1. CASE i \in 1..Len(arena)
    BY <1>1, <1>3, <2>1 DEF Linked
  <2>2. ASSUME NEW k \in 1..Len(more), i = Len(arena) + k
        PROVE  IF a[i].father = 0 THEN a[i].state = o
               ELSE a[i].state \in p.next[a[a[i].father].state]
    BY <1>1, <1>4, <2>2
  <2> QED  BY <1>2, <2>1, <2>2
<1>6. ASSUME Priced(p, arena), \A k \in 1..Len(more) : more[k].cost =
                arena[more[k].father].cost + p.cost[arena[more[k].father].state][more[k].state]
      PROVE  Priced(p, a)
  <2> SUFFICES ASSUME NEW i \in 1..Len(a)
               PROVE  IF a[i].father = 0 THEN a[i].cost = 0
                      ELSE a[i].cost = a[a[i].father].cost + p.cost[a[a[i].father].state][a[i].state]
    BY DEF Priced
  <2>1. CASE i \in 1..Len(arena)
    <3> DEFINE d == arena[i].father
    <3>1. a[i] = arena[i] /\ (d # 0 => d \in 1..Len(arena) /\ a[d] = arena[d])
      BY <1>1, <1>3, <2>1
    <3>2. IF d = 0 THEN arena[i].cost = 0
          ELSE arena[i].cost = arena[d].cost + p.cost[arena[d].state][arena[i].state]
      BY <1>6, <2>1 DEF Priced
    <3>3. CASE d = 0
      BY <3>1, <3>2, <3>3
    <3>4. CASE d # 0
      <4>1. a[i].father = d /\ a[i].cost = arena[i].cost /\ a[i].state = arena[i].state
            /\ a[d].cost = arena[d].cost /\ a[d].state = arena[d].state
        BY <3>1, <3>4
      <4> HIDE DEF d
      <4> QED  BY <3>2, <3>4, <4>1
    <3> QED  BY <3>3, <3>4
  <2>2. ASSUME NEW k \in 1..Len(more), i = Len(arena) + k
        PROVE  IF a[i].father = 0 THEN a[i].cost = 0
               ELSE a[i].cost = a[a[i].father].cost + p.cost[a[a[i].father].state][a[i].state]
    <3> DEFINE d == more[k].father
    <3>1. a[i] = more[k] /\ d # 0 /\ a[d] = arena[d]
      BY <1>1, <1>4, <2>2
    <3>2. more[k].cost = arena[d].cost + p.cost[arena[d].state][more[k].state]
      BY <1>6
    <3>3. a[i].father = d /\ a[i].cost = more[k].cost /\ a[i].state = more[k].state
          /\ a[d].cost = arena[d].cost /\ a[d].state = arena[d].state
      BY <3>1
    <3> HIDE DEF d
    <3> QED  BY <3>1, <3>2, <3>3
  <2> QED  BY <1>2, <2>1, <2>2
<1> QED  BY <1>5, <1>6 DEF a

-----------------------------------------------------------------------------
(* The plan so far, the arena and the incumbent. *)

\* The climb's plan leads to where it stands; it never runs below the cost sweep.
Trailing == phase = "ehc" => problem.caller # "improve" /\ Leads(problem, Start, trail, Here)

\* The arena grows from where the climb stands, or from the start.
Rooted == phase # "done" => Linked(problem, nodes, IF phase = "ehc" THEN Here ELSE Start)

Costed == Exploring => Priced(problem, nodes)

Offered == \A x \in pending : x[2] \in problem.next[nodes[x[1]].state]

\* The incumbent is a goal below the caller's cost.
Held ==
    /\ bound <= problem.first
    /\ phase # "done" /\ incumbent # 0 =>
            /\ nodes[incumbent].state \in problem.goal
            /\ problem.caller = "improve" => nodes[incumbent].cost < problem.first

Routes == Trailing /\ Rooted /\ Costed /\ Offered /\ Held

\* A plan that leads to t ends in t.
LEMMA EndOf ==
    ASSUME NEW p, NEW q, NEW t, Leads(p, Start, q, t)
    PROVE  (IF q = <<>> THEN Start ELSE q[Len(q)]) = t
<1>1. q \in Seq(States) /\ Start \in States /\ (<<Start>> \o q)[Len(q) + 1] = t
  BY DEF Leads
<1>2. CASE q = <<>>
  BY <1>1, <1>2
<1>3. CASE q # <<>>
  <2>1. Len(q) + 1 \in 2..(Len(q) + 1) /\ (Len(q) + 1) - 1 = Len(q)
    BY <1>1, <1>3
  <2>2. (<<Start>> \o q)[Len(q) + 1] = q[Len(q)]
    BY <1>1, <2>1, WalkOf
  <2> QED  BY <1>1, <1>3, <2>2
<1> QED  BY <1>2, <1>3

LEMMA InitRoutes == Init => Routes
<1> SUFFICES ASSUME Init PROVE Routes
  OBVIOUS
<1>1. /\ problem \in Problems /\ problem.first \in Nat /\ Start \in States
      /\ phase \in (IF problem.caller = "improve" THEN {"root"} ELSE {"ehc", "root"})
      /\ trail = <<>> /\ nodes = <<Root>> /\ pending = {} /\ incumbent = 0
      /\ bound = problem.first
  BY ProblemTypes DEF Init
<1>2. Here = Start
  BY <1>1 DEF Here
<1>3. Trailing
  BY <1>1, <1>2, LeadsNowhere DEF Trailing
<1>4. Rooted
  <2>1. Root.father = 0 /\ Root.cost = 0 /\ Root.state = Start
    BY DEF Root
  <2>2. Linked(problem, <<Root>>, Start)
    BY <2>1, FirstArena
  <2> QED  BY <1>1, <1>2, <2>2 DEF Rooted
<1>5. Costed /\ Offered /\ Held
  BY <1>1 DEF Costed, Exploring, Offered, Held
<1> QED  BY <1>3, <1>4, <1>5 DEF Routes

\* What keeps the arena keeps the routes, but for the incumbent.
LEMMA SameRoutes ==
    ASSUME Routes, UNCHANGED <<problem, nodes>>, phase # "ehc", phase' # "ehc", phase # "done",
           Exploring' => Exploring, pending' \subseteq pending
    PROVE  Trailing' /\ Rooted' /\ Costed' /\ Offered'
<1>1. Trailing'
  BY DEF Trailing
<1>2. Rooted'
  BY DEF Routes, Rooted
<1>3. Costed'
  BY DEF Routes, Costed
<1>4. Offered'
  BY DEF Routes, Offered
<1> QED  BY <1>1, <1>2, <1>3, <1>4

LEMMA ClimbRoutes ==
    ASSUME IInv, Routes, EhcGivesUp \/ EhcJumps \/ EhcLooks
    PROVE  Routes'
<1>1. /\ phase = "ehc" /\ incumbent = 0 /\ pending = {} /\ problem \in Problems /\ ~Exploring
      /\ UNCHANGED <<problem, incumbent, bound, pending>> /\ bound <= problem.first
      /\ nodes \in Seq(Node) /\ \A j \in 1..Len(nodes) : nodes[j].father < j
  BY DEF IInv, TypeOK, Phases, Indices, EhcGivesUp, EhcJumps, EhcLooks, Climbing, limits, Exploring,
         Routes, Held
<1>2. Offered' /\ Held'
  BY <1>1 DEF Offered, Held
<1>3. /\ problem.caller # "improve" /\ Leads(problem, Start, trail, Here)
      /\ Linked(problem, nodes, Here)
  BY <1>1 DEF Routes, Trailing, Rooted
<1>4. Start \in States /\ \A s \in States : problem.helpful[s] \subseteq problem.next[s]
      /\ problem.next \in [States -> SUBSET States]
  BY <1>1, ProblemTypes, SearchAssumption
<1>5. Here \in States
  <2>1. /\ trail \in Seq(States) /\ (<<Start>> \o trail)[Len(trail) + 1] = Here
    BY <1>3 DEF Leads
  <2>2. Len(trail) + 1 \in 1..(Len(trail) + 1)
    BY <2>1
  <2> QED  BY <1>4, <2>1, <2>2, WalkOf
<1>6. CASE EhcGivesUp
  <2>1. phase' = "root" /\ nodes' = <<Root>>
    BY <1>6 DEF EhcGivesUp
  <2>2. Root.father = 0 /\ Root.cost = 0 /\ Root.state = Start
    BY DEF Root
  <2>3. Linked(problem, <<Root>>, Start)
    BY <2>2, FirstArena
  <2>4. Trailing' /\ Costed'
    BY <2>1 DEF Trailing, Costed, Exploring
  <2>5. Rooted'
    BY <1>1, <2>1, <2>3 DEF Rooted
  <2> QED  BY <1>2, <2>4, <2>5 DEF Routes
\* The head of the lookahead's queue, and what it leads to.
<1>7. ASSUME queue # <<>>, NEW t \in News
      PROVE  /\ Head(queue) \in 1..Len(nodes) /\ t \in States
             /\ t \in problem.next[nodes[Head(queue)].state]
  <2>1. Head(queue) \in 1..Len(nodes)
    BY <1>7 DEF IInv, TypeOK, Indices
  <2>2. nodes[Head(queue)].state \in States
    BY <1>1, <2>1, ArenaNode
  <2>3. t \in problem.helpful[nodes[Head(queue)].state]
    BY <1>7 DEF News
  <2> QED  BY <1>4, <2>1, <2>2, <2>3
<1>8. CASE EhcJumps
  <2>1. PICK t \in News : trail' = Jumped(t) /\ nodes' = <<[Root EXCEPT !.state = t]>>
    BY <1>8 DEF EhcJumps
  <2>2. phase' = "ehc" /\ queue # <<>>
    BY <1>1, <1>8 DEF EhcJumps
  <2> DEFINE i == Head(queue)
  <2>3. i \in 1..Len(nodes) /\ t \in States /\ t \in problem.next[nodes[i].state]
    BY <1>7, <2>2
  <2> HIDE DEF i
  <2>4. Leads(problem, Here, PathOf(nodes, i), nodes[i].state)
    BY <1>1, <1>3, <1>5, <2>3, PathLeads
  <2>5. Leads(problem, Here, Append(PathOf(nodes, i), t), t)
    BY <2>3, <2>4, LeadsOn
  <2>6. Leads(problem, Start, trail \o Append(PathOf(nodes, i), t), t)
    BY <1>3, <2>5, LeadsThrough
  <2>7. Leads(problem, Start, trail', t)
    BY <2>1, <2>6 DEF Jumped, i
  <2>8. Here' = t
    BY <2>7, EndOf DEF Here
  <2>9. Trailing'
    BY <1>1, <1>3, <2>2, <2>7, <2>8 DEF Trailing
  <2>10. Rooted'
    <3> DEFINE r == [Root EXCEPT !.state = t]
    <3>1. r.father = 0 /\ r.cost = 0 /\ r.state = t
      BY DEF Root
    <3> HIDE DEF r
    <3>2. Linked(problem, <<r>>, t)
      BY <3>1, FirstArena
    <3> QED  BY <1>1, <2>1, <2>2, <2>8, <3>2 DEF Rooted, r
  <2>11. Costed'
    BY <2>2 DEF Costed, Exploring
  <2> QED  BY <1>2, <2>9, <2>10, <2>11 DEF Routes
<1>9. CASE EhcLooks
  <2>1. PICK f \in [1..Cardinality(News) -> News] :
            nodes' = nodes \o [i \in DOMAIN f |->
                    [state |-> f[i], father |-> Head(queue), g |-> 0, cost |-> 0]]
    BY <1>9 DEF EhcLooks
  <2> DEFINE n == Cardinality(News)
             more == [i \in 1..n |->
                    [state |-> f[i], father |-> Head(queue), g |-> 0, cost |-> 0]]
  <2>2. phase' = "ehc" /\ queue # <<>> /\ trail' = trail /\ nodes' = nodes \o more
    BY <1>1, <1>9, <2>1 DEF EhcLooks
  <2>3. n \in Nat
    <3>1. News \subseteq States
      BY <1>7, <2>2
    <3>2. IsFiniteSet(States)
      BY FS_Interval, SearchAssumption DEF States
    <3> QED  BY <3>1, <3>2, FS_Subset, FS_CardinalityType
  <2>4. ASSUME NEW k \in 1..n
        PROVE  /\ more[k] \in Node /\ more[k].father \in 1..Len(nodes)
               /\ more[k].state \in problem.next[nodes[more[k].father].state]
    <3>1. f[k] \in News
      BY <2>1
    <3>2. Head(queue) \in 1..Len(nodes) /\ f[k] \in States
          /\ f[k] \in problem.next[nodes[Head(queue)].state]
      BY <1>7, <2>2, <3>1
    <3>3. more[k] = [state |-> f[k], father |-> Head(queue), g |-> 0, cost |-> 0]
      OBVIOUS
    <3>4. Head(queue) \in Nat
      BY <3>2
    <3> HIDE DEF more
    <3> QED  BY <3>2, <3>3, <3>4 DEF Node
  <2>5. more = [k \in 1..n |-> more[k]]
    OBVIOUS
  <2> HIDE DEF n, more
  <2>6. more \in Seq(Node) /\ Len(more) = n
    BY <2>3, <2>4, <2>5
  <2>7. Linked(problem, nodes \o more, Here)
    BY <1>1, <1>3, <2>4, <2>6, LongerArena
  <2>8. Here' = Here
    BY <2>2 DEF Here
  <2>9. Trailing' /\ Rooted' /\ Costed'
    BY <1>1, <1>3, <2>2, <2>7, <2>8 DEF Trailing, Rooted, Costed, Exploring
  <2> QED  BY <1>2, <2>9 DEF Routes
<1> QED  BY <1>6, <1>8, <1>9

LEMMA InsertRoutes ==
    ASSUME IInv, Routes, NEW x \in pending, Insert(x[1], x[2])
    PROVE  Routes'
<1>1. /\ phase = "insert" /\ phase' = "insert" /\ x[1] \in 1..Len(nodes) /\ x[2] \in States
      /\ UNCHANGED <<problem, incumbent, bound>> /\ pending' = pending \ {<<x[1], x[2]>>}
      /\ nodes \in Seq(Node) /\ \A j \in 1..Len(nodes) : nodes[j].father < j
      /\ incumbent \in {0} \cup (1..Len(nodes)) /\ \A y \in pending : y[1] \in 1..Len(nodes)
      /\ problem \in Problems
  BY DEF IInv, TypeOK, Indices, Insert, limits
<1>2. Linked(problem, nodes, Start) /\ Priced(problem, nodes)
  BY <1>1 DEF Routes, Rooted, Costed, Exploring
<1>3. CASE UNCHANGED nodes
  <2>1. Trailing' /\ Rooted' /\ Costed' /\ Offered'
    BY <1>1, <1>3, SameRoutes DEF Exploring
  <2>2. Held'
    BY <1>1, <1>3 DEF Routes, Held
  <2> QED  BY <2>1, <2>2 DEF Routes
<1>4. CASE nodes' = Append(nodes, [state |-> x[2], father |-> x[1], g |-> nodes[x[1]].g + 1,
                                   cost |-> CostTo(x[1], x[2])])
  <2> DEFINE new == [state |-> x[2], father |-> x[1], g |-> nodes[x[1]].g + 1,
                     cost |-> CostTo(x[1], x[2])]
             more == <<new>>
  <2>1. new.father = x[1] /\ new.state = x[2] /\ new.cost = CostTo(x[1], x[2])
    OBVIOUS
  <2>2. new \in Node
    <3>1. nodes[x[1]].state \in States /\ nodes[x[1]].cost \in Nat /\ x[1] \in Nat
      BY <1>1, ArenaNode
    <3>2. nodes[x[1]].g + 1 \in Nat
      <4>1. nodes[x[1]] \in Node
        BY <1>1
      <4> QED  BY <4>1 DEF Node
    <3>3. CostTo(x[1], x[2]) \in Nat
      <4>1. problem.cost[nodes[x[1]].state][x[2]] \in Nat
        BY <1>1, <3>1, ProblemTypes
      <4> QED  BY <3>1, <4>1 DEF CostTo
    <3> QED  BY <1>1, <3>1, <3>2, <3>3 DEF Node
  <2>3. nodes' = nodes \o more /\ more \in Seq(Node) /\ Len(more) = 1 /\ more[1] = new
        /\ Len(nodes) \in Nat
        /\ \A j \in 1..Len(nodes) : nodes'[j] = nodes[j]
    <3>1. nodes' = Append(nodes, new)
      BY <1>4
    <3> HIDE DEF new
    <3> QED  BY <1>1, <2>2, <3>1
  <2>4. x[2] \in problem.next[nodes[x[1]].state]
    BY DEF Routes, Offered
  <2> HIDE DEF new, more
  <2>5. ASSUME NEW k \in 1..Len(more)
        PROVE  /\ more[k].father \in 1..Len(nodes)
               /\ more[k].state \in problem.next[nodes[more[k].father].state]
               /\ more[k].cost = nodes[more[k].father].cost
                                    + problem.cost[nodes[more[k].father].state][more[k].state]
    <3>1. k = 1
      BY <2>3
    <3>2. more[k].father = x[1] /\ more[k].state = x[2] /\ more[k].cost = CostTo(x[1], x[2])
      BY <2>1, <2>3, <3>1
    <3> QED  BY <1>1, <2>4, <3>2 DEF CostTo
  <2>6. Linked(problem, nodes \o more, Start) /\ Priced(problem, nodes \o more)
    BY <1>1, <1>2, <2>3, <2>5, LongerArena
  <2>7. Trailing' /\ Rooted' /\ Costed'
    BY <1>1, <2>3, <2>6 DEF Trailing, Rooted, Costed
  <2>8. Offered'
    BY <1>1, <2>3 DEF Routes, Offered
  <2>9. Held'
    BY <1>1, <2>3 DEF Routes, Held
  <2> QED  BY <2>7, <2>8, <2>9 DEF Routes
<1> QED  BY <1>3, <1>4 DEF Insert

LEMMA PopRoutes ==
    ASSUME IInv, Routes, NEW B \in SUBSET open, PopPlain(B) \/ PopLength(B) \/ PopCost(B)
    PROVE  Routes'
<1>1. /\ phase = "pop" /\ phase' \in {"pop", "batch"} /\ UNCHANGED <<problem, nodes, pending>>
      /\ B \subseteq 1..Len(nodes) /\ nodes \in Seq(Node) /\ bound \in Nat /\ problem \in Problems
  BY DEF IInv, TypeOK, Indices, PopPlain, PopLength, PopCost, Pops, Retain
<1>2. Trailing' /\ Rooted' /\ Costed' /\ Offered'
  BY <1>1, SameRoutes DEF Exploring
<1>3. \A i \in B : nodes[i].cost \in Nat /\ i # 0
  BY <1>1, ArenaNode
<1>4. problem.first \in Nat
  BY <1>1, ProblemTypes
<1>5. CASE UNCHANGED <<incumbent, bound>>
  <2>1. Held'
    BY <1>1, <1>5 DEF Routes, Held
  <2> QED  BY <1>2, <2>1 DEF Routes
<1>6. CASE PopPlain(B)
  BY <1>5, <1>6 DEF PopPlain, limits
<1>7. CASE PopLength(B)
  <2>1. ASSUME NEW i \in Goals(B), incumbent' = i, bound' = bound, problem.caller = "length"
        PROVE  Held'
    BY <1>1, <2>1 DEF Routes, Held, Goals
  <2>2. Held' \/ UNCHANGED <<incumbent, bound>>
    BY <1>7, <2>1 DEF PopLength
  <2> QED  BY <1>2, <1>5, <2>2 DEF Routes
<1>8. CASE PopCost(B)
  <2>1. ASSUME NEW i \in Cheaper(B), incumbent' = i, bound' = nodes[i].cost
        PROVE  Held'
    <3>1. i \in B /\ nodes[i].state \in problem.goal /\ nodes[i].cost < bound
      BY DEF Cheaper, Goals
    <3>2. bound <= problem.first
      BY DEF Routes, Held
    <3>3. nodes[i].cost < problem.first /\ nodes[i].cost <= problem.first
      BY <1>1, <1>3, <1>4, <3>1, <3>2
    <3> QED  BY <1>1, <2>1, <3>1, <3>3 DEF Held
  <2>2. Held' \/ UNCHANGED <<incumbent, bound>>
    BY <1>8, <2>1 DEF PopCost
  <2> QED  BY <1>2, <1>5, <2>2 DEF Routes
<1> QED  BY <1>6, <1>7, <1>8

LEMMA RoutesStep == IInv /\ Routes /\ Next => Routes'
<1> SUFFICES ASSUME IInv, Routes, Next PROVE Routes'
  OBVIOUS
<1>1. ASSUME Answering PROVE Routes'
  <2>1. Trailing' /\ Rooted' /\ Costed' /\ Offered'
    BY <1>1 DEF Answering, Trailing, Rooted, Costed, Offered, Exploring
  <2>2. Held'
    BY <1>1 DEF Answering, Routes, Held
  <2> QED  BY <2>1, <2>2 DEF Routes
<1>2. CASE Begin
  <2>1. /\ phase' = "pop" /\ nodes' = <<Root>> /\ incumbent' = 0 /\ bound' = problem.first
        /\ problem' = problem /\ pending' = {} /\ problem \in Problems
    BY <1>2 DEF Begin, IInv, Phases, TypeOK
  <2>2. Root.father = 0 /\ Root.cost = 0 /\ Root.state = Start
    BY DEF Root
  <2>3. Linked(problem, <<Root>>, Start) /\ Priced(problem, <<Root>>)
    BY <2>2, FirstArena
  <2>4. Trailing' /\ Rooted' /\ Costed' /\ Offered'
    BY <2>1, <2>3 DEF Trailing, Rooted, Costed, Offered
  <2>5. Held'
    BY <2>1, ProblemTypes DEF Held
  <2> QED  BY <2>4, <2>5 DEF Routes
<1>3. CASE Refill
  <2>1. Trailing' /\ Rooted' /\ Costed' /\ Offered'
    BY <1>3, SameRoutes DEF Refill, Exploring
  <2>2. Held'
    BY <1>3 DEF Refill, Routes, Held, limits
  <2> QED  BY <2>1, <2>2 DEF Routes
<1>4. CASE Expand
  <2>1. /\ phase = "batch" /\ phase' = "insert" /\ UNCHANGED <<problem, nodes, incumbent, bound>>
        /\ \A x \in pending' : x[2] \in problem.next[nodes[x[1]].state]
    BY <1>4 DEF Expand, limits
  <2>2. Trailing' /\ Rooted' /\ Costed' /\ Held'
    BY <2>1 DEF Routes, Trailing, Rooted, Costed, Held, Exploring
  <2>3. Offered'
    BY <2>1 DEF Offered
  <2> QED  BY <2>2, <2>3 DEF Routes
<1>5. CASE Inserted
  <2>1. Trailing' /\ Rooted' /\ Costed' /\ Offered'
    BY <1>5, SameRoutes DEF Inserted, Exploring
  <2>2. Held'
    BY <1>5 DEF Inserted, Routes, Held, limits
  <2> QED  BY <2>1, <2>2 DEF Routes
<1> QED
  BY <1>1, <1>2, <1>3, <1>4, <1>5, ClimbRoutes, PopRoutes, InsertRoutes, WhoAnswers
     DEF Next, Climb, Sweep

-----------------------------------------------------------------------------
(* The answers. *)

\* What a search hands back is a plan below the caller's cost.
LEMMA FoundIsRight ==
    ASSUME TypeOK, Linked(problem, nodes, Start), Priced(problem, nodes), NEW i \in Indices,
           nodes[i].state \in problem.goal,
           problem.caller = "improve" => nodes[i].cost < problem.first
    PROVE  WellPlanned(problem, PathOf(nodes, i))
<1>1. /\ nodes \in Seq(Node) /\ problem \in Problems /\ i \in 1..Len(nodes) /\ Start \in States
      /\ \A j \in 1..Len(nodes) : nodes[j].father < j
  BY ProblemTypes DEF TypeOK, Indices
<1>2. /\ Leads(problem, Start, PathOf(nodes, i), nodes[i].state)
      /\ Spends(problem, Start, PathOf(nodes, i), nodes[i].cost)
  BY <1>1, PathLeads
<1>3. CASE problem.caller = "improve"
  BY <1>2, <1>3, RightPlan
<1>4. CASE problem.caller # "improve"
  <2>1. problem.first = 1 /\ \A s, t \in States : problem.cost[s][t] = 0
    BY <1>1, <1>4, SearchAssumption
  <2>2. Spends(problem, Start, PathOf(nodes, i), 0) /\ 0 < problem.first
    BY <1>2, <2>1, FreeWalk
  <2> QED  BY <1>2, <2>2, RightPlan
<1> QED  BY <1>3, <1>4

LEMMA AnsweredPlan ==
    ASSUME NEW kind, NEW plan, Answer(kind, plan)
    PROVE  outcome'.kind = kind /\ outcome'.plan = plan /\ problem' = problem
BY DEF Answer

LEMMA PlanStep == IInv /\ Routes /\ Next /\ Phases' => PlanIsAPlan'
<1> SUFFICES ASSUME IInv, Routes, Next, Phases' PROVE PlanIsAPlan'
  OBVIOUS
<1>1. TypeOK /\ Phases /\ Bounds /\ problem \in Problems
  BY DEF IInv, TypeOK
<1>2. ASSUME outcome'.kind \notin {"plan", "improved"} PROVE PlanIsAPlan'
  BY <1>2 DEF PlanIsAPlan
<1>3. ASSUME WellPlanned(problem', outcome'.plan) PROVE PlanIsAPlan'
  BY <1>3 DEF PlanIsAPlan, WellPlanned
<1>4. CASE phase' # "done"
  BY <1>2, <1>4 DEF Phases
<1>5. CASE EhcArrives
  <2>1. phase = "ehc" /\ Here \in problem.goal /\ Answer("plan", trail)
    BY <1>5 DEF EhcArrives, Climbing
  <2>2. problem.caller # "improve" /\ Leads(problem, Start, trail, Here)
    BY <2>1 DEF Routes, Trailing
  <2>3. problem.first = 1 /\ \A s, t \in States : problem.cost[s][t] = 0
    BY <1>1, <2>2, SearchAssumption
  <2>4. Spends(problem, Start, trail, 0) /\ 0 < problem.first
    BY <2>2, <2>3, FreeWalk
  <2>5. WellPlanned(problem, trail)
    BY <2>1, <2>2, <2>4, RightPlan
  <2>6. outcome'.plan = trail /\ problem' = problem
    BY <2>1, AnsweredPlan
  <2> QED  BY <1>3, <2>5, <2>6
<1>6. ASSUME NEW i \in Indices, Found(i), phase \in {"pop", "batch"}, nodes[i].state \in problem.goal,
             problem.caller = "improve" => nodes[i].cost < problem.first
      PROVE  PlanIsAPlan'
  <2>1. Linked(problem, nodes, Start) /\ Priced(problem, nodes)
    BY <1>6 DEF Routes, Rooted, Costed, Exploring
  <2>2. WellPlanned(problem, PathOf(nodes, i))
    BY <1>1, <1>6, <2>1, FoundIsRight
  <2>3. outcome'.plan = PathOf(nodes, i) /\ problem' = problem
    BY <1>6, AnsweredPlan DEF Found
  <2> QED  BY <1>3, <2>2, <2>3
<1>7. ASSUME NEW c \in BOOLEAN, NEW plan, Answer(Refused(c), plan) PROVE PlanIsAPlan'
  <2>1. outcome'.kind = Refused(c)
    BY <1>7, AnsweredPlan
  <2> QED  BY <1>2, <2>1 DEF Refused
<1>8. CASE NoSweep
  <2>1. outcome'.kind = IF problem.first = 0 THEN "proven" ELSE "kept"
    BY <1>8, AnsweredPlan DEF NoSweep
  <2> QED  BY <1>2, <2>1
<1>9. CASE DeadAtRoot
  BY <1>7, <1>9 DEF DeadAtRoot
<1>10. ASSUME incumbent # 0, Found(incumbent), phase \in {"pop", "batch"} PROVE PlanIsAPlan'
  <2>1. incumbent \in Indices
    BY <1>1, <1>10 DEF TypeOK
  <2>2. nodes[incumbent].state \in problem.goal
        /\ (problem.caller = "improve" => nodes[incumbent].cost < problem.first)
    BY <1>10 DEF Routes, Held
  <2> QED  BY <1>6, <1>10, <2>1, <2>2
<1>11. CASE Capped \/ Drained
  BY <1>7, <1>10, <1>11 DEF Capped, Drained
<1>12. ASSUME NEW B \in SUBSET open, PopGoal(B) PROVE PlanIsAPlan'
  <2>1. PICK i \in Goals(B) : Found(i)
    BY <1>12 DEF PopGoal
  <2>2. i \in Indices /\ nodes[i].state \in problem.goal /\ problem.caller = "plan" /\ phase = "pop"
    BY <1>1, <1>12, <2>1 DEF PopGoal, Pops, Goals, TypeOK
  <2> QED  BY <1>6, <2>1, <2>2
<1>13. ASSUME NEW B \in SUBSET open, PopFree(B) PROVE PlanIsAPlan'
  <2>1. PICK i \in Cheaper(B) : Found(i)
    BY <1>13 DEF PopFree
  <2>2. i \in Indices /\ nodes[i].state \in problem.goal /\ phase = "pop" /\ nodes[i].cost < bound
    BY <1>1, <1>13, <2>1 DEF PopFree, Pops, Cheaper, Goals, TypeOK
  <2>3. nodes[i].cost \in Nat /\ bound \in Nat /\ problem.first \in Nat /\ bound <= problem.first
    BY <1>1, <2>2, NodeTypes, ProblemTypes DEF TypeOK, Routes, Held
  <2>4. nodes[i].cost < problem.first
    BY <2>2, <2>3
  <2> QED  BY <1>6, <2>1, <2>2, <2>4
<1>14. ASSUME NEW B \in SUBSET open, PopPlain(B) \/ PopLength(B) \/ PopCost(B) PROVE phase' # "done"
  BY <1>14 DEF PopPlain, PopLength, PopCost, Retain
<1>15. CASE EhcGivesUp \/ EhcJumps \/ EhcLooks \/ Begin \/ Refill \/ Expand \/ Inserted
            \/ \E x \in pending : Insert(x[1], x[2])
  <2>1. phase' # "done"
    BY <1>15 DEF EhcGivesUp, EhcJumps, EhcLooks, Climbing, Begin, Refill, Expand, Inserted, Insert
  <2> QED  BY <1>4, <2>1
<1> QED
  BY <1>4, <1>5, <1>8, <1>9, <1>11, <1>12, <1>13, <1>14, <1>15 DEF Next, Climb, Sweep

-----------------------------------------------------------------------------
(* The theorems. *)

\* search.rs's loops keep the frontier: what is under the bound is still to be
\* expanded, or all it leads to under the bound is in the arena or on its way.
THEOREM SearchInvariant == Spec => []IInv
<1>1. Init => IInv
  BY InitTypes, InitInv DEF IInv
<1>2. IInv /\ [Next]_vars => IInv'
  <2> SUFFICES ASSUME IInv, [Next]_vars PROVE IInv'
    OBVIOUS
  <2>1. CASE Next
    <3>1. TypeOK' /\ Phases' /\ Bounds'
      BY <2>1, ClimbTypes, SweepTypes, PhasesStep, BoundsStep DEF IInv, Next
    <3>2. Frontier' /\ ProofIsAProof' /\ DrainedIsOptimal'
      BY <2>1, <3>1, FrontierStep, ClaimsStep
    <3> QED
      BY <3>1, <3>2 DEF IInv
  <2>2. CASE UNCHANGED vars
    BY <2>2 DEF vars, climb, limits, IInv, TypeOK, Phases, Bounds, Frontier, ProofIsAProof,
                DrainedIsOptimal, Exploring, Uncut, Covered, Duplicate, CostTo, Indices
  <2> QED
    BY <2>1, <2>2
<1> QED
  BY <1>1, <1>2, PTL DEF Spec

\* search.rs's state is well-formed at every step: the arena's fathers come before
\* their children, and the open list, the batch, the candidates and the incumbent
\* name nodes of the arena.
THEOREM SearchTypeCorrect == Spec => []TypeOK
<1>1. IInv => TypeOK
  BY DEF IInv
<1> QED
  BY <1>1, SearchInvariant, PTL

\* The ladder's "proven unsolvable" and the cost sweep's `proven` are proofs, for
\* every task, order of the heap, batch size and cap.
THEOREM ExhaustionProves == Spec => []ProofIsAProof
<1>1. IInv => ProofIsAProof
  BY DEF IInv
<1> QED
  BY <1>1, SearchInvariant, PTL

\* costs::improve's sweep that drains its open list returns a cheapest plan, for
\* every cost function, though the bound moves while the search runs.
THEOREM SweepOptimal == Spec => []DrainedIsOptimal
<1>1. IInv => DrainedIsOptimal
  BY DEF IInv
<1> QED
  BY <1>1, SearchInvariant, PTL

\* Every plan the ladder or the cost sweep answers leads from the start to a goal by
\* allowed operators, below the cost its caller had: for every task, order of the
\* heap, jump of the climb, cap and re-entry.
THEOREM PlansArePlans == Spec => []PlanIsAPlan
<1>1. Init => Routes /\ PlanIsAPlan
  <2>1. Init => outcome.kind = "none"
    BY DEF Init, NoOutcome
  <2> QED  BY <2>1, InitRoutes DEF PlanIsAPlan
<1>2. IInv /\ IInv' /\ Routes /\ PlanIsAPlan /\ [Next]_vars => Routes' /\ PlanIsAPlan'
  <2> SUFFICES ASSUME IInv, IInv', Routes, PlanIsAPlan, [Next]_vars PROVE Routes' /\ PlanIsAPlan'
    OBVIOUS
  <2>1. CASE Next
    BY <2>1, RoutesStep, PlanStep DEF IInv
  <2>2. CASE UNCHANGED vars
    <3>1. Routes'
      BY <2>2 DEF vars, climb, limits, Routes, Trailing, Rooted, Costed, Offered, Held, Exploring, Here
    <3>2. outcome' = outcome /\ problem' = problem
      BY <2>2 DEF vars
    <3>3. PlanIsAPlan'
      BY <3>2 DEF PlanIsAPlan
    <3> QED  BY <3>1, <3>3
  <2> QED  BY <2>1, <2>2
<1> QED
  BY <1>1, <1>2, SearchInvariant, PTL DEF Spec
=============================================================================
