------------------------------ MODULE PlanSearch ------------------------------
(***************************************************************************)
(* The classical search of search.rs over any finite transition system:    *)
(* plan_avoiding's ladder (enforced hill-climbing, then weighted           *)
(* best-first in at most MaxRounds re-entries) and the cost sweep that     *)
(* costs::improve runs on the same best-first loop.                        *)
(*                                                                         *)
(* A heap orders its nodes by weights, landmarks, penalties and preferred  *)
(* operators; here a batch is any of the open nodes, so what is shown      *)
(* holds for every order.  The caps (evaluations, nodes, wall, memory, a   *)
(* cancelled call) may trip at any batch, in its evaluation or expansion.  *)
(* The bounded rungs between hill-climbing and the fallback (novelty,      *)
(* LAMA) either return a plan of their own or nothing and are left out.    *)
(***************************************************************************)
EXTENDS Integers, Sequences, FiniteSets

CONSTANTS N,          \* states 1..N, the search starts in 1
          Batch,      \* BATCH: nodes popped at a time
          MaxRounds,  \* REFILL_MAX_ROUNDS
          Problems

States == 1..N
Start == 1

(***************************************************************************)
(* next: the states one allowed operator leads to; helpful: by a helpful   *)
(* one; dead: where the relaxed problem has no solution; h: its length     *)
(* elsewhere; first: the exclusive cost bound, 1 for a caller without a    *)
(* cost fluent, whose costs are 0.                                         *)
(***************************************************************************)
Problem ==
    [next : [States -> SUBSET States], helpful : [States -> SUBSET States],
     goal : SUBSET States, dead : SUBSET States, h : [States -> Nat],
     cost : [States -> [States -> Nat]], first : Nat, caller : {"plan", "length", "improve"}]

\* X is left by no operator.
Closed(p, X) == \A s \in X : p.next[s] \subseteq X

\* relaxed_to is None only where no plan exists: what a relaxation cannot reach,
\* the task cannot.
ASSUME SearchAssumption ==
    /\ N \in Nat \ {0} /\ Batch \in Nat \ {0} /\ MaxRounds \in Nat
    /\ Problems \subseteq Problem
    /\ \A p \in Problems :
        /\ p.caller # "improve" => p.first = 1 /\ \A s, t \in States : p.cost[s][t] = 0
        /\ \A s \in States : p.helpful[s] \subseteq p.next[s]
        /\ \A d \in p.dead : \E X \in SUBSET States :
                d \in X /\ Closed(p, X) /\ X \cap p.goal = {}

VARIABLES
    problem,    \* never changed
    phase,      \* which loop runs
    trail,      \* ehc's plan so far, as the states it passes
    nodes,      \* the arena, append-only
    queue,      \* bfs_improve's queue
    open,       \* the nodes in the heap
    batch,      \* the popped nodes, after the goal check
    pending,    \* the candidates of an expansion still to be inserted
    incumbent,  \* best_acc or len_acc, 0 for None
    bound,      \* cost_bound
    lenBound,   \* len_bound, 0 while it is unbounded
    round,
    drained,    \* history: the open list ran dry
    outcome     \* what the caller answers, and its plan

climb == <<trail, queue>>
limits == <<incumbent, bound, lenBound>>
vars == <<problem, phase, climb, nodes, open, batch, pending, limits, round, drained, outcome>>

Node == [state : States, father : Nat, g : Nat, cost : Nat]
Root == [state |-> Start, father |-> 0, g |-> 0, cost |-> 0]
Indices == 1..Len(nodes)

Kinds == {"none", "plan", "gave up", "unsolvable", "proven", "improved", "kept"}
NoOutcome == [kind |-> "none", plan |-> <<>>]

TypeOK ==
    /\ problem \in Problems
    /\ phase \in {"ehc", "root", "pop", "batch", "insert", "done"}
    /\ nodes \in Seq(Node) /\ Len(nodes) > 0
    /\ \A i \in Indices : nodes[i].father < i
    /\ open \subseteq Indices /\ batch \subseteq Indices
    /\ pending \subseteq Indices \X States
    /\ incumbent \in {0} \cup Indices
    /\ bound \in Nat /\ lenBound \in Nat /\ round \in 0..MaxRounds
    /\ queue \in Seq(Indices)
    /\ drained \in BOOLEAN
    /\ outcome.kind \in Kinds

Init ==
    /\ problem \in Problems
    /\ phase \in (IF problem.caller = "improve" THEN {"root"} ELSE {"ehc", "root"})
    /\ trail = <<>> /\ nodes = <<Root>> /\ queue = <<1>>
    /\ open = {} /\ batch = {} /\ pending = {}
    /\ incumbent = 0 /\ bound = problem.first /\ lenBound = 0
    /\ round = 0 /\ drained = FALSE /\ outcome = NoOutcome

\* reconstruct: the states after the first on the way to each node.
PathOf(arena, i) ==
    LET path[j \in 1..i] ==
            IF arena[j].father = 0 THEN <<>>
                                   ELSE Append(path[arena[j].father], arena[j].state)
    IN path[i]

Answer(kind, plan) ==
    /\ phase' = "done" /\ outcome' = [kind |-> kind, plan |-> plan]
    /\ open' = {} /\ batch' = {} /\ pending' = {}
    /\ UNCHANGED <<problem, climb, nodes, limits, round>>

-----------------------------------------------------------------------------
(* Enforced hill-climbing: plan_avoiding's first rung. *)

Here == IF trail = <<>> THEN Start ELSE trail[Len(trail)]

\* relaxed_helpful answers None for a dead start; a climb jumps to no dead state.
Climbing == phase = "ehc" /\ Here \notin problem.dead

\* Nothing is said but that the rung found no plan: the ladder goes on.
EhcGivesUp ==
    /\ phase = "ehc"
    /\ phase' = "root" /\ trail' = <<>> /\ queue' = <<>> /\ nodes' = <<Root>>
    /\ UNCHANGED <<problem, open, batch, pending, limits, round, drained, outcome>>

EhcArrives ==
    /\ Climbing /\ Here \in problem.goal
    /\ Answer("plan", trail)
    /\ UNCHANGED drained

\* What the head of the queue leads to by helpful operators, not seen before in
\* this lookahead; a dead end is dropped.
Seen == {nodes[i].state : i \in Indices}
News == {t \in problem.helpful[nodes[Head(queue)].state] : t \notin Seen /\ t \notin problem.dead}

Improves(t) == problem.h[t] < problem.h[Here]

\* Mutant: the lookahead's own steps are left out of the plan.
JumpedStraight(t) == Append(trail, t)

\* plan.extend(ops): the lookahead's path from where the climb stood.
Jumped(t) == trail \o Append(PathOf(nodes, Head(queue)), t)

\* The first state with a lower h is where the climb goes on.
EhcJumps ==
    /\ Climbing /\ Here \notin problem.goal /\ queue # <<>>
    /\ \E t \in News :
        /\ Improves(t)
        /\ trail' = Jumped(t)
        /\ nodes' = <<[Root EXCEPT !.state = t]>> /\ queue' = <<1>>
    /\ UNCHANGED <<problem, phase, open, batch, pending, limits, round, drained, outcome>>

\* No improvement at the head: its news join the arena and the queue.
EhcLooks ==
    /\ Climbing /\ Here \notin problem.goal /\ queue # <<>>
    /\ ~\E t \in News : Improves(t)
    /\ \E f \in [1..Cardinality(News) -> News] :
        /\ \A t \in News : \E i \in DOMAIN f : f[i] = t
        /\ nodes' = nodes \o [i \in DOMAIN f |->
                [state |-> f[i], father |-> Head(queue), g |-> 0, cost |-> 0]]
        /\ queue' = Tail(queue) \o [i \in DOMAIN f |-> Len(nodes) + i]
    /\ UNCHANGED <<problem, phase, trail, open, batch, pending, limits, round, drained, outcome>>

-----------------------------------------------------------------------------
(* search_from. *)

\* Mutant: a cap is taken for an open list that ran dry.
RefusedAsProof(capped) == IF problem.caller = "improve" THEN "proven" ELSE "unsolvable"

\* What the caller makes of Unsolvable: capped, or a proof.
Refused(capped) ==
    IF problem.caller = "improve" THEN IF capped THEN "kept" ELSE "proven"
                                  ELSE IF capped THEN "gave up" ELSE "unsolvable"
Found(i) ==
    Answer(IF problem.caller = "improve" THEN "improved" ELSE "plan", PathOf(nodes, i))

\* improve answers without a search when nothing beats a free plan or no budget
\* is left.
NoSweep ==
    /\ phase = "root" /\ problem.caller = "improve"
    /\ Answer(IF problem.first = 0 THEN "proven" ELSE "kept", <<>>)
    /\ UNCHANGED drained

DeadAtRoot ==
    /\ phase = "root" /\ problem.first > 0 /\ Start \in problem.dead
    /\ Answer(Refused(FALSE), <<>>)
    /\ UNCHANGED drained

Begin ==
    /\ phase = "root" /\ problem.first > 0 /\ Start \notin problem.dead
    /\ phase' = "pop" /\ nodes' = <<Root>> /\ open' = {1}
    /\ incumbent' = 0 /\ bound' = problem.first /\ lenBound' = 0
    /\ UNCHANGED <<problem, climb, batch, pending, round, drained, outcome>>

Goals(B) == {i \in B : nodes[i].state \in problem.goal}

\* A batch off the heap.
Pops(B) ==
    /\ phase = "pop" /\ B # {} /\ B \subseteq open /\ Cardinality(B) <= Batch

\* The ladder's search stops at its first goal.
PopGoal(B) ==
    /\ Pops(B) /\ problem.caller = "plan"
    /\ \E i \in Goals(B) : Found(i)
    /\ UNCHANGED drained

PopPlain(B) ==
    /\ Pops(B) /\ problem.caller = "plan" /\ Goals(B) = {}
    /\ open' = open \ B /\ batch' = B /\ phase' = "batch"
    /\ UNCHANGED <<problem, climb, nodes, pending, limits, round, drained, outcome>>

\* What is kept of a batch goes on to its evaluation.
Retain(B, kept) ==
    /\ open' = open \ B /\ batch' = kept
    /\ phase' = IF kept = {} THEN "pop" ELSE "batch"
    /\ UNCHANGED <<problem, climb, nodes, pending, round, drained, outcome>>

\* len_anytime: the shortest goal of the batch is the incumbent if it is shorter
\* than the last; a node that cannot lead to a shorter one still is dropped.
PopLength(B) ==
    /\ Pops(B) /\ problem.caller = "length"
    /\ LET G == {i \in Goals(B) : lenBound = 0 \/ nodes[i].g < lenBound} IN
       \/ G = {} /\ UNCHANGED <<incumbent, lenBound>>
       \/ \E i \in G : /\ \A j \in G : nodes[i].g <= nodes[j].g
                       /\ incumbent' = i /\ lenBound' = nodes[i].g
    /\ UNCHANGED bound
    /\ Retain(B, {i \in B : incumbent' = 0 \/ nodes[i].g + 1 < lenBound'})

\* anytime: the same with costs, and nothing is sought below a free plan.
Cheaper(B) == {i \in Goals(B) : nodes[i].cost < bound}

PopFree(B) ==
    /\ Pops(B) /\ problem.caller = "improve"
    /\ \E i \in Cheaper(B) : nodes[i].cost = 0 /\ Found(i)
    /\ UNCHANGED drained

PopCost(B) ==
    /\ Pops(B) /\ problem.caller = "improve"
    /\ \A i \in Cheaper(B) : nodes[i].cost > 0
    /\ \/ Cheaper(B) = {} /\ UNCHANGED <<incumbent, bound>>
       \/ \E i \in Cheaper(B) : /\ \A j \in Cheaper(B) : nodes[i].cost <= nodes[j].cost
                                /\ incumbent' = i /\ bound' = nodes[i].cost
    /\ UNCHANGED lenBound
    /\ Retain(B, {i \in B : nodes[i].cost < bound'})

\* A cap trips: the incumbent is still handed back; without one, the refill loop
\* may go in again while the wall allows it.
Capped ==
    /\ phase = "batch" /\ UNCHANGED drained
    /\ IF incumbent # 0 THEN Found(incumbent) ELSE Answer(Refused(TRUE), <<>>)

\* Mutant: a re-entry is not counted.
RefillUncounted ==
    /\ phase = "batch" /\ incumbent = 0 /\ problem.caller # "improve" /\ round < MaxRounds
    /\ phase' = "root" /\ batch' = {} /\ open' = {}
    /\ UNCHANGED <<problem, climb, nodes, pending, limits, round, drained, outcome>>

Refill ==
    /\ phase = "batch" /\ incumbent = 0 /\ problem.caller # "improve" /\ round < MaxRounds
    /\ phase' = "root" /\ batch' = {} /\ open' = {} /\ round' = round + 1
    /\ UNCHANGED <<problem, climb, nodes, pending, limits, drained, outcome>>

CostTo(i, t) == nodes[i].cost + problem.cost[nodes[i].state][t]

\* The successors of the batch's live nodes, but those at or over the bound.
Expand ==
    /\ phase = "batch"
    /\ pending' = {x \in batch \X States :
            /\ nodes[x[1]].state \notin problem.dead
            /\ x[2] \in problem.next[nodes[x[1]].state]
            /\ CostTo(x[1], x[2]) < bound}
    /\ batch' = {} /\ phase' = "insert"
    /\ UNCHANGED <<problem, climb, nodes, open, limits, round, drained, outcome>>

\* Mutant: the key leaves the cost out, as the plain search's does.
DuplicateAnyCost(i, t) == \E j \in Indices : nodes[j].state = t

\* visited holds the state with its cost under a cost fluent.
Duplicate(i, t) == \E j \in Indices : nodes[j].state = t /\ nodes[j].cost = CostTo(i, t)

\* One candidate: cut by the length incumbent, a duplicate, or a new node.
Insert(i, t) ==
    /\ phase = "insert" /\ <<i, t>> \in pending
    /\ pending' = pending \ {<<i, t>>}
    /\ \/ /\ Duplicate(i, t) \/ (incumbent # 0 /\ problem.caller = "length" /\ nodes[i].g + 1 >= lenBound)
          /\ UNCHANGED <<nodes, open>>
       \/ /\ ~Duplicate(i, t) /\ ~(incumbent # 0 /\ problem.caller = "length" /\ nodes[i].g + 1 >= lenBound)
          /\ nodes' = Append(nodes,
                [state |-> t, father |-> i, g |-> nodes[i].g + 1, cost |-> CostTo(i, t)])
          /\ open' = open \cup {Len(nodes) + 1}
    /\ UNCHANGED <<problem, phase, climb, batch, limits, round, drained, outcome>>

Inserted ==
    /\ phase = "insert" /\ pending = {}
    /\ phase' = "pop"
    /\ UNCHANGED <<problem, climb, nodes, open, batch, pending, limits, round, drained, outcome>>

\* The open list ran dry.
Drained ==
    /\ phase = "pop" /\ open = {}
    /\ drained' = TRUE
    /\ IF incumbent # 0 THEN Found(incumbent) ELSE Answer(Refused(FALSE), <<>>)

Climb == EhcGivesUp \/ EhcArrives \/ EhcJumps \/ EhcLooks
Sweep ==
    \/ NoSweep \/ DeadAtRoot \/ Begin \/ Capped \/ Refill \/ Expand \/ Inserted \/ Drained
    \/ \E B \in SUBSET open : PopGoal(B) \/ PopPlain(B) \/ PopLength(B) \/ PopFree(B) \/ PopCost(B)
    \/ \E x \in pending : Insert(x[1], x[2])

Next == Climb \/ Sweep

Spec == Init /\ [][Next]_vars

\* One thread runs the loops; a batch's evaluations come back.
FairSpec == Spec /\ WF_vars(Next)

-----------------------------------------------------------------------------
(* Properties. *)

\* Y holds what is reached at a cost below b, and no goal.
NothingCheaper(p, b) ==
    \E Y \in SUBSET (States \X (0..(b - 1))) :
        /\ <<Start, 0>> \in Y
        /\ \A y \in Y : y[1] \notin p.goal
        /\ \A y \in Y : \A t \in p.next[y[1]] :
            y[2] + p.cost[y[1]][t] < b => <<t, y[2] + p.cost[y[1]][t]>> \in Y

\* Unsolvable with capped = false is a proof, from whatever re-entry it comes
\* (search.rs: the "proven unsolvable" wording must never fire on a cap), and so
\* is `proven` of the cost sweep: no allowed plan exists, or none below the cost
\* that is reported.
ProofIsAProof ==
    outcome.kind \in {"unsolvable", "proven"} /\ problem.first > 0
        => NothingCheaper(problem, problem.first)

\* The cost sweep that drains its open list hands back a cheapest plan, though it
\* cut by a bound that moved and dropped duplicates first come, first served.
DrainedIsOptimal ==
    drained /\ outcome.kind = "improved" => NothingCheaper(problem, bound)

\* A plan that is answered leads from the start to a goal by operators that may be
\* used, at less than the cost the caller had: across the jumps of the climb, and
\* through the fathers of a search whose nodes were cut and re-entered.
PlanIsAPlan ==
    outcome.kind \in {"plan", "improved"} =>
        LET walk == <<Start>> \o outcome.plan
            spent[i \in 1..Len(walk)] ==
                IF i = 1 THEN 0 ELSE spent[i - 1] + problem.cost[walk[i - 1]][walk[i]]
        IN /\ walk[Len(walk)] \in problem.goal
           /\ \A i \in 2..Len(walk) : walk[i] \in problem.next[walk[i - 1]]
           /\ spent[Len(walk)] < problem.first

\* Every solve ends, whatever trips and re-enters.
SolveEnds == <>(phase = "done")
=============================================================================
