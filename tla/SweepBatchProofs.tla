--------------------------- MODULE SweepBatchProofs ---------------------------
(***************************************************************************)
(* What holds of a batch for every width, every queue and every budget.     *)
(*                                                                         *)
(* The inductive invariant adds to the goals what a worker's place in its   *)
(* loop says about its hands (Hands), that neither the queue nor the        *)
(* channel repeats an instance, that a halting result in the channel has    *)
(* already raised the stop flag, and that the crowd is exactly the workers  *)
(* whose planner runs.                                                      *)
(***************************************************************************)
EXTENDS SweepBatch, FiniteSetTheorems, SequenceTheorems, WellFoundedInduction, TLAPS

Busy == {"mem", "admit", "hold", "enter", "run", "release", "send"}

Hands == \A w \in Workers : /\ pc[w] \in Busy => item[w] /= NoItem
                            /\ pc[w] \in {"gate", "pop"} => item[w] = NoItem

QueueDistinct == \A j, k \in 1..Len(queue) : queue[j] = queue[k] => j = k
TxDistinct == \A j, k \in 1..Len(tx) : tx[j][1] = tx[k][1] => j = k
HaltSeen == \A k \in 1..Len(tx) : tx[k][2] \in Halting => stop
InsideRuns == \A w \in Workers : crowd[w] /= Out <=> pc[w] = "run"

(* The crowd is finite, so counting it gives a natural number.              *)
LEMMA Counting ==
    ASSUME NEW S \in SUBSET Workers
    PROVE  IsFiniteSet(S) /\ Cardinality(S) \in 0..Width
<1>1. IsFiniteSet(Workers) /\ Cardinality(Workers) = Width
  BY FS_Interval, BatchAssumption DEF Workers
<1> QED  BY <1>1, FS_Subset, FS_CardinalityType, BatchAssumption

(* What taking the front of a sequence does to its elements.                *)
LEMMA Front ==
    ASSUME NEW S, NEW q \in Seq(S), q /= <<>>
    PROVE  /\ Head(q) \in S /\ Tail(q) \in Seq(S)
           /\ Len(q) \in Nat \ {0} /\ Len(Tail(q)) = Len(q) - 1
           /\ Head(q) = q[1]
           /\ \A k \in 1..Len(Tail(q)) : Tail(q)[k] = q[k + 1]
  BY HeadTailProperties, EmptySeq

(* TypeOK in two parts: the data, and the flags.                            *)
TypeFlags ==
    /\ stop \in BOOLEAN /\ interrupted \in BOOLEAN /\ engineGone \in BOOLEAN
    /\ runnerStop \in BOOLEAN /\ held \in BOOLEAN
TypeWorkers ==
    /\ charge \in [Workers -> Nat]
    /\ pc \in [Workers -> Places]
    /\ item \in [Workers -> Items \cup {NoItem}]
    /\ crowd \in [Workers -> 0..Out]
    /\ outcome \in [Workers -> Outcomes]
TypeShared ==
    /\ queue \in Seq(Items)
    /\ inUse \in Int
    /\ tx \in Seq(Items \X Outcomes)
    /\ applied \subseteq Items \X {"banked", "packed", "owed"}
    /\ cascade \subseteq Items
    /\ level \in Levels /\ width \in Nat
    /\ moves \in 0..MaxMoves

LEMMA TypeParts == TypeOK <=> TypeFlags /\ TypeWorkers /\ TypeShared
  BY DEF TypeOK, TypeFlags, TypeWorkers, TypeShared

LEMMA TypeInit == Init => TypeOK
<1> SUFFICES ASSUME Init PROVE TypeOK
  OBVIOUS
<1>1. TypeFlags
  BY DEF Init, TypeFlags
<1>2. TypeWorkers
  BY BatchAssumption DEF Init, TypeWorkers, Places, Outcomes, Out
<1>3. TypeShared
  BY BatchAssumption DEF Init, TypeShared, Levels
<1> QED  BY <1>1, <1>2, <1>3, TypeParts

LEMMA FlagsStep == TypeFlags /\ [Next]_vars => TypeFlags'
<1> SUFFICES ASSUME TypeFlags, [Next]_vars PROVE TypeFlags'
  OBVIOUS
<1> USE DEF TypeFlags
<1>1. ASSUME NEW w \in Workers, Worker(w) PROVE TypeFlags'
  BY <1>1 DEF Worker, Gate, Pop, Reserve, Admit, Hold, Enter, Leave, Release,
              Send, flags, runner, box
<1>2. ASSUME Collect PROVE TypeFlags'
  BY <1>2 DEF Collect, flags, box
<1>3. ASSUME Interrupt \/ EngineVanishes PROVE TypeFlags'
  BY <1>3 DEF Interrupt, EngineVanishes, runner, box
<1>4. ASSUME WatcherMoves \/ BoxClears PROVE TypeFlags'
  BY <1>4 DEF WatcherMoves, BoxClears, flags, runner
<1>5. ASSUME Returned \/ UNCHANGED vars PROVE TypeFlags'
  BY <1>5 DEF Returned, vars, flags, runner, box
<1> QED
  BY <1>1, <1>2, <1>3, <1>4, <1>5 DEF Next

LEMMA WorkersStep == TypeOK /\ Hands /\ [Next]_vars => TypeWorkers'
<1> SUFFICES ASSUME TypeOK, Hands, [Next]_vars PROVE TypeWorkers'
  OBVIOUS
<1> TypeWorkers /\ TypeShared
  BY TypeParts
<1> USE DEF TypeWorkers, Goto
<1>1. ASSUME NEW w \in Workers, Gate(w) \/ Admit(w) \/ Hold(w) PROVE TypeWorkers'
  BY <1>1 DEF Gate, Admit, Hold, Places
<1>2. ASSUME NEW w \in Workers, Pop(w) PROVE TypeWorkers'
  <2>1. queue /= <<>> => Head(queue) \in Items
    BY Front DEF TypeShared
  <2> QED  BY <1>2, <2>1 DEF Pop, Places
<1>3. ASSUME NEW w \in Workers, Reserve(w) PROVE TypeWorkers'
  <2>1. Bytes[item[w]] \in Nat
    BY <1>3, BatchAssumption DEF Reserve, Hands, Busy
  <2>2. charge' \in [Workers -> Nat]
    BY <1>3, <2>1 DEF Reserve
  <2> QED  BY <1>3, <2>2 DEF Reserve, Places
<1>4. ASSUME NEW w \in Workers, Enter(w) PROVE TypeWorkers'
  <2>1. BesideNow(w) \in 0..Width
    BY Counting DEF BesideNow, Inside
  <2>2. crowd' \in [Workers -> 0..Out]
    BY <1>4, <2>1, BatchAssumption DEF Enter, Entered, Larger, Out
  <2>3. outcome' \in [Workers -> Outcomes]
    BY <1>4 DEF Enter, Outcomes
  <2> QED  BY <1>4, <2>2, <2>3 DEF Enter, Places
<1>5. ASSUME NEW w \in Workers, Leave(w) PROVE TypeWorkers'
  <2>1. crowd' \in [Workers -> 0..Out]
    BY <1>5, BatchAssumption DEF Leave, Out
  <2>2. PICK r \in {"gone"} \cup Results(crowd[w]) : outcome' = [outcome EXCEPT ![w] = r]
    BY <1>5 DEF Leave
  <2>3. r \in Outcomes
    BY <2>2 DEF Results, Outcomes
  <2> QED  BY <1>5, <2>1, <2>2, <2>3 DEF Leave, Places
<1>6. ASSUME NEW w \in Workers, Release(w) PROVE TypeWorkers'
  BY <1>6 DEF Release, Places
<1>7. ASSUME NEW w \in Workers, Send(w) PROVE TypeWorkers'
  BY <1>7 DEF Send, Places, Outcomes
<1>8. ASSUME Collect \/ Interrupt \/ EngineVanishes \/ WatcherMoves \/ BoxClears
             \/ Returned \/ UNCHANGED vars
      PROVE  TypeWorkers'
  BY <1>8 DEF Collect, Interrupt, EngineVanishes, WatcherMoves, BoxClears, Returned,
              vars, local
<1> QED
  BY <1>1, <1>2, <1>3, <1>4, <1>5, <1>6, <1>7, <1>8 DEF Next, Worker

LEMMA SharedStep == TypeOK /\ Hands /\ [Next]_vars => TypeShared'
<1> SUFFICES ASSUME TypeOK, Hands, [Next]_vars PROVE TypeShared'
  OBVIOUS
<1> TypeWorkers /\ TypeShared
  BY TypeParts
<1> USE DEF TypeShared
<1>1. ASSUME NEW w \in Workers,
             Gate(w) \/ Admit(w) \/ Hold(w) \/ Enter(w) \/ Leave(w)
      PROVE  TypeShared'
  BY <1>1 DEF Gate, Admit, Hold, Enter, Leave, runner, box
<1>2. ASSUME NEW w \in Workers, Pop(w) PROVE TypeShared'
  <2>1. queue /= <<>> => Tail(queue) \in Seq(Items)
    BY Front
  <2> QED  BY <1>2, <2>1 DEF Pop, runner, box
<1>3. ASSUME NEW w \in Workers, Reserve(w) PROVE TypeShared'
  <2>1. Bytes[item[w]] \in Nat
    BY <1>3, BatchAssumption DEF Reserve, Hands, Busy, TypeWorkers
  <2>2. inUse' \in Int
    BY <1>3, <2>1 DEF Reserve
  <2> QED  BY <1>3, <2>2 DEF Reserve, runner, box
<1>4. ASSUME NEW w \in Workers, Release(w) PROVE TypeShared'
  <2>1. inUse' \in Int
    BY <1>4 DEF Release, TypeWorkers
  <2> QED  BY <1>4, <2>1 DEF Release, runner, box
<1>5. ASSUME NEW w \in Workers, Send(w) PROVE TypeShared'
  <2>1. <<item[w], outcome[w]>> \in Items \X Outcomes
    BY <1>5 DEF Send, Hands, Busy, TypeWorkers
  <2>2. tx' \in Seq(Items \X Outcomes)
    BY <1>5, <2>1, AppendProperties DEF Send
  <2> QED  BY <1>5, <2>2 DEF Send, runner, box
<1>6. ASSUME Collect PROVE TypeShared'
  <2>1. Head(tx) \in Items \X Outcomes /\ Tail(tx) \in Seq(Items \X Outcomes)
    BY <1>6, Front DEF Collect
  <2>2. applied' \subseteq Items \X {"banked", "packed", "owed"}
    BY <1>6, <2>1 DEF Collect, Outcomes, Halting
  <2>3. cascade' \subseteq Items
    BY <1>6, <2>1 DEF Collect
  <2> QED  BY <1>6, <2>1, <2>2, <2>3 DEF Collect, box
<1>7. ASSUME Interrupt \/ EngineVanishes \/ Returned \/ UNCHANGED vars PROVE TypeShared'
  BY <1>7 DEF Interrupt, EngineVanishes, Returned, vars, runner, box
<1>8. ASSUME WatcherMoves \/ BoxClears PROVE TypeShared'
  <2>1. level' \in Levels /\ width' \in Nat /\ moves' \in 0..MaxMoves
    BY <1>8, BatchAssumption DEF WatcherMoves, BoxClears, Levels
  <2> QED  BY <1>8, <2>1 DEF WatcherMoves, BoxClears, runner
<1> QED
  BY <1>1, <1>2, <1>3, <1>4, <1>5, <1>6, <1>7, <1>8 DEF Next, Worker

(* A worker between the pop and the send holds an instance; at the top of    *)
(* its loop it holds none.                                                   *)
LEMMA HandsStep == TypeOK /\ Hands /\ [Next]_vars => Hands'
<1> SUFFICES ASSUME TypeOK, Hands, [Next]_vars PROVE Hands'
  OBVIOUS
<1> TypeWorkers /\ TypeShared
  BY TypeParts
<1> USE DEF TypeWorkers, Hands, Busy, Goto
<1>1. ASSUME NEW w \in Workers, Pop(w) PROVE Hands'
  <2>0. queue /= <<>> => Head(queue) \in Items
    BY Front DEF TypeShared
  <2>1. queue /= <<>> => Head(queue) /= NoItem
    BY <2>0, BatchAssumption
  <2> QED  BY <1>1, <2>1 DEF Pop
<1>2. ASSUME NEW w \in Workers, Gate(w) \/ Reserve(w) \/ Admit(w) \/ Hold(w) PROVE Hands'
  BY <1>2 DEF Gate, Reserve, Admit, Hold
<1>3. ASSUME NEW w \in Workers, Enter(w) \/ Leave(w) \/ Release(w) \/ Send(w) PROVE Hands'
  BY <1>3 DEF Enter, Leave, Release, Send
<1>4. ASSUME Collect \/ Interrupt \/ EngineVanishes \/ WatcherMoves \/ BoxClears
             \/ Returned \/ UNCHANGED vars
      PROVE  Hands'
  BY <1>4 DEF Collect, Interrupt, EngineVanishes, WatcherMoves, BoxClears, Returned,
              vars, local
<1> QED
  BY <1>1, <1>2, <1>3, <1>4 DEF Next, Worker

LEMMA TypedStep == TypeOK /\ Hands /\ [Next]_vars => TypeOK' /\ Hands'
<1> SUFFICES ASSUME TypeOK, Hands, [Next]_vars PROVE TypeOK' /\ Hands'
  OBVIOUS
<1>1. TypeFlags' /\ TypeWorkers' /\ TypeShared'
  BY FlagsStep, WorkersStep, SharedStep, TypeParts
<1>2. TypeOK'
  BY <1>1 DEF TypeOK, TypeFlags, TypeWorkers, TypeShared
<1> QED  BY <1>2, HandsStep

(* Every state of a batch has its type.                                      *)
THEOREM TypeCorrect == Spec => []TypeOK
<1>1. Init => TypeOK /\ Hands
  BY TypeInit DEF Init, Hands, Busy
<1> QED  BY <1>1, TypedStep, PTL DEF Spec

-----------------------------------------------------------------------------
(* The crowd.                                                               *)

LEMMA InsideStep == TypeOK /\ InsideRuns /\ [Next]_vars => InsideRuns'
<1> SUFFICES ASSUME TypeOK, InsideRuns, [Next]_vars PROVE InsideRuns'
  OBVIOUS
<1> TypeWorkers
  BY TypeParts
<1> USE BatchAssumption DEF TypeWorkers, InsideRuns, Goto
<1>1. ASSUME NEW w \in Workers, Enter(w) PROVE InsideRuns'
  <2>1. BesideNow(w) \in 0..Width
    BY Counting DEF BesideNow, Inside
  <2>2. \A v \in Workers : /\ v = w => crowd'[v] /= Out
                           /\ v /= w => (crowd'[v] = Out <=> crowd[v] = Out)
    BY <1>1, <2>1 DEF Enter, Entered, Larger, Out
  <2>3. pc' = [pc EXCEPT ![w] = "run"] /\ pc[w] = "enter"
    BY <1>1 DEF Enter
  <2> QED  BY <2>2, <2>3
<1>2. ASSUME NEW w \in Workers, Leave(w) PROVE InsideRuns'
  BY <1>2 DEF Leave, Out
<1>3. ASSUME NEW w \in Workers,
             Gate(w) \/ Pop(w) \/ Reserve(w) \/ Admit(w) \/ Hold(w) \/ Release(w) \/ Send(w)
      PROVE  InsideRuns'
  BY <1>3 DEF Gate, Pop, Reserve, Admit, Hold, Release, Send
<1>4. ASSUME Collect \/ Interrupt \/ EngineVanishes \/ WatcherMoves \/ BoxClears
             \/ Returned \/ UNCHANGED vars
      PROVE  InsideRuns'
  BY <1>4 DEF Collect, Interrupt, EngineVanishes, WatcherMoves, BoxClears, Returned,
              vars, local
<1> QED
  BY <1>1, <1>2, <1>3, <1>4 DEF Next, Worker

(* Who enters finds the others, and after it everyone inside is beside no    *)
(* more planners than it is: the same set, one element exchanged.            *)
LEMMA EnterCounts ==
    ASSUME TypeOK, NEW w \in Workers, crowd[w] = Out, NEW v \in Inside,
           Inside' = Inside \cup {w}
    PROVE  Cardinality(Inside' \ {v}) = Cardinality(Inside \ {w})
<1>0. Inside \in SUBSET Workers /\ w \notin Inside
  BY DEF Inside
<1>1. IsFiniteSet(Inside) /\ Cardinality(Inside) \in Nat
  BY <1>0, Counting, BatchAssumption
<1>2. IsFiniteSet(Inside') /\ Cardinality(Inside') = Cardinality(Inside) + 1
  BY <1>0, <1>1, FS_AddElement
<1>3. Cardinality(Inside' \ {v}) = Cardinality(Inside') - 1
  BY <1>2, FS_RemoveElement
<1>4. Cardinality(Inside \ {w}) = Cardinality(Inside)
  BY <1>0, <1>1, FS_RemoveElement
<1> QED  BY <1>1, <1>2, <1>3, <1>4

LEMMA HonestStep ==
    TypeOK /\ InsideRuns /\ NeighboursHonest /\ [Next]_vars => NeighboursHonest'
<1> SUFFICES ASSUME TypeOK, InsideRuns, NeighboursHonest, [Next]_vars
             PROVE  NeighboursHonest'
  OBVIOUS
<1> TypeWorkers
  BY TypeParts
<1> USE DEF TypeWorkers, Goto
<1>1. ASSUME NEW w \in Workers, Enter(w) PROVE NeighboursHonest'
  <2>0. crowd[w] = Out /\ crowd' = Entered(w)
    BY <1>1 DEF Enter, InsideRuns
  <2>1. BesideNow(w) \in 0..Width /\ BesideNow(w) \in Nat
    BY Counting, BatchAssumption DEF BesideNow, Inside
  <2>2. Inside' = Inside \cup {w}
    BY <2>0, <2>1, BatchAssumption DEF Inside, Entered, Larger, Out
  <2>3. \A v \in Inside' : crowd'[v] >= BesideNow(w)
    BY <2>0, <2>1, <2>2, BatchAssumption DEF Inside, Entered, Larger, Out
  <2>4. ASSUME NEW v \in Inside' PROVE Cardinality(Inside' \ {v}) = BesideNow(w)
    <3>1. CASE v = w
      <4>1. Inside' \ {v} = Inside \ {w}
        BY <3>1, <2>2
      <4> QED  BY <4>1 DEF BesideNow
    <3>2. CASE v /= w
      <4>1. v \in Inside
        BY <3>2, <2>2
      <4> QED  BY <4>1, <2>0, <2>2, EnterCounts DEF BesideNow
    <3> QED  BY <3>1, <3>2
  <2> QED  BY <2>3, <2>4 DEF NeighboursHonest, BesideNow
<1>2. ASSUME NEW w \in Workers, Leave(w) PROVE NeighboursHonest'
  <2>1. crowd' = [crowd EXCEPT ![w] = Out]
    BY <1>2 DEF Leave
  <2>2. Inside' \subseteq Inside /\ w \notin Inside'
    BY <2>1, BatchAssumption DEF Inside, Out
  <2>3. ASSUME NEW v \in Inside' PROVE crowd'[v] >= Cardinality(Inside' \ {v})
    <3>1. Inside \ {v} \in SUBSET Workers /\ Inside' \ {v} \in SUBSET (Inside \ {v})
      BY <2>2 DEF Inside
    <3>2. /\ Cardinality(Inside' \ {v}) <= Cardinality(Inside \ {v})
          /\ Cardinality(Inside \ {v}) \in Nat /\ Cardinality(Inside' \ {v}) \in Nat
      <4>1. IsFiniteSet(Inside \ {v}) /\ Cardinality(Inside \ {v}) \in Nat
        BY <3>1, Counting, BatchAssumption
      <4> QED  BY <3>1, <4>1, FS_Subset, FS_CardinalityType
    <3>3. crowd[v] >= Cardinality(Inside \ {v}) /\ crowd'[v] = crowd[v] /\ crowd[v] \in Nat
      BY <2>1, <2>2, BatchAssumption DEF NeighboursHonest, BesideNow, Inside, Out
    <3> QED  BY <3>2, <3>3
  <2> QED  BY <2>3 DEF NeighboursHonest, BesideNow
<1>3. ASSUME crowd' = crowd PROVE NeighboursHonest'
  BY <1>3 DEF NeighboursHonest, BesideNow, Inside
<1>4. ASSUME NEW w \in Workers,
             Gate(w) \/ Pop(w) \/ Reserve(w) \/ Admit(w) \/ Hold(w) \/ Release(w) \/ Send(w)
      PROVE  crowd' = crowd
  BY <1>4 DEF Gate, Pop, Reserve, Admit, Hold, Release, Send
<1>5. ASSUME Collect \/ Interrupt \/ EngineVanishes \/ WatcherMoves \/ BoxClears
             \/ Returned \/ UNCHANGED vars
      PROVE  crowd' = crowd
  BY <1>5 DEF Collect, Interrupt, EngineVanishes, WatcherMoves, BoxClears, Returned, vars
<1> QED
  BY <1>1, <1>2, <1>3, <1>4, <1>5 DEF Next, Worker

LEMMA CrowdInit == Init => InsideRuns /\ NeighboursHonest
  BY DEF Init, InsideRuns, NeighboursHonest, Inside

(* For every width and every queue: two planners that ever ran at the same   *)
(* time both have it on their record, so neither can be judged as solo.      *)
THEOREM CrowdIsHonest == Spec => []NeighboursHonest
<1> DEFINE CInv == TypeOK /\ Hands /\ InsideRuns /\ NeighboursHonest
<1>1. Init => CInv
  BY TypeInit, CrowdInit DEF Init, Hands, Busy
<1>2. CInv /\ [Next]_vars => CInv'
  BY TypedStep, InsideStep, HonestStep
<1>3. CInv => NeighboursHonest
  OBVIOUS
<1> QED  BY <1>1, <1>2, <1>3, PTL DEF Spec

(* A peak is never lowered while its planner runs.                           *)
THEOREM PeaksStay == Spec => PeakNeverForgets
<1> DEFINE CInv == TypeOK /\ Hands /\ InsideRuns
           Keeps == \A w \in Workers : crowd[w] /= Out /\ crowd'[w] /= Out
                                       => crowd'[w] >= crowd[w]
<1>1. Init => CInv
  BY TypeInit, CrowdInit DEF Init, Hands, Busy
<1>2. CInv /\ [Next]_vars => CInv'
  BY TypedStep, InsideStep
<1>3. CInv /\ [Next]_vars => [Keeps]_vars
  <2> SUFFICES ASSUME CInv, [Next]_vars PROVE Keeps
    OBVIOUS
  <2> TypeWorkers
    BY TypeParts
  <2>1. ASSUME NEW w \in Workers, Enter(w) PROVE Keeps
    <3>1. crowd[w] = Out /\ crowd' = Entered(w)
      BY <2>1 DEF Enter, InsideRuns
    <3>2. BesideNow(w) \in 0..Width
      BY Counting DEF BesideNow, Inside
    <3> QED  BY <3>1, <3>2, BatchAssumption DEF Entered, Larger, TypeWorkers, Out
  <2>2. ASSUME NEW w \in Workers, Leave(w) PROVE Keeps
    BY <2>2, BatchAssumption DEF Leave, TypeWorkers, Out
  <2>3. ASSUME crowd' = crowd PROVE Keeps
    BY <2>3, BatchAssumption DEF TypeWorkers, Out
  <2>4. ASSUME NEW w \in Workers,
               Gate(w) \/ Pop(w) \/ Reserve(w) \/ Admit(w) \/ Hold(w) \/ Release(w) \/ Send(w)
        PROVE  crowd' = crowd
    BY <2>4 DEF Gate, Pop, Reserve, Admit, Hold, Release, Send
  <2>5. ASSUME Collect \/ Interrupt \/ EngineVanishes \/ WatcherMoves \/ BoxClears
               \/ Returned \/ UNCHANGED vars
        PROVE  crowd' = crowd
    BY <2>5 DEF Collect, Interrupt, EngineVanishes, WatcherMoves, BoxClears, Returned, vars
  <2> HIDE DEF Keeps
  <2> QED
    BY <2>1, <2>2, <2>3, <2>4, <2>5 DEF Next, Worker
<1> QED  BY <1>1, <1>2, <1>3, PTL DEF Spec, PeakNeverForgets

-----------------------------------------------------------------------------
(* No instance is held twice, and none is lost.                             *)

(* Popping a queue without repeats takes its front out of the set of what is *)
(* queued, and leaves a queue without repeats.                               *)
LEMMA PopFront ==
    ASSUME NEW S, NEW q \in Seq(S), q /= <<>>,
           \A j, k \in 1..Len(q) : q[j] = q[k] => j = k
    PROVE  /\ {Tail(q)[k] : k \in 1..Len(Tail(q))} = {q[k] : k \in 1..Len(q)} \ {Head(q)}
           /\ Head(q) \in {q[k] : k \in 1..Len(q)}
           /\ \A j, k \in 1..Len(Tail(q)) : Tail(q)[j] = Tail(q)[k] => j = k
<1> DEFINE t == Tail(q)
<1>1. /\ Len(q) \in Nat \ {0} /\ Len(t) = Len(q) - 1 /\ Head(q) = q[1]
      /\ \A k \in 1..Len(t) : t[k] = q[k + 1]
  BY Front
<1>2. \A k \in 1..Len(t) : k + 1 \in 2..Len(q)
  BY <1>1
<1>3. \A k \in 2..Len(q) : k - 1 \in 1..Len(t) /\ t[k - 1] = q[k]
  BY <1>1
<1>4. 1 \in 1..Len(q) /\ 2..Len(q) \subseteq 1..Len(q)
  BY <1>1
<1>5. {t[k] : k \in 1..Len(t)} \subseteq {q[k] : k \in 1..Len(q)} \ {Head(q)}
  <2> SUFFICES ASSUME NEW k \in 1..Len(t)
               PROVE  t[k] \in {q[j] : j \in 1..Len(q)} /\ t[k] /= q[1]
    BY <1>1
  <2>1. t[k] = q[k + 1] /\ k + 1 \in 1..Len(q) /\ k + 1 /= 1
    BY <1>1, <1>2, <1>4
  <2> QED  BY <2>1, <1>4
<1>6. {q[k] : k \in 1..Len(q)} \ {Head(q)} \subseteq {t[k] : k \in 1..Len(t)}
  <2> SUFFICES ASSUME NEW k \in 1..Len(q), q[k] /= q[1] PROVE q[k] \in {t[j] : j \in 1..Len(t)}
    BY <1>1
  <2>1. k \in 2..Len(q)
    BY <1>1
  <2> QED  BY <2>1, <1>3
<1>7. ASSUME NEW j \in 1..Len(t), NEW k \in 1..Len(t), t[j] = t[k] PROVE j = k
  BY <1>7, <1>1, <1>2, <1>4
<1> QED  BY <1>1, <1>4, <1>5, <1>6, <1>7

(* The channel is a queue of results; its instances are taken the same way.  *)
LEMMA TakeResult ==
    ASSUME NEW S, NEW T, NEW q \in Seq(S \X T), q /= <<>>,
           \A j, k \in 1..Len(q) : q[j][1] = q[k][1] => j = k
    PROVE  /\ {Tail(q)[k][1] : k \in 1..Len(Tail(q))}
                = {q[k][1] : k \in 1..Len(q)} \ {Head(q)[1]}
           /\ Head(q)[1] \in {q[k][1] : k \in 1..Len(q)}
           /\ \A j, k \in 1..Len(Tail(q)) : Tail(q)[j][1] = Tail(q)[k][1] => j = k
<1> DEFINE t == Tail(q)
<1>1. /\ Len(q) \in Nat \ {0} /\ Len(t) = Len(q) - 1 /\ Head(q) = q[1]
      /\ \A k \in 1..Len(t) : t[k] = q[k + 1]
  BY Front
<1>2. \A k \in 1..Len(t) : k + 1 \in 2..Len(q)
  BY <1>1
<1>3. \A k \in 2..Len(q) : k - 1 \in 1..Len(t) /\ t[k - 1] = q[k]
  BY <1>1
<1>4. 1 \in 1..Len(q) /\ 2..Len(q) \subseteq 1..Len(q)
  BY <1>1
<1>5. {t[k][1] : k \in 1..Len(t)} \subseteq {q[k][1] : k \in 1..Len(q)} \ {Head(q)[1]}
  <2> SUFFICES ASSUME NEW k \in 1..Len(t)
               PROVE  t[k][1] \in {q[j][1] : j \in 1..Len(q)} /\ t[k][1] /= q[1][1]
    BY <1>1
  <2>1. t[k] = q[k + 1] /\ k + 1 \in 1..Len(q) /\ k + 1 /= 1
    BY <1>1, <1>2, <1>4
  <2> QED  BY <2>1, <1>4
<1>6. {q[k][1] : k \in 1..Len(q)} \ {Head(q)[1]} \subseteq {t[k][1] : k \in 1..Len(t)}
  <2> SUFFICES ASSUME NEW k \in 1..Len(q), q[k][1] /= q[1][1]
               PROVE  q[k][1] \in {t[j][1] : j \in 1..Len(t)}
    BY <1>1
  <2>1. k \in 2..Len(q)
    BY <1>1
  <2> QED  BY <2>1, <1>3
<1>7. ASSUME NEW j \in 1..Len(t), NEW k \in 1..Len(t), t[j][1] = t[k][1] PROVE j = k
  BY <1>7, <1>1, <1>2, <1>4
<1> QED  BY <1>1, <1>4, <1>5, <1>6, <1>7

Once == QueueDistinct /\ TxDistinct /\ NothingTwice

(* The effect of each of the three steps that move an instance.              *)
LEMMA PopMoves ==
    ASSUME TypeOK, Hands, Once, NEW w \in Workers, Pop(w), queue /= <<>>
    PROVE  /\ Head(queue) \in Queued /\ Queued' = Queued \ {Head(queue)} /\ QueueDistinct'
           /\ item' = [item EXCEPT ![w] = Head(queue)] /\ item[w] = NoItem
           /\ InFlight' = InFlight \cup {Head(queue)}
           /\ Head(queue) \in Items
<1> TypeWorkers /\ TypeShared
  BY TypeParts
<1>1. queue' = Tail(queue) /\ item' = [item EXCEPT ![w] = Head(queue)] /\ pc[w] = "pop"
  BY DEF Pop
<1>2. item[w] = NoItem
  BY <1>1 DEF Hands
<1>3. Head(queue) \in Items
  BY Front DEF TypeShared
<1>4. Head(queue) \in Queued /\ Queued' = Queued \ {Head(queue)} /\ QueueDistinct'
  <2>1. queue \in Seq(Items) /\ \A j, k \in 1..Len(queue) : queue[j] = queue[k] => j = k
    BY DEF Once, QueueDistinct, TypeShared
  <2>2. /\ {Tail(queue)[k] : k \in 1..Len(Tail(queue))}
              = {queue[k] : k \in 1..Len(queue)} \ {Head(queue)}
        /\ Head(queue) \in {queue[k] : k \in 1..Len(queue)}
        /\ \A j, k \in 1..Len(Tail(queue)) : Tail(queue)[j] = Tail(queue)[k] => j = k
    BY <2>1, PopFront
  <2>3. Queued' = {Tail(queue)[k] : k \in 1..Len(Tail(queue))}
    BY <1>1 DEF Queued
  <2>4. QueueDistinct'
    BY <1>1, <2>2 DEF QueueDistinct
  <2> QED  BY <2>2, <2>3, <2>4 DEF Queued
<1>5. InFlight' = InFlight \cup {Head(queue)}
  <2>1. Head(queue) /= NoItem
    BY <1>3, BatchAssumption
  <2>2. item'[w] = Head(queue) /\ \A v \in Workers : v /= w => item'[v] = item[v]
    BY <1>1 DEF TypeWorkers
  <2> QED  BY <1>2, <2>1, <2>2 DEF InFlight
<1> QED  BY <1>1, <1>2, <1>3, <1>4, <1>5

LEMMA SendMoves ==
    ASSUME TypeOK, Hands, Once, NEW w \in Workers, Send(w)
    PROVE  /\ item[w] \in Items /\ item[w] \in InFlight
           /\ item' = [item EXCEPT ![w] = NoItem]
           /\ InFlight' = InFlight \ {item[w]}
           /\ Sent' = Sent \cup {item[w]} /\ TxDistinct'
           /\ Len(tx) \in Nat /\ Len(tx') = Len(tx) + 1
           /\ tx'[Len(tx) + 1] = <<item[w], outcome[w]>>
           /\ \A k \in 1..Len(tx) : tx'[k] = tx[k]
<1> TypeWorkers /\ TypeShared
  BY TypeParts
<1>1. /\ pc[w] = "send" /\ tx' = Append(tx, <<item[w], outcome[w]>>)
      /\ item' = [item EXCEPT ![w] = NoItem]
  BY DEF Send
<1>2. item[w] \in Items /\ item[w] /= NoItem
  BY <1>1 DEF Hands, Busy, TypeWorkers
<1>3. item[w] \in InFlight
  BY <1>2 DEF InFlight
<1>4. InFlight' = InFlight \ {item[w]}
  BY <1>1, <1>2 DEF InFlight, Once, NothingTwice, TypeWorkers
<1>5. <<item[w], outcome[w]>> \in Items \X Outcomes
  BY <1>2 DEF TypeWorkers
<1>6. /\ Len(tx) \in Nat /\ Len(tx') = Len(tx) + 1
      /\ tx'[Len(tx) + 1] = <<item[w], outcome[w]>>
      /\ \A k \in 1..Len(tx) : tx'[k] = tx[k]
  BY <1>1, <1>5, AppendProperties, LenProperties DEF TypeShared
<1>7. Sent' = Sent \cup {item[w]}
  <2>1. Sent' \subseteq Sent \cup {item[w]}
    <3> SUFFICES ASSUME NEW k \in 1..Len(tx') PROVE tx'[k][1] \in Sent \cup {item[w]}
      BY DEF Sent
    <3>1. k \in 1..Len(tx) \/ k = Len(tx) + 1
      BY <1>6
    <3> QED  BY <3>1, <1>6 DEF Sent
  <2>2. Sent \cup {item[w]} \subseteq Sent'
    <3>1. 1..Len(tx) \subseteq 1..Len(tx') /\ Len(tx) + 1 \in 1..Len(tx')
      BY <1>6
    <3>2. item[w] \in Sent'
      BY <3>1, <1>6 DEF Sent
    <3>3. \A k \in 1..Len(tx) : tx[k][1] = tx'[k][1] /\ k \in 1..Len(tx')
      BY <3>1, <1>6
    <3> QED  BY <3>2, <3>3 DEF Sent
  <2> QED  BY <2>1, <2>2
<1>8. TxDistinct'
  <2>1. \A k \in 1..Len(tx) : tx[k][1] /= item[w]
    BY <1>3 DEF Once, NothingTwice, Sent
  <2> SUFFICES ASSUME NEW j \in 1..Len(tx'), NEW k \in 1..Len(tx'), tx'[j][1] = tx'[k][1]
               PROVE  j = k
    BY DEF TxDistinct
  <2>2. (j \in 1..Len(tx) \/ j = Len(tx) + 1) /\ (k \in 1..Len(tx) \/ k = Len(tx) + 1)
    BY <1>6
  <2> QED  BY <2>1, <2>2, <1>6 DEF Once, TxDistinct
<1> QED  BY <1>1, <1>2, <1>3, <1>4, <1>6, <1>7, <1>8

LEMMA CollectMoves ==
    ASSUME TypeOK, Once, Collect
    PROVE  /\ Head(tx) \in Items \X Outcomes
           /\ Head(tx)[1] \in Sent /\ Sent' = Sent \ {Head(tx)[1]} /\ TxDistinct'
           /\ Applied' = IF Head(tx)[2] \in Halting THEN Applied
                         ELSE Applied \cup {Head(tx)[1]}
<1> TypeShared
  BY TypeParts
<1>1. /\ tx /= <<>> /\ tx' = Tail(tx)
      /\ applied' = IF Head(tx)[2] \in Halting THEN applied ELSE applied \cup {Head(tx)}
  BY DEF Collect
<1>2. Head(tx) \in Items \X Outcomes
  BY <1>1, Front DEF TypeShared
<1>3. Head(tx)[1] \in Sent /\ Sent' = Sent \ {Head(tx)[1]} /\ TxDistinct'
  <2>1. /\ tx \in Seq(Items \X Outcomes)
        /\ \A j, k \in 1..Len(tx) : tx[j][1] = tx[k][1] => j = k
    BY DEF Once, TxDistinct, TypeShared
  <2>2. /\ {Tail(tx)[k][1] : k \in 1..Len(Tail(tx))}
              = {tx[k][1] : k \in 1..Len(tx)} \ {Head(tx)[1]}
        /\ Head(tx)[1] \in {tx[k][1] : k \in 1..Len(tx)}
        /\ \A j, k \in 1..Len(Tail(tx)) : Tail(tx)[j][1] = Tail(tx)[k][1] => j = k
    BY <1>1, <2>1, TakeResult
  <2> QED  BY <1>1, <2>2 DEF Sent, TxDistinct
<1> QED  BY <1>1, <1>2, <1>3 DEF Applied

(* Every other step leaves every instance where it was.                      *)
Settled == UNCHANGED <<queue, item, tx, applied>>

LEMMA OtherSteps ==
    ASSUME [Next]_vars
    PROVE  \/ \E w \in Workers : Pop(w) /\ queue /= <<>>
           \/ \E w \in Workers : Send(w)
           \/ Collect
           \/ Settled
<1>1. ASSUME NEW w \in Workers, Pop(w), queue = <<>> PROVE Settled
  BY <1>1 DEF Pop, Settled, runner
<1>2. ASSUME NEW w \in Workers,
             Gate(w) \/ Reserve(w) \/ Admit(w) \/ Hold(w) \/ Enter(w) \/ Leave(w) \/ Release(w)
      PROVE  Settled
  BY <1>2 DEF Gate, Reserve, Admit, Hold, Enter, Leave, Release, Settled, runner
<1>3. ASSUME Interrupt \/ EngineVanishes \/ WatcherMoves \/ BoxClears \/ Returned
             \/ UNCHANGED vars
      PROVE  Settled
  BY <1>3 DEF Interrupt, EngineVanishes, WatcherMoves, BoxClears, Returned, vars, local,
              runner, Settled
<1> QED  BY <1>1, <1>2, <1>3 DEF Next, Worker

LEMMA OnceStep == TypeOK /\ Hands /\ Once /\ [Next]_vars => Once'
<1> SUFFICES ASSUME TypeOK, Hands, Once, [Next]_vars PROVE Once'
  OBVIOUS
<1> TypeWorkers /\ TypeShared
  BY TypeParts
<1>1. ASSUME NEW w \in Workers, Pop(w), queue /= <<>> PROVE Once'
  <2>1. Sent' = Sent /\ Applied' = Applied /\ TxDistinct'
    BY <1>1 DEF Pop, runner, Sent, Applied, Once, TxDistinct
  <2>2. \A u, v \in Workers : u /= v /\ item'[u] = item'[v] => item'[u] = NoItem
    <3>1. \A v \in Workers : item[v] /= Head(queue)
      BY <1>1, PopMoves, BatchAssumption DEF Once, NothingTwice, InFlight
    <3> QED  BY <1>1, <3>1, PopMoves DEF Once, NothingTwice, TypeWorkers
  <2> QED  BY <1>1, <2>1, <2>2, PopMoves DEF Once, NothingTwice
<1>2. ASSUME NEW w \in Workers, Send(w) PROVE Once'
  <2>1. Queued' = Queued /\ Applied' = Applied /\ QueueDistinct'
    BY <1>2 DEF Send, runner, Queued, Applied, Once, QueueDistinct
  <2>2. \A u, v \in Workers : u /= v /\ item'[u] = item'[v] => item'[u] = NoItem
    BY <1>2, SendMoves DEF Once, NothingTwice, TypeWorkers
  <2> QED  BY <1>2, <2>1, <2>2, SendMoves DEF Once, NothingTwice
<1>3. ASSUME Collect PROVE Once'
  <2>1. Queued' = Queued /\ InFlight' = InFlight /\ QueueDistinct' /\ item' = item
    BY <1>3 DEF Collect, local, Queued, InFlight, Once, QueueDistinct
  <2>2. /\ Head(tx)[1] \in Sent /\ Sent' = Sent \ {Head(tx)[1]} /\ TxDistinct'
        /\ Applied' \subseteq Applied \cup {Head(tx)[1]}
    BY <1>3, CollectMoves
  <2>3. \A u, v \in Workers : u /= v /\ item'[u] = item'[v] => item'[u] = NoItem
    BY <2>1 DEF Once, NothingTwice
  <2>4. /\ Queued \cap InFlight = {} /\ Queued \cap Sent = {} /\ Queued \cap Applied = {}
        /\ InFlight \cap Sent = {} /\ InFlight \cap Applied = {} /\ Sent \cap Applied = {}
    BY DEF Once, NothingTwice
  <2>5. /\ Queued' \cap InFlight' = {} /\ Queued' \cap Sent' = {} /\ InFlight' \cap Sent' = {}
    BY <2>1, <2>2, <2>4
  <2>6. Queued' \cap Applied' = {} /\ InFlight' \cap Applied' = {} /\ Sent' \cap Applied' = {}
    BY <2>1, <2>2, <2>4
  <2>7. NothingTwice'
    BY <2>3, <2>5, <2>6 DEF NothingTwice
  <2> QED  BY <2>1, <2>2, <2>7 DEF Once
<1>4. ASSUME Settled PROVE Once'
  <2>1. queue' = queue /\ item' = item /\ tx' = tx /\ applied' = applied
    BY <1>4 DEF Settled
  <2>2. Queued' = Queued /\ InFlight' = InFlight /\ Sent' = Sent /\ Applied' = Applied
    BY <2>1 DEF Queued, InFlight, Sent, Applied
  <2>3. QueueDistinct' /\ TxDistinct'
    BY <2>1 DEF Once, QueueDistinct, TxDistinct
  <2>4. NothingTwice'
    BY <2>1, <2>2 DEF Once, NothingTwice
  <2> QED  BY <2>3, <2>4 DEF Once
<1> QED  BY <1>1, <1>2, <1>3, <1>4, OtherSteps

LEMMA OnceInit == Init => Once
<1> SUFFICES ASSUME Init PROVE Once
  OBVIOUS
<1>1. QueueDistinct
  BY BatchAssumption DEF Init, QueueDistinct
<1>2. TxDistinct /\ Sent = {} /\ Applied = {} /\ InFlight = {}
  BY DEF Init, TxDistinct, Sent, Applied, InFlight
<1>3. \A w \in Workers : item[w] = NoItem
  BY DEF Init
<1> QED  BY <1>1, <1>2, <1>3 DEF Once, NothingTwice

(* For every width, queue and schedule: no instance is measured twice.       *)
THEOREM NeverTwice == Spec => []NothingTwice
<1> DEFINE OInv == TypeOK /\ Hands /\ Once
<1>1. Init => OInv
  BY TypeInit, OnceInit DEF Init, Hands, Busy
<1>2. OInv /\ [Next]_vars => OInv'
  BY TypedStep, OnceStep
<1>3. OInv => NothingTwice
  BY DEF Once
<1> QED  BY <1>1, <1>2, <1>3, PTL DEF Spec

(* A halting result in the channel was announced before it was received.     *)
LEMMA HaltStep == TypeOK /\ Hands /\ Once /\ HaltSeen /\ [Next]_vars => HaltSeen'
<1> SUFFICES ASSUME TypeOK, Hands, Once, HaltSeen, [Next]_vars PROVE HaltSeen'
  OBVIOUS
<1> TypeWorkers /\ TypeShared
  BY TypeParts
<1>1. ASSUME NEW w \in Workers, Send(w) PROVE HaltSeen'
  <2> SUFFICES ASSUME NEW k \in 1..Len(tx'), tx'[k][2] \in Halting PROVE stop'
    BY DEF HaltSeen
  <2>1. k \in 1..Len(tx) \/ k = Len(tx) + 1
    BY <1>1, SendMoves
  <2>2. stop \/ outcome[w] \in Halting => stop'
    BY <1>1 DEF Send
  <2> QED  BY <1>1, <2>1, <2>2, SendMoves DEF HaltSeen
<1>2. ASSUME Collect PROVE HaltSeen'
  <2>1. tx /= <<>> /\ tx' = Tail(tx) /\ stop' = stop
    BY <1>2 DEF Collect, flags
  <2>2. \A k \in 1..Len(tx') : k + 1 \in 1..Len(tx) /\ tx'[k] = tx[k + 1]
    BY <2>1, Front DEF TypeShared
  <2> QED  BY <2>1, <2>2 DEF HaltSeen
<1>3. ASSUME tx' = tx, stop => stop' PROVE HaltSeen'
  BY <1>3 DEF HaltSeen
<1>4. ASSUME NEW w \in Workers,
             Gate(w) \/ Pop(w) \/ Reserve(w) \/ Admit(w) \/ Hold(w) \/ Enter(w)
             \/ Leave(w) \/ Release(w)
      PROVE  tx' = tx /\ stop' = stop
  BY <1>4 DEF Gate, Pop, Reserve, Admit, Hold, Enter, Leave, Release, flags
<1>5. ASSUME Interrupt \/ EngineVanishes \/ WatcherMoves \/ BoxClears \/ Returned
             \/ UNCHANGED vars
      PROVE  tx' = tx /\ stop' = stop
  BY <1>5 DEF Interrupt, EngineVanishes, WatcherMoves, BoxClears, Returned, vars, flags
<1> QED  BY <1>1, <1>2, <1>3, <1>4, <1>5 DEF Next, Worker

LEMMA LostStep ==
    TypeOK /\ Hands /\ Once /\ HaltSeen /\ NothingLost /\ [Next]_vars => NothingLost'
<1> SUFFICES ASSUME TypeOK, Hands, Once, HaltSeen, NothingLost, [Next]_vars, ~Halted'
             PROVE  /\ (Items \subseteq Queued \cup InFlight \cup Sent \cup Applied)'
                    /\ \A v \in Workers : pc'[v] = "exit" => item'[v] = NoItem
  BY DEF NothingLost
<1> TypeWorkers /\ TypeShared
  BY TypeParts
<1>0. ~Halted
  <2>1. ASSUME NEW w \in Workers, Worker(w) PROVE ~Halted
    BY <2>1 DEF Worker, Gate, Pop, Reserve, Admit, Hold, Enter, Leave, Release, Send,
                flags, Halted
  <2>2. ASSUME Collect \/ Interrupt \/ EngineVanishes \/ WatcherMoves \/ BoxClears
               \/ Returned \/ UNCHANGED vars
        PROVE  ~Halted
    BY <2>2 DEF Collect, Interrupt, EngineVanishes, WatcherMoves, BoxClears, Returned,
                vars, flags, Halted
  <2> QED  BY <2>1, <2>2 DEF Next
<1>1. /\ Items \subseteq Queued \cup InFlight \cup Sent \cup Applied
      /\ \A v \in Workers : pc[v] = "exit" => item[v] = NoItem
  BY <1>0 DEF NothingLost
<1>2. (Items \subseteq Queued \cup InFlight \cup Sent \cup Applied)'
  <2>1. ASSUME NEW w \in Workers, Pop(w), queue /= <<>>
        PROVE  (Items \subseteq Queued \cup InFlight \cup Sent \cup Applied)'
    <3>1. Sent' = Sent /\ Applied' = Applied
      BY <2>1 DEF Pop, runner, Sent, Applied
    <3> QED  BY <2>1, <3>1, <1>1, PopMoves
  <2>2. ASSUME NEW w \in Workers, Send(w)
        PROVE  (Items \subseteq Queued \cup InFlight \cup Sent \cup Applied)'
    <3>1. Queued' = Queued /\ Applied' = Applied
      BY <2>2 DEF Send, runner, Queued, Applied
    <3> QED  BY <2>2, <3>1, <1>1, SendMoves
  <2>3. ASSUME Collect
        PROVE  (Items \subseteq Queued \cup InFlight \cup Sent \cup Applied)'
    <3>1. Queued' = Queued /\ InFlight' = InFlight
      BY <2>3 DEF Collect, local, Queued, InFlight
    <3>2. Head(tx)[2] \notin Halting
      <4>1. tx /= <<>> /\ ~stop
        BY <2>3, <1>0 DEF Collect, Halted
      <4>2. 1 \in 1..Len(tx) /\ Head(tx) = tx[1]
        BY <4>1, Front DEF TypeShared
      <4> QED  BY <4>1, <4>2 DEF HaltSeen
    <3> QED  BY <2>3, <3>1, <3>2, <1>1, CollectMoves
  <2>4. ASSUME Settled
        PROVE  (Items \subseteq Queued \cup InFlight \cup Sent \cup Applied)'
    BY <2>4, <1>1 DEF Settled, Queued, InFlight, Sent, Applied
  <2> QED  BY <2>1, <2>2, <2>3, <2>4, OtherSteps
<1>3. \A v \in Workers : pc'[v] = "exit" => item'[v] = NoItem
  <2> USE <1>0, <1>1 DEF Hands, Busy, TypeWorkers, Goto
  <2>1. ASSUME NEW w \in Workers, Gate(w) \/ Pop(w) \/ Reserve(w) \/ Hold(w)
        PROVE  \A v \in Workers : pc'[v] = "exit" => item'[v] = NoItem
    BY <2>1 DEF Gate, Pop, Reserve, Hold
  <2>2. ASSUME NEW w \in Workers, Admit(w) \/ Enter(w) \/ Leave(w) \/ Release(w) \/ Send(w)
        PROVE  \A v \in Workers : pc'[v] = "exit" => item'[v] = NoItem
    BY <2>2 DEF Admit, Enter, Leave, Release, Send
  <2>3. ASSUME Collect \/ Interrupt \/ EngineVanishes \/ WatcherMoves \/ BoxClears
               \/ Returned \/ UNCHANGED vars
        PROVE  \A v \in Workers : pc'[v] = "exit" => item'[v] = NoItem
    BY <2>3 DEF Collect, Interrupt, EngineVanishes, WatcherMoves, BoxClears, Returned,
                vars, local
  <2> QED  BY <2>1, <2>2, <2>3 DEF Next, Worker
<1> QED  BY <1>2, <1>3

LEMMA LostInit == Init => NothingLost /\ HaltSeen
<1> SUFFICES ASSUME Init PROVE NothingLost /\ HaltSeen
  OBVIOUS
<1>1. Items \subseteq Queued
  <2>1. queue = FirstQueue
    BY DEF Init
  <2>2. ASSUME NEW i \in Items PROVE i \in Queued
    <3>1. PICK k \in 1..Len(FirstQueue) : FirstQueue[k] = i
      BY BatchAssumption
    <3> QED  BY <2>1, <3>1 DEF Queued
  <2> QED  BY <2>2
<1>2. HaltSeen /\ \A w \in Workers : pc[w] /= "exit"
  BY DEF Init, HaltSeen
<1> QED  BY <1>1, <1>2 DEF NothingLost

(* For every width, queue and schedule: until the batch is told to stop, no  *)
(* instance is lost between the queue and the runner.                        *)
THEOREM NeverLost == Spec => []NothingLost
<1> DEFINE LInv == TypeOK /\ Hands /\ Once /\ HaltSeen /\ NothingLost
<1>1. Init => LInv
  BY TypeInit, OnceInit, LostInit DEF Init, Hands, Busy
<1>2. LInv /\ [Next]_vars => LInv'
  BY TypedStep, OnceStep, HaltStep, LostStep
<1>3. LInv => NothingLost
  OBVIOUS
<1> QED  BY <1>1, <1>2, <1>3, PTL DEF Spec

-----------------------------------------------------------------------------
(* Sums over the workers.  SumUpTo is a recursive function; that it exists,   *)
(* and whatever else holds of it for every n, has no smallest counterexample. *)

LEMMA LeastOf ==
    ASSUME NEW S \in SUBSET Nat, S /= {}
    PROVE  \E x \in S : \A y \in S : x <= y
<1>1. IsWellFoundedOn(OpToRel(<, Nat), Nat)
  BY NatLessThanWellFounded
<1>2. PICK x \in S : \A y \in S : ~(<<y, x>> \in OpToRel(<, Nat))
  BY <1>1, WFMin
<1>3. \A y \in S : ~(y < x)
  BY <1>2 DEF OpToRel
<1> QED  BY <1>3

\* s adds up f, one worker after another.
Adds(s, n, f) == s = [k \in 0..n |-> IF k = 0 THEN 0 ELSE s[k - 1] + f[k - 1]]

LEMMA SumExists == ASSUME NEW n \in Nat, NEW f PROVE \E s : Adds(s, n, f)
<1> DEFINE Bad == {k \in Nat : ~\E s : Adds(s, k, f)}
<1> SUFFICES ASSUME Bad /= {} PROVE FALSE
  OBVIOUS
<1>1. PICK k \in Bad : \A j \in Bad : k <= j
  <2>1. Bad \in SUBSET Nat
    OBVIOUS
  <2> HIDE DEF Bad
  <2> QED  BY <2>1, LeastOf
<1>2. k /= 0
  <2>1. SUFFICES ASSUME k = 0 PROVE \E s : Adds(s, 0, f)
    BY <1>1
  <2> DEFINE z == [j \in 0..0 |-> 0]
  <2>2. z = [j \in 0..0 |-> IF j = 0 THEN 0 ELSE z[j - 1] + f[j - 1]]
    OBVIOUS
  <2> QED  BY <2>2 DEF Adds
<1>3. k - 1 \in Nat /\ k - 1 \notin Bad
  BY <1>1, <1>2
<1>4. PICK s : Adds(s, k - 1, f)
  BY <1>3
<1> DEFINE t == [j \in 0..k |-> IF j < k THEN s[j] ELSE s[k - 1] + f[k - 1]]
<1>5. \A j \in 0..(k - 1) : s[j] = IF j = 0 THEN 0 ELSE s[j - 1] + f[j - 1]
  BY <1>4 DEF Adds
<1>6. t = [j \in 0..k |-> IF j = 0 THEN 0 ELSE t[j - 1] + f[j - 1]]
  <2>1. ASSUME NEW j \in 0..k PROVE t[j] = IF j = 0 THEN 0 ELSE t[j - 1] + f[j - 1]
    <3>1. CASE j = 0
      BY <1>2, <1>5, <3>1
    <3>2. CASE j /= 0 /\ j < k
      <4>1. j \in 0..(k - 1) /\ j - 1 \in 0..k /\ j - 1 < k
        BY <3>2
      <4> QED  BY <1>5, <3>2, <4>1
    <3>3. CASE j = k
      <4>1. j - 1 \in 0..k /\ j - 1 < k /\ j /= 0 /\ ~(j < k)
        BY <1>2, <3>3
      <4> QED  BY <3>3, <4>1
    <3> QED  BY <3>1, <3>2, <3>3
  <2> QED  BY <2>1
<1>7. Adds(t, k, f)
  BY <1>6 DEF Adds
<1> QED  BY <1>1, <1>7

LEMMA SumAdds ==
    ASSUME NEW n \in Nat, NEW f
    PROVE  \E s : Adds(s, n, f) /\ SumUpTo(n, f) = s[n]
<1> DEFINE s == CHOOSE s : Adds(s, n, f)
<1>1. Adds(s, n, f)
  BY SumExists
<1>2. SumUpTo(n, f) = s[n]
  BY DEF SumUpTo, Adds
<1> HIDE DEF s
<1> QED  BY <1>1, <1>2

\* Induction up to n, over a set of numbers.
LEMMA FromZero ==
    ASSUME NEW n \in Nat, NEW S, 0 \in S, \A k \in 0..(n - 1) : k \in S => k + 1 \in S
    PROVE  \A k \in 0..n : k \in S
<1> DEFINE Bad == (0..n) \ S
<1> SUFFICES ASSUME Bad /= {} PROVE FALSE
  OBVIOUS
<1>1. PICK k \in Bad : \A j \in Bad : k <= j
  <2>1. Bad \in SUBSET Nat
    OBVIOUS
  <2> HIDE DEF Bad
  <2> QED  BY <2>1, LeastOf
<1>2. k \in 0..n /\ k /= 0 /\ k \notin S
  BY <1>1
<1>3. k - 1 \in 0..(n - 1) /\ (k - 1) + 1 = k
  BY <1>2
<1>4. k - 1 \in S
  BY <1>1, <1>3
<1> QED  BY <1>2, <1>3, <1>4

LEMMA SumStep ==
    ASSUME NEW n \in Nat, NEW f, NEW s, Adds(s, n, f)
    PROVE  s[0] = 0 /\ \A k \in 0..(n - 1) : s[k + 1] = s[k] + f[k]
<1>1. \A k \in 0..n : s[k] = IF k = 0 THEN 0 ELSE s[k - 1] + f[k - 1]
  BY DEF Adds
<1>2. ASSUME NEW k \in 0..(n - 1) PROVE s[k + 1] = s[k] + f[k]
  <2>1. k + 1 \in 0..n /\ k + 1 /= 0 /\ (k + 1) - 1 = k
    OBVIOUS
  <2> QED  BY <1>1, <2>1
<1> QED  BY <1>1, <1>2

\* What is added up from smaller numbers is not larger.
LEMMA SumsCompare ==
    ASSUME NEW n \in Nat, NEW f, NEW g,
           \A k \in 0..(n - 1) : f[k] \in Nat /\ g[k] \in Nat /\ f[k] <= g[k]
    PROVE  SumUpTo(n, f) \in Nat /\ SumUpTo(n, g) \in Nat /\ SumUpTo(n, f) <= SumUpTo(n, g)
<1>1. PICK s : Adds(s, n, f) /\ SumUpTo(n, f) = s[n]
  BY SumAdds
<1>2. PICK t : Adds(t, n, g) /\ SumUpTo(n, g) = t[n]
  BY SumAdds
<1>3. /\ s[0] = 0 /\ \A k \in 0..(n - 1) : s[k + 1] = s[k] + f[k]
      /\ t[0] = 0 /\ \A k \in 0..(n - 1) : t[k + 1] = t[k] + g[k]
  BY <1>1, <1>2, SumStep
<1> DEFINE S == {k \in Nat : s[k] \in Nat /\ t[k] \in Nat /\ s[k] <= t[k]}
<1>4. 0 \in S
  BY <1>3
<1>5. ASSUME NEW k \in 0..(n - 1), k \in S PROVE k + 1 \in S
  BY <1>3, <1>5
<1>6. n \in S
  <2> HIDE DEF S
  <2>1. \A k \in 0..(n - 1) : k \in S => k + 1 \in S
    BY <1>5
  <2>2. \A k \in 0..n : k \in S
    BY <1>4, <2>1, FromZero
  <2> QED  BY <2>2
<1> QED  BY <1>1, <1>2, <1>6

\* What the sums are of, and what a step of one worker leaves of it.
Numbers(f, n) == \A k \in 0..(n - 1) : f[k] \in Nat
SameBut(f, g, w, n) == \A k \in 0..(n - 1) : k /= w => g[k] = f[k]

\* Changing one number changes the sum by as much.
LEMMA SumChanges ==
    ASSUME NEW n \in Nat, NEW w \in 0..(n - 1)
    PROVE  \A f, g : Numbers(f, n) /\ Numbers(g, n) /\ SameBut(f, g, w, n)
              => SumUpTo(n, g) = SumUpTo(n, f) - f[w] + g[w]
<1> SUFFICES ASSUME NEW f, NEW g, Numbers(f, n), Numbers(g, n), SameBut(f, g, w, n)
             PROVE  SumUpTo(n, g) = SumUpTo(n, f) - f[w] + g[w]
  OBVIOUS
<1>1. PICK s : Adds(s, n, f) /\ SumUpTo(n, f) = s[n]
  BY SumAdds
<1>2. PICK t : Adds(t, n, g) /\ SumUpTo(n, g) = t[n]
  BY SumAdds
<1>3. /\ s[0] = 0 /\ \A k \in 0..(n - 1) : s[k + 1] = s[k] + f[k]
      /\ t[0] = 0 /\ \A k \in 0..(n - 1) : t[k + 1] = t[k] + g[k]
  BY <1>1, <1>2, SumStep
<1> DEFINE S == {k \in Nat : /\ s[k] \in Nat /\ t[k] \in Nat
                             /\ t[k] = IF k <= w THEN s[k] ELSE s[k] - f[w] + g[w]}
<1>4. 0 \in S
  BY <1>3
<1>5. ASSUME NEW k \in 0..(n - 1), k \in S PROVE k + 1 \in S
  <2>1. /\ s[k] \in Nat /\ t[k] \in Nat /\ f[k] \in Nat /\ g[k] \in Nat
        /\ s[k + 1] = s[k] + f[k] /\ t[k + 1] = t[k] + g[k] /\ f[w] \in Nat /\ g[w] \in Nat
    BY <1>3, <1>5 DEF Numbers
  <2>2. CASE k < w
    BY <1>5, <2>1, <2>2 DEF SameBut
  <2>3. CASE k = w
    BY <1>5, <2>1, <2>3
  <2>4. CASE k > w
    BY <1>5, <2>1, <2>4 DEF SameBut
  <2> QED  BY <2>2, <2>3, <2>4
<1>6. n \in S
  <2> HIDE DEF S
  <2>1. \A k \in 0..(n - 1) : k \in S => k + 1 \in S
    BY <1>5
  <2>2. \A k \in 0..n : k \in S
    BY <1>4, <2>1, FromZero
  <2> QED  BY <2>2
<1>7. t[n] = IF n <= w THEN s[n] ELSE s[n] - f[w] + g[w]
  BY <1>6
<1>8. ~(n <= w)
  OBVIOUS
<1> HIDE DEF S
<1>9. t[n] = s[n] - f[w] + g[w]
  BY <1>7, <1>8
<1>10. SumUpTo(n, f) = s[n] /\ SumUpTo(n, g) = t[n]
  BY <1>1, <1>2
<1> QED  BY <1>9, <1>10, Zenon

\* None of the numbers is larger than the sum.
LEMMA SumBounds ==
    ASSUME NEW n \in Nat, NEW f \in [0..(n - 1) -> Nat], NEW w \in 0..(n - 1)
    PROVE  SumUpTo(n, f) \in Nat /\ f[w] <= SumUpTo(n, f)
<1> DEFINE g == [f EXCEPT ![w] = 0]
<1>1. g[w] = 0 /\ f[w] \in Nat /\ Numbers(f, n) /\ Numbers(g, n) /\ SameBut(f, g, w, n)
  BY DEF Numbers, SameBut
<1>2. \A k \in 0..(n - 1) : g[k] \in Nat /\ f[k] \in Nat /\ g[k] <= f[k]
  OBVIOUS
<1> HIDE DEF g
<1>3. SumUpTo(n, g) = SumUpTo(n, f) - f[w] + g[w]
  BY <1>1, SumChanges
<1>4. SumUpTo(n, g) \in Nat /\ SumUpTo(n, f) \in Nat
  BY <1>2, SumsCompare
<1> QED  BY <1>1, <1>3, <1>4

-----------------------------------------------------------------------------
(* The byte budget.                                                          *)

\* What a worker holds of the budget, by its place in the loop.  A worker that a
\* stop let through without its bytes can only leave: nothing takes a stop back.
Charged ==
    \A w \in Workers :
        /\ pc[w] \in {"gate", "pop", "mem", "send"} => charge[w] = 0
        /\ pc[w] = "admit" => charge[w] = Bytes[item[w]] \/ (Halted /\ charge[w] = 0)
        /\ pc[w] \in {"hold", "enter", "run", "release"} => charge[w] = Bytes[item[w]]

\* Too much is drawn only while one worker has drawn all of it.
Fitting ==
    \/ inUse <= Budget
    \/ \A v, w \in Workers : charge[v] > 0 /\ charge[w] > 0 => v = w

Purse == Charged /\ inUse = SumUpTo(Width, charge) /\ Fitting

LEMMA ReservePurse ==
    ASSUME TypeOK, Hands, Purse, NEW w \in Workers, Reserve(w)
    PROVE  Purse'
<1> DEFINE b == Bytes[item[w]]
<1> USE BatchAssumption
<1>1. /\ charge \in [0..(Width - 1) -> Nat] /\ w \in 0..(Width - 1) /\ Width \in Nat
      /\ Budget \in Nat /\ Workers = 0..(Width - 1)
  BY DEF TypeOK, Workers
<1>2. b \in Nat \ {0} /\ charge[w] = 0
  BY DEF Reserve, Hands, Busy, TypeOK, Purse, Charged
<1>3. /\ pc[w] = "mem" /\ pc' = [pc EXCEPT ![w] = "admit"] /\ pc \in [Workers -> Places]
      /\ item' = item /\ (Halted => Halted')
  BY DEF Reserve, Goto, flags, Halted, TypeOK
<1> HIDE DEF b
<1>4. CASE Fits(inUse, b) /\ inUse' = inUse + b /\ charge' = [charge EXCEPT ![w] = b]
  <2>1. charge'[w] = b /\ \A v \in Workers \ {w} : charge'[v] = charge[v]
    BY <1>1, <1>4
  <2>2. Charged'
    BY <1>3, <2>1 DEF Purse, Charged, b
  <2>3. Numbers(charge, Width) /\ Numbers(charge', Width) /\ SameBut(charge, charge', w, Width)
    BY <1>1, <1>2, <2>1 DEF Numbers, SameBut
  <2>4. SumUpTo(Width, charge') = SumUpTo(Width, charge) - charge[w] + charge'[w]
    BY <1>1, <2>3, SumChanges
  <2>5. SumUpTo(Width, charge) \in Nat /\ inUse = SumUpTo(Width, charge)
    BY <1>1, SumBounds DEF Purse
  <2>6. inUse' = SumUpTo(Width, charge')
    BY <1>2, <1>4, <2>1, <2>4, <2>5
  <2>7. Fitting'
    <3>1. CASE inUse = 0
      <4>1. \A v \in Workers : charge[v] = 0
        <5> SUFFICES ASSUME NEW v \in Workers PROVE charge[v] = 0
          OBVIOUS
        <5>1. charge[v] \in Nat /\ charge[v] <= SumUpTo(Width, charge)
          BY <1>1, SumBounds
        <5> QED  BY <2>5, <3>1, <5>1
      <4> QED  BY <2>1, <4>1 DEF Fitting
    <3>2. CASE inUse + b <= Budget
      BY <1>4, <3>2 DEF Fitting
    <3> QED  BY <1>4, <3>1, <3>2 DEF Fits
  <2> QED  BY <2>2, <2>6, <2>7 DEF Purse
<1>5. CASE Halted /\ UNCHANGED <<inUse, charge>>
  <2>1. Charged'
    BY <1>2, <1>3, <1>5 DEF Purse, Charged
  <2> QED  BY <1>5, <2>1 DEF Purse, Fitting
<1> QED  BY <1>4, <1>5 DEF Reserve, b

LEMMA ReleasePurse ==
    ASSUME TypeOK, Purse, NEW w \in Workers, Release(w)
    PROVE  Purse'
<1> USE BatchAssumption
<1>1. /\ charge \in [0..(Width - 1) -> Nat] /\ w \in 0..(Width - 1) /\ Width \in Nat
      /\ Budget \in Nat /\ Workers = 0..(Width - 1) /\ inUse \in Int
  BY DEF TypeOK, Workers
<1>2. /\ pc' = [pc EXCEPT ![w] = "send"] /\ pc \in [Workers -> Places]
      /\ item' = item /\ (Halted => Halted')
      /\ inUse' = inUse - charge[w] /\ charge' = [charge EXCEPT ![w] = 0]
  BY DEF Release, Goto, flags, Halted, TypeOK
<1>3. charge'[w] = 0 /\ \A v \in Workers \ {w} : charge'[v] = charge[v]
  BY <1>1, <1>2
<1>4. Charged'
  BY <1>2, <1>3 DEF Purse, Charged
<1>5. Numbers(charge, Width) /\ Numbers(charge', Width) /\ SameBut(charge, charge', w, Width)
  BY <1>1, <1>3 DEF Numbers, SameBut
<1>6. SumUpTo(Width, charge') = SumUpTo(Width, charge) - charge[w] + charge'[w]
  BY <1>1, <1>5, SumChanges
<1>7. SumUpTo(Width, charge) \in Nat /\ inUse = SumUpTo(Width, charge) /\ charge[w] \in Nat
  BY <1>1, SumBounds DEF Purse
<1>8. inUse' = SumUpTo(Width, charge')
  BY <1>2, <1>3, <1>6, <1>7
<1>9. Fitting'
  <2>1. CASE inUse <= Budget
    <3>1. inUse' <= Budget
      BY <1>1, <1>2, <1>7, <2>1
    <3> QED  BY <3>1 DEF Fitting
  <2>2. CASE \A u, v \in Workers : charge[u] > 0 /\ charge[v] > 0 => u = v
    <3>1. \A v \in Workers : charge'[v] > 0 => charge[v] > 0
      BY <1>3
    <3> QED  BY <2>2, <3>1 DEF Fitting
  <2> QED  BY <2>1, <2>2 DEF Purse, Fitting
<1> QED  BY <1>4, <1>8, <1>9 DEF Purse

\* Where nothing is drawn or returned, only the places matter.
LEMMA SamePurse ==
    ASSUME Purse, UNCHANGED <<inUse, charge>>, Charged'
    PROVE  Purse'
  BY DEF Purse, Fitting

LEMMA PurseStep == TypeOK /\ Hands /\ Purse /\ [Next]_vars => Purse'
<1> SUFFICES ASSUME TypeOK, Hands, Purse, [Next]_vars PROVE Purse'
  OBVIOUS
<1>0. pc \in [Workers -> Places] /\ item \in [Workers -> Items \cup {NoItem}] /\ Charged
  BY DEF TypeOK, Purse
<1> USE DEF Goto, Halted, flags, Charged
<1>1. ASSUME NEW w \in Workers, Gate(w) PROVE Purse'
  BY <1>0, <1>1, SamePurse DEF Gate
<1>2. ASSUME NEW w \in Workers, Pop(w) PROVE Purse'
  BY <1>0, <1>2, SamePurse DEF Pop
<1>3. ASSUME NEW w \in Workers, Reserve(w) PROVE Purse'
  BY <1>3, ReservePurse
<1>4. ASSUME NEW w \in Workers, Admit(w) PROVE Purse'
  BY <1>0, <1>4, SamePurse DEF Admit
<1>5. ASSUME NEW w \in Workers, Hold(w) \/ Enter(w) \/ Leave(w) PROVE Purse'
  BY <1>0, <1>5, SamePurse DEF Hold, Enter, Leave
<1>6. ASSUME NEW w \in Workers, Release(w) PROVE Purse'
  BY <1>6, ReleasePurse
<1>7. ASSUME NEW w \in Workers, Send(w) PROVE Purse'
  BY <1>0, <1>7, SamePurse DEF Send
<1>8. ASSUME Collect \/ Interrupt \/ EngineVanishes \/ WatcherMoves \/ BoxClears
             \/ Returned \/ UNCHANGED vars
      PROVE  Purse'
  BY <1>0, <1>8, SamePurse DEF Collect, Interrupt, EngineVanishes, WatcherMoves, BoxClears,
     Returned, vars, local
<1> QED
  BY <1>1, <1>2, <1>3, <1>4, <1>5, <1>6, <1>7, <1>8 DEF Next, Worker

LEMMA PurseInit == Init => Purse
<1> SUFFICES ASSUME Init PROVE Purse
  OBVIOUS
<1>1. Charged
  BY DEF Init, Charged
<1>2. inUse = 0 /\ charge = [w \in Workers |-> 0] /\ Workers = 0..(Width - 1) /\ Width \in Nat
  BY BatchAssumption DEF Init, Workers
<1>3. \A k \in 0..(Width - 1) : charge[k] = 0
  BY <1>2
<1>4. SumUpTo(Width, charge) = 0
  <2>1. PICK s : Adds(s, Width, charge) /\ SumUpTo(Width, charge) = s[Width]
    BY <1>2, SumAdds
  <2>2. s[0] = 0 /\ \A k \in 0..(Width - 1) : s[k + 1] = s[k] + charge[k]
    BY <1>2, <2>1, SumStep
  <2> DEFINE S == {k \in Nat : s[k] = 0}
  <2>3. 0 \in S /\ \A k \in 0..(Width - 1) : k \in S => k + 1 \in S
    BY <1>3, <2>2
  <2>4. Width \in S
    <3> HIDE DEF S
    <3>1. \A k \in 0..Width : k \in S
      BY <1>2, <2>3, FromZero
    <3> QED  BY <1>2, <3>1
  <2> QED  BY <2>1, <2>4
<1>5. Fitting
  BY <1>2, <1>3 DEF Fitting
<1> QED  BY <1>1, <1>2, <1>4, <1>5 DEF Purse

\* What the purse says of the planners that run.
LEMMA PurseSuffices == TypeOK /\ Hands /\ Purse => MemoryWithinBudget
<1> SUFFICES ASSUME TypeOK, Hands, Purse PROVE MemoryWithinBudget
  OBVIOUS
<1> DEFINE running == {w \in Workers : pc[w] = "run"}
           drawn == [w \in Workers |-> IF w \in running THEN Bytes[item[w]] ELSE 0]
<1>1. /\ charge \in [0..(Width - 1) -> Nat] /\ Width \in Nat /\ Workers = 0..(Width - 1)
      /\ inUse = SumUpTo(Width, charge) /\ Budget \in Nat
  BY BatchAssumption DEF TypeOK, Workers, Purse
<1>2. \A w \in running : charge[w] = Bytes[item[w]] /\ Bytes[item[w]] \in Nat \ {0}
  BY BatchAssumption DEF Purse, Charged, Hands, Busy, TypeOK
<1>3. \A k \in 0..(Width - 1) : drawn[k] \in Nat /\ charge[k] \in Nat /\ drawn[k] <= charge[k]
  BY <1>1, <1>2
<1> HIDE DEF drawn
<1>4. /\ SumUpTo(Width, drawn) \in Nat /\ SumUpTo(Width, charge) \in Nat
      /\ SumUpTo(Width, drawn) <= SumUpTo(Width, charge)
  BY <1>1, <1>3, SumsCompare
<1>5. CASE inUse <= Budget
  <2>1. SumUpTo(Width, drawn) <= Budget
    BY <1>1, <1>4, <1>5
  <2> QED  BY <1>1, <2>1 DEF MemoryWithinBudget, drawn
<1>6. CASE \A v, w \in Workers : charge[v] > 0 /\ charge[w] > 0 => v = w
  <2>1. \A v, w \in running : v = w
    BY <1>2, <1>6
  <2>2. CASE running = {}
    <3>1. Cardinality(running) = 0
      BY <2>2, FS_EmptySet
    <3> QED  BY <1>1, <3>1 DEF MemoryWithinBudget
  <2>3. CASE running /= {}
    <3>1. PICK w \in running : running = {w}
      BY <2>1, <2>3
    <3>2. Cardinality(running) = 1
      <4> HIDE DEF running
      <4> QED  BY <3>1, FS_Singleton
    <3> QED  BY <1>1, <3>2 DEF MemoryWithinBudget
  <2> QED  BY <2>2, <2>3
<1> QED  BY <1>5, <1>6 DEF Purse, Fitting

\* The planners that run at once are expected to fit the budget, or there is one
\* of them; and the shared counter is exactly what the workers have drawn, with
\* any number of workers, any sizes, stops and a width that moves.
THEOREM BudgetIsKept == Spec => []MemoryWithinBudget
<1>1. Init => TypeOK /\ Hands /\ Purse
  BY TypeInit, PurseInit DEF Init, Hands, Busy
<1>2. TypeOK /\ Hands /\ Purse /\ [Next]_vars => TypeOK' /\ Hands' /\ Purse'
  BY TypedStep, PurseStep
<1> QED  BY <1>1, <1>2, PurseSuffices, PTL DEF Spec
=============================================================================
