------------------------------ MODULE SweepBatch ------------------------------
(***************************************************************************)
(* One batch of the sweep: SweepRunner::run_batch.  Width worker threads    *)
(* share a queue of instances, a byte budget, the Crowd that measures who   *)
(* ran beside whom, and a result channel that the runner's own thread       *)
(* drains while they work.  The watcher (SweepControl) is the environment   *)
(* here: it moves the throttle level, the width policy and the canary hold. *)
(*                                                                         *)
(* Every step of a worker is one visit to shared state: a lock, an atomic   *)
(* load, a send.                                                            *)
(***************************************************************************)
EXTENDS Integers, Sequences, FiniteSets

CONSTANTS
    Width,           \* workers spawned for this batch (after the clamp)
    Items,           \* the instances handed to the batch
    NoItem,          \* a worker with no instance in hand
    Bytes,           \* expected_bytes: the memory each one is expected to take
    Budget,          \* mem_budget: what the batch may draw on
    FirstQueue,      \* the instances in the order they are queued
    QuietOnly,       \* RunCtx::quiet_only
    AdmitBelowFull,  \* RunCtx::admit_below_full
    MaxMoves         \* bound: how often the environment may move against us

ASSUME BatchAssumption ==
    /\ Width \in Nat \ {0}
    /\ NoItem \notin Items
    /\ Bytes \in [Items -> Nat \ {0}]
    /\ Budget \in Nat
    /\ FirstQueue \in Seq(Items)
    /\ \A i \in Items : \E k \in 1..Len(FirstQueue) : FirstQueue[k] = i
    /\ \A j, k \in 1..Len(FirstQueue) : FirstQueue[j] = FirstQueue[k] => j = k
    /\ QuietOnly \in BOOLEAN /\ AdmitBelowFull \in BOOLEAN
    /\ MaxMoves \in Nat

Workers == 0..(Width - 1)
Levels == {"full", "polite", "suspended"}
Out == Width + 1     \* Crowd slot of a worker that is not running: None

VARIABLES
    queue,        \* Mutex<VecDeque<(usize, u64)>>
    inUse,        \* Mutex<u64>: bytes drawn from the budget
    charge,       \* what each worker has added to inUse and not yet returned
    pc,           \* where each worker stands in its loop
    item,         \* the instance it popped
    crowd,        \* Crowd: most planners seen beside this slot, or Out
    outcome,      \* the Done a worker has in hand
    tx,           \* the result channel
    stop,         \* the batch's AtomicBool
    interrupted,  \* exec::interrupted: SIGINT, SIGTERM or SIGHUP arrived
    engineGone,   \* the binary has vanished from the disk
    runnerStop,   \* SweepRunner::stop
    applied,      \* the instances whose row the runner has taken, by outcome
    cascade,      \* the instances run_batch returns for the next rung
    level, width, held,   \* Shared: what the watcher publishes
    moves         \* how often the environment has moved

local == <<pc, item, charge, outcome>>
box == <<level, width, held, moves>>
runner == <<runnerStop, applied, cascade>>
flags == <<stop, interrupted, engineGone>>
vars == <<queue, inUse, local, crowd, tx, flags, runner, box>>

Outcomes == {"banked", "packed", "owed", "cancelled", "gone"}
Halting == {"cancelled", "gone"}
\* Where a worker stands: its next visit to shared state.
Places == {"gate", "pop", "mem", "admit", "hold", "enter", "run",
           "release", "send", "exit"}

TypeOK ==
    /\ queue \in Seq(Items)
    /\ inUse \in Int   \* that it never goes below zero is MemoryWithinBudget
    /\ charge \in [Workers -> Nat]
    /\ pc \in [Workers -> Places]
    /\ item \in [Workers -> Items \cup {NoItem}]
    /\ crowd \in [Workers -> 0..Out]
    /\ outcome \in [Workers -> Outcomes]
    /\ tx \in Seq(Items \X Outcomes)
    /\ stop \in BOOLEAN /\ interrupted \in BOOLEAN /\ engineGone \in BOOLEAN
    /\ runnerStop \in BOOLEAN
    /\ applied \subseteq Items \X {"banked", "packed", "owed"}
    /\ cascade \subseteq Items
    /\ level \in Levels /\ width \in Nat /\ held \in BOOLEAN
    /\ moves \in 0..MaxMoves

Init ==
    /\ queue = FirstQueue
    /\ inUse = 0
    /\ charge = [w \in Workers |-> 0]
    /\ pc = [w \in Workers |-> "gate"]
    /\ item = [w \in Workers |-> NoItem]
    /\ crowd = [w \in Workers |-> Out]
    /\ outcome = [w \in Workers |-> "owed"]
    /\ tx = <<>>
    /\ stop = FALSE /\ interrupted = FALSE /\ engineGone = FALSE /\ runnerStop = FALSE
    /\ applied = {} /\ cascade = {}
    /\ level \in Levels /\ width \in 0..Width /\ held = FALSE
    /\ moves = 0

Goto(w, p) == pc' = [pc EXCEPT ![w] = p]
Halted == stop \/ interrupted

-----------------------------------------------------------------------------
(* The worker loop. *)

\* Mutant: the gate as it was before 0.28, the width asked first.
WorkerGateWidthFirst(w, policyWidth, empty) ==
    IF w > 0 /\ w >= policyWidth THEN "park"
    ELSE IF empty THEN "exit" ELSE "take"

\* worker_gate: an empty queue ends a worker whatever the width says.
WorkerGate(w, policyWidth, empty) ==
    IF empty THEN "exit"
    ELSE IF w > 0 /\ w >= policyWidth THEN "park" ELSE "take"

\* The top of the loop: the stop flags, then the gate.  A parked worker
\* sleeps and asks again, which is no step here.
Gate(w) ==
    /\ pc[w] = "gate"
    /\ LET g == WorkerGate(w, width, queue = <<>>) IN
         \/ (Halted \/ g = "exit") /\ Goto(w, "exit")
         \/ ~Halted /\ g = "take" /\ Goto(w, "pop")
    /\ UNCHANGED <<queue, inUse, item, charge, outcome, crowd, tx, flags, runner, box>>

\* Mutant: the worker reads the front of the queue and does not remove it.
PopPeeks(w) ==
    /\ pc[w] = "pop"
    /\ IF queue = <<>>
         THEN Goto(w, "exit") /\ UNCHANGED item
         ELSE Goto(w, "mem") /\ item' = [item EXCEPT ![w] = Head(queue)]
    /\ UNCHANGED <<queue, inUse, charge, outcome, crowd, tx, flags, runner, box>>

\* pop_front under the queue's lock: another worker may have emptied it since
\* the gate looked.
Pop(w) ==
    /\ pc[w] = "pop"
    /\ IF queue = <<>>
         THEN Goto(w, "exit") /\ UNCHANGED <<queue, item>>
         ELSE /\ item' = [item EXCEPT ![w] = Head(queue)]
              /\ queue' = Tail(queue)
              /\ Goto(w, "mem")
    /\ UNCHANGED <<inUse, charge, outcome, crowd, tx, flags, runner, box>>

\* Mutant: the test looks at what is drawn and not at what is about to be.
FitsBefore(used, bytes) == used = 0 \/ used <= Budget

\* An instance larger than the whole budget runs alone.
Fits(used, bytes) == used = 0 \/ used + bytes <= Budget

Reserve(w) ==
    /\ pc[w] = "mem"
    /\ LET b == Bytes[item[w]] IN
         \/ /\ Fits(inUse, b)
            /\ inUse' = inUse + b
            /\ charge' = [charge EXCEPT ![w] = b]
         \/ /\ ~Fits(inUse, b) /\ Halted
            /\ UNCHANGED <<inUse, charge>>
    /\ Goto(w, "admit")
    /\ UNCHANGED <<queue, item, outcome, crowd, tx, flags, runner, box>>

\* Admission: SUSPENDED always waits, POLITE when FULL was asked for.
MustWait == \/ level = "suspended"
            \/ level /= "full" /\ (QuietOnly \/ ~AdmitBelowFull)

\* A stop ends the wait and the worker; the popped instance does not go back on
\* the queue ("pointless: the pass ends") and stays owed.
Admit(w) ==
    /\ pc[w] = "admit"
    /\ \/ Halted /\ Goto(w, "exit")
       \/ ~Halted /\ ~MustWait /\ Goto(w, "hold")
    /\ UNCHANGED <<queue, inUse, item, charge, outcome, crowd, tx, flags, runner, box>>

\* The canary is reading the box: do not spawn into it.  This wait looks at no
\* stop flag.
Hold(w) ==
    /\ pc[w] = "hold" /\ ~held
    /\ Goto(w, "enter")
    /\ UNCHANGED <<queue, inUse, item, charge, outcome, crowd, tx, flags, runner, box>>

Inside == {v \in Workers : crowd[v] /= Out}
BesideNow(w) == Cardinality(Inside \ {w})
Larger(a, b) == IF a >= b THEN a ELSE b

\* Mutant: the newcomer counts the others, the others do not hear of it.
EnteredAlone(w) == [crowd EXCEPT ![w] = BesideNow(w)]

\* Crowd::enter: the newcomer counts who is inside, and every planner inside
\* raises its peak to that count.
Entered(w) ==
    [v \in Workers |->
        IF v = w THEN BesideNow(w)
        ELSE IF crowd[v] /= Out THEN Larger(crowd[v], BesideNow(w)) ELSE Out]

\* Into the crowd, then the spawn, which fails for good when the binary is gone.
Enter(w) ==
    /\ pc[w] = "enter"
    /\ crowd' = Entered(w)
    /\ outcome' = [outcome EXCEPT ![w] = IF engineGone THEN "gone" ELSE "owed"]
    /\ Goto(w, "run")
    /\ UNCHANGED <<queue, inUse, item, charge, tx, flags, runner, box>>

\* What measure and the referee can make of a planner that had n neighbours: a
\* solve banks, a miss beside neighbours is Packed, a solo miss banks or is
\* owed; a signal cancels it.
Results(n) ==
    {"banked"} \cup (IF n > 0 THEN {"packed"} ELSE {"owed"})
               \cup (IF interrupted THEN {"cancelled"} ELSE {})

\* run_one from the planner's exit on: Crowd::leave, then the verdict.
Leave(w) ==
    /\ pc[w] = "run"
    /\ crowd' = [crowd EXCEPT ![w] = Out]
    /\ \E r \in IF outcome[w] = "gone" THEN {"gone"} ELSE Results(crowd[w]) :
         outcome' = [outcome EXCEPT ![w] = r]
    /\ Goto(w, "release")
    /\ UNCHANGED <<queue, inUse, item, charge, tx, flags, runner, box>>

Release(w) ==
    /\ pc[w] = "release"
    /\ inUse' = inUse - charge[w]
    /\ charge' = [charge EXCEPT ![w] = 0]
    /\ Goto(w, "send")
    /\ UNCHANGED <<queue, item, outcome, crowd, tx, flags, runner, box>>

\* tx.send, and the stop flag when the run was cancelled or never ran.
Send(w) ==
    /\ pc[w] = "send"
    /\ tx' = Append(tx, <<item[w], outcome[w]>>)
    /\ item' = [item EXCEPT ![w] = NoItem]
    /\ outcome' = [outcome EXCEPT ![w] = "owed"]
    /\ stop' = (stop \/ outcome[w] \in Halting)
    /\ Goto(w, IF outcome[w] \in Halting THEN "exit" ELSE "gate")
    /\ UNCHANGED <<queue, inUse, charge, crowd, interrupted, engineGone, runner, box>>

-----------------------------------------------------------------------------
\* Mutant: a packed miss goes to the next rung and its row is forgotten.
CollectOnlyCascades ==
    /\ tx /= <<>>
    /\ tx' = Tail(tx)
    /\ LET r == Head(tx)[2] IN
         /\ runnerStop' = (runnerStop \/ r \in Halting)
         /\ applied' = IF r \in Halting \cup {"packed"} THEN applied
                       ELSE applied \cup {Head(tx)}
         /\ cascade' = IF r = "packed" THEN cascade \cup {Head(tx)[1]} ELSE cascade
    /\ UNCHANGED <<queue, inUse, local, crowd, flags, box>>

\* The runner's own thread: every result is applied as it lands.  A cancelled
\* or never-run result writes no row and stops the runner.
Collect ==
    /\ tx /= <<>>
    /\ tx' = Tail(tx)
    /\ LET r == Head(tx)[2] IN
         /\ runnerStop' = (runnerStop \/ r \in Halting)
         /\ applied' = IF r \in Halting THEN applied ELSE applied \cup {Head(tx)}
         /\ cascade' = IF r = "packed" THEN cascade \cup {Head(tx)[1]} ELSE cascade
    /\ UNCHANGED <<queue, inUse, local, crowd, flags, box>>

Worker(w) == \/ Gate(w) \/ Pop(w) \/ Reserve(w) \/ Admit(w)
             \/ Hold(w) \/ Enter(w) \/ Leave(w) \/ Release(w) \/ Send(w)

-----------------------------------------------------------------------------
(* The environment: the operator, the disk, and the watcher. *)

Interrupt ==
    /\ ~interrupted /\ interrupted' = TRUE
    /\ UNCHANGED <<queue, inUse, local, crowd, tx, stop, engineGone, runner, box>>

EngineVanishes ==
    /\ ~engineGone /\ engineGone' = TRUE
    /\ UNCHANGED <<queue, inUse, local, crowd, tx, stop, interrupted, runner, box>>

\* The box gets busier, or a canary reading begins.
WatcherMoves ==
    /\ moves < MaxMoves /\ moves' = moves + 1
    /\ level' \in Levels /\ width' \in 0..Width /\ held' \in BOOLEAN
    /\ UNCHANGED <<queue, inUse, local, crowd, tx, flags, runner>>

\* The box clears: every reading ends, every busy spell ends.  The width may
\* stay at anything, one included.
BoxClears ==
    /\ held \/ level /= "full"
    /\ held' = FALSE /\ level' = "full"
    /\ UNCHANGED <<queue, inUse, local, crowd, tx, flags, runner, width, moves>>

\* The batch is over: every worker has left and the channel is drained.
Over == (\A w \in Workers : pc[w] = "exit") /\ tx = <<>>
Returned == Over /\ UNCHANGED vars

Next == \/ \E w \in Workers : Worker(w)
        \/ Collect \/ Interrupt \/ EngineVanishes \/ WatcherMoves \/ BoxClears
        \/ Returned

Spec == Init /\ [][Next]_vars

\* Threads are scheduled, planners end (a deadline kills them), and no busy
\* spell lasts for ever.
FairSpec == /\ Spec
            /\ \A w \in Workers : WF_vars(Worker(w))
            /\ WF_vars(Collect) /\ WF_vars(BoxClears)

-----------------------------------------------------------------------------
(* Properties. *)

SumUpTo(n, f) == LET s[k \in 0..n] == IF k = 0 THEN 0 ELSE s[k - 1] + f[k - 1]
                 IN  s[n]

\* The byte budget: the memory the planners running right now are expected to
\* take fits the budget, or a single planner larger than all of it runs alone;
\* and the shared counter is exactly what its holders have drawn, so returning
\* bytes can neither underflow it nor leave it short for the next planner.
MemoryWithinBudget ==
    /\ inUse = SumUpTo(Width, charge)
    /\ LET running == {w \in Workers : pc[w] = "run"}
           drawn == [w \in Workers |-> IF w \in running THEN Bytes[item[w]] ELSE 0]
       IN  SumUpTo(Width, drawn) <= Budget \/ Cardinality(running) <= 1

Queued == {queue[k] : k \in 1..Len(queue)}
InFlight == {item[w] : w \in Workers} \ {NoItem}
Sent == {tx[k][1] : k \in 1..Len(tx)}
Applied == {a[1] : a \in applied}

\* Across queue, workers, channel and runner no instance is ever lost while the
\* batch has not been told to stop: what is in none of them was dropped by a
\* stop, and is still owed.
NothingLost ==
    ~Halted => /\ Items \subseteq Queued \cup InFlight \cup Sent \cup Applied
               /\ \A w \in Workers : pc[w] = "exit" => item[w] = NoItem

\* No instance is measured twice in a batch: two workers never hold the same
\* one, and one that is queued, held, sent or applied is nowhere else.
NothingTwice ==
    /\ \A v, w \in Workers : v /= w /\ item[v] = item[w] => item[v] = NoItem
    /\ Queued \cap InFlight = {} /\ Queued \cap Sent = {} /\ Queued \cap Applied = {}
    /\ InFlight \cap Sent = {} /\ InFlight \cap Applied = {}
    /\ Sent \cap Applied = {}

\* Crowd measures, it does not assume: a planner's recorded peak is never below
\* the number of our own planners beside it, so one that overlapped another,
\* for however short a time, can not be judged as a solo run.
NeighboursHonest ==
    \A w \in Inside : crowd[w] >= BesideNow(w)

\* A peak outlives the neighbours that made it: until its run ends, a planner's
\* record never falls back when they leave.
PeakNeverForgets ==
    [][\A w \in Workers : crowd[w] /= Out /\ crowd'[w] /= Out
                            => crowd'[w] >= crowd[w]]_vars

\* Every batch ends: with the width stuck anywhere, through every throttle
\* spell and canary reading, every worker leaves and the runner gets its turn.
BatchEnds == <>Over
=============================================================================
