------------------------------- MODULE SweepLoop -------------------------------
(***************************************************************************)
(* The pass loop of sched::run over SweepRunner: which board is attempted   *)
(* next, the cascade of one attempt from packed wide to solo, what counts   *)
(* as progress, the stall guard, and every way to end.  How long the loop   *)
(* backs off is left out: the wait is one step.                             *)
(*                                                                         *)
(* One run_batch is one step here: it applies a result to each instance it  *)
(* was given, or drops it at a stop.  SweepBatch is that step in full.      *)
(***************************************************************************)
EXTENDS Integers, FiniteSets, FiniteSetsExt

CONSTANTS
    Boards,        \* manifest positions
    Work,          \* the instances, of all boards
    BoardOf,       \* the board of each
    Class,         \* classify, from the predecessor's rows
    PackWidth, NarrowWidth,             \* Pack::width, narrow_width
    PassLimits,    \* the values of --max-passes, 0 for none
    Bankable,      \* the instances that a quiet box can bank
    Cap            \* bound: passes and zero-progress passes are counted to it

ASSUME LoopAssumption ==
    /\ Boards \subseteq Nat /\ IsFiniteSet(Boards) /\ IsFiniteSet(Work)
    /\ BoardOf \in [Work -> Boards]
    /\ Class \in [Work -> {"wide", "narrow", "solo"}]
    /\ PackWidth \in Nat \ {0} /\ NarrowWidth \in Nat \ {0}
    /\ PassLimits \subseteq Nat /\ Cap \in Nat \ {0}
    /\ Bankable \subseteq Work

VARIABLES
    maxPasses,    \* SweepRunner::max_passes
    pc,           \* "top", "board", a rung of the cascade, "wait", or how it ended
    passes,
    left,         \* the boards this pass has still to attempt
    atTop,        \* what each board owed when the pass began
    board,        \* the one under attempt
    rungs,        \* the instances each rung of the cascade has still to run
    shrankBy,     \* what the queue has lost in this pass
    zeroProgress, \* consecutive passes in which it lost nothing
    banked,       \* SweepBoard::banked
    seen,         \* the instances with a row of this sweep that is no solve
    stop, interrupted,
    remaining,    \* what the Outcome says is still owed
    last          \* history: the last result of each instance in this attempt

attempt == <<board, rungs, last>>
tally == <<maxPasses, passes, left, atTop, shrankBy, zeroProgress>>
vars == <<pc, tally, attempt, banked, seen, stop, interrupted, remaining>>


Rungs == {"wide", "narrow", "solo"}
Ended == {"finished", "stopped"}
Outcomes == {"banked", "packed", "owed", "dropped"}
Owed(b) == {i \in Work \ banked : BoardOf[i] = b}
Smaller(a, b) == IF a <= b THEN a ELSE b
Total(f) == MapThenSumSet(LAMBDA b : f[b], Boards)

TypeOK ==
    /\ pc \in {"top", "board", "over", "wait"} \cup Rungs \cup Ended
    /\ maxPasses \in PassLimits
    /\ passes \in 0..Cap /\ zeroProgress \in 0..Cap
    /\ left \subseteq Boards
    /\ atTop \in [Boards -> 0..Cardinality(Work)] /\ shrankBy \in 0..Cardinality(Work)
    /\ board \in Boards
    /\ rungs \in [Rungs -> SUBSET Owed(board)]
    /\ banked \subseteq Work /\ seen \subseteq Work
    /\ stop \in BOOLEAN /\ interrupted \in BOOLEAN
    /\ remaining \in 0..Cardinality(Work)
    /\ last \in [Work -> Outcomes \cup {"none"}]

\* What seed_from_db reads back is what an earlier run of the sweep left.
Init ==
    /\ maxPasses \in PassLimits
    /\ pc = "top" /\ passes = 0 /\ left = {}
    /\ atTop = [b \in Boards |-> 0] /\ shrankBy = 0 /\ zeroProgress = 0
    /\ board \in Boards /\ rungs = [r \in Rungs |-> {}]
    /\ banked \in SUBSET Work /\ seen \in SUBSET (Work \ banked)
    /\ stop = FALSE /\ interrupted = FALSE
    /\ remaining = 0
    /\ last = [i \in Work |-> "none"]

\* How the loop ends, and what it says is still owed.
EndAs(how, owed) == pc' = how /\ remaining' = owed

-----------------------------------------------------------------------------
(* One pass. *)

\* The queue is asked anew; when it is empty the sweep is complete.
Top ==
    /\ pc = "top"
    /\ LET due == {b \in Boards : Owed(b) /= {}} IN
         IF due = {}
           THEN EndAs("finished", 0) /\ UNCHANGED tally
           ELSE /\ pc' = "board" /\ passes' = Smaller(passes + 1, Cap)
                /\ left' = due /\ shrankBy' = 0
                /\ atTop' = [b \in Boards |-> Cardinality(Owed(b))]
                /\ UNCHANGED <<maxPasses, zeroProgress, remaining>>
    /\ UNCHANGED <<attempt, banked, seen, stop, interrupted>>

\* order_boards: the manifest's order first, the fewest remaining later.
Before(a, b) ==
    IF passes <= 1 THEN a < b
    ELSE atTop[a] < atTop[b] \/ (atTop[a] = atTop[b] /\ a < b)
First(b) == b \in left /\ \A a \in left \ {b} : Before(b, a)

\* classify: what this sweep has already missed runs solo, and so does all of a
\* board where nothing is packed.
ClassOf(i) == IF i \in seen \/ PackWidth <= 1 THEN "solo" ELSE Class[i]

\* The stop is looked at before every board; SweepRunner::stopped makes an
\* interrupt a stop.
Attempt ==
    /\ pc = "board" /\ left /= {} /\ ~stop /\ ~interrupted
    /\ \E b \in left :
         /\ First(b) /\ board' = b
         /\ rungs' = [r \in Rungs |-> {i \in Owed(b) : ClassOf(i) = r}]
    /\ pc' = "wide"
    /\ last' = [i \in Work |-> "none"]
    /\ UNCHANGED <<tally, banked, seen, stop, interrupted, remaining>>

\* Mutant: what the pass has banked so far is not taken off.
StillOwedStale == Total(atTop)

\* What the Stopped event says is owed.
StillOwed == Total(atTop) - shrankBy

StoppedMidPass ==
    /\ pc = "board" /\ left /= {} /\ (stop \/ interrupted) /\ stop' = TRUE
    /\ EndAs("stopped", StillOwed)
    /\ UNCHANGED <<tally, attempt, banked, seen, interrupted>>

-----------------------------------------------------------------------------
(* The cascade of SweepRunner::attempt. *)

WidthOf(r) == CASE r = "wide" -> PackWidth [] r = "narrow" -> NarrowWidth [] r = "solo" -> 1

NextRung(r) == CASE r = "wide" -> "narrow" [] r = "narrow" -> "solo" [] r = "solo" -> "over"

\* Mutant: a packed miss of the narrow rung has had its chances.
FallsToWideOnly(r) == IF r = "wide" THEN "narrow" ELSE "over"

\* The rung a packed miss falls to.
FallsTo(r) == NextRung(r)

\* What a batch can make of its instances: a miss is packed only if two or more
\* could run at once, and one is dropped only by a stop.
Results(r, batch) ==
    {f \in [batch -> Outcomes] :
        (\E i \in batch : f[i] = "packed") => WidthOf(r) > 1 /\ Cardinality(batch) > 1}

With(f, o) == {i \in DOMAIN f : f[i] = o}

\* Mutant: the banked set is made anew from the results of each batch.
AppliedAnew(f) == With(f, "banked")

\* SweepRunner::apply: what a result does to the banked set.
Applied(f) == banked \cup With(f, "banked")

\* run_batch: its results applied, its packed misses handed to the next rung.
Batch(f) ==
    /\ pc \in Rungs /\ rungs[pc] /= {} /\ ~stop /\ ~interrupted
    /\ f \in Results(pc, rungs[pc])
    /\ interrupted' \in BOOLEAN /\ stop' \in BOOLEAN
    /\ stop' => With(f, "dropped") /= {}
    /\ With(f, "dropped") /= {} => stop' \/ interrupted'
    /\ banked' = Applied(f)
    /\ seen' = seen \cup With(f, "owed") \cup With(f, "packed")
    /\ last' = [i \in Work |-> IF i \in DOMAIN f THEN f[i] ELSE last[i]]
    /\ rungs' = [r \in Rungs |->
                    IF r = pc THEN {}
                    ELSE IF r = FallsTo(pc) THEN rungs[r] \cup With(f, "packed")
                    ELSE rungs[r]]
    /\ pc' = NextRung(pc)
    /\ UNCHANGED <<tally, board, remaining>>

\* run_batch's early return: nothing to run, or a stop.
NoBatch ==
    /\ pc \in Rungs /\ (rungs[pc] = {} \/ stop \/ interrupted)
    /\ stop' = (stop \/ interrupted)
    /\ rungs' = [rungs EXCEPT ![pc] = {}]
    /\ pc' = NextRung(pc)
    /\ UNCHANGED <<tally, board, last, banked, seen, interrupted, remaining>>

\* Progress is measured on the queue.
Shrank == atTop[board] - Cardinality(Owed(board))

\* Mutant: a board that made no progress ends the pass.
BoardsLeftUnlessStuck == IF Shrank = 0 THEN {} ELSE left \ {board}

\* The pass goes on to every board it began with.
BoardsLeft == left \ {board}

Attempted ==
    /\ pc = "over" /\ pc' = "board"
    /\ shrankBy' = shrankBy + Shrank
    /\ left' = BoardsLeft
    /\ UNCHANGED <<maxPasses, passes, atTop, zeroProgress, attempt, banked, seen, stop, interrupted,
                   remaining>>

-----------------------------------------------------------------------------
(* The end of a pass. *)

\* Mutant: a pass that banked backs off like one that stalled.
AfterPassWaits == "wait"

\* Any progress at all starts the next pass at once.
AfterPass == IF shrankBy > 0 THEN "top" ELSE "wait"

PassOver ==
    /\ pc = "board" /\ left = {}
    /\ pc' = AfterPass
    /\ zeroProgress' = IF shrankBy > 0 THEN 0 ELSE Smaller(zeroProgress + 1, Cap)
    /\ UNCHANGED <<maxPasses, passes, left, atTop, shrankBy, attempt, banked, seen, stop,
                   interrupted, remaining>>

OutOfPasses == maxPasses > 0 /\ passes >= maxPasses

\* SweepRunner::wait: a stop, the pass limit, or the back-off slept out.
StoppedAtWait ==
    /\ pc = "wait" /\ (stop \/ interrupted \/ OutOfPasses)
    /\ stop' = (stop \/ (interrupted /\ ~OutOfPasses))
    /\ EndAs("stopped", Total(atTop))
    /\ UNCHANGED <<tally, attempt, banked, seen, interrupted>>

Wait ==
    /\ pc = "wait" /\ ~stop /\ ~interrupted /\ ~OutOfPasses
    /\ pc' = "top"
    /\ UNCHANGED <<tally, attempt, banked, seen, stop, interrupted, remaining>>

Interrupt ==
    /\ ~interrupted /\ interrupted' = TRUE /\ pc \notin Ended
    /\ UNCHANGED <<pc, tally, attempt, banked, seen, stop, remaining>>

Over == pc \in Ended /\ UNCHANGED vars

AnyBatch == \E f \in UNION {Results(r, rungs[r]) : r \in Rungs} : Batch(f)

Loop == Top \/ Attempt \/ StoppedMidPass \/ AnyBatch \/ NoBatch \/ Attempted
        \/ PassOver \/ StoppedAtWait \/ Wait

Next == Loop \/ Interrupt \/ Over

Spec == Init /\ [][Next]_vars

Banks(i) == AnyBatch /\ i \in banked' \ banked

\* The thread runs, and the box comes back again and again: an instance that
\* can be banked is not missed every time it is run.
FairSpec == Spec /\ WF_vars(Loop) /\ \A i \in Bankable : SF_vars(Banks(i))

-----------------------------------------------------------------------------
(* Properties. *)

Promise == INSTANCE Owing WITH
    owed <- Work \ banked,
    ended <- IF pc \in Ended THEN pc ELSE "no"

\* The sweep keeps its promise: work leaves the queue by being banked and by
\* nothing else, and complete means that nothing is owed.
KeepsPromise == Promise!Spec

\* "Packing can waste time; it can never lose a row": an attempt that no stop
\* cut short leaves no instance with a packed miss for its last word.
PackedIsRetriedSolo ==
    pc = "over" /\ ~stop /\ ~interrupted => \A i \in Work : last[i] /= "packed"

\* What a stopped sweep tells the operator is still owed is what the next run
\* will find, wherever in a pass the stop fell.
StopReportIsTrue == pc \in Ended => remaining = Cardinality(Work \ banked)

\* A sweep backs off only after a pass in which the queue did not move, whatever
\* the attempts made of it, and ends by itself only there: at the pass limit.
NeverGivesUp ==
    /\ pc = "wait" => Cardinality(Work \ banked) = Total(atTop)
    /\ pc = "stopped" /\ ~stop =>
          OutOfPasses /\ zeroProgress > 0 /\ Cardinality(Work \ banked) = Total(atTop)

\* No board starves behind one that cannot be banked: every instance a quiet
\* box can bank is banked, unless the operator stops the sweep first.
EveryoneGetsATurn ==
    maxPasses = 0 => \A i \in Bankable : <>(i \in banked \/ stop \/ interrupted)

\* "Stop after this many passes" (the help of --max-passes).
PassesAreCapped == maxPasses > 0 => passes <= maxPasses
=============================================================================
