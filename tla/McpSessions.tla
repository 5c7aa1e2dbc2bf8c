------------------------------ MODULE McpSessions ------------------------------
(***************************************************************************)
(* The sessions of the MCP server (session.rs, session_control.rs and the  *)
(* two tools of experience.rs that write one) under concurrent calls: the  *)
(* map lock, one lock per session, the checkpoint shelf, epochs, and the   *)
(* receipt chain with its bounded ledger.                                  *)
(*                                                                         *)
(* The map names Arcs.  A call that has looked its session up keeps the    *)
(* Arc, also when another call takes it out of the map in between.  One    *)
(* step is one critical section.  Of more than one step are a search under *)
(* a session's lock, a wait for a session lock with the map lock in hand,  *)
(* and what restore and bootstrap do with the map lock in hand once they   *)
(* have let the session go again whose head they have read.                *)
(*                                                                         *)
(* A world stands for what the state fingerprint covers, a plan for its    *)
(* number of steps, a receipt for the chain of events it hashes.  Whether  *)
(* a retained suffix still replays is the planner's answer: either.        *)
(***************************************************************************)
EXTENDS Integers, Sequences, SequencesExt, FiniteSets

CONSTANTS
    Clients,       \* each has one call under way at a time
    Ids,           \* session ids, ordered as the server orders them
    Shelves,       \* checkpoint ids
    Worlds,        \* the fingerprints a session can have
    MaxPlan,       \* bound: steps of a plan
    LogCap,        \* the ledger's length, 4096 in the code
    MaxRequests,   \* bound: calls in all
    Requests,      \* the calls the clients may make
    Opened         \* ids already open at the start

NoPlan == -1
NoEpoch == -1
NoArc == 0
Nobody == "nobody"

ASSUME SessionsAssumption ==
    /\ Ids \subseteq Nat \ {0} /\ Opened \subseteq Ids /\ IsFiniteSet(Opened)
    /\ MaxPlan \in Nat /\ LogCap \in Nat \ {0} /\ MaxRequests \in Nat
    /\ Worlds # {} /\ Nobody \notin Clients

Keyed == {"read", "observe", "goal", "think", "advance", "set", "restrict", "schedule",
          "start", "elapse", "batch", "replan", "checkpoint", "compare"}
Held == {"fork", "restore", "bootstrap"}
Ops == Keyed \cup Held \cup {"open", "close"}

\* other: the right side of a comparison, the child of a fork; shelf: the
\* checkpoint; checked: the call carries expected_epoch.
Request == [op : Ops, id : Ids, other : Ids, shelf : Shelves, replace : BOOLEAN, checked : BOOLEAN]

\* The calls that may carry expected_epoch (a comparison's is left out: it writes
\* nothing).
Checked == {"set", "restrict", "schedule", "start", "elapse", "batch", "replan", "checkpoint",
            "fork", "restore"}

ASSUME RequestsAssumption ==
    /\ Requests \subseteq Request /\ Requests # {}
    /\ \A r \in Requests : /\ r.op \in {"fork", "compare"} => r.id # r.other
                           /\ r.checked => r.op \in Checked

Events == Ops \cup {"edit", "retained", "forked-child"}

\* spliced is history: this mind took over the chain of the session it replaced.
Mind == [world : Worlds, plan : {NoPlan} \cup 0..MaxPlan, cursor : Nat, epoch : Nat,
         head : Seq(Events), log : Seq(Events), spliced : BOOLEAN]

VARIABLES
    table,      \* SessionState::sessions: the Arc under each id
    minds,      \* what each Arc holds, in the order they were made
    mapHolder,  \* who keeps the map lock while it waits
    holder,     \* who keeps the lock of each Arc over a step
    shelf,      \* ControlState::checkpoints
    call,       \* the call of each client
    saw,        \* history: the last epoch a client was told, and of what world
    torn,       \* history: the Arcs on which an observation failed half-way
    due,        \* history: the receipts given under an id since it was opened,
                \* but for those a successor on its way has overtaken
    sent

locks == <<mapHolder, holder>>
history == <<saw, torn, due>>
vars == <<table, minds, locks, shelf, call, history, sent>>

Arcs == 1..Len(minds)
Blank == [world |-> CHOOSE w \in Worlds : TRUE, plan |-> NoPlan, cursor |-> 0, epoch |-> 0,
          head |-> <<>>, log |-> <<>>, spliced |-> FALSE]
Rest == [pc |-> "idle", req |-> CHOOSE r \in Requests : TRUE, epoch |-> NoEpoch,
         arc |-> NoArc, right |-> NoArc, mind |-> Blank]
Unseen == [id |-> 0, arc |-> NoArc, epoch |-> NoEpoch, world |-> Blank.world]

TypeOK ==
    /\ minds \in Seq(Mind)
    /\ table \in [Ids -> {NoArc} \cup Arcs]
    /\ mapHolder \in Clients \cup {Nobody}
    /\ DOMAIN holder = Arcs /\ \A a \in Arcs : holder[a] \in Clients \cup {Nobody}
    /\ shelf \in [Shelves -> Mind]
    /\ DOMAIN call = Clients
    /\ \A c \in Clients :
        /\ call[c].pc \in {"idle", "copy", "lookup", "right", "lock", "second", "search", "held",
                        "insert"}
        /\ call[c].req \in Requests
        /\ call[c].epoch \in Nat \cup {NoEpoch}
        /\ call[c].arc \in {NoArc} \cup Arcs /\ call[c].right \in {NoArc} \cup Arcs
        /\ call[c].mind \in Mind
    /\ torn \subseteq Arcs
    /\ due \in [Ids -> SUBSET Seq(Events)]
    /\ sent \in 0..MaxRequests

\* Mutant: the overflow is counted against the length before the push.
BoundedLate(s) ==
    IF Len(s) > LogCap + 1 THEN SubSeq(s, Len(s) - LogCap + 1, Len(s)) ELSE s

Bounded(s) == IF Len(s) > LogCap THEN SubSeq(s, Len(s) - LogCap + 1, Len(s)) ELSE s

\* chain_receipt: the receipt is the new head.
Chained(m, e) == [m EXCEPT !.head = Append(@, e), !.log = Bounded(Append(@, e))]

Fresh(w) == Chained([Blank EXCEPT !.world = w], "open")

Init ==
    /\ \E f \in [Ids -> {NoArc} \cup 1..Cardinality(Opened)] :
        /\ \A i \in Ids : f[i] = IF i \in Opened THEN Cardinality({j \in Opened : j <= i}) ELSE NoArc
        /\ table = f
    /\ minds = [a \in 1..Cardinality(Opened) |-> Fresh(Blank.world)]
    /\ mapHolder = Nobody /\ holder = [a \in 1..Cardinality(Opened) |-> Nobody]
    /\ shelf = [k \in Shelves |-> Blank]
    /\ call = [c \in Clients |-> Rest]
    /\ saw = [c \in Clients |-> Unseen] /\ torn = {}
    /\ due = [i \in Ids |-> IF i \in Opened THEN {Fresh(Blank.world).head} ELSE {}]
    /\ sent = 0

-----------------------------------------------------------------------------
(* A client sends a call and gets its answer. *)

\* expected_epoch is the last epoch the client was told of this session.
Send(c, r) ==
    /\ call[c].pc = "idle" /\ sent < MaxRequests
    /\ r.checked => saw[c].id = r.id
    /\ sent' = sent + 1
    /\ call' = [call EXCEPT ![c] = [Rest EXCEPT
            !.req = r, !.pc = IF r.op = "restore" THEN "copy" ELSE "lookup",
            !.epoch = IF r.checked THEN saw[c].epoch ELSE NoEpoch]]
    /\ UNCHANGED <<table, minds, locks, shelf, history>>

Op(c) == call[c].req.op
Id(c) == call[c].req.id
Goto(c, p) == call' = [call EXCEPT ![c].pc = p]
Answer(c) == call' = [call EXCEPT ![c] = Rest]

Refuse(c) == Answer(c) /\ UNCHANGED <<table, minds, locks, shelf, history, sent>>

\* Mutant: no call checks the epoch it was given.
NeverStale(c, m) == FALSE

\* require_epoch, failing.
Stale(c, m) == call[c].epoch # NoEpoch /\ call[c].epoch # m.epoch

\* The session of a call is behind its own lock, which is free.
MindOf(c) == minds[call[c].arc]
Free(c) == holder[call[c].arc] = Nobody
Ready(c, op) == Op(c) = op /\ call[c].pc = "lock" /\ Free(c)

\* A restore or a bootstrap of i has read the head, and has not yet inserted.
Overtaken(i) == \E d \in Clients : call[d].pc = "insert" /\ call[d].req.id = i

\* The end of a write: the mind, the receipt, the answer.
Credit(i, a, m) ==
    IF table[i] = a /\ ~Overtaken(i) THEN [due EXCEPT ![i] = @ \cup {m.head}] ELSE due
Write(c, m) ==
    /\ minds' = [minds EXCEPT ![call[c].arc] = m]
    /\ due' = Credit(Id(c), call[c].arc, m)
    /\ Answer(c)
Tell(c, m) ==
    saw' = [saw EXCEPT ![c] =
        [id |-> Id(c), arc |-> call[c].arc, epoch |-> m.epoch, world |-> m.world]]

\* An answer that reports the epoch, and one that does not.
Reply(c, m) == Write(c, m) /\ Tell(c, m) /\ UNCHANGED <<table, locks, shelf, torn, sent>>
ReplyBriefly(c, m) == Write(c, m) /\ UNCHANGED <<table, locks, shelf, saw, torn, sent>>

-----------------------------------------------------------------------------
(* SessionState::get, and the reads behind it. *)

MapIsFree(c, p) == call[c].pc = p /\ mapHolder = Nobody

Lookup(c) ==
    /\ MapIsFree(c, "lookup") /\ Op(c) \in Keyed
    /\ \/ table[Id(c)] = NoArc /\ Refuse(c)
       \/ /\ table[Id(c)] # NoArc
          /\ call' = [call EXCEPT ![c].arc = table[Id(c)],
                                  ![c].pc = IF Op(c) = "compare" THEN "right" ELSE "lock"]
          /\ UNCHANGED <<table, minds, locks, shelf, history, sent>>

\* session_state, session_status, session_history and the other reads of one mind.
Read(c) ==
    /\ Ready(c, "read")
    /\ Tell(c, MindOf(c)) /\ Answer(c)
    /\ UNCHANGED <<table, minds, locks, shelf, torn, due, sent>>

\* session_compare looks both up, then takes the locks in the order of the ids.
LookupRight(c) ==
    /\ MapIsFree(c, "right")
    /\ LET right == table[call[c].req.other] IN
       \/ right = NoArc /\ Refuse(c)
       \/ /\ right # NoArc
          /\ call' = [call EXCEPT ![c].right = right, ![c].pc = "lock"]
          /\ UNCHANGED <<table, minds, locks, shelf, history, sent>>

\* Mutant: the left side is locked first, whatever the ids.
InOrderAsGiven(c) == <<call[c].arc, call[c].right>>

InOrder(c) == IF Id(c) < call[c].req.other THEN <<call[c].arc, call[c].right>>
                                           ELSE <<call[c].right, call[c].arc>>

LockFirst(c) ==
    /\ call[c].pc = "lock" /\ Op(c) = "compare" /\ holder[InOrder(c)[1]] = Nobody
    /\ holder' = [holder EXCEPT ![InOrder(c)[1]] = c]
    /\ Goto(c, "second")
    /\ UNCHANGED <<table, minds, mapHolder, shelf, history, sent>>

Compare(c) ==
    /\ call[c].pc = "second" /\ holder[InOrder(c)[2]] = Nobody
    /\ holder' = [holder EXCEPT ![InOrder(c)[1]] = Nobody]
    /\ Answer(c)
    /\ UNCHANGED <<table, minds, mapHolder, shelf, history, sent>>

-----------------------------------------------------------------------------
(* Writes of one mind. *)

BeginSearch(c) ==
    /\ holder' = [holder EXCEPT ![call[c].arc] = c]
    /\ Goto(c, "search")
    /\ UNCHANGED <<table, minds, mapHolder, shelf, history, sent>>

\* The facts are validated before the first is applied; the fluents come one by
\* one after them, and a bad one leaves what was applied, with no receipt.
Observe(c) ==
    /\ Ready(c, "observe")
    /\ LET m == MindOf(c) IN
       \/ Refuse(c)
       \/ Reply(c, Chained(m, "observe"))
       \/ \E w \in Worlds \ {m.world} :
            Reply(c, Chained([m EXCEPT !.world = w, !.epoch = @ + 1], "observe"))
       \/ \E w \in Worlds \ {m.world} :
            /\ minds' = [minds EXCEPT ![call[c].arc].world = w]
            /\ torn' = torn \cup {call[c].arc}
            /\ Answer(c)
            /\ UNCHANGED <<table, locks, shelf, saw, due, sent>>

\* The retained plan stays, its cursor back at the start.
SetGoal(c) ==
    /\ Ready(c, "goal")
    /\ \/ Refuse(c)
       \/ \E w \in Worlds :
            Reply(c, Chained([MindOf(c) EXCEPT !.world = w, !.cursor = 0, !.epoch = @ + 1], "goal"))

\* A suffix that still replays is answered at once; else the search begins,
\* under the session's lock.
Think(c) ==
    /\ Ready(c, "think")
    /\ \/ /\ MindOf(c).plan # NoPlan /\ MindOf(c).cursor <= MindOf(c).plan
          /\ ReplyBriefly(c, Chained(MindOf(c), "retained"))
       \/ BeginSearch(c)

Replan(c) ==
    /\ Ready(c, "replan")
    /\ \/ Stale(c, MindOf(c)) /\ Refuse(c)
       \/ ~Stale(c, MindOf(c)) /\ BeginSearch(c)

Searched(c, op) == Op(c) = op /\ call[c].pc = "search"
Release(c) == holder' = [holder EXCEPT ![call[c].arc] = Nobody]

\* Mutant: the cursor of the old plan is kept for the new one.
PlannedAlong(m, p) == [m EXCEPT !.plan = p]

\* What a search leaves: its plan, or none, from the start.
Planned(m, p) == [m EXCEPT !.plan = p, !.cursor = 0]

EndThink(c) ==
    /\ Searched(c, "think")
    /\ \E p \in {NoPlan} \cup 0..MaxPlan : Write(c, Chained(Planned(MindOf(c), p), "think"))
    /\ Release(c)
    /\ UNCHANGED <<table, mapHolder, shelf, saw, torn, sent>>

EndReplan(c) ==
    /\ Searched(c, "replan")
    /\ \E p \in {NoPlan} \cup 0..MaxPlan :
        LET m == Chained(Planned(MindOf(c), p), "replan") IN Write(c, m) /\ Tell(c, m)
    /\ Release(c)
    /\ UNCHANGED <<table, mapHolder, shelf, torn, sent>>

PlanLength(m) == IF m.plan = NoPlan THEN 0 ELSE m.plan

Advance(c) ==
    /\ Ready(c, "advance")
    /\ \/ Refuse(c)
       \/ \E k \in 0..MaxPlan :
            /\ MindOf(c).cursor + k <= PlanLength(MindOf(c))
            /\ ReplyBriefly(c, Chained([MindOf(c) EXCEPT !.cursor = @ + k], "advance"))

\* Mutant: an edit that is committed leaves the epoch.
EditedQuietly(m, w) == [m EXCEPT !.world = w]

\* The commit of a staged fork: a new world, a new epoch.
Edited(m, w) == [m EXCEPT !.world = w, !.epoch = @ + 1]

\* Staged on a fork, refused without a trace or committed with the plan dropped.
Stage(c, op) ==
    /\ Ready(c, op)
    /\ \/ Refuse(c)
       \/ /\ ~Stale(c, MindOf(c))
          /\ \E w \in Worlds : Reply(c, Chained(Planned(Edited(MindOf(c), w), NoPlan), "edit"))

Set(c) == Stage(c, "set")
RestrictOps(c) == Stage(c, "restrict")
ApplyStart(c) == Stage(c, "start")
Elapse(c) == Stage(c, "elapse")

\* Scheduling keeps the plan and the cursor.
ScheduleFact(c) ==
    /\ Ready(c, "schedule")
    /\ \/ Refuse(c)
       \/ /\ ~Stale(c, MindOf(c))
          /\ \E w \in Worlds : Reply(c, Chained(Edited(MindOf(c), w), "edit"))

\* qol_batch: a list of the edits above on one fork, perhaps a search at the end.
Batch(c) ==
    /\ Ready(c, "batch")
    /\ \/ Refuse(c)
       \/ ~Stale(c, MindOf(c)) /\ BeginSearch(c)

EndBatch(c) ==
    /\ Searched(c, "batch")
    /\ Release(c)
    /\ \/ Answer(c) /\ UNCHANGED <<minds, saw, due>>
       \/ \E w \in Worlds, m \in {MindOf(c)} \cup {Planned(MindOf(c), p) : p \in {NoPlan} \cup 0..MaxPlan} :
            LET n == Chained(Edited(m, w), "edit") IN Write(c, n) /\ Tell(c, n)
    /\ UNCHANGED <<table, mapHolder, shelf, torn, sent>>

\* The checkpoint is taken after its receipt.
Checkpoint(c) ==
    /\ Ready(c, "checkpoint")
    /\ LET k == call[c].req.shelf
           m == Chained(MindOf(c), "checkpoint") IN
       \/ (Stale(c, MindOf(c)) \/ (shelf[k] # Blank /\ ~call[c].req.replace)) /\ Refuse(c)
       \/ /\ ~Stale(c, MindOf(c)) /\ (shelf[k] = Blank \/ call[c].req.replace)
          /\ shelf' = [shelf EXCEPT ![k] = m]
          /\ Write(c, m) /\ Tell(c, m)
          /\ UNCHANGED <<table, locks, torn, sent>>

-----------------------------------------------------------------------------
(* Calls that change the map, under its lock. *)

\* A new Arc under id i; whoever still holds the old one keeps it.
Insert(i, m, rest) ==
    /\ minds' = Append(rest, m)
    /\ table' = [table EXCEPT ![i] = Len(minds) + 1]
    /\ holder' = Append(holder, Nobody)

Open(c) ==
    /\ MapIsFree(c, "lookup") /\ Op(c) = "open"
    /\ \/ Refuse(c)
       \/ /\ table[Id(c)] = NoArc \/ call[c].req.replace
          /\ \E w \in Worlds :
                /\ Insert(Id(c), Fresh(w), minds)
                /\ due' = [due EXCEPT ![Id(c)] = {Fresh(w).head}]
          /\ Answer(c)
          /\ UNCHANGED <<mapHolder, shelf, saw, torn, sent>>

Close(c) ==
    /\ MapIsFree(c, "lookup") /\ Op(c) = "close"
    /\ table' = [table EXCEPT ![Id(c)] = NoArc]
    /\ due' = [due EXCEPT ![Id(c)] = {}]
    /\ Answer(c)
    /\ UNCHANGED <<minds, locks, shelf, saw, torn, sent>>

\* restore first copies the checkpoint, under the shelf's own lock.
Copy(c) ==
    /\ call[c].pc = "copy"
    /\ LET m == shelf[call[c].req.shelf] IN
       \/ m = Blank /\ Refuse(c)
       \/ /\ m # Blank
          /\ call' = [call EXCEPT ![c].mind = m, ![c].pc = "lookup"]
          /\ UNCHANGED <<table, minds, locks, shelf, history, sent>>

\* The id the call would put a mind under, and the one whose lock it awaits.
Target(c) == IF Op(c) = "fork" THEN call[c].req.other ELSE Id(c)
Taken(c) == table[Target(c)] # NoArc /\ ~call[c].req.replace

\* The map lock is kept while the session's lock is awaited.
TakeMap(c) ==
    /\ MapIsFree(c, "lookup") /\ Op(c) \in Held /\ ~Taken(c) /\ table[Id(c)] # NoArc
    /\ mapHolder' = c
    /\ call' = [call EXCEPT ![c].arc = table[Id(c)], ![c].pc = "held"]
    /\ UNCHANGED <<table, minds, holder, shelf, history, sent>>

\* Taken, a fork of no session, an epoch for no session, no such goal.
TurnAway(c) ==
    /\ MapIsFree(c, "lookup") /\ Op(c) \in Held
    /\ \/ Taken(c)
       \/ Op(c) = "fork" /\ table[Id(c)] = NoArc
       \/ Op(c) = "restore" /\ table[Id(c)] = NoArc /\ call[c].epoch # NoEpoch
       \/ Op(c) = "bootstrap"
    /\ Refuse(c)

Holding(c, op) == Op(c) = op /\ call[c].pc = "held" /\ Free(c)

\* require_epoch with the map lock in hand.
RefuseHeld(c) ==
    /\ Op(c) \in {"fork", "restore"} /\ call[c].pc = "held" /\ Free(c) /\ Stale(c, MindOf(c))
    /\ Answer(c) /\ mapHolder' = Nobody
    /\ UNCHANGED <<table, minds, holder, shelf, history, sent>>

\* The parent's receipt comes first and is where the child's chain starts.
Fork(c) ==
    /\ Holding(c, "fork") /\ ~Stale(c, MindOf(c))
    /\ LET parent == Chained(MindOf(c), "forked-child")
           child == Chained(parent, "fork") IN
       /\ Insert(Target(c), child, [minds EXCEPT ![call[c].arc] = parent])
       /\ due' = [due EXCEPT ![Id(c)] = @ \cup {parent.head}, ![Target(c)] = {child.head}]
    /\ Answer(c) /\ mapHolder' = Nobody
    /\ UNCHANGED <<shelf, saw, torn, sent>>

\* Mutant: the restored mind keeps the chain of its checkpoint.
OverlaidAsStored(m, old) == [m EXCEPT !.spliced = TRUE]

\* A mind put over another takes over the other's receipt_head, not its ledger.
Overlaid(m, old) == [m EXCEPT !.head = old.head, !.spliced = TRUE]

Restored(c) == [call[c].mind EXCEPT !.epoch = @ + 1]

\* The session's lock is let go with the head in hand, the map's is not.
Succeed(c, m) ==
    /\ call' = [call EXCEPT ![c].mind = m, ![c].pc = "insert"]
    /\ UNCHANGED <<table, minds, locks, shelf, history, sent>>

Restore(c) ==
    /\ Holding(c, "restore") /\ ~Stale(c, MindOf(c))
    /\ Succeed(c, Chained(Overlaid(Restored(c), MindOf(c)), "restore"))

\* What has been written on the old Arc since its head was read is not in it.
InsertSuccessor(c) ==
    /\ call[c].pc = "insert"
    /\ Insert(Id(c), call[c].mind, minds)
    /\ due' = [due EXCEPT ![Id(c)] = @ \cup {call[c].mind.head}]
    /\ Answer(c) /\ mapHolder' = Nobody
    /\ UNCHANGED <<shelf, saw, torn, sent>>

RestoreAbsent(c) ==
    /\ MapIsFree(c, "lookup") /\ Op(c) = "restore"
    /\ table[Id(c)] = NoArc /\ call[c].epoch = NoEpoch
    /\ LET m == Chained(Restored(c), "restore") IN
       /\ Insert(Id(c), m, minds)
       /\ due' = [due EXCEPT ![Id(c)] = {m.head}]
    /\ Answer(c)
    /\ UNCHANGED <<mapHolder, shelf, saw, torn, sent>>

\* wizard_bootstrap: the search is over before the map lock is taken.
Bootstrapped(w, p) == [Blank EXCEPT !.world = w, !.plan = p]

Bootstrap(c) ==
    /\ Holding(c, "bootstrap")
    /\ \E w \in Worlds, p \in {NoPlan} \cup 0..MaxPlan :
        Succeed(c, Chained(Overlaid(Bootstrapped(w, p), MindOf(c)), "bootstrap"))

BootstrapAbsent(c) ==
    /\ MapIsFree(c, "lookup") /\ Op(c) = "bootstrap" /\ table[Id(c)] = NoArc
    /\ \E w \in Worlds, p \in {NoPlan} \cup 0..MaxPlan :
        LET m == Chained(Bootstrapped(w, p), "bootstrap") IN
        /\ Insert(Id(c), m, minds)
        /\ due' = [due EXCEPT ![Id(c)] = {m.head}]
    /\ Answer(c)
    /\ UNCHANGED <<mapHolder, shelf, saw, torn, sent>>

-----------------------------------------------------------------------------
Serve(c) ==
    \/ Lookup(c) \/ Read(c) \/ LookupRight(c) \/ LockFirst(c) \/ Compare(c)
    \/ Observe(c) \/ SetGoal(c) \/ Think(c) \/ EndThink(c) \/ Replan(c) \/ EndReplan(c)
    \/ Advance(c) \/ Set(c) \/ RestrictOps(c) \/ ApplyStart(c) \/ Elapse(c)
    \/ ScheduleFact(c) \/ Batch(c) \/ EndBatch(c) \/ Checkpoint(c)
    \/ Open(c) \/ Close(c) \/ Copy(c) \/ TakeMap(c) \/ TurnAway(c) \/ RefuseHeld(c)
    \/ Fork(c) \/ Restore(c) \/ RestoreAbsent(c) \/ Bootstrap(c) \/ BootstrapAbsent(c)
    \/ InsertSuccessor(c)

Next == \E c \in Clients : Serve(c) \/ \E r \in Requests : Send(c, r)

Spec == Init /\ [][Next]_vars

\* A task that can go on is scheduled, a search ends with its budget.  Nothing is
\* assumed of the order in which a lock is granted: the calls are finitely many.
FairSpec == Spec /\ \A c \in Clients : WF_vars(Serve(c))

-----------------------------------------------------------------------------
(* Properties. *)

\* Every receipt given for a session that is still the one under its id, or that
\* was restored or bootstrapped over, is an ancestor of the chain head under that
\* id: no such write drops off the chain (README law 5, "lineage-bound").  Two
\* kinds of receipts are not among them: of a call that finished on an Arc
\* already out of the map, and of one that finished on the Arc while a restore or
\* a bootstrap of its id was on its way with the head it had read before.
LineageKept ==
    \A i \in Ids : table[i] # NoArc =>
        \A r \in due[i] : IsPrefix(r, minds[table[i]].head)

\* session_history returns the last LogCap events of the chain whose head it
\* reports, through forks, checkpoints and restores, unless the session was put
\* over another one.
LedgerIsTheChain ==
    \A i \in Ids : table[i] # NoArc /\ ~minds[table[i]].spliced =>
        LET m == minds[table[i]] IN
        /\ IsSuffix(m.log, m.head)
        /\ Len(m.log) = IF Len(m.head) < LogCap THEN Len(m.head) ELSE LogCap

\* No mind, live or on the shelf, has a cursor beyond its plan: the suffix a
\* follower is told to run always exists.
CursorWithinPlan ==
    /\ \A a \in Arcs : minds[a].cursor <= PlanLength(minds[a])
    /\ \A k \in Shelves : shelf[k].cursor <= PlanLength(shelf[k])

\* README law 7, "Every accepted session mutation extends the canonical receipt
\* chain": what restore or bootstrap puts over a session carries on from its head.
\* The code lets the session go between the two, and a write in there is dropped.
SuccessorsCarryOn ==
    [][\A c \in Clients :
        call[c].pc = "insert" /\ call'[c].pc = "idle" =>
            IsPrefix(MindOf(c).head, minds'[table'[Id(c)]].head)]_vars

\* c's call carries an epoch, and in this step passes its check on the way to an
\* insert, or writes.
AcceptedChecked(c) ==
    /\ call[c].epoch # NoEpoch /\ call[c].pc # "idle"
    /\ \/ call[c].pc = "held" /\ call'[c].pc = "insert"
       \/ call'[c].pc = "idle" /\ minds' # minds

\* The epoch a restore has checked is still the session's when it inserts.
Undisturbed(c) == call[c].pc = "insert" => MindOf(c).epoch = call[c].epoch

\* A call accepted with an expected epoch writes the very world its caller was
\* told of, when it is served by the Arc the caller's epoch came from and no
\* observation failed half-way on it.  A restore checks before it inserts: it
\* overwrites that world only if the epoch did not move in between.
EpochNamesTheWorld ==
    [][\A c \in Clients :
        /\ AcceptedChecked(c) /\ Undisturbed(c)
        /\ saw[c].arc = call[c].arc /\ call[c].arc \notin torn
        => saw[c].world = MindOf(c).world]_vars

\* README law 1, "A stale expected_epoch is refused before mutation": a call
\* accepted with an expected epoch writes the world its caller was told of.
\* Epochs restart with every Arc, so the code accepts a stale one.
StaleIsRefused ==
    [][\A c \in Clients : AcceptedChecked(c) => saw[c].world = MindOf(c).world]_vars

\* Every call is answered: no two calls wait for one another's locks, though
\* fork and restore keep the map while they await a session.
EveryCallIsAnswered == \A c \in Clients : (call[c].pc # "idle") ~> (call[c].pc = "idle")
=============================================================================
