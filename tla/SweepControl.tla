----------------------------- MODULE SweepControl -----------------------------
(***************************************************************************)
(* How the watcher reaches the planners that are running: Shared, the       *)
(* control channel of each child, ctl_for, the canary's pause, and the far  *)
(* end of every channel in exec::run.  SweepBatch says when a worker may    *)
(* start; this module says what happens to its planner afterwards.          *)
(*                                                                         *)
(* One step is one visit to shared state: a lock, an atomic load or store,  *)
(* a send to every attached channel, the receipt of one message.            *)
(***************************************************************************)
EXTENDS Integers, Sequences, FiniteSets

CONSTANTS Workers,     \* the worker threads of the batch
          MaxMoves     \* bound: throttle transitions plus canary readings

ASSUME ControlAssumption == MaxMoves \in Nat

Levels == {"full", "polite", "suspended"}
Messages == {"Stop", "Cont", "Demote", "Promote"}

VARIABLES
    level,       \* Shared::level
    demoteOk,    \* Shared::demote_ok: the operator is at the keyboard
    hold,        \* Shared::hold: the canary is reading
    children,    \* Shared::children: the workers whose channel is registered
    chan,        \* what each channel holds
    at,          \* where each worker stands
    stopped,     \* its planner is under SIGSTOP (suspended_since is Some)
    background,  \* its planner is in the background band
    wpc,         \* where the watcher stands
    outbox,      \* what it has still to send of a transition
    paused,      \* whose planner was running when the canary sent its Stop
    missed,      \* history: a broadcast fell between attach's read and its push
    moves

shared == <<level, demoteOk, hold>>
planner == <<stopped, background>>
watcher == <<wpc, outbox, paused, moves>>
controlVars == <<shared, children, chan, at, planner, watcher, missed>>

\* Between registration and detach: a message sent to all reaches these.
Registered == {"spawn", "run", "reaped"}

ControlTypeOK ==
    /\ level \in Levels /\ demoteOk \in BOOLEAN /\ hold \in BOOLEAN
    /\ at \in [Workers -> {"hold", "read", "push"} \cup Registered]
    /\ children = {w \in Workers : at[w] \in Registered}
    /\ chan \in [Workers -> Seq(Messages)]
    /\ stopped \in [Workers -> BOOLEAN] /\ background \in [Workers -> BOOLEAN]
    /\ wpc \in {"sample", "deliver", "policy", "stop", "settle", "reading", "cont"}
    /\ outbox \in Seq(Messages)
    /\ paused \subseteq Workers
    /\ missed \in [Workers -> BOOLEAN]
    /\ moves \in 0..MaxMoves

ControlInit ==
    /\ level = "full" /\ demoteOk = FALSE /\ hold = FALSE
    /\ children = {} /\ chan = [w \in Workers |-> <<>>]
    /\ at = [w \in Workers |-> "hold"]
    /\ stopped = [w \in Workers |-> FALSE] /\ background = [w \in Workers |-> FALSE]
    /\ wpc = "sample" /\ outbox = <<>> /\ paused = {} /\ moves = 0
    /\ missed = [w \in Workers |-> FALSE]

Goto(w, p) == at' = [at EXCEPT ![w] = p]

\* Mutant: from SUSPENDED to FULL and from POLITE to FULL nothing is promoted
\* while the operator is away, the filter meant for Demote.
CtlForFiltersBoth(from, to, ok) ==
    CASE to = "suspended" /\ from /= "suspended" -> <<"Stop">>
      [] from = "suspended" /\ to = "polite" ->
            <<"Cont">> \o (IF ok THEN <<"Demote">> ELSE <<>>)
      [] from = "suspended" /\ to = "full" ->
            <<"Cont">> \o (IF ok THEN <<"Promote">> ELSE <<>>)
      [] from = "full" /\ to = "polite" -> IF ok THEN <<"Demote">> ELSE <<>>
      [] from = "polite" /\ to = "full" -> IF ok THEN <<"Promote">> ELSE <<>>
      [] OTHER -> <<>>

\* The messages that take a planner from one level to another.  Demotion is
\* for an operator who is there; everything else is sent regardless.
CtlFor(from, to, ok) ==
    CASE to = "suspended" /\ from /= "suspended" -> <<"Stop">>
      [] from = "suspended" /\ to = "polite" ->
            <<"Cont">> \o (IF ok THEN <<"Demote">> ELSE <<>>)
      [] from = "suspended" /\ to = "full" -> <<"Cont", "Promote">>
      [] from = "full" /\ to = "polite" -> IF ok THEN <<"Demote">> ELSE <<>>
      [] from = "polite" /\ to = "full" -> <<"Promote">>
      [] OTHER -> <<>>

-----------------------------------------------------------------------------
(* A worker, from the canary's hold to its planner's end. *)

PassHold(w) ==
    /\ at[w] = "hold" /\ ~hold
    /\ Goto(w, "read")
    /\ UNCHANGED <<shared, children, chan, planner, watcher, missed>>

\* attach, first half: the level is read and its messages go into the channel.
AttachRead(w) ==
    /\ at[w] = "read"
    /\ chan' = [chan EXCEPT ![w] = CtlFor("full", level, demoteOk)]
    /\ missed' = [missed EXCEPT ![w] = FALSE]
    /\ Goto(w, "push")
    /\ UNCHANGED <<shared, children, planner, watcher>>

\* attach, second half: the channel is registered, under another lock.
AttachPush(w) ==
    /\ at[w] = "push"
    /\ children' = children \cup {w}
    /\ Goto(w, "spawn")
    /\ UNCHANGED <<shared, chan, planner, watcher, missed>>

Spawn(w) ==
    /\ at[w] = "spawn"
    /\ Goto(w, "run")
    /\ UNCHANGED <<shared, children, chan, planner, watcher, missed>>

\* The drain of a tick, one message: SIGSTOP unless already stopped, SIGCONT
\* only if stopped; a demotion the platform refuses changes nothing.
Receive(w) ==
    /\ at[w] = "run" /\ chan[w] /= <<>>
    /\ LET m == Head(chan[w]) IN
         /\ stopped' = [stopped EXCEPT ![w] = m = "Stop" \/ (@ /\ m /= "Cont")]
         /\ \E granted \in BOOLEAN :
              background' = [background EXCEPT ![w] =
                  m /= "Promote" /\ (@ \/ (m = "Demote" /\ granted))]
    /\ chan' = [chan EXCEPT ![w] = Tail(@)]
    /\ UNCHANGED <<shared, children, at, watcher, missed>>

\* A planner ends, or is killed at its deadline, only while it is running: a
\* stopped one does not exit and its effective clock stands still.
Exit(w) ==
    /\ at[w] = "run" /\ ~stopped[w]
    /\ Goto(w, "reaped")
    /\ paused' = paused \ {w}
    /\ UNCHANGED <<shared, children, chan, planner, wpc, outbox, moves, missed>>

Detach(w) ==
    /\ at[w] = "reaped"
    /\ children' = children \ {w}
    /\ chan' = [chan EXCEPT ![w] = <<>>]
    /\ background' = [background EXCEPT ![w] = FALSE]
    /\ Goto(w, "hold")
    /\ UNCHANGED <<shared, stopped, watcher, missed>>

Worker(w) == \/ PassHold(w) \/ AttachRead(w) \/ AttachPush(w) \/ Spawn(w)
             \/ Receive(w) \/ Exit(w) \/ Detach(w)

-----------------------------------------------------------------------------
(* The watcher thread: one loop, so a canary and a transition never overlap. *)

\* A message to every registered channel, under the lock of the list.
Broadcast(m) ==
    /\ chan' = [w \in Workers |-> IF w \in children THEN Append(chan[w], m) ELSE chan[w]]
    /\ missed' = [w \in Workers |-> missed[w] \/ at[w] = "push"]

\* The throttle escalates to any busier level and comes down one at a time.
Escalates(from, to) == \/ from = "full" /\ to \in {"polite", "suspended"}
                       \/ from = "polite" /\ to = "suspended"

\* Mutant: the throttle has no way down from a suspension.
RelaxesFromPolite(from, to) == from = "polite" /\ to = "full"

Relaxes(from, to) == \/ from = "suspended" /\ to = "polite"
                     \/ from = "polite" /\ to = "full"

\* set_level, then the messages of the transition.
Transition(to) ==
    /\ level' = to
    /\ outbox' = CtlFor(level, to, demoteOk)
    /\ wpc' = "deliver"
    /\ UNCHANGED <<demoteOk, hold, children, chan, at, planner, paused, missed>>

Escalate == /\ wpc = "sample" /\ moves < MaxMoves /\ moves' = moves + 1
            /\ \E to \in Levels : Escalates(level, to) /\ Transition(to)

Relax == /\ wpc = "sample" /\ UNCHANGED moves
         /\ \E to \in Levels : Relaxes(level, to) /\ Transition(to)

Deliver ==
    /\ wpc = "deliver"
    /\ IF outbox = <<>>
         THEN wpc' = "policy" /\ UNCHANGED <<chan, missed, outbox>>
         ELSE Broadcast(Head(outbox)) /\ outbox' = Tail(outbox) /\ UNCHANGED wpc
    /\ UNCHANGED <<shared, children, at, planner, paused, moves>>

\* set_demote_ok, at every sample: when it brought a transition, after that has
\* been delivered.
Policy ==
    /\ wpc \in {"sample", "policy"} /\ wpc' = "sample"
    /\ demoteOk' \in BOOLEAN
    /\ UNCHANGED <<level, hold, children, chan, at, planner, outbox, paused, moves, missed>>

\* A canary reading falls due.  It pauses our own planners unless SUSPENDED
\* has already stopped them.
CanaryHold ==
    /\ wpc = "sample" /\ moves < MaxMoves /\ moves' = moves + 1
    /\ hold' = TRUE
    /\ wpc' = IF level /= "suspended" THEN "stop" ELSE "reading"
    /\ UNCHANGED <<level, demoteOk, children, chan, at, planner, outbox, paused, missed>>

\* Mutant: the pause is taken on an undisturbed box only.
CanaryStopAtFull ==
    /\ wpc = "stop"
    /\ IF level = "full" THEN Broadcast("Stop") ELSE UNCHANGED <<chan, missed>>
    /\ paused' = {w \in Workers : at[w] = "run"}
    /\ wpc' = "settle"
    /\ UNCHANGED <<shared, children, at, planner, outbox, moves>>

CanaryStop ==
    /\ wpc = "stop"
    /\ Broadcast("Stop")
    /\ paused' = {w \in Workers : at[w] = "run"}
    /\ wpc' = "settle"
    /\ UNCHANGED <<shared, children, at, planner, outbox, moves>>

\* The sleep before the reading (400 ms) is longer than a tick of exec::run
\* (250 ms): whoever was running has drained its channel.
CanarySettle ==
    /\ wpc = "settle" /\ \A w \in paused : chan[w] = <<>>
    /\ wpc' = "reading"
    /\ UNCHANGED <<shared, children, chan, at, planner, outbox, paused, moves, missed>>

\* The reading is over: Cont, unless SUSPENDED keeps everyone stopped anyway.
CanaryCont ==
    /\ wpc = "reading"
    /\ IF level /= "suspended" THEN Broadcast("Cont") ELSE UNCHANGED <<chan, missed>>
    /\ wpc' = "cont"
    /\ paused' = {}
    /\ UNCHANGED <<shared, children, at, planner, outbox, moves>>

CanaryRelease ==
    /\ wpc = "cont" /\ wpc' = "sample"
    /\ hold' = FALSE
    /\ UNCHANGED <<level, demoteOk, children, chan, at, planner, outbox, paused, moves, missed>>

Canary == CanaryStop \/ CanarySettle \/ CanaryCont \/ CanaryRelease

ControlNext == \/ \E w \in Workers : Worker(w)
        \/ Escalate \/ Relax \/ Deliver \/ Policy \/ CanaryHold \/ Canary

ControlSpec == ControlInit /\ [][ControlNext]_controlVars

\* Threads are scheduled; a busy spell ends; the planner's own end is not
\* assumed.
ControlFairSpec ==
    /\ ControlSpec
    /\ \A w \in Workers : WF_controlVars(Receive(w)) /\ WF_controlVars(Spawn(w))
    /\ WF_controlVars(Relax) /\ WF_controlVars(Deliver)
    /\ WF_controlVars(Policy) /\ WF_controlVars(Canary)

-----------------------------------------------------------------------------
(* Properties. *)

\* The planner of `w` has heard everything sent to it and nothing is on its way.
Settled(w) == at[w] = "run" /\ chan[w] = <<>> /\ wpc = "sample"

AsTheLevelAsks(w) ==
    /\ stopped[w] <=> level = "suspended"
    /\ background[w] => level /= "full"

\* Once the dust settles a planner is stopped exactly when the box is
\* SUSPENDED, through every order of throttle transitions and canary pauses,
\* and no planner is left in the background band at FULL; the exception is the
\* planner whose attach a broadcast overtook.
LevelReachesPlanner ==
    \A w \in Workers : Settled(w) /\ ~missed[w] => AsTheLevelAsks(w)

\* The canary reads a box without the planners that were running when it asked
\* them to stop: for the whole reading they stay stopped.
PausedWhileReading ==
    wpc = "reading" /\ level /= "suspended"
        => \A w \in paused : at[w] = "run" => stopped[w]

\* No planner stays stopped for ever: a SIGSTOP, from the throttle or from the
\* canary, is followed by a SIGCONT, unless a broadcast overtook its attach.
StopIsFollowedByCont ==
    \A w \in Workers : stopped[w] /\ ~missed[w] ~> ~stopped[w]

\* "A throttle transition or a canary pause reaches all of them" (the comment
\* on Shared::children): every settled planner is as the level asks.
ReachesAll == \A w \in Workers : Settled(w) => AsTheLevelAsks(w)
=============================================================================
