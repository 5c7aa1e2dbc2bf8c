------------------------------ MODULE ExecChild ------------------------------
(***************************************************************************)
(* One planner under exec::run: the supervising loop that wakes every tick, *)
(* keeps the effective clock, watches memory, obeys the control channel,    *)
(* cancels on a signal, and kills at the deadline.  The channel is fed by   *)
(* the watcher (SweepControl); the planner itself and the machine, which    *)
(* may sleep, are the environment.                                          *)
(*                                                                         *)
(* Time is counted in ticks.  The loop's `start.elapsed() - suspended -     *)
(* suspended_since.elapsed()` is kept as the one number it is used for.     *)
(***************************************************************************)
EXTENDS Integers, Sequences

CONSTANTS
    Timeout,     \* RunRequest::timeout
    TermGrace,   \* TERM_GRACE: from SIGTERM to SIGKILL
    Nap,         \* how long the machine sleeps; longer than SLEEP_GAP
    MaxNaps,     \* bound: how often it does
    MaxMessages  \* bound: Stop messages the watcher sends

ASSUME ExecAssumption ==
    /\ Timeout \in Nat \ {0} /\ TermGrace \in Nat \ {0} /\ Nap \in Nat \ {0}
    /\ MaxNaps \in Nat /\ MaxMessages \in Nat

VARIABLES
    pc,           \* where the loop stands
    planner,      \* "alive", "dead" (not yet reaped) or "gone" (reaped)
    signalled,    \* the signals the group has had that it can die of
    fat,          \* it holds more memory than the cap just now
    effective,    \* the effective clock
    stopped,      \* suspended_since is Some
    peakOver,     \* peak_rss > cap
    jumped,       \* clock_jump > 0
    killed,       \* Option<Killed>
    sinceTerm,    \* cancel_sent: ticks since SIGTERM, or NoTerm
    demoted,      \* RunOutcome::demoted
    chan,         \* the control channel
    interrupted,  \* exec::INTERRUPTED
    ran,          \* history: the time the planner has had, awake and not stopped
    naps, messages

NoTerm == -1
clock == <<effective, jumped, ran, naps>>
verdict == <<killed, sinceTerm, demoted, peakOver>>
outside == <<interrupted, messages>>
runVars == <<pc, planner, signalled, fat, stopped, chan, clock, verdict, outside>>

RunTypeOK ==
    /\ pc \in {"reap", "sleep", "memory", "drain", "interrupt", "deadline", "done"}
    /\ planner \in {"alive", "dead", "gone"}
    /\ planner = "gone" <=> pc = "done"
    /\ signalled \subseteq {"TERM", "KILL"}
    /\ fat \in BOOLEAN /\ stopped \in BOOLEAN /\ peakOver \in BOOLEAN
    /\ effective \in Int /\ ran \in Nat
    /\ jumped \in BOOLEAN /\ (jumped <=> naps > 0)
    /\ killed \in {"none", "Deadline", "MemCap", "Cancelled"}
    /\ sinceTerm \in NoTerm..TermGrace
    /\ demoted \in BOOLEAN /\ interrupted \in BOOLEAN
    /\ chan \in Seq({"Stop", "Cont", "Demote", "Promote"})
    /\ naps \in 0..MaxNaps /\ messages \in 0..MaxMessages

RunInit ==
    /\ pc = "reap" /\ planner = "alive" /\ signalled = {} /\ fat = FALSE
    /\ effective = 0 /\ jumped = FALSE /\ ran = 0 /\ naps = 0
    /\ stopped = FALSE /\ peakOver = FALSE
    /\ killed = "none" /\ sinceTerm = NoTerm /\ demoted = FALSE
    /\ chan = <<>> /\ interrupted = FALSE /\ messages = 0

-----------------------------------------------------------------------------
(* The loop. *)

Reap ==
    /\ pc = "reap"
    /\ IF planner = "dead" THEN pc' = "done" /\ planner' = "gone"
                           ELSE pc' = "sleep" /\ UNCHANGED planner
    /\ UNCHANGED <<signalled, fat, stopped, chan, clock, verdict, outside>>

\* Mutant: the time the machine slept is charged to the run.
ChargeSleep(gap, slept) == gap - (IF stopped THEN gap ELSE 0)

\* What a gap adds to the effective clock: a gap far above a tick is taken
\* for the machine's sleep and counted as suspension, less one tick; a stopped
\* planner's time does not count either.
Charge(gap, slept) == gap - (IF slept THEN gap - 1 ELSE 0) - (IF stopped THEN gap ELSE 0)

\* One wait of the loop, with or without a sleep of the machine in it.  The
\* clock is not read again once the planner has been killed.
Wait(gap, slept) ==
    /\ effective' = IF killed = "none" THEN effective + Charge(gap, slept) ELSE effective
    /\ jumped' = (jumped \/ slept)
    /\ ran' = IF stopped \/ killed /= "none" THEN ran ELSE ran + 1

Sleep ==
    /\ pc = "sleep" /\ pc' = "memory"
    /\ \/ Wait(1, FALSE) /\ UNCHANGED naps
       \/ naps < MaxNaps /\ Wait(Nap + 1, TRUE) /\ naps' = naps + 1
    /\ sinceTerm' = IF sinceTerm \in 0..(TermGrace - 1) THEN sinceTerm + 1 ELSE sinceTerm
    /\ UNCHANGED <<planner, signalled, fat, stopped, chan, killed, demoted, peakOver, outside>>

\* The memory watchdog: sampled only while running, and once the peak is over
\* the cap the group is killed at every tick until it is reaped.
Memory ==
    /\ pc = "memory" /\ pc' = "drain"
    /\ peakOver' = (peakOver \/ (fat /\ ~stopped /\ planner = "alive"))
    /\ IF peakOver' THEN killed' = "MemCap" /\ signalled' = signalled \cup {"KILL"}
                    ELSE UNCHANGED <<killed, signalled>>
    /\ UNCHANGED <<planner, fat, stopped, chan, clock, sinceTerm, demoted, outside>>

Drain ==
    /\ pc = "drain"
    /\ IF chan = <<>>
         THEN pc' = "interrupt" /\ UNCHANGED <<chan, stopped, demoted>>
         ELSE /\ stopped' = (Head(chan) = "Stop" \/ (stopped /\ Head(chan) /= "Cont"))
              /\ \E granted \in BOOLEAN :
                   demoted' = (demoted \/ (Head(chan) = "Demote" /\ granted))
              /\ chan' = Tail(chan)
              /\ UNCHANGED pc
    /\ UNCHANGED <<planner, signalled, fat, clock, killed, sinceTerm, peakOver, outside>>

\* Mutant: the signal is acted upon at every tick, so the grace starts anew.
InterruptEveryTick ==
    /\ pc = "interrupt" /\ pc' = "deadline"
    /\ IF interrupted
         THEN /\ stopped' = FALSE /\ sinceTerm' = 0 /\ killed' = "Cancelled"
              /\ signalled' = signalled \cup {"TERM"}
         ELSE UNCHANGED <<stopped, sinceTerm, killed, signalled>>
    /\ UNCHANGED <<planner, fat, chan, clock, demoted, peakOver, outside>>

\* A signal to crucible cancels the planner, once: woken if stopped, then
\* SIGTERM; when the grace has passed, SIGKILL.
Interrupt ==
    /\ pc = "interrupt" /\ pc' = "deadline"
    /\ IF interrupted /\ sinceTerm = NoTerm
         THEN /\ stopped' = FALSE /\ sinceTerm' = 0 /\ killed' = "Cancelled"
              /\ signalled' = signalled \cup {"TERM"}
         ELSE /\ signalled' = IF sinceTerm = TermGrace THEN signalled \cup {"KILL"}
                                                       ELSE signalled
              /\ UNCHANGED <<stopped, sinceTerm, killed>>
    /\ UNCHANGED <<planner, fat, chan, clock, demoted, peakOver, outside>>

Deadline ==
    /\ pc = "deadline" /\ pc' = "reap"
    /\ IF killed = "none" /\ effective >= Timeout
         THEN killed' = "Deadline" /\ signalled' = signalled \cup {"KILL"}
         ELSE UNCHANGED <<killed, signalled>>
    /\ UNCHANGED <<planner, fat, stopped, chan, clock, sinceTerm, demoted, peakOver, outside>>

Loop == Reap \/ Sleep \/ Memory \/ Drain \/ Interrupt \/ Deadline

-----------------------------------------------------------------------------
(* The planner, the watcher and the operator. *)

\* It ends by itself, or of a signal; stopped, only SIGKILL reaches it.
Die ==
    /\ planner = "alive" /\ (~stopped \/ "KILL" \in signalled)
    /\ planner' = "dead"
    /\ UNCHANGED <<pc, signalled, fat, stopped, chan, clock, verdict, outside>>

Killed == Die /\ "KILL" \in signalled

Grow ==
    /\ planner = "alive" /\ ~fat /\ ~stopped /\ fat' = TRUE
    /\ UNCHANGED <<pc, planner, signalled, stopped, chan, clock, verdict, outside>>

\* What the watcher sends: a pause, and what undoes one.
SendStop ==
    /\ messages < MaxMessages /\ messages' = messages + 1
    /\ pc /= "done" /\ chan = <<>> /\ ~stopped
    /\ chan' \in {<<"Stop">>, <<"Demote">>}
    /\ UNCHANGED <<pc, planner, signalled, fat, stopped, clock, verdict, interrupted>>

SendCont ==
    /\ pc /= "done" /\ stopped /\ chan = <<>>
    /\ chan' = <<"Cont", "Promote">>
    /\ UNCHANGED <<pc, planner, signalled, fat, stopped, clock, verdict, outside>>

Signal ==
    /\ ~interrupted /\ pc /= "done" /\ interrupted' = TRUE
    /\ UNCHANGED <<pc, planner, signalled, fat, stopped, chan, clock, verdict, messages>>

Done == pc = "done" /\ UNCHANGED runVars

RunNext == Loop \/ Die \/ Grow \/ SendStop \/ SendCont \/ Signal \/ Done

RunSpec == RunInit /\ [][RunNext]_runVars

\* The supervising thread is scheduled, SIGKILL kills, and every pause ends.
RunFairSpec == RunSpec /\ WF_runVars(Loop) /\ WF_runVars(Killed) /\ WF_runVars(SendCont)

-----------------------------------------------------------------------------
(* Properties. *)

\* The clock the deadline is compared against never runs ahead of the time the
\* planner was given, and unless the machine has slept it is exactly that time.
ClockIsHonest ==
    killed = "none"
        => effective <= ran /\ (naps = 0 => effective = ran)

\* Whoever cancels, grows or times out: no planner outlives its supervisor's
\* patience, a stopped one and one that ignores SIGTERM included.
RunEnds == <>(pc = "done")

\* "Wall minus suspension: what the deadline is compared against" (the doc of
\* RunOutcome::effective): a planner past the check has time left.
DeadlineBites ==
    pc = "reap" /\ killed = "none" /\ planner = "alive" => ran < Timeout
=============================================================================
