------------------------------- MODULE Throttle -------------------------------
(***************************************************************************)
(* The contention throttle: FULL, POLITE, SUSPENDED, moved by the samples   *)
(* of the box with a dwell on every move that evidence of load alone makes. *)
(* Monitor::throttle::Throttle, whole.  SweepControl consumes its moves.    *)
(*                                                                         *)
(* The code keeps the instant since which a condition has held; here that   *)
(* is how long it has held, counted no further than the dwell it is         *)
(* compared with.  over_suspend_since is written and read by nothing, and   *)
(* is left out.                                                             *)
(***************************************************************************)
EXTENDS Integers

CONSTANTS
    PoliteDwell, GameDwell, ResumeDwell,  \* monitor::Config, in time units
    MaxGap,       \* bound: time between two samples
    ManualHolds   \* may the operator hold; the sweep never asks for it

ASSUME ThrottleAssumption ==
    /\ PoliteDwell \in Nat /\ GameDwell \in Nat
    /\ ResumeDwell \in Nat /\ MaxGap \in Nat \ {0}
    /\ ManualHolds \in BOOLEAN

VARIABLES
    level,
    politeFor,   \* over_polite_since: how long load has been over the line
    gameFor,     \* game_since: how long a game has been busy
    clearFor,    \* clear_since: how long the level's own clear has held
    manualHold,
    sample,      \* history: the last sample judged
    sinceMove,   \* history: how long ago the level last moved
    stood,       \* history: how long the level before that move had stood
    quietFor,    \* history: how long none has shown a busy game or pressure
    beat         \* history: turns over at every sample, so that each is a step

Never == -1
ages == <<politeFor, gameFor, clearFor>>
history == <<sample, sinceMove, stood, quietFor, beat>>
vars == <<level, ages, manualHold, history>>

\* busy: foreign load over the polite line.  game: a game over its CPU line.
\* swap: memory pressure is critical, or the swap line is passed where the
\* kernel gives no level.
Samples == [busy : BOOLEAN, game : BOOLEAN, swap : BOOLEAN]
Calm == [busy |-> FALSE, game |-> FALSE, swap |-> FALSE]

TypeOK ==
    /\ level \in {"full", "polite", "suspended"}
    /\ politeFor \in Never..PoliteDwell /\ gameFor \in Never..GameDwell
    /\ clearFor \in Never..ResumeDwell
    /\ manualHold \in BOOLEAN /\ (manualHold => level = "suspended")
    /\ sample \in Samples
    /\ sinceMove \in 0..ResumeDwell /\ stood \in 0..ResumeDwell
    /\ quietFor \in Never..ResumeDwell
    /\ beat \in BOOLEAN

Init ==
    /\ level = "full" /\ politeFor = Never /\ gameFor = Never /\ clearFor = Never
    /\ manualHold = FALSE
    /\ sample = Calm /\ sinceMove = 0 /\ stood = 0
    /\ quietFor = Never /\ beat = FALSE

Smaller(a, b) == IF a <= b THEN a ELSE b

\* An age after `gap` more: kept if the condition holds, begun if it just began.
Aged(age, holds, gap, cap) ==
    IF ~holds THEN Never
    ELSE IF age = Never THEN 0 ELSE Smaller(age + gap, cap)

Escalates(from, to) == \/ from = "full" /\ to \in {"polite", "suspended"}
                       \/ from = "polite" /\ to = "suspended"
Relaxes(from, to) == \/ from = "suspended" /\ to = "polite"
                     \/ from = "polite" /\ to = "full"

\* Mutant: a suspension waits for the load to go as well.
ClearAtAny(s) == ~s.busy /\ ~s.game /\ ~s.swap

\* What counts as clear at the level that is in force: load is POLITE's
\* business, a game and memory pressure everybody's.
Clear(s) == CASE level = "suspended" -> ~s.game /\ ~s.swap
              [] level = "polite" -> ~s.busy /\ ~s.game /\ ~s.swap
              [] level = "full" -> FALSE

\* Mutant: a suspension comes down, POLITE does not.
BelowFromSuspended == IF level = "suspended" THEN "polite" ELSE level

Below == IF level = "suspended" THEN "polite" ELSE "full"

\* Mutant: a game that comes up while the box is POLITE is let be.
VerdictFromFull(s) ==
    CASE (gameFor' = GameDwell /\ level = "full") \/ s.swap -> "suspended"
      [] politeFor' = PoliteDwell /\ level = "full" -> "polite"
      [] OTHER -> level

\* Escalation, to the highest level the evidence supports.
Verdict(s) ==
    CASE gameFor' = GameDwell \/ s.swap -> "suspended"
      [] politeFor' = PoliteDwell /\ level = "full" -> "polite"
      [] OTHER -> level

\* Mutant: coming down does not start the dwell of the next step down.
ResumeKeeps(s, gap) ==
    LET c == Aged(clearFor, Clear(s), gap, ResumeDwell) IN
      /\ level' = IF c = ResumeDwell THEN Below ELSE level
      /\ clearFor' = c

\* De-escalation: one level, after a stretch of clear samples; the stretch
\* for the next level starts counting now.
Resume(s, gap) ==
    LET c == Aged(clearFor, Clear(s), gap, ResumeDwell) IN
      /\ level' = IF c = ResumeDwell THEN Below ELSE level
      /\ clearFor' = IF c = ResumeDwell THEN 0 ELSE c

Moved == /\ sinceMove' = IF level' /= level THEN 0 ELSE sinceMove
         /\ stood' = IF level' /= level THEN sinceMove ELSE stood

\* The history of a sample that was looked at.
Recorded(s, gap) ==
    LET age == Smaller(sinceMove + gap, ResumeDwell) IN
      /\ sample' = s /\ beat' = ~beat
      /\ sinceMove' = IF level' /= level THEN 0 ELSE age
      /\ stood' = IF level' /= level THEN age ELSE stood
      /\ quietFor' = Aged(quietFor, ~s.game /\ ~s.swap, gap, ResumeDwell)

\* Under a game past its dwell or memory pressure, and at a move up, the clear
\* stretch is broken; otherwise a clear sample may bring the level down.
OnSample(s, gap) ==
    /\ ~manualHold
    /\ politeFor' = Aged(politeFor, s.busy, gap, PoliteDwell)
    /\ gameFor' = Aged(gameFor, s.game, gap, GameDwell)
    /\ IF Verdict(s) /= level \/ gameFor' = GameDwell \/ s.swap
         THEN level' = Verdict(s) /\ clearFor' = Never
         ELSE Resume(s, gap)
    /\ Recorded(s, gap)
    /\ UNCHANGED manualHold

\* Under a manual hold a sample is not looked at; the instants grow older.
Ignored(gap) ==
    /\ manualHold
    /\ politeFor' = Aged(politeFor, politeFor /= Never, gap, PoliteDwell)
    /\ gameFor' = Aged(gameFor, gameFor /= Never, gap, GameDwell)
    /\ clearFor' = Aged(clearFor, clearFor /= Never, gap, ResumeDwell)
    /\ beat' = ~beat
    /\ UNCHANGED <<level, manualHold, sample, sinceMove, stood, quietFor>>

HoldOn ==
    /\ ManualHolds /\ ~manualHold
    /\ manualHold' = TRUE /\ level' = "suspended" /\ Moved
    /\ UNCHANGED <<ages, sample, quietFor, beat>>

\* Released: straight to FULL, whatever the box is like.
HoldOff ==
    /\ ManualHolds /\ manualHold' = FALSE
    /\ level = "suspended" /\ level' = "full" /\ clearFor' = Never /\ Moved
    /\ UNCHANGED <<politeFor, gameFor, sample, quietFor, beat>>

SampleTaken == \E s \in Samples, gap \in 1..MaxGap : OnSample(s, gap)

Next == \/ SampleTaken
        \/ \E gap \in 1..MaxGap : Ignored(gap)
        \/ HoldOn \/ HoldOff

Spec == Init /\ [][Next]_vars

\* The watcher samples for as long as the sweep runs.
FairSpec == Spec /\ WF_vars(SampleTaken)

-----------------------------------------------------------------------------
(* Properties. *)

\* "With hysteresis so it cannot flap": a sample brings the level down only one
\* step, and only when the level has stood for the resume dwell.
CannotFlap ==
    [][SampleTaken /\ level' /= level /\ ~Escalates(level, level')
          => Relaxes(level, level') /\ stood' = ResumeDwell]_vars

\* "Foreign CPU load never" suspends, and "a suspension ends when the game and
\* the memory pressure are gone, whatever the CPU load": no sweep is held that
\* has seen neither for the resume dwell, unless the operator holds it.
LoadNeverHolds ==
    level = "suspended" /\ ~manualHold => quietFor < ResumeDwell

\* The operator leaves the hold alone from some moment on.
Undisturbed == <>[][~HoldOn /\ ~HoldOff]_vars

\* A box that turns calm and stays so is used in full again, and a game that
\* goes on playing has the box to itself.
CalmRestoresFull ==
    Undisturbed /\ (<>[](sample = Calm /\ ~manualHold)) => <>[](level = "full")
GameGetsTheBox ==
    Undisturbed /\ (<>[](sample.game /\ ~manualHold)) => <>[](level = "suspended")
=============================================================================
