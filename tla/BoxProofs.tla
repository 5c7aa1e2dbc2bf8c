------------------------------- MODULE BoxProofs -------------------------------
(* Proofs about the two that judge the box: the throttle, which gives it away *)
(* and takes it back, and the referee, which says what a run on it is worth.  *)
EXTENDS Throttle, Referee, TLAPS

-----------------------------------------------------------------------------
(* The throttle, for every dwell and every spacing of samples.               *)

\* The instants the throttle keeps are as old as the history says they are: in
\* a suspension the clear stretch is the quiet stretch and is not yet over, and
\* no clear stretch is older than the level.
Quiet == level = "suspended" /\ ~manualHold
            => clearFor = quietFor /\ quietFor < ResumeDwell
Younger == ~manualHold => clearFor <= sinceMove
IInv == TypeOK /\ Quiet /\ Younger

\* What an age is after a sample.
LEMMA AgedType ==
    ASSUME NEW cap \in Nat, NEW age \in Never..cap, NEW holds \in BOOLEAN,
           NEW gap \in Nat \ {0}
    PROVE  /\ Aged(age, holds, gap, cap) \in Never..cap
           /\ Aged(age, holds, gap, cap) /= Never <=> holds
  BY DEF Aged, Smaller, Never

LEMMA InitOK == Init => IInv
<1>1. SUFFICES ASSUME Init PROVE IInv
  OBVIOUS
<1>2. /\ Never \in Never..PoliteDwell /\ Never \in Never..GameDwell
      /\ Never \in Never..ResumeDwell /\ 0 \in 0..ResumeDwell /\ Never <= 0
  BY ThrottleAssumption DEF Never
<1>3. Calm \in Samples /\ sample \in Samples
  BY <1>1 DEF Init, Calm, Samples
<1>4. TypeOK
  <2>1. level \in {"full", "polite", "suspended"} /\ sinceMove \in 0..ResumeDwell
        /\ stood \in 0..ResumeDwell
    BY <1>1, <1>2 DEF Init
  <2>2. /\ politeFor \in Never..PoliteDwell /\ gameFor \in Never..GameDwell
        /\ clearFor \in Never..ResumeDwell
        /\ quietFor \in Never..ResumeDwell
    BY <1>1, <1>2 DEF Init
  <2>3. beat \in BOOLEAN /\ manualHold \in BOOLEAN /\ ~manualHold
    BY <1>1 DEF Init
  <2> QED
    BY <1>3, <2>1, <2>2, <2>3 DEF TypeOK
<1>5. Quiet /\ Younger
  BY <1>1, <1>2 DEF Init, Quiet, Younger
<1> QED
  BY <1>4, <1>5 DEF IInv

\* A sample that is looked at.
LEMMA SampleOK ==
    ASSUME IInv, NEW s \in Samples, NEW gap \in 1..MaxGap, OnSample(s, gap)
    PROVE  /\ IInv'
           /\ level' /= level /\ ~Escalates(level, level')
                => Relaxes(level, level') /\ stood' = ResumeDwell
<1> DEFINE c == Aged(clearFor, Clear(s), gap, ResumeDwell)
           raised == Verdict(s) /= level \/ gameFor' = GameDwell \/ s.swap
<1>1. /\ gap \in Nat \ {0} /\ ResumeDwell \in Nat /\ PoliteDwell \in Nat
      /\ GameDwell \in Nat
  BY ThrottleAssumption
<1>2. s.busy \in BOOLEAN /\ s.game \in BOOLEAN /\ s.swap \in BOOLEAN
  BY DEF Samples
<1>3. level \in {"full", "polite", "suspended"} /\ ~manualHold /\ ~manualHold'
  BY DEF IInv, TypeOK, OnSample
<1>4. Clear(s) \in BOOLEAN
  BY <1>2, <1>3 DEF Clear
<1>5. c \in Never..ResumeDwell /\ (c /= Never <=> Clear(s))
  BY <1>1, <1>4, AgedType DEF IInv, TypeOK
<1>6. politeFor' \in Never..PoliteDwell
  BY <1>1, <1>2, AgedType DEF IInv, TypeOK, OnSample
<1>7. gameFor' \in Never..GameDwell /\ (gameFor' /= Never <=> s.game)
  BY <1>1, <1>2, AgedType DEF IInv, TypeOK, OnSample
<1>8. /\ quietFor' = Aged(quietFor, ~s.game /\ ~s.swap, gap, ResumeDwell)
      /\ quietFor' \in Never..ResumeDwell
      /\ quietFor' /= Never <=> ~s.game /\ ~s.swap
  <2>2. quietFor' = Aged(quietFor, ~s.game /\ ~s.swap, gap, ResumeDwell)
    BY DEF OnSample, Recorded
  <2>3. quietFor \in Never..ResumeDwell
    BY DEF IInv, TypeOK
  <2>5. (~s.game /\ ~s.swap) \in BOOLEAN
    OBVIOUS
  <2>6. /\ Aged(quietFor, ~s.game /\ ~s.swap, gap, ResumeDwell) \in Never..ResumeDwell
        /\ Aged(quietFor, ~s.game /\ ~s.swap, gap, ResumeDwell) /= Never
             <=> ~s.game /\ ~s.swap
    BY <1>1, <2>3, <2>5, AgedType
  <2> QED
    BY <2>2, <2>6
<1>9. /\ Verdict(s) \in {"full", "polite", "suspended"}
      /\ Verdict(s) /= level => Escalates(level, Verdict(s))
      /\ Verdict(s) = "suspended" /\ level /= "suspended" => s.game \/ s.swap
  BY <1>1, <1>2, <1>3, <1>7 DEF Verdict, Escalates, Never
<1>10. /\ sinceMove' \in 0..ResumeDwell /\ stood' \in 0..ResumeDwell
       /\ sinceMove' = IF level' /= level THEN 0 ELSE Smaller(sinceMove + gap, ResumeDwell)
       /\ stood' = IF level' /= level THEN Smaller(sinceMove + gap, ResumeDwell) ELSE stood
  BY <1>1 DEF IInv, TypeOK, OnSample, Recorded, Smaller
<1>11. sample' \in Samples /\ beat' = ~beat
  BY DEF OnSample, Recorded
<1>12. CASE raised
  <2>1. level' = Verdict(s) /\ clearFor' = Never
    BY <1>12 DEF OnSample
  <2>2. level' = "suspended" => quietFor' = Never
    <3>1. CASE level = "suspended"
      <4>1. Verdict(s) = "suspended"
        BY <1>9, <3>1 DEF Escalates
      <4> QED
        BY <1>1, <1>7, <1>8, <1>12, <3>1, <4>1 DEF Never
    <3>2. CASE level /= "suspended"
      BY <1>8, <1>9, <2>1, <3>2
    <3> QED
      BY <3>1, <3>2
  <2>3. Quiet' /\ Younger'
    BY <1>1, <1>10, <2>1, <2>2 DEF Quiet, Younger, Never
  <2>4. level' \in {"full", "polite", "suspended"} /\ clearFor' \in Never..ResumeDwell
    BY <1>1, <1>9, <2>1 DEF Never
  <2> HIDE DEF c, raised
  <2>5. TypeOK'
    <3>1. manualHold' \in BOOLEAN /\ (manualHold' => level' = "suspended")
      <4>1. manualHold' = manualHold
        BY DEF OnSample
      <4>2. manualHold \in BOOLEAN
        BY DEF IInv, TypeOK
      <4>3. manualHold' \in BOOLEAN
        BY <4>1, <4>2, Zenon
      <4> QED
        BY <1>3, <4>3
    <3>2. beat' \in BOOLEAN
      BY <1>11
    <3> QED
      BY <1>6, <1>7, <1>8, <1>10, <1>11, <2>4, <3>1, <3>2 DEF TypeOK
  <2> QED
    BY <1>9, <2>1, <2>3, <2>5 DEF IInv
<1>13. CASE ~raised
  <2>1. /\ level' = IF c = ResumeDwell THEN Below ELSE level
        /\ clearFor' = IF c = ResumeDwell THEN 0 ELSE c
    BY <1>13 DEF OnSample, Resume
  <2>2. level = "full" => level' = "full"
    <3>1. level = "full" => ~Clear(s)
      BY DEF Clear
    <3>2. level = "full" => c = Never
      BY <1>5, <3>1
    <3>3. Never /= ResumeDwell
      BY <1>1 DEF Never
    <3> QED
      BY <2>1, <3>2, <3>3
  <2>3. level' \in {"full", "polite", "suspended"} /\ clearFor' \in Never..ResumeDwell
    BY <1>1, <1>3, <1>5, <2>1 DEF Below, Never
  <2>4. level' /= level => Relaxes(level, level')
    BY <1>3, <2>1, <2>2 DEF Relaxes, Below
  <2>5. clearFor \in Never..sinceMove /\ sinceMove \in 0..ResumeDwell
    BY <1>1, <1>3 DEF IInv, TypeOK, Younger, Never
  <2>6. c <= Smaller(sinceMove + gap, ResumeDwell)
    BY <1>1, <2>5 DEF Aged, Smaller, Never
  <2>7. level' /= level => stood' = ResumeDwell
    BY <1>1, <1>10, <2>1, <2>5, <2>6 DEF Smaller
  <2>8. Younger'
    <3>1. CASE c = ResumeDwell
      BY <1>1, <1>10, <2>1, <3>1 DEF Younger
    <3>2. CASE c /= ResumeDwell
      <4>1. level' = level /\ clearFor' = c
        BY <2>1, <3>2
      <4> QED
        BY <1>10, <2>6, <4>1 DEF Younger
    <3> QED
      BY <3>1, <3>2
  <2>9. Quiet'
    <3>1. SUFFICES ASSUME level' = "suspended"
                   PROVE  clearFor' = quietFor' /\ quietFor' < ResumeDwell
      BY DEF Quiet
    <3>2. level = "suspended" /\ c /= ResumeDwell
      BY <1>3, <2>1, <2>2, <3>1 DEF Below
    <3>3. Clear(s) <=> ~s.game /\ ~s.swap
      BY <3>2 DEF Clear
    <3>4. clearFor = quietFor
      BY <1>3, <3>2 DEF IInv, Quiet
    <3>5. quietFor' = c
      BY <1>8, <3>3, <3>4 DEF Aged
    <3> QED
      BY <1>1, <1>5, <2>1, <3>2, <3>5 DEF Never
  <2> HIDE DEF c, raised
  <2>10. TypeOK'
    <3>1. manualHold' \in BOOLEAN /\ (manualHold' => level' = "suspended")
      <4>1. manualHold' = manualHold
        BY DEF OnSample
      <4>2. manualHold \in BOOLEAN
        BY DEF IInv, TypeOK
      <4>3. manualHold' \in BOOLEAN
        BY <4>1, <4>2, Zenon
      <4> QED
        BY <1>3, <4>3
    <3>2. beat' \in BOOLEAN
      BY <1>11
    <3> QED
      BY <1>6, <1>7, <1>8, <1>10, <1>11, <2>3, <3>1, <3>2 DEF TypeOK
  <2> QED
    BY <2>4, <2>7, <2>8, <2>9, <2>10 DEF IInv
<1> QED
  BY <1>12, <1>13

\* The operator's hold: a sample not looked at, the hold taken, the hold given up.
LEMMA HoldOK ==
    ASSUME IInv, (\E gap \in 1..MaxGap : Ignored(gap)) \/ HoldOn \/ HoldOff
    PROVE  IInv'
<1>1. ASSUME NEW gap \in 1..MaxGap, Ignored(gap) PROVE IInv'
  <2>1. /\ gap \in Nat \ {0} /\ ResumeDwell \in Nat /\ PoliteDwell \in Nat
        /\ GameDwell \in Nat
    BY ThrottleAssumption
  <2>2. /\ politeFor' \in Never..PoliteDwell /\ gameFor' \in Never..GameDwell
        /\ clearFor' \in Never..ResumeDwell
    <3>1. politeFor' \in Never..PoliteDwell
      BY <1>1, <2>1, AgedType DEF IInv, TypeOK, Ignored
    <3>2. gameFor' \in Never..GameDwell
      BY <1>1, <2>1, AgedType DEF IInv, TypeOK, Ignored
    <3>3. clearFor' \in Never..ResumeDwell
      BY <1>1, <2>1, AgedType DEF IInv, TypeOK, Ignored
    <3> QED
      BY <3>1, <3>2, <3>3
  <2>3. manualHold' /\ level' = "suspended" /\ beat' \in BOOLEAN
    BY <1>1 DEF IInv, TypeOK, Ignored
  <2>4. /\ sample' \in Samples
        /\ sinceMove' \in 0..ResumeDwell /\ stood' \in 0..ResumeDwell
        /\ quietFor' \in Never..ResumeDwell
    BY <1>1 DEF IInv, TypeOK, Ignored
  <2> QED
    BY <2>2, <2>3, <2>4, <1>1 DEF IInv, TypeOK, Quiet, Younger, Ignored
<1>2. ASSUME HoldOn PROVE IInv'
  <2>1. manualHold' /\ level' = "suspended" /\ sample' = sample /\ beat' = beat
    BY <1>2 DEF HoldOn
  <2>2. /\ politeFor' \in Never..PoliteDwell /\ gameFor' \in Never..GameDwell
        /\ clearFor' \in Never..ResumeDwell
        /\ sinceMove' \in 0..ResumeDwell /\ stood' \in 0..ResumeDwell
        /\ quietFor' \in Never..ResumeDwell
    BY <1>2, ThrottleAssumption DEF IInv, TypeOK, HoldOn, Moved, ages
  <2>3. Quiet' /\ Younger'
    BY <2>1 DEF Quiet, Younger
  <2>4. sample' \in Samples /\ beat' \in BOOLEAN /\ manualHold' \in BOOLEAN
    BY <1>2 DEF IInv, TypeOK, HoldOn
  <2> QED
    BY <2>1, <2>2, <2>3, <2>4 DEF IInv, TypeOK
<1>3. ASSUME HoldOff PROVE IInv'
  <2>1. ~manualHold' /\ level' = "full" /\ clearFor' = Never
    BY <1>3 DEF HoldOff
  <2>2. /\ politeFor' \in Never..PoliteDwell /\ gameFor' \in Never..GameDwell
        /\ clearFor' \in Never..ResumeDwell
        /\ sinceMove' \in 0..ResumeDwell /\ stood' \in 0..ResumeDwell
        /\ quietFor' \in Never..ResumeDwell
    BY <1>3, ThrottleAssumption DEF IInv, TypeOK, HoldOff, Moved, Never
  <2>3. Quiet' /\ Younger'
    BY <2>1, <2>2, ThrottleAssumption DEF Quiet, Younger, Never
  <2>4. sample' \in Samples /\ beat' \in BOOLEAN /\ manualHold' \in BOOLEAN
    BY <1>3 DEF IInv, TypeOK, HoldOff
  <2> QED
    BY <2>1, <2>2, <2>3, <2>4 DEF IInv, TypeOK
<1> QED
  BY <1>1, <1>2, <1>3

LEMMA StutterOK == IInv /\ UNCHANGED vars => IInv'
  BY DEF IInv, TypeOK, Quiet, Younger, vars, ages, history

LEMMA StepOK == IInv /\ [Next]_vars => IInv'
<1>1. ASSUME IInv, SampleTaken PROVE IInv'
  BY <1>1, SampleOK DEF SampleTaken
<1> QED
  BY <1>1, HoldOK, StutterOK DEF Next

LEMMA Inductive == Spec => []IInv
  BY InitOK, StepOK, PTL DEF Spec

\* The throttle's state is always of its type, and a manual hold is always a
\* suspension.
THEOREM TypeCorrect == Spec => []TypeOK
<1>1. IInv => TypeOK
  BY DEF IInv
<1> QED
  BY <1>1, Inductive, PTL

\* Whatever dwells are configured and however far apart samples come, load
\* alone never holds a sweep suspended: Throttle::on_sample.
THEOREM LoadNeverHoldsASweep == Spec => []LoadNeverHolds
<1>1. IInv => LoadNeverHolds
  BY DEF IInv, Quiet, LoadNeverHolds
<1> QED
  BY <1>1, Inductive, PTL

\* The hysteresis: every step down is one level, from a level that has stood
\* for the resume dwell.
THEOREM NoFlapping == Spec => CannotFlap
<1>1. IInv /\ [Next]_vars
        => [SampleTaken /\ level' /= level /\ ~Escalates(level, level')
              => Relaxes(level, level') /\ stood' = ResumeDwell]_vars
  BY SampleOK DEF SampleTaken
<1> QED
  BY <1>1, Inductive, PTL DEF Spec, CannotFlap

-----------------------------------------------------------------------------
(* The referee, for every rule and every bound on the wall.                  *)

\* The verdict and the quality are those of the facts.
VerdictInv == /\ facts \in Facts
        /\ verdict = Judge(facts) /\ quality = Timing(facts)

LEMMA JudgeType ==
    ASSUME NEW f \in Facts
    PROVE  Judge(f) \in Banks \cup Owes /\ Timing(f) \in {"clean", "dirty", "unknown"}
<1>1. f.window \in {"clean", "dirty", "uncovered"}
  BY DEF Facts
<1>2. ByWindow(f) \in {"window", "contended", "uncovered"}
  BY <1>1 DEF ByWindow
<1>3. Judge(f) \in Banks \cup Owes
  BY <1>2 DEF Judge, Doubt, ByShare, Banks, Owes
<1>4. f.neighbours \in {0, 1}
  BY DEF Facts
<1>5. Timing(f) \in {"clean", "dirty", "unknown"}
  BY <1>1, <1>4 DEF Timing
<1> QED
  BY <1>3, <1>5

LEMMA WorseType ==
    ASSUME NEW f \in Facts, NEW g \in Worse(f)
    PROVE  g \in Facts
<1>1. ASSUME NEW c \in 0..f.cpu, g = [f EXCEPT !.cpu = c] PROVE g \in Facts
  <2>1. f.cpu \in 0..MaxWall /\ c \in 0..MaxWall
    BY RefereeAssumption DEF Facts
  <2> QED
    BY <1>1, <2>1 DEF Facts
<1>2. ASSUME NEW w \in {"dirty", "uncovered"}, g = [f EXCEPT !.window = w]
      PROVE  g \in Facts
  BY <1>2 DEF Facts
<1>3. CASE g \in {[f EXCEPT !.solved = FALSE], [f EXCEPT !.trusted = FALSE],
                  [f EXCEPT !.jumped = TRUE], [f EXCEPT !.swapped = TRUE],
                  [f EXCEPT !.demoted = TRUE], [f EXCEPT !.hot = TRUE],
                  [f EXCEPT !.priorSolved = TRUE]}
  BY <1>3 DEF Facts
<1>4. CASE g = [f EXCEPT !.neighbours = 1]
  BY <1>4 DEF Facts
<1>5. CASE g = [f EXCEPT !.soloAttempt = 1]
  BY <1>5 DEF Facts
<1>6. \/ \E c \in 0..f.cpu : g = [f EXCEPT !.cpu = c]
      \/ \E w \in {"dirty", "uncovered"} : g = [f EXCEPT !.window = w]
      \/ g = [f EXCEPT !.neighbours = 1] \/ g = [f EXCEPT !.soloAttempt = 1]
      \/ g \in {[f EXCEPT !.solved = FALSE], [f EXCEPT !.trusted = FALSE],
               [f EXCEPT !.jumped = TRUE], [f EXCEPT !.swapped = TRUE],
               [f EXCEPT !.demoted = TRUE], [f EXCEPT !.hot = TRUE],
               [f EXCEPT !.priorSolved = TRUE]}
  BY Zenon DEF Worse
<1> QED
  BY <1>1, <1>2, <1>3, <1>4, <1>5, <1>6

\* A row is banked exactly when this holds of its facts: the verdict without
\* its name.
Passes(f) ==
    \/ f.solved
    \/ /\ f.neighbours = 0 /\ (f.priorSolved => f.soloAttempt = 2) /\ ~f.jumped
       /\ \/ f.threads = 2 /\ f.window = "clean"
          \/ /\ f.threads = 1 /\ ~f.demoted /\ ~f.hot /\ ~f.swapped /\ HasRho(f)
             /\ IF LongEnough(f.effective) THEN HadItsCore(f) ELSE f.window = "clean"

LEMMA BanksIfPasses ==
    ASSUME NEW f \in Facts
    PROVE  Judge(f) \in Banks <=> Passes(f)
<1>1. /\ f.neighbours \in {0, 1} /\ f.soloAttempt \in {1, 2} /\ f.threads \in {1, 2}
      /\ f.window \in {"clean", "dirty", "uncovered"}
  BY DEF Facts
<1>2. ByWindow(f) \in Banks <=> f.window = "clean"
  BY <1>1 DEF ByWindow, Banks
<1>3. Doubt(f) \in Banks <=>
        /\ f.neighbours = 0 /\ (f.priorSolved => f.soloAttempt = 2) /\ ~f.jumped
        /\ \/ f.threads = 2 /\ ByWindow(f) \in Banks
           \/ /\ f.threads = 1 /\ ~f.demoted /\ ~f.hot /\ ~f.swapped /\ HasRho(f)
              /\ IF LongEnough(f.effective) THEN HadItsCore(f) ELSE ByWindow(f) \in Banks
  BY <1>1 DEF Doubt, ByShare, Banks
<1> QED
  BY <1>2, <1>3 DEF Judge, Passes, Banks

\* Less CPU in the same wall is no better a share of it.
LEMMA LessShare ==
    ASSUME NEW a \in Nat, NEW b \in Nat, b <= a, NEW e \in Nat,
           b * RhoScale >= RhoMin * e
    PROVE  a * RhoScale >= RhoMin * e
<1>1. b * RhoScale <= a * RhoScale
  <2>1. PICK d \in Nat : a = b + d
    <3>1. a - b \in Nat /\ a = b + (a - b)
      OBVIOUS
    <3> QED
      BY <3>1
  <2>2. a * RhoScale = b * RhoScale + d * RhoScale /\ d * RhoScale >= 0
    BY <2>1, RefereeAssumption
  <2> QED
    BY <2>2, RefereeAssumption
<1> QED
  BY <1>1, RefereeAssumption

LEMMA PassesIfWorsePasses ==
    ASSUME NEW f \in Facts, NEW g \in Worse(f), ~f.solved, Passes(g)
    PROVE  Passes(f)
<1>1. /\ f.neighbours \in {0, 1} /\ f.soloAttempt \in {1, 2} /\ f.threads \in {1, 2}
      /\ f.window \in {"clean", "dirty", "uncovered"}
      /\ f.cpu \in Nat /\ f.effective \in Nat
  BY RefereeAssumption DEF Facts
<1>2. CASE \E c \in 0..f.cpu : g = [f EXCEPT !.cpu = c]
  <2>1. PICK c \in 0..f.cpu : g = [f EXCEPT !.cpu = c]
    BY <1>2
  <2>2. /\ g.cpu = c /\ c \in Nat /\ c <= f.cpu
        /\ g.solved = f.solved /\ g.threads = f.threads /\ g.trusted = f.trusted
        /\ g.effective = f.effective /\ g.jumped = f.jumped /\ g.window = f.window
        /\ g.swapped = f.swapped /\ g.demoted = f.demoted /\ g.hot = f.hot
        /\ g.neighbours = f.neighbours /\ g.priorSolved = f.priorSolved
        /\ g.soloAttempt = f.soloAttempt
    BY <1>1, <2>1 DEF Facts
  <2>3. HadItsCore(g) => HadItsCore(f)
    BY <1>1, <2>2, LessShare DEF HadItsCore
  <2> QED
    BY <2>2, <2>3 DEF Passes, HasRho
<1>3. CASE ~\E c \in 0..f.cpu : g = [f EXCEPT !.cpu = c]
  <2>1. /\ g.solved => f.solved
        /\ g.threads = f.threads /\ g.cpu = f.cpu /\ g.effective = f.effective
        /\ g.trusted => f.trusted
        /\ f.jumped => g.jumped
        /\ f.swapped => g.swapped
        /\ f.demoted => g.demoted
        /\ f.hot => g.hot
        /\ f.neighbours = 1 => g.neighbours = 1
        /\ f.priorSolved => g.priorSolved
        /\ f.soloAttempt = 1 => g.soloAttempt = 1
        /\ g.window = "clean" => f.window = "clean"
    BY <1>1, <1>3 DEF Worse, Facts
  <2>2. HadItsCore(g) => HadItsCore(f)
    BY <2>1 DEF HadItsCore
  <2> QED
    BY <1>1, <2>1, <2>2 DEF Passes, HasRho
<1> QED
  BY <1>2, <1>3

\* A run long enough for rho to mean something that lost to the wall only what
\* a process costs has its share of a core.
LEMMA IdleHasItsCore ==
    ASSUME NEW c \in Nat, NEW e \in Nat, LongEnough(e), c + RhoOverhead >= e
    PROVE  c * RhoScale >= RhoMin * e
<1> DEFINE S == RhoScale  M == RhoMin  O == RhoOverhead
<1>1. S \in Nat /\ M \in Nat /\ O \in Nat /\ M < S
  BY RefereeAssumption DEF LongEnough
<1>2. e * (S - M) >= O * S
  BY DEF LongEnough
<1>3. PICK d \in Nat : c + O = e + d
  <2>1. (c + O) - e \in Nat /\ c + O = e + ((c + O) - e)
    BY <1>1
  <2> QED
    BY <2>1
<1> HIDE DEF S, M, O
<1>4. c * S + O * S = e * S + d * S
  <2>1. (c + O) * S = (e + d) * S
    BY <1>3
  <2> QED
    BY <1>1, <2>1
<1>5. e * (S - M) = e * S - M * e
  BY <1>1
<1>6. d * S >= 0
  BY <1>1
<1>7. /\ c * S \in Int /\ O * S \in Int /\ e * S \in Int /\ d * S \in Int
      /\ M * e \in Int
  BY <1>1
<1>8. c * S >= M * e
  BY <1>2, <1>4, <1>5, <1>6, <1>7
<1> QED
  BY <1>8 DEF S, M, O

LEMMA IdleIsBanked ==
    ASSUME NEW f \in Facts, IdleBox(f)
    PROVE  Judge(f) \in Banks
<1>1. /\ f.cpu \in Nat /\ f.effective \in Nat /\ f.threads \in {1, 2}
  BY RefereeAssumption DEF Facts
<1>2. LongEnough(f.effective) => HadItsCore(f)
  BY <1>1, IdleHasItsCore DEF IdleBox, HadItsCore
<1>3. Passes(f)
  BY <1>1, <1>2 DEF Passes, IdleBox
<1> QED
  BY <1>3, BanksIfPasses

LEMMA WindowIsTimed ==
    ASSUME NEW f \in Facts, Judge(f) = "window"
    PROVE  Timing(f) = "clean"
<1>1. f.neighbours \in {0, 1} /\ f.window \in {"clean", "dirty", "uncovered"}
  BY DEF Facts
<1>2. f.neighbours = 0 /\ ~f.jumped /\ ByWindow(f) = "window"
  BY <1>1 DEF Judge, Doubt, ByShare
<1>3. f.window = "clean"
  BY <1>1, <1>2 DEF ByWindow
<1> QED
  BY <1>2, <1>3 DEF Timing

LEMMA VerdictStep == VerdictInv /\ [RefereeNext]_refereeVars => VerdictInv'
  BY WorseType DEF VerdictInv, RefereeNext, Returned, refereeVars

LEMMA VerdictIsKept == RefereeSpec => []VerdictInv
<1>1. RefereeInit => VerdictInv
  BY DEF RefereeInit, VerdictInv
<1> QED
  BY <1>1, VerdictStep, PTL DEF RefereeSpec

\* Whatever starvation line, floor and overhead the rule is configured with,
\* there is no wall at which an idle box cannot bank a row: judge and
\* Rule::rho_floor_ms.
THEOREM NoLivelock == RefereeSpec => []IdleBoxBanks
<1>1. VerdictInv => IdleBoxBanks
  BY IdleIsBanked DEF VerdictInv, IdleBoxBanks
<1> QED
  BY <1>1, VerdictIsKept, PTL

\* judge is monotone: making a fact worse never turns an owed row into a banked
\* one.
THEOREM FailsClosed == RefereeSpec => DoubtNeverBanks
<1>1. Banks \cap Owes = {}
  BY DEF Banks, Owes
<1>2. ASSUME VerdictInv, RefereeNext, verdict \in Owes PROVE verdict' \in Owes
  <2>1. facts' \in Facts /\ verdict' = Judge(facts')
    BY <1>2, VerdictStep DEF VerdictInv
  <2>2. ~Passes(facts) /\ ~facts.solved
    BY <1>1, <1>2, BanksIfPasses DEF VerdictInv, Passes
  <2>3. ~Passes(facts')
    BY <1>2, <2>2, PassesIfWorsePasses DEF VerdictInv, RefereeNext
  <2>4. verdict' \notin Banks
    BY <2>1, <2>3, BanksIfPasses
  <2> QED
    BY <2>1, <2>4, JudgeType
<1>3. VerdictInv /\ [RefereeNext]_refereeVars => [(verdict \in Owes) => (verdict' \in Owes)]_refereeVars
  BY <1>2 DEF refereeVars
<1> QED
  BY <1>3, VerdictIsKept, PTL DEF RefereeSpec, DoubtNeverBanks

\* The two answers of the referee agree: a row that banks for its clean window
\* is timed clean.
THEOREM AnswersAgree == RefereeSpec => []WindowBankIsTimed
<1>1. VerdictInv => WindowBankIsTimed
  BY WindowIsTimed DEF VerdictInv, WindowBankIsTimed
<1> QED
  BY <1>1, VerdictIsKept, PTL
=============================================================================
