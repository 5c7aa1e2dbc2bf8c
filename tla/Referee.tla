-------------------------------- MODULE Referee --------------------------------
(***************************************************************************)
(* The referee: from the facts of a finished run to the verdict that banks  *)
(* or owes its row, and to the quality of its timing.  sched::referee's     *)
(* judge, timing, Rule and Facts, whole; RunLedger uses what comes out.     *)
(*                                                                         *)
(* A behaviour judges one run under facts that get worse one at a time: the *)
(* same run on a box it could trust less.                                   *)
(***************************************************************************)
EXTENDS Integers

CONSTANTS
    RhoMin, RhoScale,  \* rho_min is RhoMin / RhoScale
    RhoFloor,          \* rho_floor_ms, the hard minimum
    RhoOverhead,       \* rho_overhead_ms, what a process costs in wall
    MaxWall            \* bound: effective_ms and cpu_ms of a run

ASSUME RefereeAssumption ==
    /\ RhoMin \in Nat /\ RhoScale \in Nat \ {0}
    /\ RhoFloor \in Nat /\ RhoOverhead \in Nat /\ MaxWall \in Nat

VARIABLES facts, verdict, quality

refereeVars == <<facts, verdict, quality>>

\* trusted: the CPU reading is wait4's.  hot and swapped: a clock factor or a
\* swap growth that was measured and is over the rule's line.
Facts ==
    [solved : BOOLEAN, threads : {1, 2}, trusted : BOOLEAN,
     cpu : 0..MaxWall, effective : 0..MaxWall, jumped : BOOLEAN,
     window : {"clean", "dirty", "uncovered"}, swapped : BOOLEAN,
     demoted : BOOLEAN, hot : BOOLEAN, neighbours : {0, 1},
     priorSolved : BOOLEAN, soloAttempt : {1, 2}]

Banks == {"solved", "rho", "window"}
Owes == {"starved", "cpu-unknown", "clock-jump", "swap", "thermal", "contended",
         "uncovered", "suspect", "demoted", "packed"}

\* Mutant: only the hard minimum, as before the floor was derived.
LongEnoughByHand(wall) == wall >= RhoFloor

\* effective_ms >= rho_floor_ms(): the wall at which a run that loses only the
\* overhead can reach rho_min; there is none when rho_min is 1 or more.
LongEnough(wall) ==
    /\ RhoMin < RhoScale
    /\ wall * (RhoScale - RhoMin) >= RhoOverhead * RhoScale
    /\ wall >= RhoFloor

HasRho(f) == f.trusted /\ f.effective > 0

\* rho >= rho_min
HadItsCore(f) == f.cpu * RhoScale >= RhoMin * f.effective

\* The box-wide rule of R1: it fails closed.
ByWindow(f) == CASE f.window = "clean" -> "window"
                 [] f.window = "dirty" -> "contended"
                 [] f.window = "uncovered" -> "uncovered"

\* Mutant: without a CPU reading the window decides, as it does for a short run.
ByShareOrWindow(f) ==
    IF ~HasRho(f) \/ ~LongEnough(f.effective) THEN ByWindow(f)
    ELSE IF HadItsCore(f) THEN "rho" ELSE "starved"

\* The rule of R2: by the process's own share of a core, where that means
\* something.
ByShare(f) ==
    IF ~HasRho(f) THEN "cpu-unknown"
    ELSE IF ~LongEnough(f.effective) THEN ByWindow(f)
    ELSE IF HadItsCore(f) THEN "rho" ELSE "starved"

\* The reasons to doubt a run that hold however long it was, in their order.
Doubt(f) ==
    IF f.neighbours > 0 THEN "packed"
    ELSE IF f.priorSolved /\ f.soloAttempt < 2 THEN "suspect"
    ELSE IF f.jumped THEN "clock-jump"
    ELSE IF f.threads > 1 THEN ByWindow(f)
    ELSE IF f.demoted THEN "demoted"
    ELSE IF f.hot THEN "thermal"
    ELSE IF f.swapped THEN "swap"
    ELSE ByShare(f)

\* judge: a solve is a solve; everything else has to get past the doubts.
Judge(f) == IF f.solved THEN "solved" ELSE Doubt(f)

\* timing: the quality of the row's time, banked or not.
Timing(f) ==
    CASE f.neighbours > 0 -> "dirty"
      [] f.neighbours = 0 /\ f.window = "uncovered" -> "unknown"
      [] f.neighbours = 0 /\ f.window = "clean" /\ ~f.jumped -> "clean"
      [] OTHER -> "dirty"

\* The same facts, one of them worse.
Worse(f) ==
    {[f EXCEPT !.solved = FALSE], [f EXCEPT !.trusted = FALSE],
     [f EXCEPT !.jumped = TRUE], [f EXCEPT !.swapped = TRUE],
     [f EXCEPT !.demoted = TRUE], [f EXCEPT !.hot = TRUE],
     [f EXCEPT !.neighbours = 1], [f EXCEPT !.priorSolved = TRUE],
     [f EXCEPT !.soloAttempt = 1]}
    \cup {[f EXCEPT !.cpu = c] : c \in 0..f.cpu}
    \cup {[f EXCEPT !.window = w] :
            w \in IF f.window = "clean" THEN {"dirty", "uncovered"} ELSE {"uncovered"}}

Returned == verdict' = Judge(facts') /\ quality' = Timing(facts')

RefereeInit == facts \in Facts /\ verdict = Judge(facts) /\ quality = Timing(facts)

RefereeNext == facts' \in Worse(facts) /\ Returned

RefereeSpec == RefereeInit /\ [][RefereeNext]_refereeVars

-----------------------------------------------------------------------------
(* Properties. *)

\* No reason to doubt a run ever banks it: a row that is owed stays owed when the
\* box is known to have been worse.
DoubtNeverBanks == [][(verdict \in Owes) => (verdict' \in Owes)]_refereeVars

\* A run alone on an idle box that was watched: it loses to the wall no more
\* than a process costs, and nothing about it is in doubt.
IdleBox(f) ==
    /\ f.neighbours = 0 /\ (f.priorSolved => f.soloAttempt = 2)
    /\ ~f.jumped /\ ~f.demoted /\ ~f.hot /\ ~f.swapped
    /\ f.window = "clean" /\ HasRho(f)
    /\ f.cpu + RhoOverhead >= f.effective

\* "A rule that can never be satisfied is not a strict rule, it is a livelock":
\* whatever its wall, a run alone on an idle box is banked.
IdleBoxBanks == IdleBox(facts) => verdict \in Banks

\* A row banked because the window was clean has a clean timing too.
WindowBankIsTimed == verdict = "window" => quality = "clean"
=============================================================================
