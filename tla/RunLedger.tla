------------------------------ MODULE RunLedger ------------------------------
(***************************************************************************)
(* What a sweep remembers: the `run` table, where every finished run of an  *)
(* instance is a numbered attempt, and the runner's set of banked instances *)
(* in memory.  run_one commits a receipt, asks the referee, commits the     *)
(* verdict over it; a kill -9 can fall between any two of these, any commit *)
(* can fail (the error is only printed), and a restart knows what the       *)
(* table knows.                                                             *)
(***************************************************************************)
EXTENDS Integers, FiniteSets, FiniteSetsExt

CONSTANTS
    Insts,        \* the instances of one board
    PriorSolved,  \* RunCtx::prior_solved: those the predecessor solved
    MaxAttempts,  \* bound: attempts of one instance
    MaxCrashes,   \* bound: kills of the supervisor
    MaxFailures   \* bound: commits and queries of the database that fail

ASSUME LedgerAssumption ==
    /\ PriorSolved \subseteq Insts
    /\ MaxAttempts \in Nat \ {0} /\ MaxCrashes \in Nat /\ MaxFailures \in Nat

VARIABLES
    rows,      \* the attempts on record: run rows with state 'done'
    banked,    \* the runner's banked instances
    up,        \* the supervisor is alive
    stop,      \* SweepRunner::stop
    at,        \* where the worker that has the instance stands in run_one
    result,    \* what it measured
    attempt,   \* the number its row will carry
    verdict,   \* the referee's answer
    crashes, failures

worker == <<at, result, attempt, verdict>>
vars == <<rows, banked, up, stop, worker, crashes, failures>>

Attempts == 1..MaxAttempts
\* solo: no neighbours; start: the planner ran, the system could not fork it, or
\* its binary is gone.
Results == {r \in [solved : BOOLEAN, solo : BOOLEAN, start : {"ran", "noFork", "gone"}] :
               r.start /= "ran" => ~r.solved}
Row(r, b) == [result |-> r, banked |-> b]
AllRows == [result : Results, banked : BOOLEAN]

TypeOK ==
    /\ DOMAIN rows = Insts
    /\ \A i \in Insts : DOMAIN rows[i] \subseteq Attempts
                        /\ \A n \in DOMAIN rows[i] : rows[i][n] \in AllRows
    /\ banked \subseteq Insts /\ up \in BOOLEAN /\ stop \in BOOLEAN
    /\ at \in [Insts -> {"idle", "ran", "numbered", "received", "judged", "recorded"}]
    /\ result \in [Insts -> Results]
    /\ attempt \in [Insts -> Attempts]
    /\ verdict \in [Insts -> BOOLEAN]
    /\ crashes \in 0..MaxCrashes /\ failures \in 0..MaxFailures
    /\ up \/ (banked = {} /\ \A i \in Insts : at[i] = "idle")

Nothing == [solved |-> FALSE, solo |-> TRUE, start |-> "ran"]

Init ==
    /\ rows = [i \in Insts |-> [n \in {} |-> Row(Nothing, FALSE)]]
    /\ banked = {} /\ up = TRUE /\ stop = FALSE
    /\ at = [i \in Insts |-> "idle"]
    /\ result = [i \in Insts |-> Nothing]
    /\ attempt = [i \in Insts |-> 1]
    /\ verdict = [i \in Insts |-> FALSE]
    /\ crashes = 0 /\ failures = 0

Goto(i, p) == at' = [at EXCEPT ![i] = p]

-----------------------------------------------------------------------------
(* What the reader answers. *)

Done(i) == DOMAIN rows[i]

\* banked_instances: the latest done attempt is the one in force.
Banked(i) == \E n \in Done(i) : rows[i][n].banked /\ \A m \in Done(i) : m <= n

\* next_attempt: one past the highest.
NextAttempt(i) == IF Done(i) = {} THEN 1 ELSE Max(Done(i)) + 1

\* Mutant: every attempt counts, the packed ones too.
AnyAttempts(i) == Cardinality(Done(i))

\* solo_attempts: the done attempts that had no neighbours.
SoloAttempts(i) == Cardinality({n \in Done(i) : rows[i][n].result.solo})

-----------------------------------------------------------------------------
(* run_one, from the planner's end on. *)

\* The batch takes what is not banked.
Measure(i) ==
    /\ up /\ ~stop /\ at[i] = "idle" /\ i \notin banked
    /\ NextAttempt(i) \in Attempts
    /\ \E r \in Results : result' = [result EXCEPT ![i] = r]
    /\ Goto(i, "ran")
    /\ UNCHANGED <<rows, banked, up, stop, attempt, verdict, crashes, failures>>

\* A failed query is answered with 1.
Number(i) ==
    /\ at[i] = "ran"
    /\ \/ attempt' = [attempt EXCEPT ![i] = NextAttempt(i)] /\ UNCHANGED failures
       \/ /\ failures < MaxFailures /\ failures' = failures + 1
          /\ attempt' = [attempt EXCEPT ![i] = 1]
    /\ Goto(i, "numbered")
    /\ UNCHANGED <<rows, banked, up, stop, result, verdict, crashes>>

\* insert_run: a row for the attempt, or over the one that is there.
Upserted(i, b) ==
    [rows EXCEPT ![i] = [n \in Done(i) \cup {attempt[i]} |->
                            IF n = attempt[i] THEN Row(result[i], b) ELSE rows[i][n]]]

\* A commit, or its failure, which is printed and goes no further.
Commit(newRows) ==
    \/ rows' = newRows /\ UNCHANGED failures
    \/ failures < MaxFailures /\ failures' = failures + 1 /\ UNCHANGED rows

Receipt(i) ==
    /\ at[i] = "numbered"
    /\ Commit(Upserted(i, FALSE))
    /\ Goto(i, "received")
    /\ UNCHANGED <<banked, up, stop, result, attempt, verdict, crashes>>

\* The referee (module Referee has the whole rule): a solve banks, a miss
\* beside neighbours is owed, a run that never was has no CPU reading, a miss
\* where the predecessor solved waits for a second solo run, and the box
\* decides the rest.
MayBank(i) ==
    LET r == result[i] IN
      IF r.solved THEN {TRUE}
      ELSE IF ~r.solo \/ r.start /= "ran" THEN {FALSE}
      ELSE IF i \in PriorSolved /\ SoloAttempts(i) < 2 THEN {FALSE}
      ELSE BOOLEAN

Judge(i) ==
    /\ at[i] = "received"
    /\ \E b \in MayBank(i) : verdict' = [verdict EXCEPT ![i] = b]
    /\ Goto(i, "judged")
    /\ UNCHANGED <<rows, banked, up, stop, result, attempt, crashes, failures>>

\* Mutant: the record is committed again as it was before the verdict.
RecordUnjudged(i) ==
    /\ at[i] = "judged"
    /\ Commit(Upserted(i, FALSE))
    /\ Goto(i, "recorded")
    /\ UNCHANGED <<banked, up, stop, result, attempt, verdict, crashes>>

Record(i) ==
    /\ at[i] = "judged"
    /\ Commit(Upserted(i, verdict[i]))
    /\ Goto(i, "recorded")
    /\ UNCHANGED <<banked, up, stop, result, attempt, verdict, crashes>>

\* The runner takes the result: a banked instance leaves the batch for good, a
\* run that never was stops the sweep.
Apply(i) ==
    /\ at[i] = "recorded"
    /\ banked' = IF verdict[i] THEN banked \cup {i} ELSE banked
    /\ stop' = (stop \/ result[i].start = "gone")
    /\ at' = [at EXCEPT ![i] = "idle"]
    /\ UNCHANGED <<rows, up, result, attempt, verdict, crashes, failures>>

\* kill -9, an orderly stop, the end of the machine: memory is gone.
Crash ==
    /\ up /\ crashes < MaxCrashes /\ crashes' = crashes + 1
    /\ up' = FALSE /\ stop' = FALSE /\ banked' = {}
    /\ at' = [i \in Insts |-> "idle"]
    /\ UNCHANGED <<rows, result, attempt, verdict, failures>>

\* Mutant: a restart starts from nothing.
RestartBlank ==
    /\ ~up /\ up' = TRUE
    /\ banked' = {}
    /\ UNCHANGED <<rows, stop, worker, crashes, failures>>

Restart ==
    /\ ~up /\ up' = TRUE
    /\ banked' = {i \in Insts : Banked(i)}
    /\ UNCHANGED <<rows, stop, worker, crashes, failures>>

RunOne(i) == \/ Measure(i) \/ Number(i) \/ Receipt(i) \/ Judge(i)
             \/ Record(i) \/ Apply(i)

Next == (\E i \in Insts : RunOne(i)) \/ Crash \/ Restart

Spec == Init /\ [][Next]_vars

-----------------------------------------------------------------------------
(* Properties. *)

\* Computed work is never lost: an instance the table has as banked stays
\* banked, through every crash and failed commit; no later attempt of a
\* restarted sweep can put an unbanked row in force over it.
BankedStaysBanked ==
    [][\A i \in Insts : Banked(i) => Banked(i)']_vars

\* What the runner believes is what a restart will find: every instance it has
\* taken off the batch is banked in the table, unless the database failed it.
MemoryIsOnRecord ==
    failures = 0 => \A i \in banked : Banked(i)

\* A miss that contradicts the predecessor's solve banks only with a second
\* solo row on record, whatever ran packed, crashed or restarted in between.
ContradictionConfirmed ==
    \A i \in PriorSolved : \A n \in Done(i) :
        rows[i][n].banked /\ ~rows[i][n].result.solved
            => \E m \in Done(i) \ {n} : rows[i][m].result.solo

\* "not a verdict until a second solo run says the same" (the doc of
\* Owe::Suspect): a miss that contradicts the predecessor's solve banks only
\* when two solo runs of the planner have missed it.
SeenTwice ==
    \A i \in PriorSolved : \A n \in Done(i) :
        rows[i][n].banked /\ ~rows[i][n].result.solved
            => \E m \in Done(i) \ {n} :
                  rows[i][m].result.solo /\ rows[i][m].result.start = "ran"
=============================================================================
