---------------------------- MODULE RunLedgerProofs ----------------------------
(* Proofs about the run ledger, for all instances, crashes and failed commits. *)
EXTENDS RunLedger, FiniteSetTheorems, TLAPS

\* What TypeOK says, without its flags.
Shape ==
    /\ DOMAIN rows = Insts
    /\ \A i \in Insts : DOMAIN rows[i] \subseteq Attempts
    /\ \A i \in Insts : \A n \in DOMAIN rows[i] : rows[i][n] \in AllRows
    /\ banked \subseteq Insts
    /\ at \in [Insts -> {"idle", "ran", "numbered", "received", "judged", "recorded"}]
    /\ result \in [Insts -> Results]
    /\ attempt \in [Insts -> Attempts]
    /\ crashes \in 0..MaxCrashes /\ failures \in 0..MaxFailures

Flags == /\ up \in BOOLEAN /\ stop \in BOOLEAN /\ verdict \in [Insts -> BOOLEAN]

Down == up \/ (banked = {} /\ \A i \in Insts : at[i] = "idle")

\* A worker that has measured an instance finds its number within the bound.
Numbered == \A i \in Insts : at[i] = "ran" => NextAttempt(i) \in Attempts

\* What the table has as banked the runner has off the batch, or is about to;
\* and what is off the batch no worker has.
Known == \A i \in Insts : up /\ Banked(i)
            => i \in banked \/ (at[i] = "recorded" /\ verdict[i] = TRUE)
Settled == \A i \in banked : at[i] = "idle"

IInv == Shape /\ Flags /\ Down /\ Numbered /\ Known /\ Settled

LEMMA TypeSplit == TypeOK <=> Shape /\ Flags /\ Down
<1>1. TypeOK => Shape /\ Flags /\ Down
  BY Zenon DEF TypeOK, Shape, Flags, Down
<1>2. Shape /\ Flags /\ Down => TypeOK
  BY Zenon DEF TypeOK, Shape, Flags, Down
<1> QED
  BY <1>1, <1>2

LEMMA AttemptsAreNumbers == Attempts \subseteq Int /\ 1 \in Attempts
  BY LedgerAssumption DEF Attempts

LEMMA InitOK == Init => IInv
<1>1. SUFFICES ASSUME Init PROVE IInv
  OBVIOUS
<1>2. Nothing \in Results
  BY DEF Nothing, Results
<1>3. \A i \in Insts : Done(i) = {}
  BY <1>1 DEF Init, Done
<1>4. Shape
  <2>1. /\ DOMAIN rows = Insts
        /\ \A i \in Insts : DOMAIN rows[i] \subseteq Attempts
        /\ \A i \in Insts : \A n \in DOMAIN rows[i] : rows[i][n] \in AllRows
    BY <1>1 DEF Init
  <2>2. /\ at \in [Insts -> {"idle", "ran", "numbered", "received", "judged", "recorded"}]
        /\ result \in [Insts -> Results] /\ attempt \in [Insts -> Attempts]
        /\ banked \subseteq Insts
    BY <1>1, <1>2, AttemptsAreNumbers DEF Init
  <2>3. crashes \in 0..MaxCrashes /\ failures \in 0..MaxFailures
    BY <1>1, LedgerAssumption DEF Init
  <2> QED
    BY <2>1, <2>2, <2>3 DEF Shape
<1>5. Flags /\ Down
  BY <1>1, Zenon DEF Init, Flags, Down
<1>6. Numbered
  BY <1>1 DEF Init, Numbered
<1>7. Known
  BY <1>3 DEF Known, Banked
<1>8. Settled
  BY <1>1 DEF Init, Settled
<1> QED
  BY <1>4, <1>5, <1>6, <1>7, <1>8 DEF IInv

\* The answers of the reader depend on the instance's rows alone.
LEMMA SameRows ==
    ASSUME NEW i \in Insts, rows'[i] = rows[i]
    PROVE  /\ Banked(i)' <=> Banked(i)
           /\ NextAttempt(i)' = NextAttempt(i)
           /\ Done(i)' = Done(i)
  BY DEF Banked, NextAttempt, Done

\* The table after a commit for instance i: only i's rows can have changed.
LEMMA CommitOK ==
    ASSUME IInv, NEW i \in Insts, NEW b \in BOOLEAN, Commit(Upserted(i, b))
    PROVE  /\ DOMAIN rows' = Insts
           /\ \A j \in Insts : j /= i => rows'[j] = rows[j]
           /\ \A j \in Insts : DOMAIN rows'[j] \subseteq Attempts
           /\ \A j \in Insts : \A n \in DOMAIN rows'[j] : rows'[j][n] \in AllRows
           /\ failures' \in 0..MaxFailures
<1>1. /\ DOMAIN rows = Insts /\ attempt[i] \in Attempts /\ result[i] \in Results
      /\ \A j \in Insts : DOMAIN rows[j] \subseteq Attempts
      /\ \A j \in Insts : \A n \in DOMAIN rows[j] : rows[j][n] \in AllRows
  BY DEF IInv, Shape
<1>2. Row(result[i], b) \in AllRows
  BY <1>1 DEF Row, AllRows
<1>3. failures' \in 0..MaxFailures
  BY LedgerAssumption DEF IInv, Shape, Commit
<1>4. CASE rows' = rows
  BY <1>1, <1>3, <1>4
<1>5. CASE rows' = Upserted(i, b)
  <2> DEFINE mine == [n \in Done(i) \cup {attempt[i]} |->
                        IF n = attempt[i] THEN Row(result[i], b) ELSE rows[i][n]]
  <2>1. DOMAIN rows' = Insts /\ rows'[i] = mine
        /\ \A j \in Insts : j /= i => rows'[j] = rows[j]
    BY <1>1, <1>5 DEF Upserted
  <2>2. DOMAIN mine \subseteq Attempts /\ \A n \in DOMAIN mine : mine[n] \in AllRows
    BY <1>1, <1>2 DEF Done
  <2> QED
    BY <1>1, <1>3, <2>1, <2>2
<1> QED
  BY <1>4, <1>5 DEF Commit

\* A row that is not a verdict puts no banked row in force.
LEMMA ReceiptBanksNothing ==
    ASSUME IInv, NEW i \in Insts, ~Banked(i), Commit(Upserted(i, FALSE))
    PROVE  ~Banked(i)'
<1>1. /\ DOMAIN rows = Insts /\ Done(i) \subseteq Int /\ attempt[i] \in Int
  BY AttemptsAreNumbers DEF IInv, Shape, Done
<1>2. CASE rows' = rows
  BY <1>2, SameRows
<1>3. CASE rows' = Upserted(i, FALSE)
  <2>1. rows'[i] = [n \in Done(i) \cup {attempt[i]} |->
                      IF n = attempt[i] THEN Row(result[i], FALSE) ELSE rows[i][n]]
    BY <1>1, <1>3 DEF Upserted
  <2>2. Done(i)' = Done(i) \cup {attempt[i]}
    BY <2>1 DEF Done
  <2>3. ASSUME NEW n \in Done(i)', rows'[i][n].banked, \A m \in Done(i)' : m <= n
        PROVE  FALSE
    <3>1. n /= attempt[i]
      BY <2>1, <2>2, <2>3 DEF Row
    <3>2. n \in Done(i) /\ rows[i][n].banked /\ \A m \in Done(i) : m <= n
      BY <2>1, <2>2, <2>3, <3>1
    <3> QED
      BY <3>2 DEF Banked
  <2> QED
    BY <2>3 DEF Banked
<1> QED
  BY <1>2, <1>3 DEF Commit

\* While a worker stands between the measurement and the record, the table does
\* not have its instance as banked.
LEMMA WorkingIsOwed ==
    ASSUME IInv, NEW i \in Insts, up,
           at[i] \in {"ran", "numbered", "received", "judged"}
    PROVE  ~Banked(i)
  BY DEF IInv, Known, Settled

LEMMA UpWhileWorking ==
    ASSUME IInv, NEW i \in Insts, at[i] /= "idle"
    PROVE  up
  BY DEF IInv, Down

-----------------------------------------------------------------------------
(* One lemma per step: the invariant, and nothing that was banked is lost. *)

Kept == \A i \in Insts : Banked(i) => Banked(i)'

\* A worker moves on without touching the table or the runner's set.
LEMMA WorkerOK ==
    ASSUME IInv, NEW i \in Insts, i \notin banked, up, ~Banked(i),
           NEW p \in {"ran", "numbered", "received", "judged"}, Goto(i, p),
           p = "ran" => NextAttempt(i) \in Attempts,
           result' \in [Insts -> Results], attempt' \in [Insts -> Attempts],
           verdict' \in [Insts -> BOOLEAN],
           \A j \in Insts : j /= i => verdict'[j] = verdict[j],
           UNCHANGED <<rows, banked, up, stop, crashes>>,
           failures' \in 0..MaxFailures
    PROVE  IInv' /\ Kept
<1>1. /\ at' \in [Insts -> {"idle", "ran", "numbered", "received", "judged", "recorded"}]
      /\ at'[i] = p /\ \A j \in Insts : j /= i => at'[j] = at[j]
  BY DEF IInv, Shape, Goto
<1>2. /\ \A j \in Insts : Banked(j)' <=> Banked(j)
      /\ \A j \in Insts : NextAttempt(j)' = NextAttempt(j)
  BY SameRows
<1>3. Shape'
  BY <1>1 DEF IInv, Shape
<1>4. Flags'
  BY Zenon DEF IInv, Flags
<1>5. Down'
  BY DEF Down
<1>6. Numbered'
  BY <1>1, <1>2 DEF IInv, Numbered
<1>7. Known'
  BY <1>1, <1>2 DEF IInv, Known
<1>8. Settled'
  BY <1>1 DEF IInv, Shape, Settled
<1> QED
  BY <1>2, <1>3, <1>4, <1>5, <1>6, <1>7, <1>8 DEF IInv, Kept

LEMMA MeasureOK == ASSUME IInv, NEW i \in Insts, Measure(i) PROVE IInv' /\ Kept
<1>1. ~Banked(i) /\ up /\ i \notin banked
  BY DEF IInv, Known, Measure
<1>2. result' \in [Insts -> Results]
  BY DEF IInv, Shape, Measure
<1>3. attempt' \in [Insts -> Attempts] /\ verdict' \in [Insts -> BOOLEAN]
      /\ \A j \in Insts : j /= i => verdict'[j] = verdict[j]
  BY Zenon DEF IInv, Shape, Flags, Measure
<1>4. /\ Goto(i, "ran") /\ NextAttempt(i) \in Attempts
      /\ UNCHANGED <<rows, banked, up, stop, crashes, failures>>
  BY DEF Measure
<1> QED
  BY <1>1, <1>2, <1>3, <1>4, WorkerOK DEF IInv, Shape

LEMMA NumberOK == ASSUME IInv, NEW i \in Insts, Number(i) PROVE IInv' /\ Kept
<1>1. up /\ ~Banked(i) /\ i \notin banked
  BY UpWhileWorking, WorkingIsOwed DEF IInv, Settled, Number
<1>2. NextAttempt(i) \in Attempts
  BY DEF IInv, Numbered, Number
<1>3. attempt' \in [Insts -> Attempts]
  BY <1>2, AttemptsAreNumbers DEF IInv, Shape, Number
<1>4. result' \in [Insts -> Results]
  BY DEF IInv, Shape, Number
<1>5. verdict' \in [Insts -> BOOLEAN] /\ \A j \in Insts : j /= i => verdict'[j] = verdict[j]
  BY Zenon DEF IInv, Flags, Number
<1>6. /\ Goto(i, "numbered")
      /\ UNCHANGED <<rows, banked, up, stop, crashes>>
  BY DEF Number
<1>7. failures' \in 0..MaxFailures
  BY LedgerAssumption DEF IInv, Shape, Number
<1> QED
  BY <1>1, <1>3, <1>4, <1>5, <1>6, <1>7, WorkerOK

LEMMA JudgeOK == ASSUME IInv, NEW i \in Insts, Judge(i) PROVE IInv' /\ Kept
<1>1. up /\ ~Banked(i) /\ i \notin banked
  BY UpWhileWorking, WorkingIsOwed DEF IInv, Settled, Judge
<1>2. MayBank(i) \subseteq BOOLEAN
  BY Zenon DEF MayBank
<1>3. PICK b \in MayBank(i) : verdict' = [verdict EXCEPT ![i] = b]
  BY DEF Judge
<1>4. verdict \in [Insts -> BOOLEAN]
  BY DEF IInv, Flags
<1>5. b \in BOOLEAN
  BY <1>2, <1>3
<1>6. verdict' \in [Insts -> BOOLEAN]
  BY <1>3, <1>4, <1>5, Zenon
<1>7. \A j \in Insts : j /= i => verdict'[j] = verdict[j]
  BY <1>3, <1>4
<1>8. result' \in [Insts -> Results] /\ attempt' \in [Insts -> Attempts]
  BY DEF IInv, Shape, Judge
<1>9. /\ Goto(i, "judged")
      /\ UNCHANGED <<rows, banked, up, stop, crashes, failures>>
  BY DEF Judge
<1> QED
  BY <1>1, <1>6, <1>7, <1>8, <1>9, WorkerOK DEF IInv, Shape

LEMMA ReceiptOK == ASSUME IInv, NEW i \in Insts, Receipt(i) PROVE IInv' /\ Kept
<1>1. up /\ ~Banked(i) /\ i \notin banked
  BY UpWhileWorking, WorkingIsOwed DEF IInv, Settled, Receipt
<1>2. Commit(Upserted(i, FALSE)) /\ Goto(i, "received")
      /\ UNCHANGED <<banked, up, stop, result, attempt, verdict, crashes>>
  BY DEF Receipt
<1>3. /\ DOMAIN rows' = Insts
      /\ \A j \in Insts : j /= i => rows'[j] = rows[j]
      /\ \A j \in Insts : DOMAIN rows'[j] \subseteq Attempts
      /\ \A j \in Insts : \A n \in DOMAIN rows'[j] : rows'[j][n] \in AllRows
      /\ failures' \in 0..MaxFailures
  BY <1>2, CommitOK
<1>4. ~Banked(i)'
  BY <1>1, <1>2, ReceiptBanksNothing
<1>5. \A j \in Insts : j /= i => (Banked(j)' <=> Banked(j)) /\ NextAttempt(j)' = NextAttempt(j)
  BY <1>3, SameRows
<1>6. /\ at' \in [Insts -> {"idle", "ran", "numbered", "received", "judged", "recorded"}]
      /\ at'[i] = "received" /\ \A j \in Insts : j /= i => at'[j] = at[j]
  BY <1>2 DEF IInv, Shape, Goto
<1>7. Shape'
  BY <1>2, <1>3, <1>6 DEF IInv, Shape
<1>8. Flags' /\ Down'
  BY <1>1, <1>2, Zenon DEF IInv, Flags, Down
<1>9. Numbered'
  BY <1>5, <1>6 DEF IInv, Numbered
<1>10. Known'
  BY <1>2, <1>4, <1>5, <1>6 DEF IInv, Known
<1>11. Settled'
  BY <1>1, <1>2, <1>6 DEF IInv, Shape, Settled
<1>12. Kept
  BY <1>1, <1>5 DEF Kept
<1> QED
  BY <1>7, <1>8, <1>9, <1>10, <1>11, <1>12 DEF IInv

LEMMA RecordOK == ASSUME IInv, NEW i \in Insts, Record(i) PROVE IInv' /\ Kept
<1>1. up /\ ~Banked(i) /\ i \notin banked
  BY UpWhileWorking, WorkingIsOwed DEF IInv, Settled, Record
<1>2. Commit(Upserted(i, verdict[i])) /\ Goto(i, "recorded")
      /\ UNCHANGED <<banked, up, stop, result, attempt, verdict, crashes>>
  BY DEF Record
<1>3. verdict[i] \in BOOLEAN
  BY Zenon DEF IInv, Flags
<1>4. /\ DOMAIN rows' = Insts
      /\ \A j \in Insts : j /= i => rows'[j] = rows[j]
      /\ \A j \in Insts : DOMAIN rows'[j] \subseteq Attempts
      /\ \A j \in Insts : \A n \in DOMAIN rows'[j] : rows'[j][n] \in AllRows
      /\ failures' \in 0..MaxFailures
  BY <1>2, <1>3, CommitOK
<1>5. \/ verdict'[i] = TRUE
      \/ ~Banked(i)'
  <2>1. CASE verdict[i] = TRUE
    BY <1>2, <2>1
  <2>2. CASE verdict[i] = FALSE
    BY <1>1, <1>2, <2>2, ReceiptBanksNothing
  <2> QED
    BY <1>3, <2>1, <2>2
<1>6. \A j \in Insts : j /= i => (Banked(j)' <=> Banked(j)) /\ NextAttempt(j)' = NextAttempt(j)
  BY <1>4, SameRows
<1>7. /\ at' \in [Insts -> {"idle", "ran", "numbered", "received", "judged", "recorded"}]
      /\ at'[i] = "recorded" /\ \A j \in Insts : j /= i => at'[j] = at[j]
  BY <1>2 DEF IInv, Shape, Goto
<1>8. Shape'
  BY <1>2, <1>4, <1>7 DEF IInv, Shape
<1>9. Flags' /\ Down'
  BY <1>1, <1>2, Zenon DEF IInv, Flags, Down
<1>10. Numbered'
  BY <1>6, <1>7 DEF IInv, Numbered
<1>11. Known'
  BY <1>2, <1>5, <1>6, <1>7 DEF IInv, Known
<1>12. Settled'
  BY <1>1, <1>2, <1>7 DEF IInv, Shape, Settled
<1>13. Kept
  BY <1>1, <1>6 DEF Kept
<1> QED
  BY <1>8, <1>9, <1>10, <1>11, <1>12, <1>13 DEF IInv

\* The table stays as it is.
LEMMA TableKept ==
    ASSUME rows' = rows
    PROVE  /\ \A j \in Insts : Banked(j)' <=> Banked(j)
           /\ \A j \in Insts : NextAttempt(j)' = NextAttempt(j)
           /\ Kept
  BY SameRows DEF Kept

LEMMA ApplyOK == ASSUME IInv, NEW i \in Insts, Apply(i) PROVE IInv' /\ Kept
<1>1. /\ at[i] = "recorded" /\ at' = [at EXCEPT ![i] = "idle"]
      /\ banked' = (IF verdict[i] THEN banked \cup {i} ELSE banked)
      /\ UNCHANGED <<rows, up, result, attempt, verdict, crashes, failures>>
  BY DEF Apply
<1>2. up
  BY <1>1, UpWhileWorking
<1>3. /\ \A j \in Insts : Banked(j)' <=> Banked(j)
      /\ \A j \in Insts : NextAttempt(j)' = NextAttempt(j)
      /\ Kept
  BY <1>1, TableKept
<1>4. /\ at' \in [Insts -> {"idle", "ran", "numbered", "received", "judged", "recorded"}]
      /\ at'[i] = "idle" /\ \A j \in Insts : j /= i => at'[j] = at[j]
  BY <1>1 DEF IInv, Shape
<1>5. Shape'
  BY <1>1, <1>4 DEF IInv, Shape
<1>6. Flags'
  <2>1. stop' \in BOOLEAN
    BY Zenon DEF Apply
  <2> QED
    BY <1>1, <2>1, Zenon DEF IInv, Flags
<1>7. Down' /\ Numbered'
  BY <1>1, <1>2, <1>3, <1>4 DEF IInv, Down, Numbered
<1>8. Known'
  BY <1>1, <1>3, <1>4 DEF IInv, Known
<1>9. Settled'
  BY <1>1, <1>4 DEF IInv, Shape, Settled
<1> QED
  BY <1>3, <1>5, <1>6, <1>7, <1>8, <1>9 DEF IInv

LEMMA CrashOK == ASSUME IInv, Crash PROVE IInv' /\ Kept
<1>1. /\ up' = FALSE /\ stop' = FALSE /\ banked' = {}
      /\ at' = [j \in Insts |-> "idle"]
      /\ UNCHANGED <<rows, result, attempt, verdict, failures>>
      /\ crashes < MaxCrashes /\ crashes' = crashes + 1
  BY DEF Crash
<1>2. Kept
  BY <1>1, TableKept
<1>3. Shape'
  BY <1>1, LedgerAssumption DEF IInv, Shape
<1>4. Flags'
  BY <1>1, Zenon DEF IInv, Flags
<1>5. Down' /\ Numbered' /\ Known' /\ Settled'
  BY <1>1 DEF Down, Numbered, Known, Settled
<1> QED
  BY <1>2, <1>3, <1>4, <1>5 DEF IInv

LEMMA RestartOK == ASSUME IInv, Restart PROVE IInv' /\ Kept
<1>1. /\ ~up /\ up' = TRUE
      /\ banked' = {j \in Insts : Banked(j)}
      /\ UNCHANGED <<rows, stop, at, result, attempt, verdict, crashes, failures>>
  BY DEF Restart, worker
<1>2. \A j \in Insts : at[j] = "idle"
  BY <1>1 DEF IInv, Down
<1>3. /\ \A j \in Insts : Banked(j)' <=> Banked(j)
      /\ \A j \in Insts : NextAttempt(j)' = NextAttempt(j)
      /\ Kept
  BY <1>1, TableKept
<1>4. Shape'
  BY <1>1 DEF IInv, Shape
<1>5. Flags'
  BY <1>1, Zenon DEF IInv, Flags
<1>6. Down' /\ Numbered' /\ Known' /\ Settled'
  BY <1>1, <1>2, <1>3 DEF Down, Numbered, Known, Settled
<1> QED
  BY <1>3, <1>4, <1>5, <1>6 DEF IInv

LEMMA StutterOK == ASSUME IInv, UNCHANGED vars PROVE IInv' /\ Kept
<1>1. UNCHANGED <<rows, banked, up, stop, at, result, attempt, verdict, crashes, failures>>
  BY DEF vars, worker
<1>2. /\ \A j \in Insts : Banked(j)' <=> Banked(j)
      /\ \A j \in Insts : NextAttempt(j)' = NextAttempt(j)
      /\ Kept
  BY <1>1, TableKept
<1>3. Shape' /\ Down' /\ Settled'
  BY <1>1 DEF IInv, Shape, Down, Settled
<1>4. Flags'
  BY <1>1, Zenon DEF IInv, Flags
<1>5. Numbered' /\ Known'
  BY <1>1, <1>2 DEF IInv, Numbered, Known
<1> QED
  BY <1>2, <1>3, <1>4, <1>5 DEF IInv

LEMMA StepOK == IInv /\ [Next]_vars => IInv' /\ Kept
  BY MeasureOK, NumberOK, ReceiptOK, JudgeOK, RecordOK, ApplyOK, CrashOK, RestartOK,
     StutterOK DEF Next, RunOne

LEMMA Inductive == Spec => []IInv
<1>1. IInv /\ [Next]_vars => IInv'
  BY StepOK
<1> QED
  BY InitOK, <1>1, PTL DEF Spec

-----------------------------------------------------------------------------
(* What is on record of one instance while its worker goes on.  A number is *)
(* past every row there is, unless its query failed and was answered with 1. *)

Highest(i, n) == \A m \in Done(i) : m <= n

HasHighest(i) == Done(i) = {} \/ \E n \in Done(i) : Highest(i, n)

NumberIsNew(i) ==
    at[i] \in {"numbered", "received", "judged", "recorded"} =>
        /\ attempt[i] = 1 \/ Highest(i, attempt[i])
        /\ failures = 0 => Highest(i, attempt[i])
        /\ at[i] = "numbered" => attempt[i] = 1 \/ attempt[i] \notin Done(i)
        /\ at[i] \in {"received", "judged"} /\ attempt[i] \in Done(i) =>
              attempt[i] = 1 \/ rows[i][attempt[i]].result = result[i]

BankedIsHighest(i) == \A n \in Done(i) : rows[i][n].banked => n = 1 \/ Highest(i, n)

\* Another solo run than n is on record.
Seconded(i, n) == \E m \in Done(i) \ {n} : rows[i][m].result.solo

VerdictSeconded(i) ==
    at[i] = "judged" /\ verdict[i] = TRUE /\ ~result[i].solved /\ i \in PriorSolved =>
        Seconded(i, attempt[i])

MissSeconded(i) ==
    i \in PriorSolved =>
        \A n \in Done(i) : rows[i][n].banked /\ ~rows[i][n].result.solved => Seconded(i, n)

Remembered(i) ==
    failures = 0 /\ (i \in banked \/ (at[i] = "recorded" /\ verdict[i] = TRUE)) => Banked(i)

OnRecord(i) == /\ HasHighest(i) /\ NumberIsNew(i) /\ BankedIsHighest(i)
               /\ VerdictSeconded(i) /\ MissSeconded(i) /\ Remembered(i)

\* Nothing of the instance changes but, perhaps, the count of failures.
LEMMA OtherOnRecord ==
    ASSUME NEW i \in Insts, OnRecord(i), rows'[i] = rows[i], at'[i] = at[i],
           attempt'[i] = attempt[i], result'[i] = result[i], verdict'[i] = verdict[i],
           i \in banked' <=> i \in banked, failures' = 0 => failures = 0
    PROVE  OnRecord(i)'
<1>1. /\ Done(i)' = Done(i) /\ (Banked(i)' <=> Banked(i))
      /\ \A n : Highest(i, n)' <=> Highest(i, n)
      /\ \A n : Seconded(i, n)' <=> Seconded(i, n)
  BY SameRows DEF Highest, Seconded, Done
<1>2. HasHighest(i)' /\ BankedIsHighest(i)' /\ MissSeconded(i)'
  BY <1>1 DEF OnRecord, HasHighest, BankedIsHighest, MissSeconded
<1>3. NumberIsNew(i)'
  BY <1>1 DEF OnRecord, NumberIsNew
<1>4. VerdictSeconded(i)' /\ Remembered(i)'
  BY <1>1 DEF OnRecord, VerdictSeconded, Remembered
<1> QED
  BY <1>2, <1>3, <1>4 DEF OnRecord

\* The worker moves on, the table stays: what is claimed of the table stays.
LEMMA TableOnRecord ==
    ASSUME NEW i \in Insts, OnRecord(i), rows'[i] = rows[i]
    PROVE  /\ HasHighest(i)' /\ BankedIsHighest(i)' /\ MissSeconded(i)'
           /\ Done(i)' = Done(i) /\ (Banked(i)' <=> Banked(i))
           /\ \A n : Highest(i, n)' <=> Highest(i, n)
           /\ \A n : Seconded(i, n)' <=> Seconded(i, n)
<1>1. /\ Done(i)' = Done(i) /\ (Banked(i)' <=> Banked(i))
      /\ \A n : Highest(i, n)' <=> Highest(i, n)
      /\ \A n : Seconded(i, n)' <=> Seconded(i, n)
  BY SameRows DEF Highest, Seconded, Done
<1> QED
  BY <1>1 DEF OnRecord, HasHighest, BankedIsHighest, MissSeconded

LEMMA NextIsNew ==
    ASSUME IInv, NEW i \in Insts, HasHighest(i)
    PROVE  Highest(i, NextAttempt(i)) /\ NextAttempt(i) \notin Done(i)
<1>1. Done(i) \subseteq Int
  BY AttemptsAreNumbers DEF IInv, Shape, Done
<1>2. CASE Done(i) = {}
  BY <1>2 DEF Highest
<1>3. CASE Done(i) /= {}
  <2>1. \E n \in Done(i) : \A m \in Done(i) : n >= m
    BY <1>1, <1>3 DEF HasHighest, Highest
  <2>2. Max(Done(i)) \in Done(i) /\ \A m \in Done(i) : Max(Done(i)) >= m
    BY <2>1 DEF Max
  <2> QED
    BY <1>1, <1>3, <2>2 DEF NextAttempt, Highest
<1> QED
  BY <1>2, <1>3

\* Two attempts are another one than any.
LEMMA TwoAreAnother ==
    ASSUME IInv, NEW i \in Insts, SoloAttempts(i) >= 2, NEW n
    PROVE  Seconded(i, n)
<1> DEFINE S == {m \in Done(i) : rows[i][m].result.solo}
<1>1. IsFiniteSet({n}) /\ Cardinality({n}) = 1
  BY FS_Singleton
<1>2. CASE S \subseteq {n}
  <2>1. IsFiniteSet(S) /\ Cardinality(S) <= Cardinality({n}) /\ Cardinality(S) \in Nat
    BY <1>1, <1>2, FS_Subset, FS_CardinalityType
  <2> QED
    BY <1>1, <2>1 DEF SoloAttempts
<1> QED
  BY <1>2 DEF Seconded

\* A row under the worker's number joins the table, or takes the place of one.
LEMMA RowPut ==
    ASSUME IInv, NEW i \in Insts, NEW b \in BOOLEAN, rows' = Upserted(i, b)
    PROVE  /\ Done(i)' = Done(i) \cup {attempt[i]}
           /\ rows'[i][attempt[i]] = Row(result[i], b)
           /\ \A n \in Done(i) : n /= attempt[i] => rows'[i][n] = rows[i][n]
           /\ \A j \in Insts : j /= i => rows'[j] = rows[j]
<1>1. DOMAIN rows = Insts
  BY DEF IInv, Shape
<1>2. rows'[i] = [n \in Done(i) \cup {attempt[i]} |->
                    IF n = attempt[i] THEN Row(result[i], b) ELSE rows[i][n]]
      /\ \A j \in Insts : j /= i => rows'[j] = rows[j]
  BY <1>1 DEF Upserted
<1> QED
  BY <1>2 DEF Done

\* What the table claims after a row is put: when the instance was not banked and
\* a witness that is replaced is replaced by its own result.
LEMMA PutOnRecord ==
    ASSUME IInv, NEW i \in Insts, NEW b \in BOOLEAN, rows' = Upserted(i, b), OnRecord(i), attempt' = attempt,
           ~Banked(i), at[i] \in {"numbered", "judged"},
           b = TRUE => at[i] = "judged" /\ verdict[i] = TRUE
    PROVE  /\ HasHighest(i)' /\ BankedIsHighest(i)' /\ MissSeconded(i)'
           /\ attempt[i] = 1 \/ Highest(i, attempt[i])'
           /\ failures = 0 => Highest(i, attempt[i])'
           /\ rows'[i][attempt[i]].result = result[i]
           /\ failures = 0 /\ b = TRUE => Banked(i)'
<1> DEFINE a == attempt[i]
<1>1. /\ Done(i)' = Done(i) \cup {a} /\ rows'[i][a] = Row(result[i], b)
      /\ \A n \in Done(i) : n /= a => rows'[i][n] = rows[i][n]
  BY RowPut
<1>2. Done(i) \subseteq Int /\ a \in Int /\ a >= 1 /\ a' = a /\ \A n \in Done(i) : n >= 1
  BY LedgerAssumption DEF IInv, Shape, Done, Attempts
<1>3. (a = 1 \/ Highest(i, a)) /\ (failures = 0 => Highest(i, a))
  BY DEF OnRecord, NumberIsNew
<1>4. (a = 1 \/ Highest(i, a)') /\ (failures = 0 => Highest(i, a)')
  BY <1>1, <1>2, <1>3 DEF Highest
<1>5. rows'[i][a].result = result[i] /\ rows'[i][a].banked = b
  BY <1>1 DEF Row
<1>6. HasHighest(i)'
  <2>1. CASE Highest(i, a)'
    BY <1>1, <2>1 DEF HasHighest
  <2>2. CASE a = 1 /\ Done(i) = {}
    BY <1>1, <1>2, <2>2 DEF HasHighest, Highest
  <2>3. CASE a = 1 /\ Done(i) /= {}
    <3>1. PICK n \in Done(i) : Highest(i, n)
      BY <2>3 DEF OnRecord, HasHighest
    <3> QED
      BY <1>1, <1>2, <2>3, <3>1 DEF HasHighest, Highest
  <2> QED
    BY <1>4, <2>1, <2>2, <2>3
\* A banked row that was there before is attempt 1.
<1>7. \A n \in Done(i) : rows[i][n].banked => n = 1
  BY DEF OnRecord, BankedIsHighest, Banked, Highest
<1>8. BankedIsHighest(i)'
  BY <1>1, <1>2, <1>4, <1>5, <1>7 DEF BankedIsHighest
<1>9. ASSUME i \in PriorSolved, NEW n \in Done(i)', rows'[i][n].banked,
             ~rows'[i][n].result.solved
      PROVE  Seconded(i, n)'
  <2>1. CASE n = a
    <3>1. b = TRUE
      BY <1>5, <1>9, <2>1
    <3>2. PICK m \in Done(i) \ {a} : rows[i][m].result.solo
      BY <1>5, <1>9, <2>1, <3>1 DEF OnRecord, VerdictSeconded, Seconded
    <3> QED
      BY <1>1, <2>1, <3>2 DEF Seconded
  <2>2. CASE n /= a
    <3>1. n \in Done(i) /\ rows'[i][n] = rows[i][n]
      BY <1>1, <2>2
    <3>2. n = 1
      BY <1>7, <1>9, <3>1
    <3>3. PICK m \in Done(i) \ {n} : rows[i][m].result.solo
      BY <1>9, <3>1 DEF OnRecord, MissSeconded, Seconded
    <3>4. CASE m /= a
      BY <1>1, <3>3, <3>4 DEF Seconded
    <3>5. CASE m = a
      <4>1. a /= 1 /\ a \in Done(i)
        BY <2>2, <3>2, <3>3, <3>5
      <4>2. rows[i][a].result = result[i]
        BY <4>1 DEF OnRecord, NumberIsNew
      <4> QED
        BY <1>1, <1>5, <2>2, <3>3, <3>5, <4>2 DEF Seconded
    <3> QED
      BY <3>4, <3>5
  <2> QED
    BY <2>1, <2>2
<1>10. failures = 0 /\ b = TRUE => Banked(i)'
  BY <1>1, <1>2, <1>4, <1>5 DEF Banked, Highest
<1> QED
  BY <1>4, <1>5, <1>6, <1>8, <1>9, <1>10 DEF MissSeconded

AllOnRecord == \A i \in Insts : OnRecord(i)

\* A step of one worker: the others' instances are as they were.
LEMMA OneWorker ==
    ASSUME IInv, AllOnRecord, NEW i \in Insts, OnRecord(i)',
           \A j \in Insts : j /= i =>
               /\ rows'[j] = rows[j] /\ at'[j] = at[j] /\ attempt'[j] = attempt[j]
               /\ result'[j] = result[j] /\ verdict'[j] = verdict[j]
               /\ j \in banked' <=> j \in banked,
           failures' = 0 => failures = 0
    PROVE  AllOnRecord'
<1>1. \A j \in Insts : j /= i => OnRecord(j)'
  BY OtherOnRecord DEF AllOnRecord
<1> QED
  BY <1>1 DEF AllOnRecord

LEMMA FailuresGrow ==
    ASSUME IInv, NEW i \in Insts, RunOne(i)
    PROVE  failures' = 0 => failures = 0
<1>1. failures \in Nat
  BY LedgerAssumption DEF IInv, Shape
<1>2. failures' = failures \/ failures' = failures + 1
  BY DEF RunOne, Measure, Number, Receipt, Judge, Record, Apply, Commit
<1> QED
  BY <1>1, <1>2

LEMMA MeasureRecords == ASSUME IInv, AllOnRecord, NEW i \in Insts, Measure(i) PROVE AllOnRecord'
<1>1. /\ UNCHANGED <<rows, banked, attempt, verdict, failures>> /\ at[i] = "idle" /\ i \notin banked
      /\ at' = [at EXCEPT ![i] = "ran"]
      /\ \A j \in Insts : j /= i => result'[j] = result[j]
  BY DEF Measure, Goto, IInv, Shape
<1>2. at'[i] = "ran" /\ \A j \in Insts : j /= i => at'[j] = at[j]
  BY <1>1 DEF IInv, Shape
<1>3. HasHighest(i)' /\ BankedIsHighest(i)' /\ MissSeconded(i)'
  BY <1>1, TableOnRecord DEF AllOnRecord
<1>4. NumberIsNew(i)' /\ VerdictSeconded(i)' /\ Remembered(i)'
  BY <1>1, <1>2 DEF NumberIsNew, VerdictSeconded, Remembered
<1> QED
  BY <1>1, <1>2, <1>3, <1>4, OneWorker DEF OnRecord

LEMMA NumberRecords == ASSUME IInv, AllOnRecord, NEW i \in Insts, Number(i) PROVE AllOnRecord'
<1>1. /\ UNCHANGED <<rows, banked, result, verdict>>
      /\ at' = [at EXCEPT ![i] = "numbered"]
      /\ \A j \in Insts : j /= i => attempt'[j] = attempt[j]
  BY DEF Number, Goto, IInv, Shape
<1>2. at'[i] = "numbered" /\ i \notin banked /\ \A j \in Insts : j /= i => at'[j] = at[j]
  BY <1>1 DEF IInv, Shape, Settled, Number
<1>3. /\ HasHighest(i)' /\ BankedIsHighest(i)' /\ MissSeconded(i)' /\ Done(i)' = Done(i)
      /\ \A n : Highest(i, n)' <=> Highest(i, n)
  BY <1>1, TableOnRecord DEF AllOnRecord
<1>4. Highest(i, NextAttempt(i)) /\ NextAttempt(i) \notin Done(i)
  BY NextIsNew DEF AllOnRecord, OnRecord
<1>5. (attempt'[i] = NextAttempt(i) /\ failures' = failures)
      \/ (attempt'[i] = 1 /\ failures' /= 0)
  BY DEF Number, IInv, Shape
<1>6. Highest(i, attempt[i])' <=> Highest(i, attempt'[i])
  BY <1>1 DEF Highest, Done
<1>7. NumberIsNew(i)'
  BY <1>2, <1>3, <1>4, <1>5, <1>6 DEF NumberIsNew
<1>8. VerdictSeconded(i)' /\ Remembered(i)'
  BY <1>1, <1>2 DEF VerdictSeconded, Remembered
<1>9. failures' = 0 => failures = 0
  BY FailuresGrow DEF RunOne
<1> QED
  BY <1>1, <1>2, <1>3, <1>7, <1>8, <1>9, OneWorker DEF OnRecord

LEMMA ReceiptRecords == ASSUME IInv, AllOnRecord, NEW i \in Insts, Receipt(i) PROVE AllOnRecord'
<1>1. /\ UNCHANGED <<banked, result, attempt, verdict>> /\ Commit(Upserted(i, FALSE))
      /\ at[i] = "numbered" /\ at' = [at EXCEPT ![i] = "received"]
  BY DEF Receipt, Goto
<1>2. at'[i] = "received" /\ i \notin banked /\ \A j \in Insts : j /= i => at'[j] = at[j]
  BY <1>1 DEF IInv, Shape, Settled
<1>3. ~Banked(i)
  BY <1>1, UpWhileWorking, WorkingIsOwed
<1>4. failures' = 0 => failures = 0
  BY FailuresGrow DEF RunOne
<1>5. \A j \in Insts : j /= i => rows'[j] = rows[j]
  BY <1>1, CommitOK
<1>6. VerdictSeconded(i)' /\ Remembered(i)'
  BY <1>1, <1>2 DEF VerdictSeconded, Remembered
<1>7. CASE rows' = rows
  <2>1. /\ HasHighest(i)' /\ BankedIsHighest(i)' /\ MissSeconded(i)' /\ Done(i)' = Done(i)
        /\ \A n : Highest(i, n)' <=> Highest(i, n)
    BY <1>7, TableOnRecord DEF AllOnRecord
  <2>2. NumberIsNew(i)'
    BY <1>1, <1>2, <1>4, <1>7, <2>1 DEF AllOnRecord, OnRecord, NumberIsNew
  <2> QED
    BY <1>1, <1>2, <1>4, <1>5, <1>6, <2>1, <2>2, OneWorker DEF OnRecord
<1>8. CASE rows' = Upserted(i, FALSE)
  <2>1. /\ HasHighest(i)' /\ BankedIsHighest(i)' /\ MissSeconded(i)'
        /\ attempt[i] = 1 \/ Highest(i, attempt[i])'
        /\ failures = 0 => Highest(i, attempt[i])'
        /\ rows'[i][attempt[i]].result = result[i]
    BY <1>1, <1>3, <1>8, PutOnRecord DEF AllOnRecord
  <2>2. NumberIsNew(i)'
    BY <1>1, <1>2, <1>4, <2>1 DEF NumberIsNew
  <2> QED
    BY <1>1, <1>2, <1>4, <1>5, <1>6, <2>1, <2>2, OneWorker DEF OnRecord
<1> QED
  BY <1>1, <1>7, <1>8 DEF Commit

LEMMA JudgeRecords == ASSUME IInv, AllOnRecord, NEW i \in Insts, Judge(i) PROVE AllOnRecord'
<1>1. /\ UNCHANGED <<rows, banked, result, attempt, failures>>
      /\ at[i] = "received" /\ at' = [at EXCEPT ![i] = "judged"]
  BY DEF Judge, Goto
<1>2. at'[i] = "judged" /\ i \notin banked /\ \A j \in Insts : j /= i => at'[j] = at[j]
  BY <1>1 DEF IInv, Shape, Settled
<1>3. PICK b \in MayBank(i) : verdict' = [verdict EXCEPT ![i] = b]
  BY DEF Judge
<1>4. verdict'[i] = b /\ \A j \in Insts : j /= i => verdict'[j] = verdict[j]
  BY <1>3 DEF IInv, Flags
<1>5. /\ HasHighest(i)' /\ BankedIsHighest(i)' /\ MissSeconded(i)' /\ Done(i)' = Done(i)
      /\ \A n : Highest(i, n)' <=> Highest(i, n)
      /\ \A n : Seconded(i, n)' <=> Seconded(i, n)
  BY <1>1, TableOnRecord DEF AllOnRecord
<1>6. NumberIsNew(i)'
  BY <1>1, <1>2, <1>5 DEF AllOnRecord, OnRecord, NumberIsNew
<1>7. VerdictSeconded(i)'
  <2>1. ASSUME b = TRUE, ~result[i].solved, i \in PriorSolved
        PROVE  Seconded(i, attempt[i])
    <3>1. SoloAttempts(i) \in Nat
      <4>1. {n \in Done(i) : rows[i][n].result.solo} \in SUBSET (1..MaxAttempts)
        BY DEF IInv, Shape, Done, Attempts
      <4>2. IsFiniteSet(1..MaxAttempts)
        BY FS_Interval, LedgerAssumption
      <4> QED
        BY <4>1, <4>2, FS_Subset, FS_CardinalityType DEF SoloAttempts
    <3>2. ~(SoloAttempts(i) < 2)
      BY <1>3, <2>1 DEF MayBank
    <3> QED
      BY <3>1, <3>2, TwoAreAnother
  <2> QED
    BY <1>1, <1>2, <1>4, <1>5, <2>1 DEF VerdictSeconded, Seconded
<1>8. Remembered(i)'
  BY <1>1, <1>2 DEF Remembered
<1> QED
  BY <1>1, <1>2, <1>4, <1>5, <1>6, <1>7, <1>8, OneWorker DEF OnRecord

LEMMA RecordRecords == ASSUME IInv, AllOnRecord, NEW i \in Insts, Record(i) PROVE AllOnRecord'
<1>1. /\ UNCHANGED <<banked, result, attempt, verdict>> /\ Commit(Upserted(i, verdict[i]))
      /\ at[i] = "judged" /\ at' = [at EXCEPT ![i] = "recorded"]
  BY DEF Record, Goto
<1>2. at'[i] = "recorded" /\ i \notin banked /\ \A j \in Insts : j /= i => at'[j] = at[j]
  BY <1>1 DEF IInv, Shape, Settled
<1>3. ~Banked(i) /\ verdict[i] \in BOOLEAN
  <2>1. verdict[i] \in BOOLEAN
    BY Zenon DEF IInv, Flags
  <2> QED
    BY <1>1, <2>1, UpWhileWorking, WorkingIsOwed
<1>4. failures' = 0 => failures = 0
  BY FailuresGrow DEF RunOne
<1>5. \A j \in Insts : j /= i => rows'[j] = rows[j]
  BY <1>1, <1>3, CommitOK
<1>6. VerdictSeconded(i)'
  BY <1>2 DEF VerdictSeconded
<1>7. CASE rows' = rows /\ failures' /= 0
  <2>1. /\ HasHighest(i)' /\ BankedIsHighest(i)' /\ MissSeconded(i)' /\ Done(i)' = Done(i)
        /\ \A n : Highest(i, n)' <=> Highest(i, n)
    BY <1>7, TableOnRecord DEF AllOnRecord
  <2>2. NumberIsNew(i)' /\ Remembered(i)'
    BY <1>1, <1>2, <1>7, <2>1 DEF AllOnRecord, OnRecord, NumberIsNew, Remembered
  <2> QED
    BY <1>1, <1>2, <1>4, <1>5, <1>6, <2>1, <2>2, OneWorker DEF OnRecord
<1>8. CASE rows' = Upserted(i, verdict[i])
  <2>1. /\ HasHighest(i)' /\ BankedIsHighest(i)' /\ MissSeconded(i)'
        /\ attempt[i] = 1 \/ Highest(i, attempt[i])'
        /\ failures = 0 => Highest(i, attempt[i])'
        /\ failures = 0 /\ verdict[i] = TRUE => Banked(i)'
    BY <1>1, <1>3, <1>8, PutOnRecord DEF AllOnRecord
  <2>2. NumberIsNew(i)' /\ Remembered(i)'
    BY <1>1, <1>2, <1>4, <2>1 DEF NumberIsNew, Remembered
  <2> QED
    BY <1>1, <1>2, <1>4, <1>5, <1>6, <2>1, <2>2, OneWorker DEF OnRecord
<1>9. rows' = Upserted(i, verdict[i]) \/ (rows' = rows /\ failures' /= 0)
  BY <1>1 DEF Commit, IInv, Shape
<1> QED
  BY <1>7, <1>8, <1>9

LEMMA ApplyRecords == ASSUME IInv, AllOnRecord, NEW i \in Insts, Apply(i) PROVE AllOnRecord'
<1>1. /\ UNCHANGED <<rows, result, attempt, verdict, failures>>
      /\ banked' = (IF verdict[i] THEN banked \cup {i} ELSE banked)
      /\ at[i] = "recorded" /\ at' = [at EXCEPT ![i] = "idle"]
  BY DEF Apply
<1>2. at'[i] = "idle" /\ \A j \in Insts : j /= i => at'[j] = at[j]
  BY <1>1 DEF IInv, Shape
<1>3. /\ HasHighest(i)' /\ BankedIsHighest(i)' /\ MissSeconded(i)' /\ (Banked(i)' <=> Banked(i))
  BY <1>1, TableOnRecord DEF AllOnRecord
<1>4. NumberIsNew(i)' /\ VerdictSeconded(i)'
  BY <1>2 DEF NumberIsNew, VerdictSeconded
<1>5. Remembered(i)'
  <2>1. CASE verdict[i] = TRUE
    BY <1>1, <1>2, <1>3, <2>1 DEF AllOnRecord, OnRecord, Remembered
  <2>2. CASE verdict[i] = FALSE
    BY <1>1, <1>2, <1>3, <2>2 DEF AllOnRecord, OnRecord, Remembered
  <2>3. verdict[i] \in BOOLEAN
    BY Zenon DEF IInv, Flags
  <2> QED
    BY <2>1, <2>2, <2>3
<1>6. \A j \in Insts : j /= i => (j \in banked' <=> j \in banked)
  BY <1>1
<1> QED
  BY <1>1, <1>2, <1>3, <1>4, <1>5, <1>6, OneWorker DEF OnRecord

LEMMA CrashRecords == ASSUME IInv, AllOnRecord, Crash \/ Restart PROVE AllOnRecord'
<1> SUFFICES ASSUME NEW i \in Insts PROVE OnRecord(i)'
  BY DEF AllOnRecord
<1>1. /\ UNCHANGED <<rows, result, attempt, verdict, failures>>
      /\ at'[i] = "idle" /\ (i \in banked' => Banked(i))
  <2>1. CASE Crash
    BY <2>1 DEF Crash
  <2>2. CASE Restart
    BY <2>2 DEF Restart, worker, IInv, Down
  <2> QED
    BY <2>1, <2>2
<1>2. /\ HasHighest(i)' /\ BankedIsHighest(i)' /\ MissSeconded(i)' /\ (Banked(i)' <=> Banked(i))
  BY <1>1, TableOnRecord DEF AllOnRecord
<1>3. NumberIsNew(i)' /\ VerdictSeconded(i)' /\ Remembered(i)'
  BY <1>1, <1>2 DEF NumberIsNew, VerdictSeconded, Remembered
<1> QED
  BY <1>2, <1>3 DEF OnRecord

LEMMA RecordHolds == Spec => []AllOnRecord
<1>1. Init => AllOnRecord
  BY DEF Init, AllOnRecord, OnRecord, HasHighest, NumberIsNew, BankedIsHighest, VerdictSeconded,
         MissSeconded, Remembered, Done
<1>2. ASSUME IInv, AllOnRecord, Next PROVE AllOnRecord'
  BY <1>2, MeasureRecords, NumberRecords, ReceiptRecords, JudgeRecords, RecordRecords,
     ApplyRecords, CrashRecords DEF Next, RunOne
<1>3. ASSUME AllOnRecord, UNCHANGED vars PROVE AllOnRecord'
  <2>1. UNCHANGED <<rows, banked, at, attempt, result, verdict, failures>>
    BY <1>3 DEF vars, worker
  <2> QED
    BY <1>3, <2>1, OtherOnRecord DEF AllOnRecord
<1> QED
  BY <1>1, <1>2, <1>3, Inductive, PTL DEF Spec

\* Types of the table, of the runner and of the workers; a process that is down
\* remembers nothing.
THEOREM TypeCorrect == Spec => []TypeOK
<1>1. IInv => TypeOK
  BY TypeSplit DEF IInv
<1> QED
  BY <1>1, Inductive, PTL

\* Computed work is never lost: whatever crashes between two commits, fails to
\* commit or is numbered wrongly, an instance on record as banked stays so.
THEOREM WorkIsNeverLost == Spec => BankedStaysBanked
<1>1. IInv /\ [Next]_vars => [\A i \in Insts : Banked(i) => Banked(i)']_vars
  BY StepOK DEF Kept
<1> QED
  BY <1>1, Inductive, PTL DEF Spec, BankedStaysBanked

\* Unless the database failed it, every instance the runner has taken off the batch
\* is found banked by a restart.
THEOREM MemoryIsBacked == Spec => []MemoryIsOnRecord
<1>1. AllOnRecord /\ IInv => MemoryIsOnRecord
  BY DEF AllOnRecord, OnRecord, Remembered, MemoryIsOnRecord, IInv, Shape
<1> QED
  BY <1>1, RecordHolds, Inductive, PTL

\* A miss that contradicts the predecessor is banked only beside another solo row,
\* also when rows are put in the place of others by a wrong number.
THEOREM MissIsSeconded == Spec => []ContradictionConfirmed
<1>1. AllOnRecord => ContradictionConfirmed
  BY LedgerAssumption DEF AllOnRecord, OnRecord, MissSeconded, Seconded, ContradictionConfirmed
<1> QED
  BY <1>1, RecordHolds, PTL
=============================================================================
