------------------------------ MODULE ExecProofs ------------------------------
(* Proofs about the processes crucible starts: whom the reaper of a next start *)
(* may kill and misses (LiveChildren), and the clock of the one that runs      *)
(* (ExecChild).                                                                *)
EXTENDS LiveChildren, ExecChild, TLAPS

-----------------------------------------------------------------------------
(* The table of live children, for any workers, pids and bounds.             *)

LEMMA Identities ==
    ASSUME NEW p \in Process
    PROVE  /\ p /= None /\ Ident(p) \in Identity /\ p.ours \in BOOLEAN
           /\ Ident(p).start = p.start /\ p.start \in 0..MaxClock
  BY DEF Process, Identity, None, Ident

LEMMA Born ==
    ASSUME NEW path \in {"ff", "editor"}, NEW ours \in BOOLEAN, NEW t \in 0..MaxClock
    PROVE  [path |-> path, start |-> t, ours |-> ours] \in Process
<1>1. [path |-> path, start |-> t] \in Identity
  BY DEF Identity
<1>2. /\ [path |-> path, start |-> t].path = path
      /\ [path |-> path, start |-> t].start = t
  OBVIOUS
<1> QED  BY <1>1, <1>2 DEF Process

\* What a new process under a pid leaves of the types.
LEMMA BeginTypes ==
    ASSUME TypeOK, NEW p \in Pids, NEW path \in {"ff", "editor"}, NEW ours \in BOOLEAN,
           Begin(p, path, ours)
    PROVE  /\ proc' \in [Pids -> Process \cup {None}]
           /\ lastUsed' \in [Pids -> -1..MaxClock]
           /\ slipped' \subseteq Pids /\ robbed' \subseteq Pids
<1>1. now \in 0..MaxClock /\ MaxClock \in Nat
  BY ChildrenAssumption DEF TypeOK
<1>2. [path |-> path, start |-> now, ours |-> ours] \in Process
  BY <1>1, Born
<1>3. proc' \in [Pids -> Process \cup {None}]
  BY <1>2 DEF TypeOK, Begin
<1>4. lastUsed' \in [Pids -> -1..MaxClock]
  BY <1>1 DEF TypeOK, Begin
<1> QED  BY <1>3, <1>4 DEF TypeOK, Begin

\* A worker's planner lives, and is no other worker's: kept with the types,
\* since a row is an identity only if there is a process to take it from.
Running(w) == at[w] \in {"spawned", "running"}
Supervised ==
    /\ \A w \in Workers : Running(w) => proc[child[w]] /= None /\ proc[child[w]].ours
    /\ \A w, v \in Workers : Running(w) /\ Running(v) /\ w /= v => child[w] /= child[v]

Base == TypeOK /\ Supervised

LEMMA SpawnBase == ASSUME Base, NEW w \in Workers, Spawn(w) PROVE Base'
<1>1. PICK p \in Pids : /\ Free(p) /\ Begin(p, "ff", TRUE)
                        /\ child' = [child EXCEPT ![w] = p]
  BY DEF Spawn
<1>2. /\ proc' \in [Pids -> Process \cup {None}]
      /\ lastUsed' \in [Pids -> -1..MaxClock]
      /\ slipped' \subseteq Pids /\ robbed' \subseteq Pids
  BY <1>1, BeginTypes DEF Base
<1>3. /\ at' \in [Workers -> {"idle", "spawned", "running", "ended"}]
      /\ child' \in [Workers -> Pids]
  BY <1>1 DEF Base, TypeOK, Spawn, Goto
<1>4. TypeOK'
  BY <1>2, <1>3 DEF Base, TypeOK, Spawn, counts
<1>5. /\ proc'[p] /= None /\ proc'[p].ours /\ proc[p] = None
      /\ \A q \in Pids \ {p} : proc'[q] = proc[q]
  BY <1>1 DEF Base, TypeOK, Begin, None, Free
<1>6. /\ child'[w] = p
      /\ \A v \in Workers \ {w} : child'[v] = child[v] /\ at'[v] = at[v]
  BY <1>1 DEF Base, TypeOK, Spawn, Goto
<1>7. \A v \in Workers \ {w} : Running(v) => child[v] \in Pids \ {p}
  BY <1>5 DEF Base, Supervised, TypeOK
<1>8. Supervised'
  BY <1>5, <1>6, <1>7 DEF Base, Supervised, Running
<1> QED  BY <1>4, <1>8 DEF Base

\* What a registration leaves: the row of its planner, or a planner without one.
LEMMA Registration ==
    ASSUME Base, NEW w \in Workers, Register(w)
    PROVE  /\ at[w] = "spawned" /\ at' = [at EXCEPT ![w] = "running"]
           /\ UNCHANGED <<proc, lastUsed, now, up, visited, child, reaped, robbed>>
           /\ UNCHANGED <<crashes, reboots>>
           /\ child[w] \in Pids /\ proc[child[w]] \in Process /\ proc[child[w]].ours
           /\ \/ table' = Row(child[w]) /\ slipped' = slipped
              \/ table' = table /\ slipped' = slipped \cup {child[w]}
  BY DEF Register, Goto, kernel, counts, Base, TypeOK, Supervised, Running

LEMMA RowIs ==
    ASSUME NEW p
    PROVE  /\ DOMAIN Row(p) = DOMAIN table \cup {p} /\ Row(p)[p] = Ident(proc[p])
           /\ \A q \in DOMAIN table \ {p} : Row(p)[q] = table[q]
  BY DEF Row

LEMMA RegisterBase == ASSUME Base, NEW w \in Workers, Register(w) PROVE Base'
<1>1. /\ at[w] = "spawned" /\ at' = [at EXCEPT ![w] = "running"]
      /\ UNCHANGED <<proc, lastUsed, now, up, visited, child, reaped, robbed>>
      /\ UNCHANGED <<crashes, reboots>>
      /\ child[w] \in Pids /\ proc[child[w]] \in Process
      /\ \/ table' = Row(child[w]) /\ slipped' = slipped
         \/ table' = table /\ slipped' = slipped \cup {child[w]}
  BY Registration
<1>2. Ident(proc[child[w]]) \in Identity
  BY <1>1, Identities
<1>3. /\ DOMAIN Row(child[w]) = DOMAIN table \cup {child[w]}
      /\ Row(child[w])[child[w]] = Ident(proc[child[w]])
      /\ \A q \in DOMAIN table \ {child[w]} : Row(child[w])[q] = table[q]
  BY RowIs
<1>4. DOMAIN table' \subseteq Pids /\ \A p \in DOMAIN table' : table'[p] \in Identity
  BY <1>1, <1>2, <1>3 DEF Base, TypeOK
<1>5. slipped' \subseteq Pids
  BY <1>1 DEF Base, TypeOK
<1>6. at' \in [Workers -> {"idle", "spawned", "running", "ended"}]
  BY <1>1 DEF Base, TypeOK
<1>7. up = "up" /\ visited = {}
  BY <1>1 DEF Base, TypeOK
<1>8. TypeOK'
  BY <1>1, <1>4, <1>5, <1>6, <1>7 DEF Base, TypeOK
<1>9. \A v \in Workers : Running(v)' <=> Running(v)
  BY <1>1 DEF Base, TypeOK, Running
<1>10. Supervised'
  BY <1>1, <1>9 DEF Base, Supervised
<1> QED  BY <1>8, <1>10 DEF Base

LEMMA EndBase == ASSUME Base, NEW w \in Workers, End(w) PROVE Base'
<1>1. /\ at[w] = "running" /\ at' = [at EXCEPT ![w] = "ended"]
      /\ proc' = [proc EXCEPT ![child[w]] = None]
      /\ UNCHANGED <<lastUsed, now, table, up, visited, child, reaped, slipped, robbed>>
      /\ UNCHANGED <<crashes, reboots>>
  BY DEF End, Goto, history, counts
<1>2. TypeOK'
  BY <1>1 DEF Base, TypeOK
<1>3. \A v \in Workers : Running(v)' => Running(v) /\ v /= w
  BY <1>1 DEF Base, TypeOK, Running
<1>4. \A v \in Workers : Running(v)' => proc'[child[v]] = proc[child[v]]
  BY <1>1, <1>3 DEF Base, TypeOK, Supervised, Running
<1> QED  BY <1>1, <1>2, <1>3, <1>4 DEF Base, Supervised

\* Whoever has no worker may end, be killed or be replaced.
LEMMA UnsupervisedBase ==
    ASSUME Base, TypeOK', UNCHANGED child,
           \A v \in Workers : Running(v)' => Running(v) /\ proc'[child[v]] = proc[child[v]]
    PROVE  Base'
  BY DEF Base, Supervised

\* The types of LiveChildren, and that a planner with a worker is alive and is
\* that worker's alone.
LEMMA BaseIsKept == Spec => []Base
<1> USE DEF kernel, history, counts
<1>0. MaxClock \in Nat /\ MaxCrashes \in Nat /\ MaxReboots \in Nat
  BY ChildrenAssumption
<1>1. Init => Base
  <2> SUFFICES ASSUME Init PROVE Base
    OBVIOUS
  <2>1. /\ proc \in [Pids -> Process \cup {None}] /\ lastUsed \in [Pids -> -1..MaxClock]
        /\ now \in 0..MaxClock /\ DOMAIN table = {}
    BY <1>0 DEF Init
  <2>2. TypeOK
    BY <1>0, <2>1 DEF Init, TypeOK
  <2> QED  BY <2>2 DEF Init, Base, Supervised, Running
<1>2. Base /\ [Next]_vars => Base'
  <2> SUFFICES ASSUME Base, [Next]_vars PROVE Base'
    OBVIOUS
  <2>0. TypeOK
    BY DEF Base
  <2>1. ASSUME NEW w \in Workers, Spawn(w) PROVE Base'
    BY <2>1, SpawnBase
  <2>2. ASSUME NEW w \in Workers, Register(w) PROVE Base'
    BY <2>2, RegisterBase
  <2>3. ASSUME NEW w \in Workers, End(w) PROVE Base'
    BY <2>3, EndBase
  <2>4. ASSUME NEW w \in Workers, Gone(w) PROVE Base'
    <3>1. TypeOK'
      BY <2>0, <2>4 DEF TypeOK, Gone, Goto, Without
    <3> QED  BY <2>0, <2>4, <3>1, UnsupervisedBase DEF Gone, Goto, Running, TypeOK
  <2>5. ASSUME NEW w \in Workers, RowStays(w) PROVE Base'
    <3>1. TypeOK'
      BY <2>0, <2>5 DEF TypeOK, RowStays, Goto
    <3> QED  BY <2>0, <2>5, <3>1, UnsupervisedBase DEF RowStays, Goto, Running, TypeOK
  <2>6. CASE Stranger
    <3>1. PICK p \in Pids, path \in {"ff", "editor"} : Free(p) /\ Begin(p, path, FALSE)
      BY <2>6 DEF Stranger
    <3>2. /\ proc' \in [Pids -> Process \cup {None}]
          /\ lastUsed' \in [Pids -> -1..MaxClock]
          /\ slipped' \subseteq Pids /\ robbed' \subseteq Pids
      BY <2>0, <3>1, BeginTypes
    <3>3. TypeOK'
      BY <2>0, <2>6, <3>2 DEF TypeOK, Stranger
    <3>4. \A q \in Pids : proc[q] /= None => proc'[q] = proc[q]
      BY <2>0, <3>1 DEF Begin, Free, TypeOK
    <3>5. \A v \in Workers : Running(v) => proc'[child[v]] = proc[child[v]]
      BY <2>0, <3>4 DEF Base, Supervised, TypeOK
    <3> QED  BY <2>6, <3>3, <3>5, UnsupervisedBase DEF Stranger, Running
  <2>7. CASE Leaves
    <3>1. TypeOK'
      BY <2>0, <2>7 DEF TypeOK, Leaves
    <3>2. \A v \in Workers : Running(v) => proc'[child[v]] = proc[child[v]]
      BY <2>0, <2>7 DEF Leaves, Owned, Running, TypeOK
    <3> QED  BY <2>7, <3>1, <3>2, UnsupervisedBase DEF Leaves, Running
  <2>8. CASE Tick
    <3>0. now' \in 0..MaxClock
      <4>1. now \in 0..MaxClock /\ now < MaxClock /\ now' = now + 1
        BY <2>0, <2>8 DEF TypeOK, Tick
      <4> QED  BY <1>0, <4>1
    <3>1. TypeOK'
      BY <2>0, <2>8, <3>0 DEF TypeOK, Tick
    <3> QED  BY <2>8, <3>1, UnsupervisedBase DEF Tick, Running
  <2>9. CASE Crash
    <3>1. TypeOK'
      BY <1>0, <2>0, <2>9 DEF TypeOK, Crash
    <3> QED  BY <2>9, <3>1, UnsupervisedBase DEF Crash, Running
  <2>10. CASE Reboot
    <3>1. now' \in 0..MaxClock
      BY <1>0, <2>0, <2>10 DEF TypeOK, Reboot
    <3>2. /\ proc' \in [Pids -> Process \cup {None}]
          /\ lastUsed' \in [Pids -> -1..MaxClock]
      BY <1>0, <2>10 DEF Reboot
    <3>3. TypeOK'
      BY <1>0, <2>0, <2>10, <3>1, <3>2 DEF TypeOK, Reboot
    <3> QED  BY <2>10, <3>3, UnsupervisedBase DEF Reboot, Running
  <2>11. CASE Start
    <3>1. TypeOK'
      BY <2>0, <2>11 DEF TypeOK, Start
    <3> QED  BY <2>11, <3>1, UnsupervisedBase DEF Start, Running
  <2>12. CASE ReapOne
    <3>1. up = "reaping" /\ \A v \in Workers : ~Running(v)
      BY <2>0, <2>12 DEF ReapOne, TypeOK, Running
    <3>2. \A p \in DOMAIN table : SameChild(p) => proc[p] \in Process
      <4> SUFFICES ASSUME NEW p \in DOMAIN table, SameChild(p), proc[p] = None
                   PROVE  FALSE
        BY <2>0 DEF TypeOK
      <4>1. table[p].path = "none" /\ table[p] \in Identity
        BY <2>0 DEF SameChild, Ident, None, TypeOK
      <4> QED  BY <4>1 DEF Identity
    <3>3. TypeOK'
      BY <2>0, <2>12, <3>2 DEF TypeOK, ReapOne
    <3> QED  BY <2>12, <3>1, <3>3, UnsupervisedBase DEF ReapOne, Running
  <2>13. CASE Judged
    <3>1. \A w \in Workers : at[w] = "idle"
      BY <2>0, <2>13 DEF TypeOK, Judged
    <3>2. TypeOK'
      BY <2>0, <2>13, <3>1 DEF TypeOK, Judged
    <3> QED  BY <2>13, <3>2, UnsupervisedBase DEF Judged, Running
  <2>14. CASE Close
    <3>1. /\ up = "closing" /\ UNCHANGED <<proc, lastUsed, now, at, child>>
          /\ UNCHANGED <<reaped, slipped, robbed, crashes, reboots>>
      BY <2>14 DEF Close
    <3>2. \A w \in Workers : at[w] = "idle"
      BY <2>0, <3>1 DEF TypeOK
    <3>3. ASSUME visited = {} PROVE TypeOK'
      BY <2>0, <2>14, <3>1, <3>2, <3>3 DEF TypeOK, Close
    <3>4. ASSUME visited /= {} PROVE TypeOK'
      <4>1. PICK p \in visited : table' \in {table, Without(p)} /\ visited' = visited \ {p}
        BY <2>14, <3>4 DEF Close
      <4>2. up' = "closing"
        BY <2>14, <3>1, <3>4 DEF Close
      <4>3. /\ DOMAIN table' \subseteq DOMAIN table /\ DOMAIN table \ {p} \subseteq DOMAIN table'
            /\ \A q \in DOMAIN table' : table'[q] = table[q]
        BY <4>1 DEF Without
      <4>4. visited' \subseteq DOMAIN table'
        BY <2>0, <4>1, <4>3 DEF TypeOK
      <4> QED  BY <2>0, <3>1, <3>2, <4>2, <4>3, <4>4 DEF TypeOK
    <3>5. TypeOK'
      BY <3>3, <3>4
    <3> QED  BY <3>1, <3>5, UnsupervisedBase DEF Running
  <2>15. CASE UNCHANGED vars
    <3>1. TypeOK'
      BY <2>0, <2>15 DEF TypeOK, vars
    <3> QED  BY <2>15, <3>1, UnsupervisedBase DEF vars, Running
  <2> QED
    BY <2>1, <2>2, <2>3, <2>4, <2>5, <2>6, <2>7, <2>8, <2>9, <2>10, <2>11, <2>12,
       <2>13, <2>14, <2>15 DEF Next
<1> QED  BY <1>1, <1>2, PTL DEF Spec

-----------------------------------------------------------------------------
(* Whom the reaper kills: where start times count from an epoch, and, where  *)
(* they count from the boot, until the machine is rebooted.                  *)

\* What is dated now was dated at the one birth its pid had this tick: no other
\* process of that pid can be taken for it.
Dated(i, p) == i.start < now \/ (i.start = now /\ lastUsed[p] = now)
Past ==
    /\ \A p \in Pids : proc[p] /= None => Dated(proc[p], p)
    /\ \A p \in DOMAIN table : Dated(table[p], p)
    /\ \A p \in DOMAIN table : proc[p] /= None /\ SameChild(p) => proc[p].ours

\* Processes that end and rows that go take nothing from it.
LEMMA FewerPast ==
    ASSUME Base, Past, UNCHANGED <<now, lastUsed>>,
           \A p \in Pids : proc'[p] = proc[p] \/ proc'[p] = None,
           DOMAIN table' \subseteq DOMAIN table,
           \A p \in DOMAIN table' : table'[p] = table[p]
    PROVE  Past'
<1>1. \A p \in Pids : proc'[p] /= None => Dated(proc[p], p)' /\ proc'[p] = proc[p]
  BY DEF Past, Dated
<1>2. \A p \in DOMAIN table' : p \in Pids /\ Dated(table[p], p)'
  BY DEF Past, Dated, Base, TypeOK
<1>3. \A p \in DOMAIN table' : proc'[p] /= None /\ SameChild(p)' => proc'[p].ours
  BY <1>2 DEF Past, SameChild
<1> QED  BY <1>1, <1>2, <1>3 DEF Past

LEMMA BeginPast ==
    ASSUME Base, Past, NEW p \in Pids, NEW path \in {"ff", "editor"}, NEW ours \in BOOLEAN,
           Free(p), Begin(p, path, ours), UNCHANGED <<now, table>>
    PROVE  Past'
<1>1. /\ proc'[p] = [path |-> path, start |-> now, ours |-> ours]
      /\ \A q \in Pids \ {p} : proc'[q] = proc[q]
      /\ lastUsed'[p] = now /\ \A q \in Pids \ {p} : lastUsed'[q] = lastUsed[q]
  BY DEF Base, TypeOK, Begin
<1>2. lastUsed[p] < now /\ now \in 0..MaxClock /\ lastUsed[p] \in -1..MaxClock
  BY DEF Free, Base, TypeOK
<1>3. \A q \in Pids : proc'[q] /= None => Dated(proc[q], q)'
  BY <1>1 DEF Past, Dated
<1>4. \A q \in DOMAIN table' : q \in Pids /\ table'[q] = table[q] /\ Dated(table[q], q)'
  BY <1>1, <1>2, ChildrenAssumption DEF Past, Dated, Base, TypeOK
<1>5. ASSUME p \in DOMAIN table PROVE Ident(proc[p])' /= table[p]
  <2>1. table[p].start < now /\ table[p].start \in 0..MaxClock
    BY <1>2, <1>5, ChildrenAssumption DEF Past, Dated, Base, TypeOK, Identity
  <2>2. Ident(proc[p])'.start = now
    BY <1>1 DEF Ident
  <2> QED  BY <1>2, <2>1, <2>2, ChildrenAssumption
<1>6. \A q \in DOMAIN table' : proc'[q] /= None /\ SameChild(q)' => proc'[q].ours
  BY <1>1, <1>4, <1>5 DEF Past, SameChild
<1> QED  BY <1>3, <1>4, <1>6 DEF Past

LEMMA RegisterPast == ASSUME Base, Past, NEW w \in Workers, Register(w) PROVE Past'
<1>1. /\ child[w] \in Pids /\ proc[child[w]] \in Process /\ proc[child[w]].ours
      /\ UNCHANGED <<proc, lastUsed, now>>
      /\ table' = Row(child[w]) \/ table' = table
  BY Registration
<1>2. /\ DOMAIN Row(child[w]) = DOMAIN table \cup {child[w]}
      /\ Row(child[w])[child[w]] = Ident(proc[child[w]])
      /\ \A q \in DOMAIN table \ {child[w]} : Row(child[w])[q] = table[q]
  BY RowIs
<1>3. Dated(proc[child[w]], child[w])
  BY <1>1, Identities DEF Past
<1>4. Dated(Row(child[w])[child[w]], child[w])
  BY <1>1, <1>2, <1>3, Identities DEF Dated
<1>5. \A p \in DOMAIN table' : Dated(table[p], p)'
  BY <1>1, <1>2, <1>4 DEF Past, Dated
<1>6. \A p \in DOMAIN table' : proc'[p] /= None /\ SameChild(p)' => proc'[p].ours
  BY <1>1, <1>2 DEF Past, SameChild
<1> QED  BY <1>1, <1>5, <1>6 DEF Past, Dated

\* A later clock finds everything dated before it.
LEMMA LaterPast ==
    ASSUME Base, Past, now' = now + 1, UNCHANGED table,
           \A p \in Pids : proc'[p] = proc[p] \/ proc'[p] = None
    PROVE  Past'
<1>1. now \in 0..MaxClock /\ MaxClock \in Nat
  BY ChildrenAssumption DEF Base, TypeOK
<1>2. \A p \in Pids : proc'[p] /= None => proc'[p] = proc[p] /\ Dated(proc[p], p)'
  <2> SUFFICES ASSUME NEW p \in Pids, proc'[p] /= None
               PROVE  proc'[p] = proc[p] /\ Dated(proc[p], p)'
    OBVIOUS
  <2>1. proc'[p] = proc[p] /\ proc[p] \in Process /\ Dated(proc[p], p)
    BY DEF Base, TypeOK, Past
  <2>2. proc[p].start \in 0..MaxClock
    BY <2>1, Identities
  <2> QED  BY <1>1, <2>1, <2>2 DEF Dated
<1>3. \A p \in DOMAIN table : p \in Pids /\ Dated(table[p], p)'
  <2> SUFFICES ASSUME NEW p \in DOMAIN table
               PROVE  p \in Pids /\ Dated(table[p], p)'
    OBVIOUS
  <2>1. p \in Pids /\ Dated(table[p], p) /\ table[p].start \in 0..MaxClock
    BY DEF Base, TypeOK, Past, Identity
  <2> QED  BY <1>1, <2>1 DEF Dated
<1>4. \A p \in DOMAIN table' : proc'[p] /= None /\ SameChild(p)' => proc'[p].ours
  BY <1>2, <1>3 DEF Past, SameChild
<1> QED  BY <1>2, <1>3, <1>4 DEF Past

LEMMA PastIsKept ==
    ASSUME StartsSinceBoot = FALSE \/ reboots' = 0, Base, Past, [Next]_vars
    PROVE  Past'
<1> USE DEF kernel, history, counts
<1>1. ASSUME NEW w \in Workers, Spawn(w) PROVE Past'
  <2>1. PICK p \in Pids : Free(p) /\ Begin(p, "ff", TRUE)
    BY <1>1 DEF Spawn
  <2> QED  BY <1>1, <2>1, BeginPast DEF Spawn
<1>2. ASSUME NEW w \in Workers, Register(w) PROVE Past'
  BY <1>2, RegisterPast
<1>3. ASSUME NEW w \in Workers, End(w) PROVE Past'
  <2>1. \A p \in Pids : proc'[p] = proc[p] \/ proc'[p] = None
    BY <1>3 DEF End, Base, TypeOK
  <2> QED  BY <1>3, <2>1, FewerPast DEF End
<1>4. ASSUME NEW w \in Workers, Gone(w) PROVE Past'
  BY <1>4, FewerPast DEF Gone, Without
<1>5. ASSUME NEW w \in Workers, RowStays(w) PROVE Past'
  BY <1>5, FewerPast DEF RowStays
<1>6. CASE Stranger
  <2>1. PICK p \in Pids, path \in {"ff", "editor"} : Free(p) /\ Begin(p, path, FALSE)
    BY <1>6 DEF Stranger
  <2> QED  BY <1>6, <2>1, BeginPast DEF Stranger
<1>7. CASE Leaves
  <2>1. \A p \in Pids : proc'[p] = proc[p] \/ proc'[p] = None
    BY <1>7 DEF Leaves, Base, TypeOK
  <2> QED  BY <1>7, <2>1, FewerPast DEF Leaves
<1>8. CASE Tick
  BY <1>8, LaterPast DEF Tick
<1>9. CASE Crash
  BY <1>9, FewerPast DEF Crash
<1>10. CASE Reboot
  <2>1. reboots' /= 0
    <3>1. reboots \in 0..MaxReboots /\ reboots' = reboots + 1
      BY <1>10 DEF Base, TypeOK, Reboot
    <3> QED  BY <3>1, ChildrenAssumption
  <2> QED  BY <1>10, <2>1, LaterPast DEF Reboot
<1>11. CASE Start
  BY <1>11, FewerPast DEF Start
<1>12. CASE ReapOne
  <2>1. \A p \in Pids : proc'[p] = proc[p] \/ proc'[p] = None
    BY <1>12 DEF ReapOne, Base, TypeOK
  <2> QED  BY <1>12, <2>1, FewerPast DEF ReapOne
<1>13. CASE Judged
  BY <1>13, FewerPast DEF Judged
<1>14. CASE Close
  <2>1. /\ UNCHANGED <<proc, lastUsed, now>>
        /\ table' = table \/ \E p \in visited : table' = Without(p)
    BY <1>14 DEF Close
  <2>2. DOMAIN table' \subseteq DOMAIN table /\ \A p \in DOMAIN table' : table'[p] = table[p]
    BY <2>1 DEF Without
  <2> QED  BY <2>1, <2>2, FewerPast
<1>15. CASE UNCHANGED vars
  BY <1>15, FewerPast DEF vars
<1> QED
  BY <1>1, <1>2, <1>3, <1>4, <1>5, <1>6, <1>7, <1>8, <1>9, <1>10, <1>11, <1>12,
     <1>13, <1>14, <1>15 DEF Next

LEMMA SparedStep ==
    ASSUME Base, Past, StrangersSpared, [Next]_vars
    PROVE  StrangersSpared'
<1>1. ASSUME ReapOne PROVE StrangersSpared'
  <2>1. \A p \in DOMAIN table : SameChild(p) => proc[p].ours
    <3> SUFFICES ASSUME NEW p \in DOMAIN table, SameChild(p) PROVE proc[p] /= None
      BY DEF Past
    <3>1. table[p] \in Identity
      BY DEF Base, TypeOK
    <3> QED  BY <3>1 DEF SameChild, Ident, None, Identity
  <2> QED  BY <1>1, <2>1 DEF ReapOne, StrangersSpared
<1>2. ASSUME ~ReapOne PROVE UNCHANGED reaped
  BY <1>2 DEF Next, vars, history, Spawn, Register, End, Gone, RowStays, Stranger,
     Leaves, Tick, Crash, Reboot, Start, Judged, Close
<1> QED  BY <1>1, <1>2 DEF StrangersSpared

\* A start after a crash kills nobody else's process, however many processes,
\* crashes, reboots and handings-out of a pid there have been since the row was
\* written: where start times count from an epoch, path and start time name one
\* process of ours.
THEOREM SparesStrangers ==
    ASSUME StartsSinceBoot = FALSE
    PROVE  Spec => []StrangersSpared
<1>1. Init => Past /\ StrangersSpared
  BY DEF Init, Past, StrangersSpared
<1>2. Base /\ Past /\ StrangersSpared /\ [Next]_vars => Past' /\ StrangersSpared'
  BY PastIsKept, SparedStep
<1> QED  BY <1>1, <1>2, BaseIsKept, PTL DEF Spec

\* Where they count from the boot, the same holds as long as no reboot has come
\* between: the rows are not scoped to a boot, and this is all that can be said.
THEOREM SparesStrangersThisBoot == Spec => [](reboots = 0 => StrangersSpared)
<1> DEFINE J == reboots = 0 => Past /\ StrangersSpared
<1>1. Init => J
  BY DEF Init, Past, StrangersSpared
<1>2. Base /\ J /\ [Next]_vars => J'
  <2> SUFFICES ASSUME Base, J, [Next]_vars, reboots' = 0
               PROVE  Past' /\ StrangersSpared'
    OBVIOUS
  <2>1. ASSUME Reboot PROVE FALSE
    <3>1. reboots \in 0..MaxReboots /\ reboots' = reboots + 1
      BY <2>1 DEF Base, TypeOK, Reboot
    <3> QED  BY <3>1, ChildrenAssumption
  <2>2. UNCHANGED reboots
    BY <2>1 DEF Next, vars, counts, Spawn, Register, End, Gone, RowStays, Stranger,
       Leaves, Tick, Crash, ReapOne, Start, Judged, Close
  <2> QED  BY <2>2, PastIsKept, SparedStep
<1>3. J => (reboots = 0 => StrangersSpared)
  OBVIOUS
<1> HIDE DEF J
<1> QED  BY <1>1, <1>2, <1>3, BaseIsKept, PTL DEF Spec

\* The variables of the orphan table, the processes and the workers have their
\* types.
THEOREM ChildrenTypes == Spec => []TypeOK
<1>1. Base => TypeOK
  BY DEF Base
<1> QED  BY <1>1, BaseIsKept, PTL

-----------------------------------------------------------------------------
(* Whom the reaper misses: who was never registered, was robbed or not read. *)

\* From a crash to the end of the next start, every living planner of ours is
\* on a row the reaper still has to reach, or is one of those.
Ours(p) == proc[p] /= None /\ proc[p].ours
Missed(p) == p \in slipped \cup robbed
Awaited ==
    /\ up \in {"down", "reaping"} => \A p \in Pids : Ours(p)
           => Missed(p) \/ (p \in DOMAIN table \ visited /\ SameChild(p))
    /\ up = "closing" => \A p \in Pids : Ours(p) => Missed(p)

Kept == RunningIsOnRecord /\ Awaited /\ OrphansReaped

\* What a process that began under a free pid leaves of the others.
LEMMA BeginKeeps ==
    ASSUME Base, NEW p \in Pids, NEW path \in {"ff", "editor"}, NEW ours \in BOOLEAN,
           Free(p), Begin(p, path, ours)
    PROVE  /\ proc[p] = None /\ proc'[p].ours = ours
           /\ \A q \in Pids \ {p} : proc'[q] = proc[q] /\ (Missed(q)' <=> Missed(q))
           /\ \A w \in Workers : Running(w) => child[w] \in Pids \ {p}
<1>1. proc[p] = None /\ proc'[p].ours = ours
  BY DEF Base, TypeOK, Begin, Free
<1>2. \A q \in Pids \ {p} : proc'[q] = proc[q] /\ (Missed(q)' <=> Missed(q))
  BY DEF Base, TypeOK, Begin, Missed
<1>3. \A w \in Workers : Running(w) => child[w] \in Pids \ {p}
  BY <1>1 DEF Base, TypeOK, Supervised
<1> QED  BY <1>1, <1>2, <1>3

LEMMA SpawnKeeps == ASSUME Base, Kept, NEW w \in Workers, Spawn(w) PROVE Kept'
<1>1. PICK p \in Pids : Free(p) /\ Begin(p, "ff", TRUE) /\ child' = [child EXCEPT ![w] = p]
  BY DEF Spawn
<1>2. /\ proc[p] = None
      /\ \A q \in Pids \ {p} : proc'[q] = proc[q] /\ (Missed(q)' <=> Missed(q))
      /\ \A v \in Workers : Running(v) => child[v] \in Pids \ {p}
  BY <1>1, BeginKeeps
<1>3. /\ up = "up" /\ up' = "up" /\ table' = table /\ at[w] = "idle"
      /\ child'[w] = p /\ at'[w] = "spawned"
      /\ \A v \in Workers \ {w} : child'[v] = child[v] /\ at'[v] = at[v]
  BY <1>1 DEF Spawn, Goto, Base, TypeOK
<1>4. RunningIsOnRecord'
  <2> SUFFICES ASSUME NEW v \in Workers, at'[v] = "running", ~Missed(child[v])'
               PROVE  HasRow(child[v])'
    BY DEF RunningIsOnRecord, Missed
  <2>1. v /= w /\ child'[v] = child[v] /\ at[v] = "running" /\ child[v] \in Pids \ {p}
    BY <1>2, <1>3 DEF Running
  <2>2. ~Missed(child[v])
    BY <1>2, <2>1 DEF Missed
  <2>3. HasRow(child[v])
    BY <2>1, <2>2 DEF Kept, RunningIsOnRecord, Missed
  <2> QED  BY <1>2, <1>3, <2>1, <2>3 DEF HasRow, SameChild
<1>5. Awaited'
  BY <1>3 DEF Awaited
<1>6. OrphansReaped'
  <2> SUFFICES ASSUME NEW q \in Pids, proc'[q] /= None, proc'[q].ours
               PROVE  Owned(q)' \/ Missed(q)'
    BY DEF OrphansReaped, Missed
  <2>1. CASE q = p
    BY <1>3, <2>1 DEF Owned
  <2>2. CASE q /= p
    <3>1. Owned(q) \/ Missed(q)
      BY <1>2, <1>3, <2>2 DEF Kept, OrphansReaped, Missed
    <3>2. Owned(q) => Owned(q)'
      BY <1>3 DEF Owned
    <3> QED  BY <1>2, <2>2, <3>1, <3>2
  <2> QED  BY <2>1, <2>2
<1> QED  BY <1>4, <1>5, <1>6 DEF Kept

\* A registration that fails leaves a planner that is missed.
LEMMA RegisterKeepsIt == ASSUME Base, Kept, NEW w \in Workers, Register(w) PROVE Kept'
<1>1. /\ at[w] = "spawned" /\ at' = [at EXCEPT ![w] = "running"]
      /\ UNCHANGED <<proc, up, child, robbed>>
      /\ child[w] \in Pids
      /\ \/ table' = Row(child[w]) /\ slipped' = slipped
         \/ table' = table /\ slipped' = slipped \cup {child[w]}
  BY Registration
<1>2. /\ DOMAIN Row(child[w]) = DOMAIN table \cup {child[w]}
      /\ Row(child[w])[child[w]] = Ident(proc[child[w]])
      /\ \A q \in DOMAIN table \ {child[w]} : Row(child[w])[q] = table[q]
  BY RowIs
<1>3. \A v \in Workers : Running(v)' <=> Running(v)
  BY <1>1 DEF Running, Base, TypeOK
<1>4. RunningIsOnRecord'
  <2> SUFFICES ASSUME NEW v \in Workers, at'[v] = "running", ~Missed(child[v])'
               PROVE  HasRow(child[v])'
    BY DEF RunningIsOnRecord, Missed
  <2>1. CASE v = w
    <3>1. table' = Row(child[w])
      BY <1>1, <2>1 DEF Missed
    <3> QED  BY <1>1, <1>2, <2>1, <3>1 DEF HasRow, SameChild
  <2>2. CASE v /= w
    <3>1. at[v] = "running" /\ child[v] /= child[w]
      BY <1>1, <2>2 DEF Base, TypeOK, Supervised, Running
    <3>2. ~Missed(child[v])
      BY <1>1 DEF Missed
    <3>3. HasRow(child[v])
      BY <3>1, <3>2 DEF Kept, RunningIsOnRecord, Missed
    <3> QED  BY <1>1, <1>2, <3>1, <3>3 DEF HasRow, SameChild
  <2> QED  BY <2>1, <2>2
<1>5. up' = "up" /\ up = "up"
  BY <1>1 DEF Base, TypeOK
<1>6. \A p \in Pids : Owned(p) => Owned(p)'
  BY <1>1, <1>3 DEF Owned, Running
<1>7. OrphansReaped'
  BY <1>1, <1>5, <1>6 DEF Kept, OrphansReaped
<1> QED  BY <1>4, <1>5, <1>7 DEF Kept, Awaited

LEMMA EndKeeps == ASSUME Base, Kept, NEW w \in Workers, End(w) PROVE Kept'
<1>1. /\ at[w] = "running" /\ at'[w] = "ended"
      /\ \A v \in Workers \ {w} : at'[v] = at[v]
      /\ UNCHANGED <<table, up, child, slipped, robbed>>
      /\ proc'[child[w]] = None /\ child[w] \in Pids
      /\ \A q \in Pids \ {child[w]} : proc'[q] = proc[q]
  BY DEF End, Goto, history, Base, TypeOK
<1>2. \A v \in Workers : Running(v)' <=> Running(v) /\ v /= w
  BY <1>1 DEF Running
<1>3. \A v \in Workers : Running(v)' => child[v] \in Pids \ {child[w]}
  BY <1>1, <1>2 DEF Base, Supervised, TypeOK, Running
<1>4. RunningIsOnRecord'
  BY <1>1, <1>2, <1>3 DEF Kept, RunningIsOnRecord, HasRow, SameChild, Running
<1>5. up' = "up" /\ up = "up"
  BY <1>1 DEF Base, TypeOK
<1>6. \A p \in Pids \ {child[w]} : Owned(p) => Owned(p)'
  BY <1>1, <1>2 DEF Owned, Running
<1>7. OrphansReaped'
  BY <1>1, <1>5, <1>6 DEF Kept, OrphansReaped
<1> QED  BY <1>4, <1>5, <1>7 DEF Kept, Awaited

\* A worker that has ended leaves, its row with it or not: whose row it takes is
\* robbed.
LEMMA LeavingKeeps ==
    ASSUME Base, Kept, NEW w \in Workers, Gone(w) \/ RowStays(w)
    PROVE  Kept'
<1>1. /\ at[w] = "ended" /\ at'[w] = "idle"
      /\ \A v \in Workers \ {w} : at'[v] = at[v]
      /\ UNCHANGED <<proc, up, child, slipped>> /\ robbed \subseteq robbed'
  BY DEF Gone, RowStays, Goto, history, kernel, Base, TypeOK
<1>2. \A v \in Workers : Running(v)' <=> Running(v)
  BY <1>1 DEF Running
<1>3. RunningIsOnRecord'
  <2> SUFFICES ASSUME NEW v \in Workers, at'[v] = "running", ~Missed(child[v])'
               PROVE  HasRow(child[v])'
    BY DEF RunningIsOnRecord, Missed
  <2>1. at[v] = "running" /\ v /= w /\ ~Missed(child[v])
    BY <1>1 DEF Missed
  <2>2. HasRow(child[v])
    BY <2>1 DEF Kept, RunningIsOnRecord, Missed
  <2>3. CASE table' = table
    BY <1>1, <2>2, <2>3 DEF HasRow, SameChild
  <2>4. CASE Gone(w)
    <3>1. child[v] /= child[w]
      BY <1>1, <2>1, <2>4 DEF Gone, Missed
    <3> QED  BY <1>1, <2>2, <2>4, <3>1 DEF Gone, Without, HasRow, SameChild
  <2> QED  BY <2>3, <2>4 DEF RowStays
<1>4. up' = "up" /\ up = "up"
  BY <1>1 DEF Base, TypeOK
<1>5. \A p \in Pids : Owned(p) => Owned(p)'
  BY <1>1, <1>2 DEF Owned, Running
<1>6. OrphansReaped'
  BY <1>1, <1>4, <1>5 DEF Kept, OrphansReaped
<1> QED  BY <1>3, <1>4, <1>6 DEF Kept, Awaited

\* Nothing the kernel does to processes no worker has takes from it.
LEMMA OthersKeep ==
    ASSUME Base, Kept, UNCHANGED <<table, up, visited, at, child>>,
           \A v \in Workers : Running(v) =>
               proc'[child[v]] = proc[child[v]] /\ (Missed(child[v]) => Missed(child[v])'),
           \A p \in Pids : Ours(p)' => proc'[p] = proc[p] /\ (Missed(p) => Missed(p)')
    PROVE  Kept'
<1>1. RunningIsOnRecord'
  <2> SUFFICES ASSUME NEW v \in Workers, at'[v] = "running", ~Missed(child[v])'
               PROVE  HasRow(child[v])'
    BY DEF RunningIsOnRecord, Missed
  <2>1. Running(v) /\ ~Missed(child[v]) /\ proc'[child[v]] = proc[child[v]]
    BY DEF Running
  <2>2. HasRow(child[v])
    BY <2>1 DEF Kept, RunningIsOnRecord, Missed
  <2> QED  BY <2>1, <2>2 DEF HasRow, SameChild
<1>2. Awaited'
  BY DEF Kept, Awaited, Ours, SameChild
<1>3. OrphansReaped'
  BY DEF Kept, OrphansReaped, Ours, Owned, Missed
<1> QED  BY <1>1, <1>2, <1>3 DEF Kept

LEMMA CrashKeeps == ASSUME Base, Kept, Crash PROVE Kept'
<1>1. /\ up' = "down" /\ visited' = {} /\ UNCHANGED <<proc, table, child, robbed>>
      /\ slipped' = slipped \cup {child[w] : w \in {v \in Workers : at[v] = "spawned"}}
      /\ \A w \in Workers : at'[w] = "idle"
  BY DEF Crash, kernel
<1>2. RunningIsOnRecord' /\ OrphansReaped'
  BY <1>1 DEF RunningIsOnRecord, OrphansReaped
<1>3. ASSUME NEW p \in Pids, Ours(p)'
      PROVE  Missed(p)' \/ (p \in DOMAIN table /\ SameChild(p))
  <2>1. Ours(p) /\ (Missed(p) => Missed(p)')
    BY <1>1, <1>3 DEF Ours, Missed
  <2>2. CASE up = "up"
    <3>1. Owned(p) \/ Missed(p)
      BY <2>1, <2>2 DEF Kept, OrphansReaped, Ours, Missed
    <3>2. ASSUME NEW w \in Workers, child[w] = p, at[w] = "spawned" PROVE Missed(p)'
      BY <1>1, <3>2 DEF Missed
    <3>3. ASSUME NEW w \in Workers, child[w] = p, at[w] = "running", ~Missed(p)
          PROVE  p \in DOMAIN table /\ SameChild(p)
      BY <3>3 DEF Kept, RunningIsOnRecord, HasRow, Missed
    <3> QED  BY <2>1, <3>1, <3>2, <3>3 DEF Owned
  <2>3. CASE up /= "up"
    BY <2>1, <2>3 DEF Kept, Awaited, Base, TypeOK
  <2> QED  BY <2>2, <2>3
<1>4. Awaited'
  BY <1>1, <1>3 DEF Awaited, SameChild
<1> QED  BY <1>2, <1>4 DEF Kept

LEMMA ReapKeeps == ASSUME Base, Kept, ReapOne PROVE Kept'
<1>1. PICK p \in DOMAIN table \ visited :
         /\ visited' = visited \cup {p}
         /\ \/ SameChild(p) /\ proc' = [proc EXCEPT ![p] = None] /\ slipped' = slipped
            \/ SameChild(p) /\ proc' = proc /\ slipped' = slipped \cup {p}
            \/ ~SameChild(p) /\ proc' = proc /\ slipped' = slipped
  BY DEF ReapOne
<1>2. /\ up = "reaping" /\ UNCHANGED <<table, up, at, child, robbed>>
      /\ \A w \in Workers : at[w] = "idle"
  BY DEF ReapOne, Base, TypeOK
<1>3. RunningIsOnRecord' /\ OrphansReaped'
  BY <1>2 DEF RunningIsOnRecord, OrphansReaped
<1>4. ASSUME NEW q \in Pids, Ours(q)'
      PROVE  Missed(q)' \/ (q \in DOMAIN table \ visited' /\ SameChild(q)')
  <2>1. proc'[q] = proc[q] /\ (q = p => ~SameChild(p) \/ Missed(q)')
    BY <1>1, <1>4 DEF Ours, Base, TypeOK, Missed
  <2>2. Missed(q) => Missed(q)'
    BY <1>1, <1>2 DEF Missed
  <2>3. Missed(q) \/ (q \in DOMAIN table \ visited /\ SameChild(q))
    BY <1>2, <1>4, <2>1 DEF Kept, Awaited, Ours
  <2>4. SameChild(q) => SameChild(q)'
    BY <1>2, <2>1 DEF SameChild
  <2> QED  BY <1>1, <2>1, <2>2, <2>3, <2>4
<1>5. Awaited'
  BY <1>2, <1>4 DEF Awaited
<1> QED  BY <1>3, <1>5 DEF Kept

\* All rows judged, whoever of ours is still alive is missed.
LEMMA CloseKeeps == ASSUME Base, Kept, Judged \/ Close PROVE Kept'
<1>1. /\ UNCHANGED <<proc, at, child, slipped, robbed>> /\ up' \in {"up", "closing"}
      /\ up = "reaping" => visited = DOMAIN table
      /\ up \in {"reaping", "closing"} /\ \A w \in Workers : at[w] = "idle"
  BY DEF Judged, Close, kernel, history, Base, TypeOK
<1>2. \A p \in Pids : Ours(p) => Missed(p)
  BY <1>1 DEF Kept, Awaited
<1>3. \A p \in Pids : Ours(p)' => Missed(p)'
  BY <1>1, <1>2 DEF Ours, Missed
<1>4. RunningIsOnRecord'
  BY <1>1 DEF RunningIsOnRecord
<1>5. Awaited'
  BY <1>1, <1>3 DEF Awaited
<1>6. OrphansReaped'
  BY <1>3 DEF OrphansReaped, Ours, Missed
<1> QED  BY <1>4, <1>5, <1>6 DEF Kept

LEMMA KeptIsKept == ASSUME Base, Kept, [Next]_vars PROVE Kept'
<1> USE DEF kernel, history, counts
<1>1. ASSUME NEW w \in Workers,
             Spawn(w) \/ Register(w) \/ End(w) \/ Gone(w) \/ RowStays(w)
      PROVE  Kept'
  BY <1>1, SpawnKeeps, RegisterKeepsIt, EndKeeps, LeavingKeeps
<1>2. CASE Stranger
  <2>1. PICK p \in Pids, path \in {"ff", "editor"} : Free(p) /\ Begin(p, path, FALSE)
    BY <1>2 DEF Stranger
  <2>2. /\ proc[p] = None /\ proc'[p].ours = FALSE
        /\ \A q \in Pids \ {p} : proc'[q] = proc[q] /\ (Missed(q)' <=> Missed(q))
        /\ \A w \in Workers : Running(w) => child[w] \in Pids \ {p}
    BY <2>1, BeginKeeps
  <2>3. \A q \in Pids : Ours(q)' => proc'[q] = proc[q] /\ (Missed(q) => Missed(q)')
    BY <2>2 DEF Ours
  <2>4. \A v \in Workers : Running(v) =>
            proc'[child[v]] = proc[child[v]] /\ (Missed(child[v]) => Missed(child[v])')
    <3> SUFFICES ASSUME NEW v \in Workers, Running(v)
                 PROVE  proc'[child[v]] = proc[child[v]] /\ (Missed(child[v]) => Missed(child[v])')
      OBVIOUS
    <3>1. /\ child[v] \in Pids \ {p}
          /\ Missed(child[v])' <=> child[v] \in slipped' \cup robbed'
      BY <1>2, <2>2 DEF Stranger, Missed
    <3> QED  BY <2>2, <3>1 DEF Missed
  <2>5. UNCHANGED <<table, up, visited, at, child>>
    BY <1>2 DEF Stranger
  <2> QED  BY <2>3, <2>4, <2>5, OthersKeep
<1>3. CASE Leaves
  <2>1. PICK p \in Pids : ~Owned(p) /\ proc' = [proc EXCEPT ![p] = None]
    BY <1>3 DEF Leaves
  <2>2. \A v \in Workers : Running(v) => proc'[child[v]] = proc[child[v]]
    BY <2>1 DEF Owned, Running, Base, TypeOK
  <2>3. \A q \in Pids : Ours(q)' => proc'[q] = proc[q]
    BY <2>1 DEF Ours, Base, TypeOK
  <2>4. UNCHANGED <<table, up, visited, at, child, slipped, robbed>>
    BY <1>3 DEF Leaves
  <2> QED  BY <2>2, <2>3, <2>4, OthersKeep DEF Missed
<1>4. CASE Tick
  BY <1>4, OthersKeep DEF Tick, Ours, Missed
<1>5. CASE Crash
  BY <1>5, CrashKeeps
<1>6. CASE Reboot
  <2>1. /\ \A p \in Pids : proc'[p] = None
        /\ \A w \in Workers : at'[w] = "idle"
        /\ up' = "down"
    BY <1>6 DEF Reboot
  <2> QED  BY <2>1 DEF Kept, RunningIsOnRecord, Awaited, OrphansReaped, Ours
<1>7. CASE Start
  <2>1. /\ \A w \in Workers : at[w] = "idle"
        /\ up = "down" /\ up' = "reaping"
        /\ UNCHANGED <<proc, table, visited, at, child, slipped, robbed>>
    BY <1>7 DEF Start, Base, TypeOK
  <2> QED
    BY <2>1 DEF Kept, RunningIsOnRecord, Awaited, OrphansReaped, Ours, SameChild, Missed
<1>8. CASE ReapOne
  BY <1>8, ReapKeeps
<1>9. CASE Judged \/ Close
  BY <1>9, CloseKeeps
<1>10. CASE UNCHANGED vars
  BY <1>10, OthersKeep DEF vars, Ours, Missed
<1> QED
  BY <1>1, <1>2, <1>3, <1>4, <1>5, <1>6, <1>7, <1>8, <1>9, <1>10 DEF Next

LEMMA KeptThroughout == Spec => []Kept
<1>1. Init => Kept
  BY DEF Init, Kept, RunningIsOnRecord, Awaited, OrphansReaped, None
<1>2. Base /\ Kept /\ [Next]_vars => Kept'
  BY KeptIsKept
<1> QED  BY <1>1, <1>2, BaseIsKept, PTL DEF Spec

\* A kill -9 between the registration of a planner and its end leaves a row the
\* next start knows it by, unless the registration failed or another worker's
\* deletion, by pid, took the row: nothing else does.
THEOREM OnRecord == Spec => []RunningIsOnRecord
<1>1. Kept => RunningIsOnRecord
  BY DEF Kept
<1> QED  BY <1>1, KeptThroughout, PTL

\* Once a start is complete, whatever crashes, failed commits, recycled pids and
\* reboots came before, a planner of an earlier life that runs unseen was never
\* registered, or was robbed of its row, or could not be read by the reaper.
THEOREM ReapsOrphans == Spec => []OrphansReaped
<1>1. Kept => OrphansReaped
  BY DEF Kept
<1> QED  BY <1>1, KeptThroughout, PTL

-----------------------------------------------------------------------------
(* One planner under exec::run.                                              *)

\* What the supervising loop keeps of itself and of its planner: the effective
\* clock is a number, the channel holds control messages, the grace is bounded.
THEOREM RunTypes == RunSpec => []RunTypeOK
<1> USE ExecAssumption DEF clock, verdict, outside
<1> DEFINE Controls == {"Stop", "Cont", "Demote", "Promote"}
<1>1. RunInit => RunTypeOK
  <2> SUFFICES ASSUME RunInit PROVE RunTypeOK
    OBVIOUS
  <2>1. chan \in Seq(Controls)
    BY DEF RunInit
  <2>2. sinceTerm \in NoTerm..TermGrace /\ naps \in 0..MaxNaps /\ messages \in 0..MaxMessages
    BY DEF RunInit, NoTerm
  <2>3. effective \in Int /\ ran \in Nat /\ jumped = FALSE /\ ~(naps > 0)
    BY DEF RunInit
  <2>4. jumped \in BOOLEAN /\ (jumped <=> naps > 0)
    BY <2>3
  <2> QED  BY <2>1, <2>2, <2>3, <2>4 DEF RunInit, RunTypeOK
<1>2. RunTypeOK /\ [RunNext]_runVars => RunTypeOK'
  <2> SUFFICES ASSUME RunTypeOK, [RunNext]_runVars PROVE RunTypeOK'
    OBVIOUS
  <2>1. CASE Reap
    BY <2>1 DEF Reap, RunTypeOK
  <2>2. CASE Sleep
    <3>1. /\ effective \in Int /\ ran \in Nat /\ naps \in 0..MaxNaps
          /\ sinceTerm \in NoTerm..TermGrace /\ jumped \in BOOLEAN
          /\ (jumped <=> naps > 0)
      BY DEF RunTypeOK
    <3>2. sinceTerm' \in NoTerm..TermGrace
      BY <2>2, <3>1 DEF Sleep, NoTerm
    <3>3. CASE Wait(1, FALSE) /\ UNCHANGED naps
      <4>1. /\ effective' \in Int /\ ran' \in Nat /\ naps' \in 0..MaxNaps
            /\ jumped' \in BOOLEAN /\ (jumped' <=> naps' > 0)
        BY <3>1, <3>3 DEF Wait, Charge
      <4> QED  BY <2>2, <3>2, <4>1 DEF Sleep, RunTypeOK
    <3>4. CASE naps < MaxNaps /\ Wait(Nap + 1, TRUE) /\ naps' = naps + 1
      <4>0. effective' \in Int
        <5>1. effective \in Int /\ Nap \in Nat
          BY <3>1
        <5>2. CASE killed /= "none"
          BY <3>4, <5>1, <5>2 DEF Wait
        <5>3. CASE killed = "none"
          <6>1. effective' = effective + Charge(Nap + 1, TRUE)
            BY <3>4, <5>3 DEF Wait
          <6>2. CASE stopped
            <7>1. effective' = effective + ((Nap + 1) - ((Nap + 1) - 1) - (Nap + 1))
              BY <6>1, <6>2 DEF Charge
            <7> QED  BY <5>1, <7>1
          <6>3. CASE ~stopped
            <7>1. effective' = effective + ((Nap + 1) - ((Nap + 1) - 1) - 0)
              BY <6>1, <6>3 DEF Charge
            <7> QED  BY <5>1, <7>1
          <6> QED  BY <6>2, <6>3
        <5> QED  BY <5>2, <5>3
      <4>1. ran' \in Nat
        <5>1. ran' = ran \/ ran' = ran + 1
          BY <3>4 DEF Wait
        <5> QED  BY <3>1, <5>1
      <4>2. naps' \in 0..MaxNaps /\ naps' > 0
        BY <3>1, <3>4
      <4>3. jumped' = TRUE
        BY <3>4 DEF Wait
      <4> QED  BY <2>2, <3>2, <4>0, <4>1, <4>2, <4>3 DEF Sleep, RunTypeOK
    <3> QED  BY <2>2, <3>3, <3>4 DEF Sleep
  <2>3. CASE Memory
    BY <2>3 DEF Memory, RunTypeOK
  <2>4. CASE Drain
    <3>1. CASE chan = <<>>
      BY <2>4, <3>1 DEF Drain, RunTypeOK
    <3>2. CASE chan /= <<>>
      <4>1. /\ Tail(chan) \in Seq(Controls)
            /\ chan' = Tail(chan) /\ stopped' \in BOOLEAN /\ demoted' \in BOOLEAN
        BY <2>4, <3>2 DEF Drain, RunTypeOK
      <4> QED  BY <2>4, <3>2, <4>1 DEF Drain, RunTypeOK
    <3> QED  BY <3>1, <3>2
  <2>5. CASE Interrupt
    <3>1. CASE interrupted /\ sinceTerm = NoTerm
      <4>1. /\ stopped' = FALSE /\ sinceTerm' = 0 /\ killed' = "Cancelled"
            /\ pc = "interrupt" /\ pc' = "deadline" /\ signalled' = signalled \cup {"TERM"}
            /\ UNCHANGED <<planner, fat, chan, effective, jumped, ran, naps, demoted, peakOver>>
            /\ UNCHANGED <<interrupted, messages>>
        BY <2>5, <3>1 DEF Interrupt
      <4>2. 0 \in NoTerm..TermGrace
        BY DEF NoTerm
      <4> QED  BY <4>1, <4>2 DEF RunTypeOK
    <3>2. CASE ~(interrupted /\ sinceTerm = NoTerm)
      <4>1. UNCHANGED <<stopped, sinceTerm, killed>>
        BY <2>5, <3>2 DEF Interrupt
      <4> QED  BY <2>5, <3>2, <4>1 DEF Interrupt, RunTypeOK
    <3> QED  BY <3>1, <3>2
  <2>6. CASE Deadline
    BY <2>6 DEF Deadline, RunTypeOK
  <2>7. CASE Die
    BY <2>7 DEF Die, RunTypeOK
  <2>8. CASE Grow
    BY <2>8 DEF Grow, RunTypeOK
  <2>9. CASE SendStop
    <3>0. <<"Stop">> \in Seq(Controls) /\ <<"Demote">> \in Seq(Controls)
      OBVIOUS
    <3>1. chan' \in Seq(Controls)
      BY <2>9, <3>0 DEF SendStop
    <3>2. messages' \in 0..MaxMessages
      BY <2>9 DEF SendStop, RunTypeOK
    <3>3. /\ UNCHANGED <<pc, planner, signalled, fat, stopped, effective, jumped, ran, naps>>
          /\ UNCHANGED <<killed, sinceTerm, demoted, peakOver, interrupted>>
      BY <2>9 DEF SendStop
    <3> QED  BY <3>1, <3>2, <3>3 DEF RunTypeOK
  <2>10. CASE SendCont
    <3>1. "Cont" \in Controls /\ "Promote" \in Controls
      OBVIOUS
    <3> HIDE DEF Controls
    <3>2. <<"Cont", "Promote">> \in Seq(Controls)
      BY <3>1
    <3> USE DEF Controls
    <3>3. chan' \in Seq(Controls)
      BY <2>10, <3>2 DEF SendCont
    <3> QED  BY <2>10, <3>3 DEF SendCont, RunTypeOK
  <2>11. CASE Signal
    BY <2>11 DEF Signal, RunTypeOK
  <2>12. CASE UNCHANGED runVars
    BY <2>12 DEF runVars, RunTypeOK
  <2> QED
    BY <2>1, <2>2, <2>3, <2>4, <2>5, <2>6, <2>7, <2>8, <2>9, <2>10, <2>11, <2>12
       DEF RunNext, Loop, Done
<1> QED  BY <1>1, <1>2, PTL DEF RunSpec

\* The clock the deadline is compared against never runs ahead of the time the
\* planner was given, however often it was paused and the machine slept, in
\* whatever order; it falls behind only where a sleep was taken for more than
\* it was.
THEOREM HonestClock == RunSpec => []ClockIsHonest
<1> USE ExecAssumption DEF clock, verdict, outside
<1>1. RunInit => ClockIsHonest
  BY DEF RunInit, ClockIsHonest
<1>2. RunTypeOK /\ ClockIsHonest /\ [RunNext]_runVars => ClockIsHonest'
  <2> SUFFICES ASSUME RunTypeOK, ClockIsHonest, [RunNext]_runVars, killed' = "none"
               PROVE  effective' <= ran' /\ (naps' = 0 => effective' = ran')
    BY DEF ClockIsHonest
  <2>0. effective \in Int /\ ran \in Nat /\ naps \in Nat
    BY DEF RunTypeOK
  <2>1. ASSUME Sleep PROVE effective' <= ran' /\ (naps' = 0 => effective' = ran')
    <3>1. effective <= ran /\ (naps = 0 => effective = ran) /\ killed = "none"
      BY <2>1 DEF Sleep, ClockIsHonest
    <3>2. CASE Wait(1, FALSE) /\ UNCHANGED naps
      BY <2>0, <3>1, <3>2 DEF Wait, Charge
    <3>3. CASE Wait(Nap + 1, TRUE) /\ naps' = naps + 1
      BY <2>0, <3>1, <3>3 DEF Wait, Charge
    <3> QED  BY <2>1, <3>2, <3>3 DEF Sleep
  <2>2. ASSUME ~Sleep PROVE UNCHANGED <<effective, ran, naps>> /\ killed = "none"
    BY <2>2 DEF RunNext, Loop, Reap, Memory, Drain, Interrupt, Deadline, Die, Grow, SendStop,
       SendCont, Signal, Done, runVars
  <2> QED  BY <2>1, <2>2 DEF ClockIsHonest
<1> QED  BY <1>1, <1>2, RunTypes, PTL DEF RunSpec

=============================================================================
