----------------------------- MODULE LiveChildren -----------------------------
(***************************************************************************)
(* The live_child table and the reaper: which processes are ours, what the  *)
(* table says of them, and what a start after a kill -9 may signal.  Pids   *)
(* recycle, so the table keeps an identity, the executable and the kernel's *)
(* start time, and exec::orphan::reap signals nothing that does not match.  *)
(*                                                                         *)
(* Registration and removal are transactions of the writer thread, and so   *)
(* is the closing of each row after the reaping; any of them may fail, with *)
(* a printed line at most, and processes come and go between any two.       *)
(***************************************************************************)
EXTENDS Integers, FiniteSets

CONSTANTS
    Workers,         \* whoever starts planners: the workers and the canary
    Pids,            \* the numbers the kernel hands out
    MaxClock,        \* bound: the kernel's start times
    MaxCrashes,      \* bound: kills of the supervisor
    MaxReboots,      \* bound: reboots of the machine
    StartsSinceBoot  \* start times count from the boot, or from an epoch

ASSUME ChildrenAssumption ==
    /\ MaxClock \in Nat /\ MaxCrashes \in Nat /\ MaxReboots \in Nat
    /\ StartsSinceBoot \in BOOLEAN

VARIABLES
    proc,      \* the live process of each pid, or None
    lastUsed,  \* when each pid was last handed out
    now,       \* the kernel's clock: seconds, or ticks since boot
    table,     \* live_child: pid to identity
    up,        \* "up", "down", or in open_db: "reaping", then "closing"
    visited,   \* the rows with a verdict of the reaper that are not closed yet
    at,        \* where each worker stands
    child,     \* the process it started
    reaped,    \* history: whom the reaper has killed
    slipped,   \* history: ours and not registered, or not read by the reaper
    robbed,    \* history: ours, its row deleted for another holder of its pid
    crashes, reboots

None == [path |-> "none", start |-> 0, ours |-> FALSE]
Identity == [path : {"ff", "editor"}, start : 0..MaxClock]
Process == {[path |-> d.path, start |-> d.start, ours |-> b] :
               d \in Identity, b \in BOOLEAN}
Ident(p) == [path |-> p.path, start |-> p.start]

kernel == <<proc, lastUsed, now>>
history == <<reaped, slipped, robbed>>
counts == <<crashes, reboots>>
vars == <<kernel, table, up, visited, at, child, history, counts>>

TypeOK ==
    /\ proc \in [Pids -> Process \cup {None}]
    /\ lastUsed \in [Pids -> -1..MaxClock] /\ now \in 0..MaxClock
    /\ DOMAIN table \subseteq Pids
    /\ \A p \in DOMAIN table : table[p] \in Identity
    /\ up \in {"up", "reaping", "closing", "down"}
    /\ at \in [Workers -> {"idle", "spawned", "running", "ended"}]
    /\ child \in [Workers -> Pids]
    /\ up /= "up" => \A w \in Workers : at[w] = "idle"
    /\ visited \subseteq DOMAIN table /\ (up \in {"up", "down"} => visited = {})
    /\ reaped \subseteq Process /\ slipped \subseteq Pids /\ robbed \subseteq Pids
    /\ crashes \in 0..MaxCrashes /\ reboots \in 0..MaxReboots

Init ==
    /\ proc = [p \in Pids |-> None] /\ lastUsed = [p \in Pids |-> -1] /\ now = 0
    /\ table = [p \in {} |-> 0] /\ up = "up" /\ visited = {}
    /\ at = [w \in Workers |-> "idle"]
    /\ child \in [Workers -> Pids]
    /\ reaped = {} /\ slipped = {} /\ robbed = {} /\ crashes = 0 /\ reboots = 0

Goto(w, p) == at' = [at EXCEPT ![w] = p]
Without(p) == [q \in DOMAIN table \ {p} |-> table[q]]

-----------------------------------------------------------------------------
(* The kernel: a pid is handed out once per unit of its clock at most. *)

Free(p) == proc[p] = None /\ lastUsed[p] < now

Begin(p, path, ours) ==
    /\ proc' = [proc EXCEPT ![p] = [path |-> path, start |-> now, ours |-> ours]]
    /\ lastUsed' = [lastUsed EXCEPT ![p] = now]
    /\ slipped' = slipped \ {p} /\ robbed' = robbed \ {p}

\* Somebody else's process, the operator's own run of the planner included.
Stranger == \E p \in Pids : Free(p)
    /\ \E path \in {"ff", "editor"} : Begin(p, path, FALSE)
    /\ UNCHANGED <<now, table, up, visited, at, child, reaped, counts>>

Owned(p) == \E w \in Workers : child[w] = p /\ at[w] \in {"spawned", "running"}

\* A process nobody supervises ends by itself.
Leaves == \E p \in Pids : proc[p] /= None /\ ~Owned(p)
    /\ proc' = [proc EXCEPT ![p] = None]
    /\ UNCHANGED <<lastUsed, now, table, up, visited, at, child, history, counts>>

Tick == /\ now < MaxClock /\ now' = now + 1
        /\ UNCHANGED <<proc, lastUsed, table, up, visited, at, child, history, counts>>

-----------------------------------------------------------------------------
(* A worker. *)

Spawn(w) ==
    /\ up = "up" /\ at[w] = "idle"
    /\ \E p \in Pids : Free(p) /\ Begin(p, "ff", TRUE) /\ child' = [child EXCEPT ![w] = p]
    /\ Goto(w, "spawned")
    /\ UNCHANGED <<now, table, up, visited, reaped, counts>>

Row(p) == [q \in DOMAIN table \cup {p} |-> IF q = p THEN Ident(proc[p]) ELSE table[q]]

\* Mutant: a row that is there is left as it is.
RegisterKeeps(w) ==
    /\ at[w] = "spawned" /\ Goto(w, "running")
    /\ \/ /\ table' = IF child[w] \in DOMAIN table THEN table ELSE Row(child[w])
          /\ UNCHANGED slipped
       \/ table' = table /\ slipped' = slipped \cup {child[w]}
    /\ UNCHANGED <<kernel, up, visited, child, reaped, robbed, counts>>

\* The hook of the spawn: INSERT OR REPLACE, by pid.  No identity to be read, or
\* a failed commit, and the planner runs on without a row.
Register(w) ==
    /\ at[w] = "spawned" /\ Goto(w, "running")
    /\ \/ table' = Row(child[w]) /\ UNCHANGED slipped
       \/ table' = table /\ slipped' = slipped \cup {child[w]}
    /\ UNCHANGED <<kernel, up, visited, child, reaped, robbed, counts>>

\* The planner ends and is reaped by wait4: its pid is free.
End(w) ==
    /\ at[w] = "running" /\ Goto(w, "ended")
    /\ proc' = [proc EXCEPT ![child[w]] = None]
    /\ UNCHANGED <<lastUsed, now, table, up, visited, child, history, counts>>

\* The plan has been validated and the run judged cancelled or not; only then
\* is the row deleted, by pid: it may be the row of another worker's planner.
Gone(w) ==
    /\ at[w] = "ended" /\ Goto(w, "idle")
    /\ table' = Without(child[w])
    /\ robbed' = robbed \cup {child[v] : v \in {u \in Workers \ {w} :
                                at[u] = "running" /\ child[u] = child[w]}}
    /\ UNCHANGED <<kernel, up, visited, child, reaped, slipped, counts>>

\* A deletion that failed goes unnoticed, and the canary, which registers its
\* planner the same way, never deletes its row.
RowStays(w) ==
    /\ at[w] = "ended" /\ Goto(w, "idle")
    /\ UNCHANGED <<kernel, table, up, visited, child, history, counts>>

-----------------------------------------------------------------------------
(* The supervisor's death and its next start. *)

Crash ==
    /\ up /= "down" /\ crashes < MaxCrashes /\ crashes' = crashes + 1
    /\ up' = "down" /\ visited' = {}
    /\ slipped' = slipped \cup {child[w] : w \in {v \in Workers : at[v] = "spawned"}}
    /\ at' = [w \in Workers |-> "idle"]
    /\ UNCHANGED <<kernel, table, child, reaped, robbed, reboots>>

\* Everything ends; a kernel whose clock counts from the boot begins again.
Reboot ==
    /\ reboots < MaxReboots /\ reboots' = reboots + 1
    /\ up' = "down" /\ visited' = {} /\ at' = [w \in Workers |-> "idle"]
    /\ proc' = [p \in Pids |-> None] /\ lastUsed' = [p \in Pids |-> -1]
    /\ now' = (IF StartsSinceBoot THEN 0 ELSE now + 1) /\ now' <= MaxClock
    /\ slipped' = {} /\ robbed' = {}
    /\ UNCHANGED <<table, child, reaped, crashes>>

Start == /\ up = "down" /\ up' = "reaping"
         /\ UNCHANGED <<kernel, table, visited, at, child, history, counts>>

\* Mutant: the executable is enough to know a child by.
SameChildByPath(p) == proc[p].path = table[p].path

\* reap_one: path and start time, both exact.
SameChild(p) == Ident(proc[p]) = table[p]

\* Mutant: the first row whose pid names a stranger ends the reaping.
ReapGivesUp ==
    /\ up = "reaping"
    /\ \E p \in DOMAIN table \ visited :
         IF SameChild(p)
           THEN /\ visited' = visited \cup {p}
                /\ reaped' = reaped \cup {proc[p]}
                /\ proc' = [proc EXCEPT ![p] = None]
           ELSE visited' = DOMAIN table /\ UNCHANGED <<reaped, proc>>
    /\ UNCHANGED <<lastUsed, now, table, up, at, child, slipped, robbed, counts>>

\* One row of orphan::reap: killed if it is verifiably ours, left alone if not,
\* and taken for gone if its identity or its group cannot be read.
ReapOne ==
    /\ up = "reaping"
    /\ \E p \in DOMAIN table \ visited :
         /\ visited' = visited \cup {p}
         /\ \/ /\ SameChild(p)
               /\ reaped' = reaped \cup {proc[p]} /\ proc' = [proc EXCEPT ![p] = None]
               /\ UNCHANGED slipped
            \/ /\ SameChild(p) /\ slipped' = slipped \cup {p}
               /\ UNCHANGED <<reaped, proc>>
            \/ ~SameChild(p) /\ UNCHANGED <<reaped, proc, slipped>>
    /\ UNCHANGED <<lastUsed, now, table, up, at, child, robbed, counts>>

\* All rows have their verdicts before the first is closed.
Judged ==
    /\ up = "reaping" /\ visited = DOMAIN table /\ up' = "closing"
    /\ UNCHANGED <<kernel, table, visited, at, child, history, counts>>

\* open_db closes the rows one by one, whatever the verdict, and goes on if it
\* cannot.
Close ==
    /\ up = "closing"
    /\ IF visited = {}
         THEN up' = "up" /\ UNCHANGED <<table, visited>>
         ELSE /\ \E p \in visited : visited' = visited \ {p} /\ table' \in {table, Without(p)}
              /\ UNCHANGED up
    /\ UNCHANGED <<kernel, at, child, history, counts>>

Next == \/ \E w \in Workers : Spawn(w) \/ Register(w) \/ End(w)
                             \/ Gone(w) \/ RowStays(w)
        \/ Stranger \/ Leaves \/ Tick \/ Crash \/ Reboot \/ Start \/ ReapOne
        \/ Judged \/ Close

Spec == Init /\ [][Next]_vars

-----------------------------------------------------------------------------
(* Properties. *)

\* A start after a crash kills nobody else's process: whatever the pids have
\* been handed out to since, everything the reaper killed was ours.
StrangersSpared == \A s \in reaped : s.ours

\* No planner outlives the next start unseen: once a start is complete, every
\* live process of ours belongs to a worker, or was never registered (the crash
\* or a failure came first), or was robbed of its row while it ran, or could not
\* be read by the reaper.
OrphansReaped ==
    up = "up" => \A p \in Pids : proc[p] /= None /\ proc[p].ours
                                    => Owned(p) \/ p \in slipped \cup robbed

HasRow(p) == p \in DOMAIN table /\ SameChild(p)

\* "a kill -9 of this process between here and the run's end leaves a row the
\* next startup reaps by identity" (the comment over register in run_one): true
\* of a running planner whose registration went through and whose pid no other
\* worker still had to remove.
RunningIsOnRecord ==
    \A w \in Workers : at[w] = "running" /\ child[w] \notin slipped \cup robbed
        => HasRow(child[w])

\* The same, of every planner whose registration went through.  The code does
\* not keep it: a worker removes its row by pid, after wait4 has freed the pid.
RegisteredIsOnRecord ==
    \A w \in Workers : at[w] = "running" /\ child[w] \notin slipped => HasRow(child[w])
=============================================================================
