# A verification project for ferroplan

ferroplan is a PDDL planner. Three parts of it are modelled: the supervisor that produces its
published numbers, the control of its classical search together with its FOND synthesiser, and the
server through which clients share planning sessions.

*The supervisor.* Its numbers come from `crucible`, a supervisor that runs the planner
over boards of competition instances, beside whatever else the machine is doing, for days at a time.
Whether a row on a board may be believed depends on `crucible` much more than on any one search: it
starts, pauses, times and kills planners from several threads, decides which results the machine may
have cost, keeps them through kills and reboots, and goes on until nothing is owed. These modules
model that program first; its code is

- `src/crucible/crates/crucible/src/sweep.rs` (the runner, the workers, the watcher), and
- `src/crucible/crates/crucible-core/src/{exec,sched,monitor,db}` (the mechanisms it is made of).

*The planner's answers.* `src/crates/ferroplan/src/search.rs` and `costs.rs` climb, fall back to a
best-first search under caps, re-enter it, and sweep for a cheaper plan: what they answer as a proof
("unsolvable", "proven") must be one, whatever cap tripped. `planning_runtime.rs` synthesises
policies for nondeterministic problems, which `policy_validation.rs` audits independently.

*The sessions.* `src/crates/ferroplan-mcp/src/{session,session_control,experience}.rs` keep named
planning sessions that many concurrent calls read, edit, fork, checkpoint and restore.

Below, `sweep.rs` is the first file above, and other paths are relative to `crucible-core/src` unless
they name a crate.

## 1. Inventory

| Component | State it keeps | Operations | Talks to |
|---|---|---|---|
| Pass loop `sched::run`, `SweepRunner` | banked set, pass count, stall count, stop flag | `boards`, `attempt` (wide, narrow, solo), `wait`, `stopped`, events | batch (calls), ledger (reads back at the start) |
| Batch `SweepRunner::run_batch` | queue, bytes in use, `Crowd`, stop flag, result channel | gate, pop, reserve, admit, hold, `Crowd::enter`/`leave`, send, collect | control (level, width, hold), planner, ledger |
| Control `Shared` and the watcher thread | level, width, demotion policy, hold, list of control channels | `attach`, `detach`, `send`, `set_level`, canary reading | throttle (calls), every running planner (channels) |
| One planner `exec::run` | effective clock, pause, memory peak, cancel time, reason of the kill | tick loop: reap, sleep gap, memory, drain, interrupt, deadline | kernel (signals, wait4), control (its channel) |
| Throttle `monitor::throttle` | level, three dwell instants, manual hold | `on_sample`, `set_manual_hold` | watcher |
| Ledger `run_one`, `db::read`, `db::writer` | table `run`; banked set in memory | receipt, verdict, `next_attempt`, `solo_attempts`, `banked_instances`, `seed_from_db` | referee, batch |
| Live children `live_child`, `exec::orphan` | table of pid, path, start time | register, remove, reap by identity | kernel, writer |
| Referee `sched::referee` | none | `judge`, `timing`, the derived floor | ledger |
| Writer thread, lock, rebuild `db::*` | telemetry buffer, id cache, lock file | commands, drain, take-over, rebuild from artifacts | everything that writes |
| Resume gate `sched::resume` | none | which rows of an earlier artifact stand | runner at its start |
| Quiet gate, budget, tiers `sched::{quiet,budget,tier}` | none | arithmetic over samples and manifests | runner, command line |
| Resident mode, selection | last seen repository and binaries | poll, choose the next sweep | runner |
| Validation, corpus, platform | none | VAL, files, system calls | planner, watcher |
| Dashboard, monitor, command line, artifacts, publish | none that others read | rendering | reads the shared state |
| Planner: classical search `search.rs`, `costs::improve` | node arena, open list, incumbent and its bound, re-entries | climb, pop, evaluate, expand, insert; cap, refill | callers of `solve`; a process of its own under `exec::run` |
| FOND synthesis `planning_runtime.rs`, audit `policy_validation.rs` | winning and surviving sets, ranks, choices | strong fixed point, witness prune, alternation, rewrite; audit | runtime requests |
| Planner: heuristics, grounding; temporal, optimal, SAT and other engines | task, relaxed plans, numeric kernels | estimate, solve | search |
| MCP server: session map, sessions, their control | table of Arcs, one lock each, checkpoint shelf, receipt chain and ledger, epoch | 19 calls of a client | planner (searches under a lock) |
| HDDL, WASM, Python, Bevy and runtime crates; vendored code, benchmarks, docs | | front ends, data | |

What is hard here: several worker threads and the watcher share a dozen locks and atomics without
any larger critical section; messages to a planner wait in a channel until its next tick; the
machine sleeps under a running clock; the supervisor may be killed between any two commits, and a
commit may fail; pids recycle; and a sweep must neither stop early nor run for ever on an instance
that cannot be banked. In the planner, a bound moves while nodes are cut by it and duplicates are
dropped in whatever order they come, and a cap may trip anywhere. In the server, a call may hold a
session that another call has just taken out of the map, and locks are waited for with another lock
in hand. `PROJECT.json` lists each of these hazards at its line, with the properties
that watch it or the reason why none does.

What makes each component correct:

- *pass loop*: work leaves the queue only by being banked; a packed miss is retried solo; no
  instance starves; what a stop reports as owed is owed;
- *batch*: nothing lost, nothing measured twice, memory within the budget, overlaps on the record,
  and the scope joins under any width;
- *control*: every planner ends up as the level asks, and no Stop is without its Cont;
- *planner*: a deadline kill after the whole timeout and not long after it; every run ends;
- *throttle*: no flapping, no suspension for CPU load, recovery, and a game gets the box;
- *ledger*: banked work stays banked over crashes; memory and table agree; contradictions confirmed;
- *live children*: the next start kills every orphan that is on record, and no stranger;
- *referee*: fails closed, and can be satisfied by an idle box;
- *search*: a proof is a proof, a drained cost sweep is optimal, a plan is a plan, a solve ends;
- *FOND synthesis*: a policy has the guarantee it is labelled with, NoPlan is true, the failsafe that
  bounds the rounds is never what ends them;
- *sessions*: acknowledged receipts stay on the chain, but for a gap that the code leaves (section 4);
  the ledger is its tail, a cursor stays in its plan, an epoch names one world, and no calls wait for
  each other for ever.

## 2. Modules

| Module | Code | About |
|---|---|---|
| `Owing` | the promise of a sweep | abstract specification, two variables |
| `SweepLoop` | `sched/mod.rs`, `attempt`, `wait`, `stopped` of `sweep.rs` | implements `Owing`; one `run_batch` is one step |
| `SweepBatch` | `run_batch`, `worker_gate`, `Crowd` | that step in full; the watcher is its environment |
| `SweepControl` | `Shared`, `ctl_for`, `Watcher::start`; the far end in `exec::run` | what happens to a planner once admitted |
| `ExecChild` | `exec/mod.rs` | one planner and its clock; the watcher's messages are its environment |
| `Throttle` | `monitor/throttle.rs` | where the watcher's levels come from |
| `RunLedger` | `run_one` after the planner's end, `db/read.rs`, `insert_run`, `seed_from_db` | crashes and failed commits; the referee's rule as a set of outcomes |
| `Referee` | `sched/referee.rs` | that rule in full |
| `LiveChildren` | `exec/orphan.rs`, `open_db`, `live_child` commands | pids, crashes, reboots |
| `PlanSearch` | `ferroplan/src/search.rs`, `costs.rs` | climb, best-first search, cost sweep over any finite transition system |
| `PolicyAudit` | `ferroplan/src/policy_validation.rs` | what a policy promises, as closed sets |
| `FondPolicy` | `ferroplan/src/planning_runtime.rs` | the synthesiser, one state a step, against `PolicyAudit` |
| `McpSessions` | `ferroplan-mcp/src/session.rs`, `session_control.rs`, two calls of `experience.rs` | concurrent calls on named sessions |
| `MC...` | | constants for TLC |
| `SweepThreadsProofs` | | theorems about `SweepControl` and `SweepLoop` |
| `ExecProofs` | | about `LiveChildren` and `ExecChild` |
| `BoxProofs` | | about `Throttle` and `Referee` |
| `SweepBatchProofs`, `RunLedgerProofs`, `PlanSearchProofs`, `FondPolicyProofs`, `McpSessionsProofs` | | about the module each is named after; see section 5 |

The modules meet at interfaces instead of being composed into one product, whose states TLC could
not count. Each module leaves the other side of its interface as free as the neighbouring module
allows, or freer: `SweepBatch` takes any level, width and hold at any time; `SweepControl` takes any
transition `Throttle` can make (`Escalates`, `Relaxes` are the same in both); `ExecChild` takes Stop
and Cont as `SweepControl` sends them; `SweepLoop` takes any result a batch can return; `RunLedger`
takes any result a run can have. `PlanSearch`, `FondPolicy` and `McpSessions` stand apart: the first
two are pure computations, and the third takes the planner's answers as either of their outcomes.

Modules whose theorems share a proof module have specifications of distinct names: `ControlSpec`,
`RunSpec` (of `exec::run`), `RefereeSpec`; elsewhere it is `Spec`.

### How state and actions correspond

One action is one visit to shared state (a lock, an atomic, a send, a commit), or one block of code
that no other actor can observe in the middle. `pc` names the next visit. What a thread computes
between two visits belongs to the visit before or after it.

- **SweepBatch.** `queue`, `inUse`, `crowd`, `tx`, `stop` are the locals that `run_batch` shares with
  its workers; `level`, `width`, `held` are `Shared`. `Gate`, `Pop`, `Reserve`, `Admit`, `Hold` are
  the five stations of the worker's loop, each with its early exits, `Enter` and `Leave` are
  `run_one` from `Crowd::enter` to `Crowd::leave`, `Release` returns the bytes, `Send` sends and
  raises the stop flag, `Collect` is the runner's own loop over the channel. A wait that polls (one
  second in `Gate`, 200 ms in `Reserve`, 5 s in `Admit`, 100 ms in `Hold`) is a guard. `Hold` looks
  at no stop flag because the code does not. `charge` has no counterpart in the code; it is the
  `bytes` a worker's local holds.
- **SweepControl.** `AttachRead` and `AttachPush` are the two halves of `attach`, under two locks;
  `Transition`, `Deliver`, `Policy` are the watcher's treatment of a sample, `CanaryHold` to
  `CanaryRelease` its reading. The watcher is one thread, so the two do not interleave with each
  other but with every worker. `Receive` is one message of `exec::run`'s drain. `CanarySettle` takes
  from the code that 400 ms is longer than the 250 ms tick.
- **ExecChild.** One tick is `Reap`, `Sleep`, `Memory`, `Drain` (a message at a time), `Interrupt`,
  `Deadline`, in the order of the loop. `effective` is the one number that `start.elapsed() -
  suspended - suspended_since.elapsed()` is used for, advanced at each wait by what that expression
  grows by (`Charge`). Signals land when the planner's own action `Die` takes them.
- **RunLedger.** `Measure`, `Number`, `Receipt`, `Judge`, `Record`, `Apply` are `run_one` from the
  planner's end to `SweepRunner::apply`; each commit may fail, and a failure goes no further because
  the code only prints it. `Crash` may fall anywhere, `Restart` is `seed_from_db`.
- **LiveChildren.** `Spawn`, `Register`, `End`, `Gone` are a planner's life as the table sees it.
  `Register` may leave no row: the hook of `run_one` returns if the identity cannot be read, and only
  prints a commit that failed. A deletion may fail unnoticed, and a canary's row is never deleted
  (`RowStays`). `ReapOne` is one row of `orphan::reap`, which takes a process for gone if it cannot
  read its identity or its group; `Judged` and `Close` are the loop of deletions that follows in
  `open_db`, any of which may fail too. Three history variables say whom the table does not cover:
  `slipped` (never registered, or not read by the reaper) and `robbed` (its row deleted by a worker
  that had the pid before); `reaped` is whom the reaper killed. The kernel (`Stranger`, `Leaves`,
  `Tick`, `Reboot`) is external.
- **Throttle.** An instant is kept as the time it has held, up to the dwell it is compared with.
  `OnSample` is the whole function: clocks, verdict, escalation, resume.
- **Referee.** `Judge` is the sequence of early returns, as one conditional; `rho` is compared as an
  exact rational where the code uses doubles.
- **PlanSearch.** `Climb` is `ehc` over its arena and queue; the rest is
  `search_from` as `plan_avoiding`, its length-anytime caller and `costs::improve` use it. A batch is
  any set of open nodes of the right size, so the order of the heap, with its weights, landmarks and
  preferred operators, is left open and every order is covered. A cap may trip at any batch
  (`Capped`, `Refill`), because wall, memory and cancellation may. `h` and `dead` are the
  heuristic's answers; that a dead state has no plan is assumed of the relaxation.
- **FondPolicy.** `Strong...` is `fond_policy`, the other actions are `fond_policy_strong_cyclic` in
  its order: weak reachability, witness prune, then prune and reachability in turn, then the rewrite to
  actions that advance. `at` is the inner loop's place; the wall deadline may be found passed at the
  head of any round. Closed sets, as operators of `PolicyAudit`, stand for the audit's loops.
- **McpSessions.** A session is an Arc, named by the map (`table`) or not named any more. One step is
  one critical section; a search, and a wait for a session's lock under the map's, span steps. Restore
  and bootstrap over an existing session are three critical sections, as in the code: `TakeMap`; then
  `Restore` or `Bootstrap`, which read the predecessor's head (a restore checks the epoch as well)
  under the session's lock and let it go; then `InsertSuccessor`, under the map's lock alone. Calls
  that looked the Arc up before go on in between. A fork keeps its parent's lock to the end. A
  receipt's hash is the chain of events it covers, a world what the fingerprint covers.
- **SweepLoop.** `Top`, `Attempt`, the rungs, `Attempted`, `PassOver`, `Wait` are `sched::run` in
  order. `Batch` applies one result to each instance it was given, or drops it at a stop.

## 3. Runs

| Run | Module | Bounds | Distinct states | Shows |
|---|---|---|---|---|
| `batch` | MCSweepBatch | 2 workers, 3 instances of 1, 2, 4 bytes under a budget of 3, one move of the environment besides clearing, one interrupt, one vanished engine | 640 k | MemoryWithinBudget, NothingLost, NothingTwice, NeighboursHonest, BatchEnds |
| `control` | MCSweepControl | 1 worker, any number of planners in turn; 4 escalations or readings | 430 k | LevelReachesPlanner, PausedWhileReading, StopIsFollowedByCont |
| `exec` | MCExecChild | timeout 4 ticks, grace 2, two naps of 3, three messages | 140 k | ClockIsHonest, RunEnds |
| `ledger` | MCRunLedger | 2 instances, one solved by the predecessor; 2 attempts each, 1 crash, 1 failure | 1.6 M | MemoryIsOnRecord, ContradictionConfirmed, BankedStaysBanked |
| `children` | MCLiveChildren | 2 workers, 2 pids, 4 start times, 2 kills, 1 reboot; any registration, deletion or reading may fail | 890 k (symmetric) | StrangersSpared, OrphansReaped, RunningIsOnRecord |
| `throttle` | MCThrottle | dwells 2, 3, 4; samples 1 or 2 apart | 7 k | CannotFlap, LoadNeverHolds, CalmRestoresFull, GameGetsTheBox |
| `referee` | MCReferee | walls up to one past the derived floor of 8 | 307 k | IdleBoxBanks, DoubtNeverBanks |
| `loop` | MCSweepLoop | 2 boards, 4 instances of all classes, `--max-passes` 0 or 2, every earlier sweep as a start | 80 k | KeepsPromise (refinement), PackedIsRetriedSolo, StopReportIsTrue, NeverGivesUp, EveryoneGetsATurn |
| `fond` | MCFondPolicy | every problem of 4 states in which action 1 has up to two outcomes and action 2 up to one | 1.3 M | StrongIsStrong, CyclicIsStrongCyclic, NoPlanIsTrue, FailsafeNeverFires |
| `search` | MCPlanSearch | 514 problems on 4 states, batches of 2, 2 re-entries | 393 k | ProofIsAProof, DrainedIsOptimal, PlanIsAPlan, SolveEnds |
| `sessions` | MCMcpSessions | 2 clients, 2 sessions, 1 shelf, 3 of 28 calls, a ledger of 2 | 495 k | LineageKept, LedgerIsTheChain, CursorWithinPlan, EpochNamesTheWorld, EveryCallIsAnswered |
| `sessions_stale` | MCMcpSessions | the five calls on the way there | | a counterexample, see section 4 |

Why the bounds are enough:

- *batch*: with two workers a byte budget can be contended, an instance can be too large, a worker
  can be parked above the width, and runs can overlap; nothing in the code names a third. All
  four invariants are proved for every width (section 5). One free move plus the
  clearing of the box gives a change at every point of a worker's loop, and back.
- *control*: workers never read each other's state; what they share is written by the watcher for
  all of them at once. Any violation names one worker, and projecting the behaviour on it is a
  behaviour of the run, which buys four moves: both directions of each transition and readings
  between them. Two workers are used for the race. Both invariants are proved for every number of
  workers and moves.
- *exec*: the grace is shorter than the timeout and a nap longer than either half of it; two naps and
  three messages put a nap before, in and after a pause, and a pause after a nap. `ClockIsHonest` is proved for all of these bounds.
- *ledger*: two attempts are what the suspect rule counts; one crash and one failed commit fall at
  every step of either of two workers. A third attempt repeats the second for every property.
- *children*: two kills make an orphan of an orphan's successor; a pid is handed out up to three
  times. The three invariants are proved for every number of workers, pids, kills and reboots.
- *throttle*: the three dwells differ, a gap of two steps over an exact dwell, and each of the two
  safety properties is also proved for all dwells.
- *referee*: below the hard floor, between the two floors, at the derived floor and above it.
- *loop*: one board must be re-attempted, one starves if order is wrong (`b` need never be banked),
  all rungs occur, and a limit of 2 is passed with and without progress. Everything but
  `EveryoneGetsATurn` is proved for all finite sets of boards and instances.
- *fond*: four states hold the cases the algorithm tells apart: a cycle with a fair way out, one
  without, a choice that looks good in the weak phase and is pruned later, an unsafe state on the only
  way, a rewrite from the first to the advancing action. The run takes every problem of that shape,
  and all four properties are also proved for every number of states and actions.
- *search*: on four states there are plans of one, two and three steps, the direct step may cost more
  than the way round, and a state is met twice at different costs before and after the bound moves.
  Re-entries are 6 in the code (`REFILL_MAX_ROUNDS`); a second repeats the first. No graph leads back
  to the start, where a return is a duplicate of the root like any other. In these problems the
  helpful operators are all or none. The three invariants are also proved for every problem.
- *sessions*: two calls are what can be in flight against each other, a third prepares (a checkpoint
  before a restore, an edit before a fork); a ledger of two overflows at the third receipt. The 28
  calls are every operation on an open session, with and without `replace` and `expected_epoch`, and
  those whose order of locks depends on the ids the other way round too. The four safety properties
  are also proved for every number of clients, sessions and calls.

Bounds that are named in the modules: `MaxMoves` (SweepBatch, SweepControl), `MaxNaps`,
`MaxMessages` (ExecChild), `MaxAttempts`, `MaxCrashes`, `MaxFailures` (RunLedger), `MaxClock`,
`MaxCrashes`, `MaxReboots` (LiveChildren), `MaxGap` (Throttle), `MaxWall` (Referee), `Cap`
(SweepLoop; a counter that reaches it stays there), `MaxPlan`, `MaxRequests` (McpSessions).
Deadlock is checked everywhere but in `ledger`, `children` and `sessions`, where a behaviour stops
when its attempts, its kernel's clock and crashes, or its calls are used up, and in `search`, which
is over when it has answered. That no two calls wait for each other is `EveryCallIsAnswered`.

### Fairness, and why the code justifies it

- Threads are scheduled: weak fairness of a worker, of the runner's loop over the channel, of the
  watcher's delivery, policy and canary steps, of a supervisor's tick.
- A planner's `Leave` in `SweepBatch` is fair because `exec::run` ends every run, which is `RunEnds`;
  there, what is assumed is that SIGKILL kills, and that every pause ends.
- Every pause ends because of `StopIsFollowedByCont`, which assumes that busy spells end (`Relax`),
  as `BoxClears` does in `SweepBatch`; the throttle's side of it is `CalmRestoresFull`.
- `EveryoneGetsATurn` takes strong fairness of banking for the instances of `Bankable`: a quiet box
  comes back again and again, and one of them is not missed every time it is run. `b` is not in the
  set: it may be missed for ever, and must not hold up the rest.
- `SolveEnds`: one thread runs the loops and a batch's evaluations come back, so the whole next-state
  relation is weakly fair. Nothing is assumed of which node is popped or when a cap trips.
- `EveryCallIsAnswered`: each client's call is a task the runtime polls, and a search ends with its
  budget: weak fairness of `Serve` per client. Nothing is assumed of the order in which a lock is
  granted: the calls are finitely many, so a waiting call cannot be passed over for ever.
- In `Throttle` the antecedents name the rest: the samples are of one kind from some time on and the
  operator leaves the manual hold alone (`Undisturbed`).

### Assumptions of the models

The sleep before a canary reading (400 ms) is longer than a tick; a nap is longer than `SLEEP_GAP`;
un-demoting a planner does not fail; a process group dies of SIGKILL at once for the reaper; a pid is
handed out once per unit of the kernel's clock; start times count from an epoch, as on Darwin (`StartsSinceBoot = FALSE`);
`Ctl::Cancel`, `child_stopped` and `set_manual_hold` are never used by the sweep (the last is
modelled all the same). The path without a database (`--no-db`) is not modelled.

## 4. Where code and documents disagree

`sessions_stale` (`StaleIsRefused`) is the run that ends in a counterexample. `expected_epoch` is
documented to refuse a write planned against an earlier world ("A stale `expected_epoch` is refused before mutation", ferroplan-mcp/README.md:41). A restore
puts the checkpoint's epoch plus one on the session, which the session may already have had with
another world; a client that read the epoch then is not refused after the restore. Within the life of
one Arc there is no such thing where the epoch is checked: `EpochNamesTheWorld` holds.

Six more sentences are refuted by counterexamples that TLC finds from configurations kept beside the
modules; they are not among the regular runs.

- `MCSweepControlReach.cfg` (`ReachesAll`): "A throttle transition or a canary pause reaches all of
  them" (sweep.rs:1609). `attach` reads the level and registers the channel under two locks; what is
  sent in between reaches neither, and the planner runs on under SUSPENDED. `missed` marks exactly
  these planners, and for every other one `LevelReachesPlanner` holds.
- `MCExecChildSleep.cfg` (`DeadlineBites`): the effective clock is "Wall minus suspension"
  (exec/mod.rs:125). A sleep of the machine during a pause is subtracted twice, so the planner gets
  more than its timeout. It never gets less: `ClockIsHonest`.
- `MCRunLedgerTwice.cfg` (`SeenTwice`): a miss where the predecessor solved is "not a verdict until a
  second solo run says the same" (sched/referee.rs:206). A planner that could not be started leaves a
  done row with no neighbours, which is counted as the first run.
- `MCMcpSessionsGap.cfg` (`SuccessorsCarryOn`): "Every accepted session mutation extends the canonical
  receipt chain" (ferroplan-mcp/README.md:47). `do_session_restore` lets the session go at the end of
  the block that reads its head and checks its epoch (session_control.rs:671) and inserts at 701;
  `do_wizard_bootstrap` lets it go at experience.rs:1117 and inserts at 1162. In between only the map
  is locked. A call that already has the Arc writes, moves the epoch and is acknowledged, and the
  insert takes the session, its world and its receipt off the id. Law 1 is hurt in the same gap: a
  restore whose epoch was right when it was checked replaces a world its caller was not told of.
  `LineageKept` says nothing of a receipt given in that gap (`due` is not credited while the id is
  `Overtaken`), and `EpochNamesTheWorld` speaks of the check, and of the insert only if the epoch has
  not moved since (`Undisturbed`). Without either exception TLC refutes them.
- `MCLiveChildrenRow.cfg` (`RegisteredIsOnRecord`): "a `kill -9` of this process between here and the
  run's end leaves a row the next startup reaps by identity" (sweep.rs:570). `child_gone` deletes by
  pid after the plan has been validated, long after `wait4` has freed the pid; by then it may be the
  pid of another worker's planner, whose row is deleted instead. `RunningIsOnRecord` holds of every
  planner that was not robbed like this and whose registration went through. That it may not go
  through (no identity: sweep.rs:589; a failed commit: 601) contradicts the sentence as well; such a
  planner is in `slipped`, and after a kill nobody reaps it.
- `MCSweepLoopPasses.cfg` (`PassesAreCapped`): `--max-passes` says "Stop after this many passes"
  (main.rs:85); it is looked at only after a pass that banked nothing.

Met while modelling and kept in the models as the code has them, without a run of their own:

- The width is read before a worker waits for bytes and admission and not again after, so for a
  while more planners may run than the policy allows.
- The canary's hold is tested once before the attach; a planner that passed the test starts into the
  reading.
- The memory watchdog overwrites `Cancelled` with `MemCap`; a run cut short by ^C is then committed.
- A failed query for the attempt number is answered with 1, and the receipt then overwrites attempt
  1. `BankedStaysBanked` holds all the same: what is banked is not run again.
- exec/orphan.rs:56 says that the caller must not hand `reap` rows of a previous boot; `open_db`
  hands over every row. With `StartsSinceBoot = TRUE`, `StrangersSpared` is violated.
- `wait` sleeps at most 60 seconds of a back-off that is documented to grow to about an hour.

## 5. Theorems

All are checked by TLAPS to the last leaf. None assumes more of the constants than the named
assumption of its module, but for the flag `StartsSinceBoot` of `LiveChildren`, which says what kind of
platform is meant and is a hypothesis of the one theorem that needs it.

| Module | Theorem | For all | Argument |
|---|---|---|---|
| `SweepBatchProofs` | `TypeCorrect`, `CrowdIsHonest`, `PeaksStay`, `NeverTwice`, `NeverLost` | widths, instances, queues, budgets | inductive invariant below |
| | `BudgetIsKept` | the same, and all sizes of instances | what a worker holds follows from its place; a sum changes by what one worker draws or returns |
| `SweepThreadsProofs` | `ControlTypes`, `ControlInvariant` | workers, transitions, readings | the invariant below, one step per action of worker and watcher |
| | `LevelReaches`, `PauseIsKept` | the same | from the invariant, where the channel is empty |
| | `SweepKeepsItsPromise` | boards, instances, widths, limits | every step of `SweepLoop` is a step of `Owing` or a stutter; needs no invariant |
| | `PackingLosesNoRow` | the same | inductive invariant below |
| | `ReportsTheTruth`, `GivesUpOnlyWhenStuck`, `LoopTypes` | the same, the boards and instances being finite | accounts of a pass below |
| `ExecProofs` | `RunTypes`, `HonestClock` | timeouts, graces, naps, messages | `ClockIsHonest` is inductive with the types |
| | `ChildrenTypes` | workers, pids, kills, reboots | with who has a live planner |
| | `SparesStrangers` | workers, pids, kills, reboots; start times from an epoch | every process and every row is of the past |
| | `SparesStrangersThisBoot` | the same, any start times, until a reboot | the same invariant, as far as it goes |
| | `OnRecord`, `ReapsOrphans` | workers, pids, kills, reboots, failures | inductive invariant below |
| `RunLedgerProofs` | `TypeCorrect`, `WorkIsNeverLost` | instances, attempts, crashes, failures | inductive invariant below |
| | `MemoryIsBacked`, `MissIsSeconded` | the same | the invariant with a part for each instance |
| `BoxProofs` | `NoLivelock` | lines, floors, overheads, walls | from `wall >= floor`: cpu >= wall - overhead, and (1 - rho) wall >= overhead give rho; nonlinear, so done in named steps of products |
| | `FailsClosed` | the same | `Worse` split by fact: `Judge` of worse facts is owed where the better were |
| | `AnswersAgree` | the same | cases of `Judge` and `Timing` |
| | `TypeCorrect`, `LoadNeverHoldsASweep`, `NoFlapping` | dwells and gaps | inductive invariant below |
| `PlanSearchProofs` | `SearchInvariant`, `SearchTypeCorrect` | states, operators, costs, batches, re-entries | inductive invariant below |
| | `ExhaustionProves`, `SweepOptimal` | the same | closed sets of what is reached |
| | `PlansArePlans` | the same | the arena is linked and priced; a walk's cost by induction along the fathers |
| `FondPolicyProofs` | `FondTypeCorrect`, `RegionClosed` | states, actions, problems | the region a policy is built from is closed under its choices |
| | `StrongSound`, `CyclicSound` | the same | the audit admits what is returned, with the guarantee claimed |
| | `FondComplete` | the same | what the audit would admit is never pruned; so NoPlan is true |
| | `FailsafeUnreachable` | the same | every round but the last admits or prunes a state, and there are N |
| `McpSessionsProofs` | `CursorInside`, `LedgerKept`, `ReceiptsStayOnTheChain` | clients, ids, worlds, calls, ledgers | inductive invariant below |
| | `EpochIsTheWorld` | the same | the invariant, and what a call carries that passes its check |
| | `SessionTypes` | the same | the invariant, and where a call points |

Why the properties are not inductive, and what they are strengthened with:

- **Throttle.** `LoadNeverHolds` bounds how long it has been since a game or pressure was seen. It
  is preserved because in a suspension the clear stretch has exactly that age and is not over
  (`Quiet`); `NoFlapping` because no clear stretch is older than the level it counts for (`Younger`).
- **SweepBatch.** `NeighboursHonest` needs the crowd to be the workers whose planner runs
  (`InsideRuns`) and that a count of a finite set of workers grows by one at an entry. `NothingTwice`
  needs that a worker holds an instance exactly between its pop and its send (`Hands`) and that
  neither the queue nor the channel repeats one. `NothingLost` needs in addition that a halting
  result in the channel has already raised the stop flag (`HaltSeen`). `MemoryWithinBudget` looks at
  planners that run; it needs what every worker holds at each station of its loop (`Charged`: a worker
  that a stop let through `Reserve` without its bytes never gets to run, because a stop is never taken
  back) and that the counter is over the budget only while one worker holds all of it (`Fitting`).
- **SweepControl.** What is in a planner's channel, received in order from the state the planner is
  in, and then what the watcher has still to send (`Coming`), leaves it as the level asks
  (`WillBeAsAsked`). That is preserved because a transition's messages, however far they got, are a
  rest of what `ctl_for` sends for the new level (`OutboxFits`), and because they set what they are
  about whatever came before. A planner between its read of the level and its registration is where
  it breaks; `missed` is set there. A canary's Stop is in the channels of exactly the planners it
  recorded, and gone from them when the reading starts (`PauseHolds`).
- **ExecChild.** `ClockIsHonest` is preserved as it stands: a wait adds to the effective clock at most
  the tick that the planner had, and exactly that unless the machine slept in it; the clock falls
  behind only where a sleep and a stop are both taken off one gap.
- **LiveChildren.** Strangers are spared because no two processes of one pid are dated alike: what
  the table or the kernel dates now was born in this unit of the clock, in which the pid is handed out
  once (`Past`). With start times that begin again at a boot nothing of this survives a reboot, and a
  row of an earlier boot can name a stranger; that is what `SparesStrangersThisBoot` leaves open, and
  the code with it. `RunningIsOnRecord` is preserved with the types and with who has a live planner
  (`Base`): a row is replaced or deleted under a running planner only by a worker that had the pid
  before, and that one is `robbed`. `OrphansReaped` needs that from a crash to the end of the next
  start every planner of ours is on a row still ahead of the reaper, or is one of those the table
  misses (`Awaited`, `Missed`); while the rows are closed only the latter are left.
- **RunLedger.** A banked row is in force while it is the latest attempt. That it stays so needs: an
  instance the table has as banked is in the runner's memory or with the worker that has just
  recorded it (`Known`), and no worker holds what is in that memory (`Settled`). So no second run of
  it starts, whatever number a failed query would have given it. `OnRecord` adds, for each instance,
  that a worker's number is 1 or past every row; that a banked row is attempt 1 or the highest; that a
  banked miss against the predecessor has another solo row beside it; and that without a failed
  commit whatever is in memory is banked in the table. The case that needs the first two is a wrong
  number: the receipt of attempt 1 put over an old row must not take the second row away from a miss.
- **SweepLoop.** An instance whose last result is packed is on a rung still to come (`Pending`); at the
  end of the cascade no rung is left, so there is none. What a pass banked is the difference
  between the queue's length at its top and now (`Accounts`), so a pass that banked nothing has the
  queue it began with, and the number reported at any way out is the length of the queue. That a rung
  holds only what is owed (`LoopTypes`) needs the rungs to be disjoint (`Lanes`): a batch banks from its
  own, and nothing that it banks may wait on another.
- **FondPolicy.** What an admitted policy wins is a set closed under the policy; the proof keeps such a
  set inside `surviving` through every prune, and keeps a rank that falls along every choice from
  before the rewrite to after it.
- **PlanSearch.** A closed set that holds what is reached below a cost is the witness that nothing is
  cheaper. The frontier invariant says that every successor of an expanded node below the bound is a
  node, pending, or cut by the bound; when the open list is dry the arena's states are that set. For `PlanIsAPlan`: the climb's plan
  leads to where it stands (`Trailing`), every node is one allowed step from its father and costs what
  its father does and the step (`Linked`, `Priced`) across cuts and re-entries, and the incumbent is a
  goal below the caller's cost (`Held`).
- **McpSessions.** `Sound` is what one mind must be: the cursor in the plan, the ledger the end of the
  chain; every edit, search, restore and receipt keeps it. `Steady` says what a call under way holds:
  a search has its session's lock; a fork, restore or bootstrap has the map, so the Arc it looked up is
  still the one under its id; and a successor on its way to its insert goes on from every receipt owed
  under that id, which is why none may be credited there in the meantime. `Told` says that the epoch a
  client was told of an Arc is never past the Arc's, and where they are equal, and no observation was
  torn, so are the worlds; and that a search keeps the epoch it tested. A step of one client leaves the others what they hold and were told (`Gentle`), so
  each action is treated for its own client alone, as a step that writes nothing, writes one mind
  (`WriteStep`) or adds an Arc (`InsertStep`). That two histories of receipts are one chain is
  transitivity of `Extends`. `SessionTypes` adds where calls point (`Pointed`): an Arc is never taken
  away, only its name is.

The bytes drawn (`SumUpTo`), the rows owed (`Total`), and a plan's states and cost (`PathOf`,
`PlanIsAPlan`) are recursive functions or folds. The induction theorems of the library take an operator
and are out of the provers' reach; so what such a function computes is shown by the smallest argument
for which it could be wrong (`WFMin`, over the naturals or over finite subsets), and in the same way
that the function exists.

Proved but not checked by a run, because it says little on its own: type correctness of every module;
`PeaksStay` (a worker's peak never falls); `AnswersAgree` (a row banked by its window is timed clean);
`RegionClosed`; the two named invariants.

Every invariant and every action property that a passing run checks is proved. Only model-checked is
liveness, because fairness and ENABLED are out of the prover's reach: `BatchEnds`,
`StopIsFollowedByCont`, `RunEnds`, `CalmRestoresFull`, `GameGetsTheBox`, `EveryoneGetsATurn`,
`SolveEnds` and `EveryCallIsAnswered`.

## 6. Plan

In order of what matters most to a reader of a board or of an answer; the first five are done.

1. Batch, control, planner, ledger: the concurrent core, its proofs for batch and ledger. *Done.*
2. Pass loop with its abstract specification, throttle, referee, live children. *Done.*
3. FOND synthesis against its audit, and the classical search's claims of proof, with theorems. *Done.*
4. The sessions of the MCP server under concurrent calls, with theorems. *Done.*
5. Proofs of the safety of `McpSessions`, of `RunLedger`, of the control and the clock of a planner, of
   the live children, of the byte budget, of the pass loop's report and of answered plans. *Done.*
6. The writer thread: telemetry buffer and drain, id cache against rollback, flush before stop, the
   lock's take-over, and the rebuild from artifacts as a second implementation of the ledger.
7. `RunLedger` as the implementation of an abstract ledger, and `SweepBatch` as that of one `Batch`
   step, with refinement mappings.
8. The contingent synthesis of `planning_runtime.rs`, whose memo of failed beliefs is kept across
   depths; the resume gate, tiers and the quiet gate as operators checked against reference
   definitions; the resident loop.

### Not modelled

- *Search*: the bounded rungs between the climb and the fallback (novelty, LAMA), which return a plan
  of their own or nothing; the subgoal and preference callers; the bound on the length sweep's `g`;
  heuristics, landmarks and grounding, whose answers are inputs.
- *Temporal, preference, optimal, SAT, partition and ESPC engines*: numeric kernels over the grounded
  task, out of TLC's reach but for their control.
- *Runtime*: the planning types besides FOND; probabilities, labels and observations of outcomes.
- *MCP server*: calls that change no session (the readers of `experience.rs`, admission of models).
- *Writer thread, lock, rebuild; resume and quiet gates, budget, tiers; resident mode*: planned above.
- *Validation, corpus, platform*: calls to the operating system; their answers are inputs.
- *Front ends, rendering, publishing, vendored code, benchmarks, docs*: no state of their own, or not
  this project's. `PROJECT.json` gives the reason for each.
