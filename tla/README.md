# TLA+ models of air2lean's concurrent machine and of the processes around it

air2lean translates Zig's AIR into Lean and gives concurrent programs a meaning
through a small machine written in Lean: a scheduler, a memory with vector
clocks and a race check, C11-style atomics, futexes, tasks, futures and timed
waits.  Its Lean proofs are about *programs* run on that machine; the modules
here are about the machine itself, what it promises whatever program runs on it.

Around the translator stand scripts whose correctness is a matter of processes,
signals, locks and files: a build cache, a guard that admits and supervises heavy
commands, bounded stages, a parallel runner, a cache of kernel replays, local CI
runs, the generated branch, checks and exports of projects.  Each is modelled with
its failures: kills, signals in every window, reads that fail, edits and races.

## Inventory

| Part (source) | State | Operations | Hard behaviour | What makes it correct |
|---|---|---|---|---|
| Scheduler (`ZigLean/Conc/Sched.lean`) | a stop per thread, the oracle | spawn, join, yield, pick, futex wait and wake turns | any interleaving of turns, deadlock, the end of main | a thread runs only between two stops; joins never deadlock; an error of any thread is the outcome |
| Threads, clocks, race check (`ZigLean/Mem/Basic.lean`, `Mem/Thread.lean`) | thread table, vector clocks, footprint | fork, join, detach, transfer, access, free | the order of accesses of several threads; handles that move | clocks are exactly happens-before; no race missed; handles consumed once |
| Atomics (`Mem/Thread.lean`) | locations, messages, views | load, store, RMW, strong and weak cmpxchg | stale reads, writes in the middle, release sequences, mixed sizes | RC11 coherence and atomicity; nothing allowed is left out |
| Futex, groups, cancelation (`Mem/Thread.lean`, `Conc/Call.lean`, `Conc/Spawn.lean`) | waiters, cancel requests, gates | wait, wake, async, await, cancel | lost wakeups, a request racing a wake or an end | a waiter is woken or asleep for a reason; a request is delivered once |
| Futures (`Conc/Future.lean`) | a record and a result per future | async, await, cancel, checkCancel | a cancel racing an end, tasks run by their caller, nested futures | a result is its own task's; no request outlives its cancel; no record is left |
| Timed scheduler (`Conc/TimedSched.lean`, `Conc/TimedBudget.lean`) | the clock's observations, waiters, budget | observe, wait, wake, expire | a wake at the moment of the expiry; a clock that jumps | one outcome per wait; verdicts fit the clock |
| `os_unfair_lock` (`Conc/Call.lean`) | lock word, waiters | lock, tryLock, unlock | barging, stale reads of the word | a mutex; no lost wakeup |
| Content-addressed store (`scripts/cas.py`) | store directory, locks, usage marks | lookup, stage, publish, gc | processes that build, read and collect the same entry; a crash between two steps | a published entry is complete; one build per miss; a collection stops at the cap and spares recent entries |
| Admission of heavy commands (`scripts/build-guard.py`) | slot and lock files, registries of waiting and running guards | acquire, release, preempt | guards that die or give up, drain tickets, backfill, elastic workloads with parts | the memory budget; workloads apart; nobody waits for ever |
| Guarded runs (`scripts/build-guard.py`) | the tracked process tree | start, sample, stop, drain, release, second run | processes that escape between two samples; reads that fail; signals | slots outlive the workload |
| Bounded stages (`scripts/safe-output.py`) | owned processes | start, sample, stop | orphans, forks during the stop | nothing outlives the stage |
| Publication (`scripts/safe-output.py`) | temporary file, destination | copy, sync, rename or link | signals, kills, power loss, racing publishers | the destination is whole or unchanged |
| Parallel runner (`scripts/par.py`) | pending, running, finished jobs | start, collect, stop | a memory budget against the order of jobs; signals | output in order; every job once; budget kept |
| Kernel replay cache (`scripts/assumptions.py`) | cache file, claims | replay, merge, withdraw | library or toolchain change under an audit; audits that share passes | a pass is of the bytes the report names |
| Proof receipt worker (`scripts/proof-receipt.py`) | the auditor's group | run_child | cancellation in every window | the group ends with the worker |
| Local CI runs (`scripts/local-ci-steps.py`, `local-ci.sh`, `ci-reuse.py`) | rows completed, containers, evidence, checkout | call, stop, dispatch_row, run_row, export_row | signals around launch and reap; failures between two docker commands; steps that fail leniently | needs first; evidence kept; receipts earned |
| Generated branch (`scripts/generated.py`) | entries of the branch | publish | two publishers, runs run again | one entry per commit, in the end |
| Project checks and exports (`scripts/project.py`, `project-export.py`, `dependency-closure.py`) | the versions read, the record | check, export | edits between two readings; signals; racing outputs | a record is of one version; an artifact is closed |
| Translator (`Air2Lean`), values, memory bytes, logics, OS models, exporter patch, records and reports | per call | pure or batch | none | proved or tested where they are |

How they interact.  A translated program is a free monad of steps
(`Conc/Sched.lean`); plain code calls the memory directly, a synchronizing
operation is a *stop*.  The scheduler asks an oracle which thread that can go on
gets the turn, does the operation of its stop on the memory and runs it to its
next stop.  So all interleaving is between stops, and all nondeterminism
(turns, spurious returns, which waiter wakes, which message a read takes) comes
from the oracle.  Futures and timed waits are further programs on the same stops.

The scripts are processes.  A build goes through `cas.py`, which shares files and
locks with its own copies.  A heavy command runs under `build-guard.py`, which first
takes an admission from the shared lock directory (`Admission`), then supervises
the process tree (`GuardedRun`).  `project.py check` starts two stages under that guard,
`proof-receipt.py` an audit whose kernel replays share a cache, `local-ci-steps.py` rows
in containers; `par.py` and `safe-output.py` bound what runs inside.  Where one relies on
another only through its exit or its promise, the model of the caller uses the promise
(`ProjectCheck`: the guard ends after its workload unless it is killed; `LocalCall`:
`stop_tree` is one step), and `GuardedRun` checks that promise.

## Modules

| Module | Models | Composes |
|---|---|---|
| `VClock` | `VClock` and `racePair` of `Mem/Basic.lean` | |
| `Threads` | the scheduler, thread table, race check, `join`, `detach`, handle transfer, spawn budget | `VClock` |
| `ThreadsHB` | the same run with a clock-free happens-before history, the reference for the clocks | `Threads` |
| `Atomics` | the message lists of `Mem/Thread.lean`: locating, reading, storing, RMW, cmpxchg, mixed sizes | `VClock` |
| `AtomicsHB` | the same run with RC11's happens-before computed from a history | `Atomics` |
| `Tasks` | futexes, `Io.Group` tasks, deferred tasks, cancelation, deadlock | |
| `Futures` | `Conc/Future.lean` on the scheduler | |
| `TimedWait` | timed waits and the budget loops | |
| `UnfairLock` | `os_unfair_lock` over the atomics and the futex, and the owner check | `AbstractLock` |
| `AbstractLock` | what a mutex promises: one holder, and every section in the past of the next | |
| `Cas` | the build cache: processes, locks, stages, collector | |
| `Admission` | `class Admission` of `build-guard.py`: guards of all lanes in one lock directory | |
| `ProcessTree` | the processes of a command as the kernel runs them | |
| `GuardedRun` | `run`, `guarded`, `Tree` and `stop_tree` of `build-guard.py` | `ProcessTree` |
| `StageRun` | `run` of `safe-output.py` | `ProcessTree` |
| `AuditRun` | `run_child` of `proof-receipt.py` | `ProcessTree` |
| `Publication` | `publish` of `safe-output.py` | |
| `ParRun` | `run` of `par.py` | |
| `Replay` | `kernel_replay` and `replay_and_freshness` of `assumptions.py` | |
| `LocalCall` | `stop` and `call` of `local-ci-steps.py` with their signal handler | |
| `LocalRun` | the dispatcher of a local CI run and the exit trap of `local-ci.sh` | |
| `RowRun` | `run_row`, the restricted and the watched checkout | |
| `Generated` | `publish` of `generated.py` under its workflow | |
| `ProjectCheck` | `project.py check` | |
| `ExportRun` | `project.py export` | |
| `ThreadsProofs` | proofs about the scheduler, the clocks and the race check | `ThreadsHB` |
| `AtomicsProofs` | proofs about the atomics, their clocks and modification order | `AtomicsHB` |
| `IoProofs` | proofs about `Tasks`, `Futures` and `TimedWait` | `MCIo` |
| `UnfairLockProofs`, `AdmissionProofs` | proofs about the module of that name | |
| `BuildProofs` | proofs about the two caches and the parallel runner | `Cas`, `Replay`, `ParRun` |
| `CommandsProofs` | proofs about publication, local CI runs, checks, exports and the generated branch | the modules of these |
| `SystemsProofs` | proofs about the guard, stages and auditor, and about all the systems together | `MCSystems`, `BuildProofs`, `CommandsProofs`, `UnfairLockProofs` |
| `MC*` | the instances TLC checks; `MCIo` and `MCSystems` run several systems, one at a time | |

`MCIo` and `MCSystems` put systems side by side that share no state: `part` or `active`
chooses one in the initial state, the steps of the others are disabled, and an
idle system is in one fixed state, so the state space is the sum of the
systems' and not their product.  A property of a system holds trivially while it is
idle; so each run reaches what it would in a run of its own.

### Threads

State: `clocks`, `footprint`, `size`, `owner` (`ThreadRec.spawner`), `joined`,
`released` and `current` are the fields of `Mem`; `pc` and `target` are the
scheduler's stops; `outcome` is what `run` returns.  The program is not fixed: the
running thread may do any operation at any time, so the model is the most
general client and its properties hold for every program.

* `Access`, `Free`: `recordAccess`, `raceCheck` (with the `solo` shortcut), the
  end of a block.  An access of a dead block or a racing one ends the run.
* `Detach`, `TransferHandle`, `End`: the handle operations that do not stop, and
  the end of a thread with its check for unconsumed handles.
* `StopAtSpawn`, `StopAtJoin`, `Yield`: the running thread reaches its stop.
* `Resume`, `Spawn`, `SpawnFails`, `Join`, `JoinFails`: the scheduler's turns.

Abstractions: a block is one byte (races are per byte and the bytes do not
interact); its content is left out; `Mem.spawnLimit = none` is the policy
`"available"`; deferred tasks are in `Tasks`.

### Atomics

State: per location the list of messages in modification order, each with its
value, the clock of its writer, the clock it releases and the message its RMW
read; per thread and location the message seen last.  A location is a set of
bytes, so two of them can overlap.  `Located` is what every operation does first
(`locIdx` and `syncLoc`): create the location, retire the ones it overlaps, and
turn plain writes since the newest message into a message.  `LoadAt`, `StoreAt`,
`RmwAt`, `CasFails`, `CasSucceeds` then pick a place among the ones the code
offers (`ReadOpts`, `WriteSlots`, `RmwOpts`, `CasOpts`).

Abstractions: the arithmetic of an RMW (any value may be written); `seqCst` follows
the rule of `acqRel` as in the code; all other threads are spawned before the
run starts and joined by main.  Main's spawns are in the initial clocks.

### Tasks

State: `sleeping` is `m.waiters`, `woken` and `cancels` are the multisets of the
code's lists, `gated` and `group` the deferred tasks and the groups, `plan` what
an `await` or `cancel` has still to join, `at` each thread's stop.  A call that
stops more than once is one action per stop: `WaitCancelable` checks for a
request, then `Sleep`, `WaitGoesOn` or `WokenReturns` happens at a later turn, then
`LateCancel`.  `Await` and `Cancel` take the tasks of the group and go on through
`Join`, `DeliverInAwait` and `DeferInAwait`.

Abstractions: a futex word is its newest value (what the kernel compares) and is
only accessed atomically; clocks and races are in the other modules; shared
(cross-process) futex keys are out.

### Futures

State: `fat` is the stop of each thread, `frames` the tasks that a thread runs itself (an
`async` whose spawn fails, or that the oracle runs in the caller), `future`, `result`
and `record` the code's record, `requests` is `m.cancels`.  `AsyncFuture`, `AwaitFuture`,
`CancelFuture` and `CheckFuture` are the calls; what follows at a later turn (`FutureSpawns`,
`FutureSpawnFails`, `PointDelivers`, `RequestsCancel`, `Takes`, `Consumes`) is an action of its own.
`FuturesKept` says that a result is the one its own task returned, canceled only when
asked; that a request is for a task somebody waits for; that main leaves no record; and
that some thread can always go on.

Abstractions: the client is restricted to programs the translator accepts (where a program
cancels, only main awaits); the use of another thread's future, which is a race of plain
accesses in the code, is an error at once.

### TimedWait

State: `start` and `observed` are the first and last observation of the clock, `waiters`, `marked`
and `registration` the kernel, `woke` the last reason of return, `tries` the iterations left.
`Iterate` and `IterateLate` are a step of the solver and its observation in `loop`, `Pause`, `Sleeps`,
`ReleaseQueued`, `KernelReleases` and `WaitEnds` the waits of `pausedLoop`.  `TimedKept`: a mark is
consumed by the wait it was meant for; other sleepers are not touched; a verdict of timeout needs an
observation at or past the deadline, and a solution counts only when the last
observation was before it.

Abstractions: the solver is its answer; an oracle that names no legal outcome is left out; one
word, one caller, other threads only sleep (`Sleepers`).  A capped `pausedLoop` may have seen its deadline in its
last wait.

### UnfairLock

Every write of the lock word is an RMW, so the word's messages are one chain;
`Rmw` appends and carries the release sequence on.  A failing cmpxchg may read an
old message.  `knows` and `rel` are the clocks, cut down to the critical sections
they contain; `Holder` is the code's computation of the owner from the word's
history.  `Unlock` may be called by any thread at any time, so the owner check is
exercised in both directions.  A thread that locks again while inside is not in
the client: it deadlocks on itself by design.

### Cas

State: `entry` is the directory of a key with or without its files, `used` the newer
mtime of its marker and its use stamp, `tmp` the stages, `lock` the flocks per key,
`gcLock`, `items` and `excess` the collector's lock and its local variables, `pc`
and `want` where each command is.  One action per step another process can see: the marker
check and the stamp of a lookup are two, and so are the marker and the rename of a
publish.  A `zig` entry is looked up again under its lock, a `native` one only under
its lock, `air` and `src` entries without a lock: concurrent builders collide at the
rename.  Any step of a build may fail; `Crash` kills a process anywhere: the system
drops its locks, its stage stays in `tmp`.  `GcScan` reads every last use at one point,
`GcTotal` measures later, `GcEvict` and `GcBury` move an entry out and delete it.

Abstractions: an entry has size 1; reading the files of an entry that was evicted
meanwhile fails or not, with no effect on the store; Lake's own files in the store are
out; a stage is removed in one step (a build older than two days while the
collector deletes its stage file by file is not modelled).

### Admission

State: `held` (slots), `ws`, `main`, `queue`, `register` and `lifeline` are flocks; `heads`, `tickets`,
`lifelines`, `waiting`, `line`, `running`, `elastic` and `leaves` the registries; `lane`, `weight`, `fits`,
`view` and `ramp` the local variables of `acquire`; `pc` where each guard is.  A guard goes from
`Start` over `TakeWs`, `TakeQueue` (or `LookToBackfill`, `ScanToBackfill`, `Backfill`) to `TakeMain`,
`CheckTurn`, `Scan` or `ScanExclusive`, `TakeRegister` and `Admit` or `GiveBack`; a background guard by
`LookInBackground`, `TakeInBackground` and `AdmitInBackground`; a part of an elastic workload first waits for its
`TakeLifeline`.  `Preempt` is the backstop that stops the youngest overcommitted workload; `OverCharge` and
`RunAgain` the second run at the declared slots; `GiveUp` a `--lock-wait`, a `--timeout`, a signal or a kill
anywhere.  `past` and `owed` are history: who had looked at the tickets when one came, and what the head had of
its reservation and lacked when a guard looked at it to run ahead.

A backfill reads the head's entry without a lock and takes the register afterwards (`build-guard.py:1208`, `:1213`), so
the entry may be stale when it is used.  `HeadKeepsPace` says what that is worth: all that was reserved at the look,
held by the head or free, is still the head's at the admission, whatever both took, gave back and published
between.  It says nothing of what the reservation grew by since, nor of the next head's; the code spares neither.

Abstractions: the order of a registry is the order of publication; a scan of the slots is one
step (slots are only taken under the queue or the register, and only freed without); a release is one step; whether
the history allows a charge below the declared slots is part of a request; the lifelines mirrored for
older checkouts, inherited admissions, guards stopped by SIGSTOP (entries that go stale) and
the pause between two attempts of a backfill are out.

### GuardedRun, StageRun, AuditRun (over ProcessTree)

`ProcessTree` is the kernel: a process forks, leaves its group, ignores TERM, ends, becomes an
orphan of init or of a subreaper at any moment between two steps of its supervisor.

`GuardedRun`: `tracked` and `gone` are the fields of `Tree`, `Observe` a sample, `Blind` one that fails.  The
loop is `Watch`, `Sample`, `Limits` and `TimesOut`; an ended leader goes through `Peek`
and `Exited`; `stop_tree` is `StopSignals` to `StopGivesUp`, in the loop and in the
`finally` block; then `Drain`, `Reap`, `Release` and `Retry`.  `SlotsOutliveWorkload` is the point of a
guard: no slot is given back while a process it ever saw lives, unless it says `cleanup_failed`.

`StageRun`: `owned` is `Escapees.owned`, `Scan` its `ps` below the leader; `StageStops`, `StopTerms`,
`StopKills`, `Sweep`, `SweepTerms` and `SweepKills` are `stop_all`.  `period` is the clock of `Escapees.stop`: TERM in the grace
period, KILL after it, and with the time over the next look is the last; as each look costs a `ps`, the time may be over before any
KILL was sent.  `StageContained` then allows survivors, of which the last look must have found one, and holds where the runner is a subreaper and the
process table can be read; without either only the leader's group is sure to end.

`AuditRun`: between `ForkAuditor` and `Named` a signal finds no child to stop; that ending and a
signal during a stop begun for left children abandon the group.

### Publication

One action per system call another publisher or a crash can see: `Open`, `Copy`, `Place`
(rename or link), `Clean`, `SyncDirectory`; `Interrupted` is a signal or an I/O error,
`Killed` a kill, `PowerFails` the loss of what was not synced: `disk` holds every content the destination may
come back with.  Modes and the size limit are out.

### ParRun

`pending`, `running`, `done`, `reserved` and `bypassed` are the loop's variables; `Top`, `StartJob`, `StartFails`,
`NoneFits`, `Readable`, `Read`, `ReadEnd`, `Advance`, `ReapDone` its steps; a job `Writes`, `Closes` and
`Exits` in any order; `Tell` is a signal, after which `StopJobs` and `Replay` end the run.

### Replay

An audit goes through `Extract`, `Digest`, `Bind`, then for each module `Claim`, `Look`, `RunChecker`, `Merge`
and `WriteCache`, then `Collect` and `Close`, or `Withdraw` of what it merged when library or
toolchain changed.  `Rebuild` and `Upgrade` change them at any time, `KillAudit` kills.  A digest is a version that never
returns.  `PassedAsBound` and `AcceptedIsChecked` tie a report to what was really checked.

### LocalCall, LocalRun, RowRun

`LocalCall` has the flags `LAUNCHING`, `CANCELLING`, `PENDING_SIGNAL` and a handler between
any two steps.  `LocalRun` walks the graph of needs (`path`), and for each row creates,
fills, runs, inspects and removes a container; any docker command and any copy may fail, and the
run be interrupted; what the container leaves (`remains`) is arbitrary, as the code does not
trust it.  `RowRun` runs the steps of a job in a checkout that is open, withheld or watched (`zone`), with the
rules for failed, lenient and conditional steps, and writes the receipt whatever happens.

Abstractions: the rendering of recipes, caches and toolchains, the in-process route of macOS and
the decisions of CI reuse are out; rows are jobs of their own.

### Generated

`main` and `ci` are the commits and their CI runs, `branch` the entries, `waiting` the workflow's one queued job;
a publisher does `Checkout`, `Fetch`, `Skips`/`Waits`/`Makes` per pending commit and `Push`, which is refused unless
its base is the tip; it tries again up to `Attempts` times.  A second publisher may be started by hand.

### ProjectCheck and ExportRun

`ProjectCheck`: the parts (manifest, AIR, Lean, scripts, translator) have versions that edits raise; each
stage reads some of them again.  `first` is what the record will name, `workedOn` what stages
saw.  `StartsGuard` to `GuardAnswers` is `run_guarded` with its signals and deadlines, `WritesRecord`, `Renames`
and `Prints` the publication; a check whose printing fails is refused (exit 2) with its directory in place.

`ExportRun`: the filter grows by what the closure lacks (`ClosureCloses`), the pinned module is compared with its hash
around each compiler run (`Rechecks`), the free one is not; `Finishes` and `ExportPublishes` are the replacement.
`Reports` writes `--report` and prints, either of which may fail after the artifact was published.

## Runs

| Run | Instance | Shows |
|---|---|---|
| `Threads` | 3 threads, 1 block, 2 accesses, budget 2, spawns may fail, detach and transfer | clocks equal happens-before; the race check and the check at the end of a block are exact; the skipped scan finds nothing while no handle was released; handles consumed once by their owner; joins never deadlock |
| `ThreadsSoloDetach` | as above, no failing spawns, no transfer | a finding, see below |
| `Atomics` | two programs: 3 threads on locations x, y and xy, 5 operations; 2 threads on one location with every operation, 4 operations | one memory of the atomics and the plain accesses; no missed race; modification order is coherent and RMWs are atomic; a read is offered exactly what coherence allows |
| `AtomicsMixedRace` | 3 threads, x, y and xy | a finding |
| `Io` | groups: 3 threads, 1 word, 2 groups, every call with failing spawns (6 calls) and nested groups on 2 CPUs (9 calls); futures: 3 of them; timed: budgets 0, 2 and 4 on a clock below 5, 3 iterations, a word with two other sleepers | a request never outlives its cancel; a wake belongs to one wait; a deadlock needs a sleeper; no await returns before its tasks; the promises of futures and timed waits |
| `TasksCancelRace` | 2 threads, 1 word, 1 group, 5 calls | a finding |
| `CasGcRace` | 3 processes, 2 keys, 4 commands | a finding |
| `Admission` | nine meetings of up to 4 guards, 4 slots, parts up to 2 | budget, workloads apart, drain tickets, backfill |
| `AdmissionProgress` | five meetings of up to 3 guards, commands that come again | a waiter is admitted unless a lane ahead of it is served; elastic workloads end |
| `AdmissionMergeStall` | an elastic workload with a part, a merge guard of the whole budget | a finding |
| `Systems` | the fourteen systems of `MCSystems`, one at a time | the safety of each, the refinement of `AbstractLock`, and that every command ends |
| `StageZombies` | a stage of 3 processes | a finding |

The systems of `Systems`: 3 threads with 4 calls on the lock; 3 processes with 3 commands on a compiler,
an export and a native build, cap 1, clock up to 1 (2 in `CasGcRace`); a guarded run and a stage of 3
processes; 3 publishers, one of which overwrites; 5 jobs on 2 workers with a budget of 2 and two start
orders; 2 audits with 2 modules and one change; 2 calls of a local CI run; its 3 rows under two
workflows and two requests; a row of three steps in each kind of job; an auditor of 3 processes; 2 commits, one
run again, 2 attempts and a publisher by hand; a check with one edit; an export of
4 functions in 2 iterations.

Why the bounds are enough to be interesting.

* A race needs two accesses and one block; a handle that moved or a clock handed on twice
  needs three threads (parent, child, grandchild, or two siblings).  A release sequence that another
  thread's RMW continues needs three threads and four operations (write, release,
  RMW, acquire).  A message older than a plain write of the same value
  needs one location and three operations.
* A nested await, a request against an awaiting task and a deferred task of another group need two
  groups and three threads; a future in a task of a future and one beside it, three futures.  A budget that ends
  at the deadline, one past the largest timestamp and one that is zero are among the
  budgets, and a second wait after a timeout needs three iterations.  Two other sleepers (`Queues`) make the caller wait before, between and behind them.
* A sleeper, a holder and a barging thread are three users of a lock.  Two builders and a collector, one of
  them killed, are three commands; with a cap of one the second entry makes a collection due; a last
  use that is old when it is read and new when the entry goes needs two ticks.
* Admission's hazards are between a head that waits, one that passes it and one that gives
  back: three guards, and a fourth where a part or a second backfill is needed.  Each
  meeting is chosen for the rules that meet there (`MCAdmission`), as all pairs of requests would
  mostly repeat each other.
* A leader, a child and a grandchild make every kind of orphan and escape, also a process that forks while
  it is killed.  No number of looks or KILLs is assumed: the clock passes at any point between them.
* Five jobs are the fewest where a job that needs the whole budget is passed by as many as it may be.
  Two audits are enough for one to use the other's pass across a change.
* Three rows make a cycle, a shared need and an import.  One edit suffices to
  separate any two readings of a check, as each reading of each part is a step.

`MaxAccess`, the programs' `max`, `MaxCalls`, `MaxFutures`, `MaxTries`, `Limit`, `MaxStarts`, `MaxTime`, `Chunks`, `MaxChanges`,
`Commands`, `MaxMain`, `MaxReruns`, `MaxEdits` bound runs and nothing else; each is a guard
of the actions that add to the history.  `Attempts`, `Rounds` and `Workers` are limits of the code
made small.

Deadlock checking is off in every run: a run of the program or of a command ends, and the
model then has no step.  A deadlock *of the program* is an outcome of the
machine (`Deadlock` in `Tasks`, `NoDeadlock` in `Threads`, `FuturesGoOn`), and the properties
speak about it; that a command does not get stuck is `AllEnd`.

### Fairness

None for the machine and the timed waits: the scheduler takes its turns from an oracle that promises no
fairness, and the code's own claims are about the outcome of every run, so no
liveness property would be justified.  What must not get stuck is stated as
safety: `NoDeadlock`, `DeadlockNeedsSleeper`, the waiters' part of `LockKept`.

The scripts are processes that the operating system runs: weak fairness of each one's own steps.
Beyond that:

* `GuardedRun`: the grace period and the five seconds after KILL pass (weak fairness of
  `StopEscalates \/ StopGivesUp`), and so does the deadline of the loop, which is only seen between samples (strong
  fairness of `TimesOut`).
* `StageRun`: the stage's timeout passes, and so do the two periods of `Escapees.stop` (weak fairness of `StageStops` and
  of `StopClock`).
* `ParRun`: jobs end (each runs under a guard with a timeout).  `Generated`: CI runs complete.
* `Cas`: builds end; nobody has to start a command or be killed.  `AllEnd` is about
  finitely many commands: flock keeps no queue, and an endless stream of builders of
  one key could starve one of them.
* `Admission`: workloads end, parts of a running elastic workload come, a part polls its lifeline
  and gets it, the ramp of a head grows.  Strong fairness of `TakeRegister` alone: the register
  lock is held for a few file operations and polled twenty times a second.  Nothing is assumed of the slots, the
  queue or the workspace locks; that commands which come again cannot
  starve a waiter is what `WaiterAdmitted` checks.

## Findings

1. `ThreadsSoloDetach`: `Mem.solo` counts a detached thread as joined, so main's
   accesses skip the race scan while the detached thread may still run.  The
   comment at `Mem/Basic.lean:704-713` says the skipped scan finds nothing.
2. `AtomicsMixedRace`: a racing atomic access of another size is accepted once a
   third access has retired the location of the first one; the docs say that a
   genuine mixed-size race is `.unspecified`.
3. `TasksCancelRace`: a `Group.cancel` between a cancelable wait's check and its
   sleep leaves the task asleep with its request pending, and the run ends in a
   deadlock; `docs/std-models.md:294` says a pending request ends the wait.
4. `CasGcRace`: a lookup stamps an entry without `gc.lock` after the collector has read
   its last use, and the collector evicts it on the old value; `cas.py:38` says that
   `gc` never removes an entry used within `--min-age`.
5. `AdmissionMergeStall`: a merge guard that does not fit beside the base of a running
   elastic workload waits for it as the head, while the workload's next part waits behind the merge
   ticket, until a `--lock-wait` or `--timeout` passes; `build-guard.py:84-92` says that merge tickets
   wait for no running workload and that every elastic workload progresses.
6. `StageZombies`: where the runner is a subreaper, a child of the stage that has ended stays a zombie of the
   leader's group until a scan reaps it, and the final check fails the stage for it;
   `docs/safe-output.md:45` fails only a stage that leaves live members.

Smaller things met while modelling, which no run states:

* `build-guard.py`: a TERM after the drain check of a part that was stopped at its charge does not
  stop its second run (only `preempted` is turned into `cancelled`, line 1839).
* `safe-output.py`: a failed `ps` makes a scan find nothing, so escapees may outlive the stage
  (the docstring at 23-24 says no blind spot remains); an interruption after the rename or link reports that the output was not
  changed, and one inside the `finally` leaves the temporary file.
  When the time to stop is over with somebody left, `stop` returns all the same, and the caller prints that they
  "were stopped" (lines 138-147, 216).
* `build-guard.py`: the reservation a backfill spares is the one read before the register lock (lines 1208, 1213): what the ramp
  has added since, and that of a head that came since, is not kept free, against `docs/build-budgets.md:69`.
* `par.py:336`: a job that closed both outputs but runs on blocks the loop in `wait`.
* `assumptions.py`: the cache is withdrawn without its lock; a module's digest is taken before the library is
  bound (`verify_fresh` catches a change between the two, as `AcceptedIsChecked` shows).
* `local-ci-steps.py`: a signal during `CANCELLING` is dropped; one kept over a failing `Popen`
  waits for the next call; one after `report['success']` is set leaves a receipt of success with a nonzero
  status, which the host refuses; a restriction that fails half way leaves files withheld and no
  record of it; a withheld file that is rewritten identically, or one that a step of a discovery reads and removes,
  is not seen.
* `generated.py`: "Entries stay in main's order" holds only while a publisher's clone is not behind the
  branch (publication by hand); a commit that was skipped below a published one never gets its files.
* `proof-receipt.py`: the docstring of `run_child`, "any exit path stops the whole group", does not hold for a
  signal inside `Popen` or for the first one during a stop begun for left children;
  the library compiled between the end of the audit and `compiled(plan)` is not compared with what the audit loaded.
* `ci-reuse.py`: a lookup may accept the record of an attempt whose job failed after it was written, if another attempt
  succeeded.
* `project.py`: a signal between `Popen` and the `try` of `run_guarded` leaves the guard untold, a second one during
  the wait leaves it unawaited, and a guard killed after 60 s leaves its workload; the rename replaces an
  empty directory that appeared meanwhile; a `print` that fails after the rename (line 1884, a closed pipe) ends with the
  exit status 2 of a refusal (1918-1920), with the record published.
* `project-export.py`: the hashes of unpinned modules are not compared again (the comment at 348 asks that sources do
  not change while the compiler reads them), so the report may name other versions than the AIR's; `finish`
  replaces an artifact that another export published meanwhile, without `--replace`
  (`docs/project-workflow.md:390`); a failure between its two renames loses the previous artifact (`:391`); a `--report` that
  cannot be written, or a `print` that fails, ends with exit status 2 after the artifact was published (lines 475-477, `project.py:1830-1832`).

## Proofs

All theorems hold for any number of threads, blocks, accesses, processes, keys, audits, publishers and
commands; the assumptions are the `ASSUME`s of the modules (thread ids are an initial segment of
the naturals; the initial writer of the lock word is no thread; keys and processes are
finite sets; and so on), which TLC evaluates in the runs.

* `ThreadsProofs`.  `TypeCorrect` is by induction over the actions.
  `JoinedCovered` and `SoloSkip` need the invariant `Cover`: every recorded access
  is below its thread's clock, and the clock of every thread that was joined is
  below the clock of a thread that is still open (or was released).  Without it
  the step of a join is not inductive: a child that joined a grandchild hands that
  clock on when it is joined itself.
  The invariant `Handles` ties stops, owners and handles
  together.  `JoinsNeverDeadlock` is a pigeonhole argument: if every thread waits
  for a join of its own handle, the owners map the threads other than main onto
  all threads, which a finite set does not allow.  `ConsumedOnce`, `MainEndsLast`
  (no transfers, no detaches) and `BudgetKept` (no transfers) rest on the same
  invariant; the conditions are needed, as a transferred handle moves the budget
  to a thread that did not spawn.
  About the run with its history, `HBInv` says that each clock is the set of steps in the thread's past: a past is closed
  under the order (`ReachedWhole`), is what the clock says (`ClocksArePast`), and a thread's own steps are
  ahead of what anybody else has seen of it (`OwnIsAhead`).  `ClocksAreExact` is read off it; `RaceChecksExact`
  adds that the exemption of the joined children hides nothing while no handle was given up
  (`OwnerCovers`).  `HistoryOnlyWatches` carries every theorem about the scheduler over to the run with the history.
* `AtomicsProofs`, in four invariants, each on top of the ones before.
  - `AInv`: messages, views and ids are as they should be (`MsgsOK`), and nobody, thread or message, is ahead of a
    thread in the thread's own entry.  Every operation is a location found (`Located`), at most one message inserted at a
    place (`Inserted`) and one view changed, so each of these is shown to keep the invariant once.  `TypeCorrect` follows.
  - `HX`: the clock of each thread, and the released clock of each message, is *exact* for a set of events (`Exact`):
    whoever has reached the number of an event has it in the set, and the clock is above all that an event of the set
    recorded or wrote.  A merge of two exact clocks is exact for the union, which makes a release sequence of any length
    one step of induction: a message's released clock is exact for the events its chain of RMWs frees.
    `HR` adds that two conflicting accesses, one of them plain, are ordered.  `AtomicRacesExact` is both.
  - `HO` (`Ordered`): an event is not before what happened before it in modification order (`Coh`); the events that a
    message frees wrote nothing after the message (`RelOrder`); what a thread read is not after its view.
    `OrderIsKept` needs the second to go through an acquire.  That a message in the middle disturbs none of it is that the
    old list embeds in the new one (`Embeds`).  `ReadChoicesExact` says that the oldest message offered
    is the newest one that anything the thread knows of names.
  - `HM`: the messages that have a plain write are those from one on that nobody who knows of the plain writes can
    go behind (`Cap`); an accepted atomic access knows of them all, by the race check.  `MemoryIsOne` follows.
* `IoProofs`.  `TaskInv` ties sleepers, marks, requests and plans to the stops: what a plan has
  joined has ended, two plans share no task, and a request of a task is delivered or its canceler is still
  in its plan.  From it follow `WakesEndOneWait`, `RequestsHaveCancelers` and `GroupsAreJoined`.
  `MainReturnsLast` and `GroupsNeverDeadlock` are arguments over all threads: the oldest thread left
  would have a spawner that ended and owes its join; in a deadlock of joins alone a
  pigeonhole maps the tasks that are joined, none of them main's or gated, onto all threads.  `TimedInv` describes the queue
  of the kernel (each sleeper in it once or marked), and what each verdict knows of the clock.
  `FutureInv` describes for every task its stop, the stack of the tasks it runs itself, and the phase of each
  future's record; that no run gets stuck (`FuturesAreKept`) follows by a descent along the futures, as a task that waits does so for one made later.
* `UnfairLockProofs`.  `LockInv` reads the state of the lock off the newest message:
  a 1 names the one thread inside, two 1s never follow each other, and the release
  sequence carries every finished section.  From it follow the exact owner check and that no
  wakeup is lost (`LockIsKept`), and the refinement of the abstract mutex
  (`UnfairLockImplementsLock`): a successful cmpxchg is `Acquire`, the exchange is
  `Release`, every other step stutters.
* `BuildProofs`.  `CasInv` says what a process holds at each stop: the lock of its key, a
  stage that is complete before the rename, the collector's lock.  `StoreIsKept` follows.
  `CollectionStopsAtCap` adds `Measured`: what the
  collector still has to free is at most the entries above the cap, because only the
  collector removes entries and everybody else can only add.
  Of the replays: versions only grow, so equal versions at two moments mean no change between them; every pass in the cache, in
  a merge or in a task is backed by a check of the same module, library and
  toolchain (`PassesAreBacked`).  `ChecksOnce` adds that a merge keeps what the cache held, as
  only the holder of its lock writes it.  `ReplayIsKept` is both.
  Of the parallel runner: chunks are numbered, so the output of a job is known from how much of it there is: what was printed of it,
  what its spool holds and what is still in its pipe are three consecutive stretches of the numbers it sent.  `ParInv` adds where each
  job is in that order: those before the head were read to their end and have nothing in their spools, those after it have nothing printed, and the head's own
  spool is empty while it is read, so what is read goes straight out.  Printing then moves one stretch over the border of two flattened sequences of sequences, which
  leaves their concatenation as it was (`FlattenJoins`); no step has to look at more than two jobs.
  The reserved memory is the cardinality of the running jobs' numbered units, so a start and an end each change it by one job's request;
  and the first waiting job is passed at most as often as `bypassed` counts, which starts again at zero only with another first job.
  `ParRunIsKept` holds for any start order in which each job comes once.
* `CommandsProofs`.  One invariant for each command.
  - Publication: the temporary file of a publisher past its copy is synced, so whatever the power leaves
    of the directory is whole; a rename is an overwriter's, a link needs an empty destination.
  - `LocalCall`: `LAUNCHING` is set while the child has no name yet and while it is reaped, so a handler that
    raises finds a child that is not; a signal that did not end the call is kept and looked at before a status is returned.
  - `LocalRun`, `RowRun`: what was completed has run with all it needs, each artifact is of one row, the walk
    is a path in the graph of needs; the outcome of a job is that of its worst step that counts.
  - `ProjectCheck`: which readings each stop of the check has behind it, and that equal first and last readings leave no
    edit between.  `ExportRun`: what the filter has grown by, and that the closure has no call outside.
  - `Generated`: each publisher's clone is behind main and holds its base, so a push of what comes after it keeps one
    entry each, in order while nobody publishes by hand.

  The types of these systems are more than types, and have invariants of their own on top: a directory on disk holds one file or none;
  the steps of a row that have read are steps of its recipe; an export has a round left while it searches; no version is beyond the
  edits made; what a publisher fetched is a beginning of the branch, so what is pending for it are commits of its clone.
* `SystemsProofs`.  One invariant for each supervisor of a process tree, and their sum with all the others.
  - `GuardedRun` (`SlotsAreKept`): what the guard follows stays a closed set of processes alive (`OwnedFacts`), so an
    empty set at the end means that nobody it met is left.
  - `AuditRun`, `StageRun`: the group of the leader is empty when the supervisor says so.  Under a subreaper every
    process alive is owned, or below one that a scan owns, so a scan that finds nobody means that nobody is left; a stage
    that ends otherwise has the time over and targets of its last scan, which is all that `StageIsContained` allows.

  `NothingIsLeft`, `LocalCiIsKept` and `ProjectIsKept` join the invariants to the properties that the run checks: a step of one system
  leaves the others where they are, and an idle one is where it started.  `SystemsAreKept` does the same for the systems whose
  theorems are about specifications of their own (the store, the lock, the guard, the runner, publication, replays and the branch), so
  every safety property of the run is a theorem of `SystemsSpec`.  `StatesAreTyped` is the joint type invariant `StateOK`.
* `AdmissionProofs`.  `AdmissionInv` says for each guard, by its stop, which slots and locks it holds, where it is
  registered and which tickets it has (`MyOK`); that the holders of the lock itself and of a workspace lock exclude each
  other (`Apart`); that the sums of slots, of elastic charges and of the excess are within their bounds, also after a
  look that another guard has not acted on yet (`Bounds`); and who was beyond its last look when a ticket came (`Drains`).
  Each step is first shown to move only its own guard's part (`Moves`), which leaves what the invariant says of the
  others; sums are counted as sets of numbered slots, so one guard's change is one
  cardinality.  `BudgetIsKept` and `WorkloadsAreApart` are read off the invariant, `DrainsAreKept` and `HeadsKeepPace` are about its steps.
  The latter needs an invariant on the history (`OwedInv`): the holder of the queue is collecting (`QueuePlaced`), what a head
  has of its reservation never shrinks while it holds the queue (`ReservedGrows`), and so what was owed at a look is at
  most what was read as lacking and what the head has by now; the admission leaves the former free.

Some operators of the models are written for the proofs and checked by the same runs.  A set that grows
step by step in the code (`Descendants`, `Grown`, `Called`) is the least set that is closed under the step, and a sum over
guards or jobs (`Sum` in `Admission`, `Requested` in `ParRun`) is the number of slots or units, each numbered by its owner.  The assumptions on what the guards ask for
(`GuardAssumption`: a part has its base's workspace, `build-guard.py:471`, and is neither elastic nor exclusive), on rows, on start
orders and on call graphs say what the parsers of the options and manifests admit.

Only proved: `MainEndsLast`, `BudgetKept` and `JoinedCovered` of `Threads`, and that a history only watches.  Only model-checked:
liveness under fairness (`AllEnd`, `WaiterAdmitted`, `ElasticProgress`), for which the prover has no rules.  Every invariant and every action
property of a passing run is a theorem.  No theorem rests on a recursive operator; the one
fold (`FlattenSeq`) is a recursive function of the community modules, whose values are found with the well-founded order of the naturals.

## Not modelled

Most of the 35,772 lines of implementation are Python batch scripts without a state that a step of anybody else could
meet: validators of manifests and records, reports, parsers, renderers, differential drivers.
They read their inputs once and print an answer; a model would copy them.  What remains of them in the models is
the part where two processes, a signal, a crash or an edit can come between: every such part
that was found is a module here or is named in this section.  The map therefore covers a small share of
those lines (about 7 %), and cannot come near a third of them; the Lean machine, where the deepest properties are, lies outside that count.

* The translator (`Air2Lean`), the value and float semantics, byte encodings and allocation,
  the program logics, the OS call models and the exporter patch are pure functions or meta-theory, proved in Lean or tested
  beside the code.
* Inside the machine: gated tasks in `Threads`, cross-process futexes, non-atomic accesses to
  futex words, read views across synchronization (a limit the docs name,
  `docs/std-models.md`), other programs of the timed scheduler (`TimedClient`).
  A handle transferred to a thread that has ended is never consumed; the code allows it and the models too.
* `build-guard.py`: the memory history, `--lean-process`, inherited admissions, logs and evidence.
* `cas.py`: key hashing, Lake's own files in the store, the stamp of `gc_if_due`, the uncached mode.
* Decisions of CI reuse, CI caches and attestations, regeneration, inventories and trust reports, differential
  tests, developer tools: one read, one answer.  `PROJECT.json` lists each with its files.

## Plan

The futex mutex and condition of the example programs, each refining
`AbstractLock` as `UnfairLock` does.
