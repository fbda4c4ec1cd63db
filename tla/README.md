# TLA+ specification of fdir

fdir is a small C library for fault detection, isolation and recovery on
embedded systems. Application code registers entities (its tasks) and
subsystems; workers report faults and heartbeats; one supervisor drains a queue
of failure reports, restarts or isolates entities, scans for missed heartbeats
and raises the system mode; ground commands lower it again.

These modules model the library as it is in `src/` and `include/`, running with
a port that has a lock (`docs/threading.md`), and three of the four programs under
`examples/` that use it. TLC checks small instances; TLAPS proves thirteen of
the fourteen checked invariants, the four action properties and the two refinements for
instances of every size.

## 1. Inventory

| Component | State | Operations | Used by / calls |
|---|---|---|---|
| failure queue (`failure_queue.c`) | `g_slots`, `g_head`, `g_tail`, `g_count`, `g_full_latched` | init, put, get, two queries | put by reports, get by the supervisor, init by `fdir_init` and by disabling supervision |
| health (`health.c`) | per entity: health, last heartbeat, one latch slot; `g_entity_limit` | heartbeat, set, reset, latch, clear latch, stale test | workers, supervisor, application |
| subsystems (`subsystem.c`) | per subsystem: available, degraded, critical path | register, three marks, exhaustion handler | recovery and ground |
| recovery (`recovery.c`) | entity table with restart counters, `g_mode`, `g_supervision_enabled` | register, supervisor tick, handle failure, watchdog scan, mode commands, supervision switch, gate | calls all of the above |
| reports (`report.c`) | none | `fdir_report_fault(_ex)`, `fdir_submit_failure` | workers and application; queue and health |
| worker helper (`worker.c`) | none | `fdir_worker_may_run` | workers; mode, heartbeat, gate |
| port (`port.c`) | the bound callbacks | clock, event, reboot, lock | everything |
| types, config, internal | configuration | setters, string copy | everything |
| filecopy (`examples/filecopy`) | job queue with two condition variables, per worker its thread and `active`, `g_running`, `g_fdir_mutex` | tree walk, worker threads, supervisor thread, restart callback, joins | the library from several threads |
| dual_path, getting_started | restart counters, `g_link_up` | a fixed sequence of library calls with repeated `fdir_init` | the library from one thread, a port without lock |
| FreeRTOS example, status strings, log helpers, tests | - | - | not modelled, see section 7 |

All shared state is static and protected by the one port lock. Some functions
do their work in one critical section (`report_fault_impl`, all ground commands);
others take the lock several times and act on what they read before:
`fdir_submit_failure`, `fdir_handle_failure`, `fdir_check_watchdogs`,
`fdir_worker_may_run`. These are where interleavings matter. The other hard
parts are the 32-bit clock that wraps, the 8-bit counters, the full queue, the
drain loop that others keep feeding, and sequences of commands (disable and
enable supervision, mark, reset) that leave the tables inconsistent.
In `filecopy` the restart callback waits for a thread while the lock is held, and
the end of the process depends on wake-ups, on two threads that join the same
worker and on a flag that is read without a lock.
`PROJECT.json` lists the hazards one by one, with the properties aimed at them.

What makes each component correct:

- queue: reports come out once, in order; nothing accepted is lost; a refusal is
  visible.
- health: FAILED survives heartbeats; staleness is exact across the wrap.
- latches: one suppresses only what the ground already knows and has not seen
  cleared.
- recovery: restarts stay within budget; the dual-path threshold means SAFE; no
  recovery lowers the mode; no failure is left with nobody responsible for it.
- gate: a worker whose entity was restarted gets back to work.
- supervision switch: once it is off, nothing but a recovery and a submission already
  let pass happens.
- supervisor: every report is eventually handled, every silence noticed.
- an entity, seen from outside: OK, reported or isolated; only a restart from its
  budget leads back, and only isolation or an unknown entity raises the mode.
- filecopy: no wake-up is lost, every join returns, the process ends, no file is
  lost or copied twice, and a run without failed copies has copied every file.
- the demonstrations show what their headings say.

## 2. Modules

| Module | Models |
|---|---|
| `FdirTypes` | `types.h`: limits, enumerations, anomaly keys; descriptors, in which a callback is the set of values it can return |
| `Port` | the world behind `fdir_port_t`: clock, what an observer of the events considers open, the reboot request, the calls of `restart()` |
| `FifoQueue` | abstract specification of the queue |
| `FailureQueue` | `failure_queue.c`, and the refinement mapping to `FifoQueue` |
| `Health` | `health.c` |
| `Subsystem` | `subsystem.c` |
| `Recovery` | critical sections of `recovery.c` and `report.c`, over the abstract queue |
| `Fdir` | the processes: supervisor, one worker per entity, a client of `fdir_submit_failure`, application, ground, platform; properties |
| `EntityLifecycle` | abstract specification of an entity's life; `Fdir` has the refinement mapping (`ImplementsLifecycle`) |
| `FailureQueueProofs` | theorems about the ring buffer, the refinement of `FifoQueue` included |
| `FdirProofs` | theorems about `Fdir`: types, latches, isolation, no fault lost; lemmas on every operator |
| `FdirModeProofs` | theorems about the mode, the supervision switch, the watchdog scan and the dual-path rule |
| `FdirRestartProofs` | theorem about the restart budgets |
| `FdirLifecycleProofs` | theorem that `Fdir` implements `EntityLifecycle` |
| `FdirQueueProofs` | theorem about the queue slots of an entity |
| `FileCopy` | `examples/filecopy`: main, worker threads, supervisor thread, job queue, the port mutex; extends `Fdir` and uses its supervisor steps |
| `Demos` | `examples/dual_path` and `examples/getting_started` as sequences of library calls, and `fdir_init`; extends `Fdir` |
| `FileCopyProofs` | theorems about `FileCopy` |
| `MCFailureQueue`, `MCFdir`, `MCFileCopy`, `MCDemos` | constants for TLC |

`FdirTypes` <- `Port` <- `Health`, `Subsystem` <- `Recovery` <- `Fdir` <- `FileCopy`,
`Demos` by EXTENDS; `Recovery` instantiates `FifoQueue`, `Fdir` instantiates
`EntityLifecycle`. Of the proof modules, `FdirProofs` <- `FdirModeProofs` <-
`FdirRestartProofs` <- `FdirLifecycleProofs`, `FdirQueueProofs`; the others extend only
what they are about.

**Atomicity.** A step is one critical section of the port lock. Between two
steps of one process any other process may run. The supervisor's `pc` names the
places where it holds no lock: before the clock reading (`wd_now`), between that
and the test of the switch (`wd_check`), between the test and the scan (`scan`,
also after each entity the scan handles), before and after the test in
`fdir_handle_failure` (`handle_check`, `handle`). A worker is at `safe` or `gate`
between the two critical sections of `fdir_worker_may_run`. The scan loop runs
under the lock up to the first entity it reports; `WatchdogRaise` is that stretch.

In `FileCopy` one critical section is split: `RestartCall` is
`fdir_handle_failure` up to the call of `worker_restart_cb`, `worker_restart_cb` is
the rest, and between them the supervisor holds `g_fdir_mutex`, so that no thread
can enter the library. A worker thread is at the place before its next step:
`mode` and `gate` (the two halves of `fdir_worker_may_run`), `pop`, `wait` (asleep on
`not_empty`), `copy`, `beat`, `report`, `exit`, `exited`, `joined`. Threads of a
worker are a sequence, because the callback can create a new one while main still
joins the old one. A second `pthread_join` of one thread is undefined in POSIX; the
model lets it return at once, as an error return whose result the code ignores
would. Programs in `Demos` are sequences of calls; the supervisor's steps
inside `fdir_supervisor_tick` are those of `Fdir`, with nobody to interleave with.

**Abstractions.** Error codes, detail texts, names, time stamps of reports and
events, severities and log-only events decide nothing in the code and are left
out. `g_latched_reason` and `g_fault_latched` are one variable with `NO_REASON`
(0xFF, the code's own sentinel) for "not latched". `g_entity_count` always equals
`g_entity_limit`. The `used` flags are true exactly below the counts. A refused call
that writes nothing has no action, except where the refusal itself changes state
(a full queue). The critical flag of a report only chooses between two error
codes. `on_system_escalation` returns nothing and may not call the library.
A callback's answer is chosen freely from its set at every call, and `restart()`
may succeed or fail at every call.

**Which calls are made.** `Calls` lists the API functions beyond the supervisor
and worker loops that the application and the ground use. Several properties hold
only when some function is not called; then the run's `Calls` leaves it out, and
the theorem has it as an assumption:

| Property | Not called | Why |
|---|---|---|
| `LatchedIsIsolated` | `fdir_health_set`, `fdir_health_reset` | both overwrite FAILED by decree |
| `FailedIsAccounted` | `fdir_set_supervision_enabled`, `fdir_health_set` | the first drops the queue (see `restore`), the second can decree FAILED |
| `DualPathEnforced` | `fdir_subsystem_mark_unavailable`, `fdir_set_system_mode`, `fdir_deescalate_system_mode` (`RecoveryRulesMode`) | the first changes the count and the others the mode without `evaluate_dual_path`, by design |
| `OneSlotPerEntity` | `fdir_submit_failure`, `fdir_health_*`, `fdir_handle_failure` from outside; reporters that are not the entity's worker name registered ids only, which the model has by registering every slot at start-up (`ReportsAreDeduplicated`) | raw submissions are not deduplicated, nor are reports for a slot that is not registered, which cannot be marked FAILED; the others clear FAILED while a report is queued |
| `SilenceDetected` | `fdir_health_reset`, `fdir_health_set` | an entity that is latched for WATCHDOG and reset by hand is skipped by the scan for ever; the ground then still has its anomaly open (`SuppressedIsOpen`) |
| `FaultHandled`, `WorkResumes` | `fdir_set_supervision_enabled`, `fdir_health_*`; budgets are finite in `drain` | those of `FailedIsAccounted`; a caller that fails an entity again whenever it is healed, by a reset or an unlimited budget, can keep its worker from the gate |
| `ScanKeepsHappening` | `fdir_submit_failure`, reports with an unknown id (`report_unknown`) | neither is deduplicated, so a caller that never stops can feed the drain loop for ever |
| `ImplementsLifecycle` | those of `DualPathEnforced`, `fdir_enter_safe_mode`, `fdir_try_reboot`, `fdir_health_*`, platform resets, late registration of entities; no hook answers RESTART (`RecoveryAlone`) | the abstract specification is about the recovery of entities registered at start-up |
| `RestartsWithinBudget` | none; entities and subsystems whose policies answer RESTART are excluded in the property | the code lets a policy restart beyond the budget |

## 3. Runs that pass

| Run | Instance | Checks |
|---|---|---|
| `ring` | capacity 3, counters up to 3 (the largest capacity that fits) | `RingTypeOK`, `TailFollowsCount`, `RingImplementsFifo`, `AcceptedIsPending` |
| `core` | 2 entities on 2 critical subsystems, queue of 2, clock wraps at the first of 2 ticks, other code reports faults too | `TypeOK`, `LatchedIsIsolated`, `RestartsWithinBudget`, `DualPathEnforced`, `OneSlotPerEntity`, `WatchdogJustified`, `ImplementsLifecycle`; liveness: `SilenceDetected`, `ScanKeepsHappening` |
| `api` | 1 entity and 1 subsystem registered while the tasks run, direct calls of scan and handler, raw submissions, reports for unknown ids, health resets | `FailedIsAccounted`, `SuppressedIsOpen` |
| `ground` | 1 entity with a policy hook and unlimited watchdog restarts, a subsystem that may answer REBOOT, every ground command, reports and raw submissions for the entity, platform resets | `OnlyGroundLowersMode`, `BypassIsPassive` |
| `drain` | the two paths of `core`, clock stands still, raw submissions and reports for unknown ids too | liveness: `FaultHandled`, `WorkResumes` |
| `filecopy` | 2 workers with 1 and 0 restarts, 4 files, job queue of 1, clock stands still; copies, `pthread_create` and wake-ups may go wrong | `FileCopyType`, `CleanRunCopiesAll`, `EachFileOnce`, `JoinNeedsNoLock`; liveness: `JoinReturns`, `ShutdownEnds`, `WalkerServed` |
| `demos` | both programs, every delay up to the staleness limit | `ShowsWhatIsAnnounced` |

What they show:

- The ring buffer implements a bounded FIFO queue, so the composed model may use
  the abstract one.
- `FailedIsAccounted`: from the moment `report_fault_impl` marks an entity FAILED
  somebody is responsible for it. It depends on the order in that function: the
  report is queued first, and a refused report leaves health alone.
- `SuppressedIsOpen`: what the latch suppresses is known to the ground and open.
- `WatchdogJustified`: apart from the stale clock reading (see below) the scan is
  exact, also when the clock wraps.
- `OneSlotPerEntity`: the promise of `docs/safety/seooC.md` that duplicates use no
  extra slots holds, with one exception that the bound states: a watchdog report
  that overtakes a queued report and restarts the entity allows one more.
- `ImplementsLifecycle`: seen from outside, every step of supervisor, workers and
  reporters is one of five steps of a life cycle with three phases: whatever the
  interleaving of heartbeats, latches and queue, FAILED ends only with a call of
  `restart()` that a budget pays for.
- `JoinNeedsNoLock`, `JoinReturns` in `filecopy`: as long as no watchdog fires, the
  thread that the restart callback joins is on its way out and needs the lock no more,
  because it left its loop when it reported the fault. `filecopy_join` shows the other
  case.
- `EachFileOnce`: every file that the walk found is queued once, held by one thread,
  copied or failed, whatever threads die, are replaced or wake up for nothing.
- `BypassIsPassive`: `fdir_handle_failure` tests the supervision switch itself, although
  its callers have tested it, and acts on the answer in a later critical section. So a
  recovery that was let pass still happens after the switch is off, and so does the put of
  a `fdir_submit_failure` that was let pass (`submit_race`). With no recovery under way
  the supervisor begins none, no other report gets into the queue, and neither it nor
  workers and reporters touch latches, modes, subsystems or the ground's anomalies.
- `ShutdownEnds`, `WalkerServed`: no wake-up is lost, with workers that die, are
  replaced, cannot be replaced, or wake up without a signal. The walker can wait for
  ever in one case, which the property names: every worker is isolated.
- `ShowsWhatIsAnnounced`: nothing outlives `fdir_init`, and the number of restarts is
  exact.
- `WorkResumes`: a fault takes a worker out of its loop's work and a restart brings it
  back, through the two critical sections of `fdir_worker_may_run`, although the other
  entity may have degraded the system meanwhile.

**Bounds.** The clock has 8 values and starts at 6 (7 in `core`), so that the second (first)
tick wraps it, and the maximum heartbeat age is 1 tick (0 in `ground`). That is enough for ages
below, at and above the limit, before and after the wrap, and for a heartbeat
younger than the scan's reading. Restart counters end at 3 (2 in `ground`) instead of 255:
budgets 0 and 1 occur in `core`, an unlimited one and saturated counters in `ground`; that
`RestartsWithinBudget` survives these two is shown by the theorem. The queue of 2 (1 in `ground`)
is full, half full and empty. Two entities are enough for one to be handled
between the scan's reports of the other, and two critical subsystems reach a
threshold of 2 in two steps. `restart_calls` saturates at `U8_MAX + 1`, above every
budget. `submit` holds one call at a time: a second caller adds only what
`report_fault` from other contexts already does to the queue.

`filecopy` gives its workers budgets of 1 and 0 instead of 2, so that one is
restarted and both can be isolated with 4 files; a job queue of 1 instead of 4096 is
empty, full and waited for at both ends. Its clock stands still: after any tick a
heartbeat can overtake the scan's clock reading, the watchdog fires on a live
worker (`spurious_watchdog`) and the process can hang (`filecopy_join`), so every
other liveness property would only fail for the same reason. It
covers the runs in which the watchdog never fires, under every schedule. In `demos` the unit of time
is the health check period; `SLACK` 2 is the largest age that is not stale and
`SLEEP` 3 stands for the 3.5 periods of `nanosleep`. The threshold of 2 is that
of dual_path; getting_started sets 1 and has no subsystem that could reach either.

**Fairness.** `FairSpec` is weak fairness of `SupervisorLoop`: assumption A1 of
`docs/safety/seooC.md`, a dedicated context that calls `fdir_supervisor_tick` for
ever, and a lock it eventually gets. Workers, application, ground and clock are
not fair: they may stop at any point. Only `WorkResumes` has weak fairness of the workers
as its premise (`WorkersKeepRunning`), the `for (;;)` of `docs/integration.md`: a task
that never calls `fdir_worker_may_run` again does not get back to work. `ScanKeepsHappening` holds although others
may refill the queue while it is being drained, because each entity's failure can
be consumed only finitely often before it is latched or out of budget in `core`,
in which nobody uses raw submissions or unknown ids; with these the loop in
`fdir_supervisor_tick` has no bound and `drain` shows only that each report is reached.

`FileCopyFairness` is weak fairness of main, of the supervisor thread and of the
threads of each worker: threads of a POSIX process that the scheduler runs, and
copies that end. Mutexes are free again after one step, except `g_fdir_mutex` in the
restart callback, and that wait is what is checked. Spurious wake-ups and the clock are not fair.
`demos` deadlocks nowhere (a finished program stutters); `filecopy` switches the
deadlock check off because its process ends.

## 4. Runs that find a disagreement

Each checks one sentence of the documentation; TLC finds the behaviour that
breaks it. `PROJECT.json` quotes the sentences.

| Run | What happens |
|---|---|
| `spurious_watchdog` | a heartbeat between clock reading and lock makes the unsigned age wrap: a live entity is failed |
| `submit_race` | a report is queued after supervision was disabled |
| `subsystem_clear` | `fdir_subsystem_mark_available` leaves the subsystem's anomaly open |
| `restore` | disabling and enabling supervision leaves an entity FAILED with nobody to recover it |
| `filecopy_join` | a watchdog restart joins a live worker with the port lock held; the worker needs the lock; the process hangs |

More, read off the models and the code and not kept as runs:

- A supervisor that has passed the test in `fdir_handle_failure` still calls
  `restart()` once after supervision was disabled. `BypassIsPassive` says that this and
  the submission of `submit_race` are all that happens.
- A second reason overwrites an entity's only latch slot, after which a repeat of
  the first is raised and handled again (`docs/safety/seooC.md` says "per
  entity+reason").
- A queue depth of 256 makes the 8-bit count wrap to 0 at the 256th report, and all
  are forgotten; `docs/api.md` names no limit for `FDIR_FAILURE_QUEUE_CAP`. (`ring`
  with `FAILURE_QUEUE_CAP = U8_MAX + 1` violates `AcceptedIsPending`.)
- In SAFE mode `fdir_worker_may_run` refuses work although supervision is disabled,
  because it looks at the mode first; `docs/integration.md:104` says that it always
  allows work then.
- filecopy: its workers have no subsystem and `on_exhausted` UNAVAILABLE, so the mode
  never reaches SAFE and the exit status never tells of failures, although
  `examples/filecopy/README.md` promises both. main does not wait for a worker whose
  restart is still queued (`active` is 0), so the process can end with jobs in the
  queue. With every worker isolated the walker waits on a full queue for ever. A
  worker that has finished sends no heartbeat and is restarted by the watchdog when
  the walk lasts long enough. With more than 8 workers the failure queue can refuse a
  report, whose result is ignored.
- FreeRTOS example: scenario 3 marks two subsystems unavailable and then relies on
  the report of a worker that is already isolated; the marks alone do not evaluate
  the dual-path rule, so SAFE is not reached as `examples/FreeRTOS/README.md` says.
  After a refused port, `fdir_request_reboot` aborts.

## 5. Proofs

All theorems hold for every value of the constants that satisfies the ASSUMEs of the
modules: `CapAssumption`, `ClockAssumption`, `ThresholdAssumption`, `BootAssumption`,
`ConfigAssumption` (limits of `types.h`, widths of the fields, descriptors that
`fdir_entity_register` accepts), and in the example those of `FileCopy`. The run may be of any length
(`CLOCK_BOUND` is any natural number), so the clock may wrap any number of times.
What a theorem needs beyond them is a named hypothesis in its statement, which the
runs of section 3 satisfy.

| Theorem | Statement | Argument |
|---|---|---|
| `TypeCorrect` | `Spec => []TypeOK` | inductive as it stands; one lemma per operator that computes a new table |
| `SuppressionSafe` | `Spec => []SuppressedIsOpen` | inductive with `TypeOK`. `HandleOutcome` reduces `fdir_handle_failure` to three outcomes (untouched, restarted, isolated); `KeysDiffer` shows that no event of another entity or of a subsystem closes the key, which is where the limit of 128 entities is needed |
| `IsolationSafe` | `HealthIsSupervised /\ Spec => []LatchedIsIsolated` | inductive with `TypeOK`: only `Handle` changes latches (`OthersKeepLatches`), and no other step lifts FAILED (`OthersKeepFailed`) |
| `NoFaultLostSafe` | `FaultsAreReported /\ Spec => []FailedIsAccounted` | the invariant is `NoFaultLost`, `FailedIsAccounted` together with "supervision is enabled": without the latter `HandleCheck` may drop the report in flight. One lemma per process says who accounts for a failed entity after its step |
| `RingTypeCorrect`, `TailFollowsCountSafe` | `CapFitsCount /\ RingSpec => []RingTypeOK`, `... => []TailFollowsCount` | the first bounds the indices and the count by the capacity, the second places the tail; together they are inductive (`RingInv`). `CapFitsCount`, capacity at most `U8_MAX`, is what the 8-bit count needs and the code does not check |
| `AcceptedIsPendingSafe` | `CapFitsCount /\ RingSpec => AcceptedIsPending` | `PutAppends`: the written slot is the first behind the pending ones |
| `RingRefinesFifo` | `CapFitsCount /\ RingSpec => RingImplementsFifo` | `RingInv`; each operation maps to the abstract one of the same name. With it the composed theorems hold of the ring buffer too |
| `OnlyGroundLowersModeSafe` | `Spec => OnlyGroundLowersMode` | no operator of recovery lowers the mode (`ModesRise`, `ModeAfterRises`, ...), step by step |
| `BypassIsPassiveSafe` | `Spec => BypassIsPassive` | step by step: with the switch off, `HandleCheck` returns, reports are ignored, `SubmitCheck` lets nothing pass, `SubmitPut` queues only what had passed, and `Handle` is the only step that recovers |
| `WatchdogJustifiedSafe` | `WithinOnePeriod /\ Spec => WatchdogJustified /\ []ReadingIsTime` | needs only `TypeOK`. `WithinOnePeriod`, a run shorter than one period of the clock, makes the elapsed time that the property recovers from a reading the time of the run (`ReadingIsTime`). Arithmetic of `%` (`WrappedDifference`) shows that the unsigned age differs from the true one only when the heartbeat is younger than the reading |
| `DualPathSafe` | `RecoveryRulesMode /\ Spec => []DualPathEnforced` | inductive with `TypeOK`. A recovery ends in `evaluate_dual_path` or leaves the subsystems alone; the ground's remaining marks only lower the count, a late subsystem is up |
| `BudgetSafe` | `Spec => []RestartsWithinBudget` | the invariant `BudgetInv` adds that each counter is the number of calls, cut off at `U8_MAX` (`CountersAgree`), that free slots have no calls, and that no descriptor has RESTART as its final action. A counter at its limit equals an unlimited budget or exceeds every other |
| `LifecycleRefined` | `RecoveryAlone /\ Spec => ImplementsLifecycle` | `LifeInv` collects `TypeOK`, `LatchedIsIsolated`, `DualPathEnforced`, `BudgetInv` and the table of start-up. `Handle` maps to a restart, an isolation, a degradation or a stutter; `DualPathEnforced` is needed because the abstract mode may rise only then |
| `OneSlotSafe` | `ReportsAreDeduplicated /\ Spec => []OneSlotPerEntity` | a balance (`Backed`): reports pending or in the supervisor's hand never exceed the watchdog restarts plus the FAILED mark. A new report needs a mark that is not set; a normal recovery consumes a report with the mark; a watchdog restart takes the mark and adds 1. When the count of restarts has saturated the queue's capacity is the bound |
| `FileCopyTypeCorrect` | `TimedFileCopySpec => []FileCopyType` | `FileCopyInv` adds that reports name known workers, that a copying thread has a job, that the thread main joins exists, and that the mutex is held only in a restart callback |
| `CleanRunSafe` | `Len(BootEntities) > 0 /\ FileCopySpec => []CleanRunCopiesAll` | `CleanInv`: while no copy has failed, the library is as main set it up, every worker has its first thread, each file found is queued, copied or held by a worker, and main has passed only workers that ended with the queue empty |
| `CalmRunSafe` | `Len(BootEntities) > 0 /\ TimedFileCopySpec => [](NobodyFailed => CleanRunCopiesAll)` | `CalmInv` is `CleanInv` without the clock, under the condition `Calm`: no copy failed, no worker FAILED, no call of `restart()` counted or under way. `RunStep` shows that such a state is reached only from such states: a step counts a restart, or it heals nobody and does not let go of the lock. The library may then have a stale worker in hand, and handling it ends the calm |
| `EachFileOnceSafe` | `TimedFileCopySpec => []EachFileOnce` | `FilesInv`: the queue holds the last files found, in the order of the walk, so that the files handed out are the ones before them; each of these is held, copied or failed, and no two threads hold one. A take moves the boundary by one, nothing else does |
| `JoinNeedsNoLockSafe` | `FileCopySpec => []JoinNeedsNoLock` | `JoinInv`: without time no heartbeat is stale (`Standstill`), so every report, queued or in hand, is the only one of a FAILED worker (`ReportsOfFailed`), and the threads of a FAILED worker, like all but the last of any other, have left their loop (`EndedThreads`) |

`CleanRunSafe` is about `FileCopySpec`, in which time stands still, because with time
it is false: after a watchdog restart main can join the old thread and let the
process end while the new thread copies (TLC finds this in 27 steps with one worker
and one file). `CalmRunSafe` says that this takes a restart or a FAILED worker: with
time, a process that exits while neither has happened has copied everything.
`JoinNeedsNoLock` is false with time for the reason that `filecopy_join` shows.
`EachFileOnce` holds with time too. `main.c` refuses to start without a worker. What is proved of `Spec`
holds under the fairness of `FairSpec` too.

TLC checked each inductive invariant, as an invariant of the run with the property it
is for, before it was proved.

Only model-checked: liveness (`FaultHandled`, `WorkResumes`, `SilenceDetected`,
`ScanKeepsHappening`, `JoinReturns`, `ShutdownEnds`, `WalkerServed`), which is out of the
prover's reach, and `ShowsWhatIsAnnounced`: the two programs are fixed, and only the
delays between their calls vary, so `demos` already covers every run of them up to the
staleness limit.

## 6. Plan

Done: the modules, runs and theorems above, in the order queue, tables, recovery,
processes, properties, proofs, abstract life cycle, examples, proofs of the remaining
invariants and refinements.

Left: facts that the proofs use and no run states, such as the balance behind
`OneSlotPerEntity` (which bounds reports in flight too) and `CountersAgree`, could
become properties of their own.

## 7. Not modelled

- A port without `lock`/`unlock` on a preemptive system: undefined behaviour
  according to `docs/threading.md`.
- Unlocked queries (`fdir_subsystem_is_available` and its like, live snapshots):
  they change nothing, and the library itself does not decide on them.
- Event contents, severity, detail strings, `fdir_log_note`,
  `fdir_log_queue_overflow`, `fdir_status_string`, names: formatting only.
- `fdir_port_bind` and the ports it refuses: the programs pass constant, complete ports;
  only the tests pass others.
- `fdir_init` while tasks run: `Fdir` starts after it, a platform reset runs it again
  with every task stopped, and the programs of `Demos` that repeat it have one thread.
- `examples/FreeRTOS`: its tasks make the same library calls as the modelled programs;
  when they run is decided by a kernel that is not in the repository.
- The contents and paths of copied files in `examples/filecopy`.
- Tests, build files.
