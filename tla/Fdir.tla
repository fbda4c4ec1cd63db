--------------------------------- MODULE Fdir ---------------------------------
(***************************************************************************)
(* The library in use: one supervisor context, one worker per entity that   *)
(* runs the loop of docs/integration.md, one client of fdir_submit_failure,  *)
(* and the ground and application code that call the rest of the API.  A    *)
(* step is one critical section of the port lock, so that every place where *)
(* the code releases the lock, or reads before taking it, is a place where  *)
(* the others can run.                                                      *)
(***************************************************************************)
EXTENDS Recovery

CONSTANTS
  BootEntities, BootSubs,   \* descriptors registered before the tasks start
  LateEntities, LateSubs,   \* descriptors the application registers later on
  Calls,                    \* the other API functions the application uses
  FaultReasons,             \* reasons that workers and the application report
  HEALTH_CHECK_PERIOD_MS, MISSED_HEARTBEAT_TOLERANCE

ASSUME BootAssumption ==
  /\ BootEntities \in Seq({d \in EntityDescType : d.on_exhausted # "RESTART"})
  /\ Len(BootEntities) <= ENTITY_CAP
  /\ BootSubs \in Seq(SubDescType)
  /\ Len(BootSubs) <= SUBSYSTEM_CAP
  /\ LateEntities \in SUBSET EntityDescType
  /\ LateSubs \in SUBSET SubDescType

ASSUME ConfigAssumption ==
  /\ FaultReasons \in SUBSET Reasons
  /\ HEALTH_CHECK_PERIOD_MS \in Times
  /\ MISSED_HEARTBEAT_TOLERANCE \in 0 .. 255

VARIABLES
  pc,        \* where the supervisor is
  ret,       \* where fdir_handle_failure returns to
  scan,      \* id, the loop variable of fdir_check_watchdogs
  now_ms,    \* the clock reading fdir_check_watchdogs took before it locked
  worker,    \* per entity: where its task is
  submit     \* the report of a fdir_submit_failure call that passed its check

supVars == <<pc, ret, scan, now_ms>>
vars == <<portVars, libVars, queue, g_full_latched, report, supVars, worker, submit>>

fdir_heartbeat_max_age_ms ==
  (MISSED_HEARTBEAT_TOLERANCE * HEALTH_CHECK_PERIOD_MS) % TIME_MOD

SupervisorPcs == {"idle", "drain", "wd_now", "wd_check", "scan", "handle_check", "handle"}
WorkerPcs == {"idle", "safe", "gate", "work"}

TypeOK ==
  /\ PortType /\ HealthType /\ SubsystemType /\ RecoveryType
  /\ pc \in SupervisorPcs
  /\ ret \in {"idle", "drain", "scan"}
  /\ scan \in 0 .. ENTITY_CAP
  /\ now_ms \in Times
  /\ worker \in [Ids -> WorkerPcs]
  /\ submit \in SUBSET Reports

\* fdir_init followed by the start-up registrations, all before the tasks run.
BootedEntities == [id \in Ids |-> IF id < Len(BootEntities)
                                  THEN NewEntity(BootEntities[id + 1])
                                  ELSE NewEntity(ZeroDesc)]
BootedSubs == [s \in SubIds |-> IF s < Len(BootSubs) THEN NewSub(BootSubs[s + 1])
                                                      ELSE ZeroSub]
BootedHealth == [id \in Ids |->
                   [health |-> "OK",
                    last_heartbeat_ms |-> IF id < Len(BootEntities) THEN BOOT_MS ELSE 0]]

Init ==
  /\ PortInit
  /\ Queue!QueueInit
  /\ g_health = BootedHealth
  /\ g_latched_reason = NoLatches
  /\ g_entity_limit = Len(BootEntities)
  /\ g_subs = BootedSubs
  /\ g_sub_count = Len(BootSubs)
  /\ g_mode = FDIR_MODE_NOMINAL
  /\ g_supervision_enabled = TRUE
  /\ g_entities = BootedEntities
  /\ pc = "idle" /\ ret = "idle" /\ scan = 0 /\ now_ms = 0
  /\ worker = [id \in Ids |-> "idle"]
  /\ submit = {}

-----------------------------------------------------------------------------
(***************************************************************************)
(* The supervisor: fdir_supervisor_tick, fdir_check_watchdogs and           *)
(* fdir_handle_failure.                                                     *)
(***************************************************************************)
\* Only the supervisor's own program counter and locals change.
OnlySupervisor == UNCHANGED <<portVars, libVars, queue, g_full_latched, worker, submit>>

\* The caller's locals end with the call that owns them.
ReturnTo(p) ==
  /\ pc' = p
  /\ ret' = "idle"
  /\ report' = ZERO_REPORT
  /\ IF p = "scan" THEN UNCHANGED <<scan, now_ms>> ELSE scan' = 0 /\ now_ms' = 0

TickBegin ==
  /\ pc = "idle" /\ g_supervision_enabled
  /\ pc' = "drain"
  /\ UNCHANGED <<ret, scan, now_ms, report>> /\ OnlySupervisor

DrainGet ==
  /\ pc = "drain"
  /\ Queue!QueueGet
  /\ pc' = "handle_check" /\ ret' = "drain"
  /\ UNCHANGED <<portVars, libVars, scan, now_ms, worker, submit>>

DrainEmpty ==
  /\ pc = "drain" /\ queue = <<>>
  /\ pc' = "wd_now"
  /\ UNCHANGED <<ret, scan, now_ms, report>> /\ OnlySupervisor

WatchdogBegin ==      \* fdir_check_watchdogs called directly
  /\ "check_watchdogs" \in Calls
  /\ pc = "idle"
  /\ pc' = "wd_now"
  /\ UNCHANGED <<ret, scan, now_ms, report>> /\ OnlySupervisor

WatchdogReadClock ==
  /\ pc = "wd_now"
  /\ now_ms' = fdir_get_now_ms
  /\ pc' = "wd_check"
  /\ UNCHANGED <<ret, scan, report>> /\ OnlySupervisor

WatchdogCheck ==
  /\ pc = "wd_check"
  /\ \/ g_supervision_enabled /\ pc' = "scan" /\ UNCHANGED <<ret, scan, now_ms, report>>
     \/ ~g_supervision_enabled /\ ReturnTo("idle")
  /\ OnlySupervisor

\* The entities the scan would report, from the loop variable on.
watchdog_due ==
  {id \in scan .. g_entity_limit - 1 :
     /\ ~fault_is_latched(id, REASON_WATCHDOG)
     /\ is_stale(id, now_ms, fdir_heartbeat_max_age_ms)}

\* The loop runs on under the lock to the first such entity and lets go of it.
WatchdogRaise ==
  /\ pc = "scan"
  /\ \E id \in watchdog_due :
       /\ \A other \in watchdog_due : id <= other
       /\ report' = [entity |-> id, reason |-> REASON_WATCHDOG]
       /\ scan' = id + 1
  /\ pc' = "handle_check" /\ ret' = "scan"
  /\ UNCHANGED now_ms /\ OnlySupervisor

WatchdogEnd ==
  /\ pc = "scan" /\ watchdog_due = {}
  /\ ReturnTo("idle") /\ OnlySupervisor

HandleBegin ==        \* fdir_handle_failure called directly
  /\ "handle_failure" \in Calls
  /\ pc = "idle"
  /\ \E id \in AnyId, reason \in FaultReasons :
       report' = [entity |-> id, reason |-> reason]
  /\ pc' = "handle_check"
  /\ UNCHANGED <<ret, scan, now_ms>> /\ OnlySupervisor

\* Mutant: fdir_handle_failure relies on the test that its caller has made.
HandleUnchecked ==
  /\ pc = "handle_check"
  /\ pc' = "handle" /\ UNCHANGED <<ret, scan, now_ms, report>>
  /\ OnlySupervisor

HandleCheck ==
  /\ pc = "handle_check"
  /\ \/ g_supervision_enabled /\ pc' = "handle" /\ UNCHANGED <<ret, scan, now_ms, report>>
     \/ ~g_supervision_enabled /\ ReturnTo(ret)
  /\ OnlySupervisor

Handle ==
  /\ pc = "handle"
  /\ handle_failure(report)
  /\ ReturnTo(ret)
  /\ UNCHANGED <<clock, queue, g_full_latched, worker, submit>>

SupervisorLoop ==
  \/ TickBegin \/ DrainGet \/ DrainEmpty
  \/ WatchdogReadClock \/ WatchdogCheck \/ WatchdogRaise \/ WatchdogEnd
  \/ HandleCheck \/ Handle
Supervisor == SupervisorLoop \/ WatchdogBegin \/ HandleBegin

-----------------------------------------------------------------------------
(***************************************************************************)
(* A worker: fdir_worker_may_run, one unit of work, then a heartbeat or a    *)
(* fault report.  "safe" and "gate" lie between its critical sections.      *)
(***************************************************************************)
Goto(id, from, to) ==
  /\ worker[id] = from
  /\ worker' = [worker EXCEPT ![id] = to]
  /\ UNCHANGED <<supVars, submit>>

WorkerReadMode(id) ==
  /\ Registered(id)
  /\ Goto(id, "idle", IF g_mode >= FDIR_MODE_SAFE THEN "safe" ELSE "gate")
  /\ UNCHANGED <<portVars, libVars, queueVars>>

WorkerSafeHeartbeat(id) ==
  /\ Goto(id, "safe", "idle")
  /\ heartbeat_notify(id)
  /\ UNCHANGED <<portVars, subVars, g_mode, g_supervision_enabled, g_entities,
                 queueVars>>

WorkerGate(id) ==
  /\ Goto(id, "gate", IF entity_may_run(id) THEN "work" ELSE "idle")
  /\ UNCHANGED <<portVars, libVars, queueVars>>

WorkerDone(id) ==
  /\ Goto(id, "work", "idle")
  /\ heartbeat_notify(id)
  /\ UNCHANGED <<portVars, subVars, g_mode, g_supervision_enabled, g_entities,
                 queueVars>>

WorkerFault(id) ==
  /\ Goto(id, "work", "idle")
  /\ \E reason \in FaultReasons :
       \/ \E ok \in BOOLEAN : report_fault(id, reason, ok)
       \/ report_fault_ignored(id, reason)
  /\ UNCHANGED portVars

Worker(id) ==
  \/ WorkerReadMode(id) \/ WorkerSafeHeartbeat(id) \/ WorkerGate(id)
  \/ WorkerDone(id) \/ WorkerFault(id)

-----------------------------------------------------------------------------
(***************************************************************************)
(* fdir_submit_failure tests the supervision switch in one critical section *)
(* and queues in another.  One call is under way at a time.                 *)
(***************************************************************************)
SubmitCheck ==
  /\ "submit_failure" \in Calls
  /\ g_supervision_enabled
  /\ submit = {}
  /\ \E id \in AnyId, reason \in FaultReasons :
       /\ id \in Ids \/ "submit_unknown" \in Calls
       /\ submit' = {[entity |-> id, reason |-> reason]}
  /\ UNCHANGED <<portVars, libVars, queueVars, supVars, worker>>

SubmitPut ==
  /\ \E r \in submit : Queue!QueuePut(r) \/ Queue!QueueRefuse
  /\ submit' = {}
  /\ UNCHANGED <<portVars, libVars, supVars, worker>>

-----------------------------------------------------------------------------
(***************************************************************************)
(* Application code and ground commands: one critical section each.         *)
(***************************************************************************)
\* A fault reported for any id, by code that is not the entity's worker.
AppReport ==
  /\ \E id \in AnyId, reason \in FaultReasons, ok \in BOOLEAN :
       /\ (IF id \in Ids THEN "report_fault" ELSE "report_unknown") \in Calls
       /\ report_fault(id, reason, ok)
  /\ UNCHANGED portVars

AppHealth ==
  /\ \E id \in Ids :
       \/ "health_reset" \in Calls /\ health_reset(id)
       \/ "health_set" \in Calls /\ \E h \in HealthStates : health_set(id, h)
  /\ UNCHANGED <<portVars, subVars, g_mode, g_supervision_enabled, g_entities,
                 queueVars>>

AppRegister ==
  /\ \/ \E d \in LateEntities : entity_register(d) /\ UNCHANGED portVars
     \/ /\ \E d \in LateSubs : subsystem_register(d)
        /\ UNCHANGED <<clock, reboot_requested, restart_calls, healthVars, g_mode,
                       g_supervision_enabled, g_entities>>
  /\ UNCHANGED queueVars

GroundSupervision ==
  /\ "set_supervision_enabled" \in Calls
  /\ \E enabled \in BOOLEAN : set_supervision_enabled(enabled)
  /\ UNCHANGED portVars

GroundLowerMode ==
  /\ \/ "set_system_mode" \in Calls /\ \E mode \in Modes : set_system_mode(mode)
     \/ "deescalate_system_mode" \in Calls /\ deescalate_system_mode
  /\ UNCHANGED <<portVars, queueVars>>

GroundRaiseMode ==
  /\ \/ "enter_degraded_mode" \in Calls /\ ModeCommand(enter_degraded_mode(g_mode))
     \/ "enter_safe_mode" \in Calls /\ ModeCommand(enter_safe_mode(g_mode))
     \/ "reassess_system_mode" \in Calls /\ reassess_system_mode
  /\ UNCHANGED <<portVars, queueVars>>

GroundReboot ==
  /\ "try_reboot" \in Calls
  /\ try_reboot
  /\ UNCHANGED <<clock, tm_open, restart_calls, queueVars>>

GroundMark ==
  /\ \E s \in SubIds :
       \/ "mark_available" \in Calls /\ subsystem_mark_available(s)
       \/ "mark_unavailable" \in Calls /\ subsystem_mark_unavailable(s)
       \/ "mark_degraded" \in Calls /\ subsystem_mark_degraded(s)
  /\ UNCHANGED <<clock, reboot_requested, restart_calls, healthVars, g_mode,
                 g_supervision_enabled, g_entities, queueVars>>

Environment ==
  /\ \/ AppReport \/ AppHealth \/ AppRegister
     \/ GroundSupervision \/ GroundLowerMode \/ GroundRaiseMode \/ GroundReboot
     \/ GroundMark
     \/ ClockTick /\ UNCHANGED <<libVars, queueVars>>
  /\ UNCHANGED <<supVars, worker, submit>>

\* The reset that request_reboot asked for: RAM, tasks and clock start afresh,
\* and so does the ground's list of open anomalies.
PlatformReset ==
  /\ "reset" \in Calls
  /\ reboot_requested
  /\ clock' = 0 /\ tm_open' = {} /\ reboot_requested' = FALSE
  /\ restart_calls' = [id \in Ids |-> [normal |-> 0, watchdog |-> 0]]
  /\ queue' = <<>> /\ g_full_latched' = FALSE /\ report' = ZERO_REPORT
  /\ g_health' = BootedHealth /\ g_latched_reason' = NoLatches
  /\ g_entity_limit' = Len(BootEntities)
  /\ g_subs' = BootedSubs /\ g_sub_count' = Len(BootSubs)
  /\ g_mode' = FDIR_MODE_NOMINAL /\ g_supervision_enabled' = TRUE
  /\ g_entities' = BootedEntities
  /\ pc' = "idle" /\ ret' = "idle" /\ scan' = 0 /\ now_ms' = 0
  /\ worker' = [id \in Ids |-> "idle"] /\ submit' = {}

-----------------------------------------------------------------------------
Next ==
  \/ Supervisor
  \/ \E id \in Ids : Worker(id)
  \/ SubmitCheck \/ SubmitPut
  \/ Environment
  \/ PlatformReset

Spec == Init /\ [][Next]_vars

\* docs/safety/seooC.md A1: a dedicated context keeps calling the supervisor.
FairSpec == Spec /\ WF_vars(SupervisorLoop)

-----------------------------------------------------------------------------
(***************************************************************************)
(* Properties.  Several hold only when the application keeps away from some  *)
(* functions (Calls); the README says which and why.                        *)
(***************************************************************************)
InFlight(id) == pc \in {"handle_check", "handle"} /\ report.entity = id
Pending(id)  == {i \in DOMAIN queue : queue[i].entity = id}

\* No fault gets lost between report_fault_impl and fdir_handle_failure: an entity
\* that is marked FAILED still has a report waiting, is being handled, or was
\* handled and latched.  A FAILED entity with none of these is gated for ever,
\* because report_fault_impl and the watchdog scan both ignore it.
FailedIsAccounted ==
  \A id \in Ids : IsFailed(id) =>
    g_latched_reason[id] # NO_REASON \/ InFlight(id) \/ Pending(id) # {}

\* An entity whose fault fdir_handle_failure latched stays FAILED, hence gated,
\* until a restart() succeeds, whatever heartbeats and reports arrive meanwhile.
LatchedIsIsolated ==
  \A id \in Ids : g_latched_reason[id] # NO_REASON => IsFailed(id)

\* restart() is called at most max_restarts and max_watchdog_restarts times, unless
\* the budget is FDIR_RESTART_UNLIMITED or a policy callback asks for RESTART itself.
PolicyRestarts(desc) ==
  \/ "RESTART" \in desc.decide
  \/ "RESTART" \in on_entity_exhausted(desc.linked_subsystem)
RestartsWithinBudget ==
  \A id \in Ids :
    LET desc == g_entities[id].desc
        WithinBudget(calls, max) == calls <= max \/ max = FDIR_RESTART_UNLIMITED
    IN  Registered(id) /\ ~PolicyRestarts(desc) =>
          /\ WithinBudget(restart_calls[id].normal, desc.max_restarts)
          /\ WithinBudget(restart_calls[id].watchdog, desc.max_watchdog_restarts)

\* A report that the latch suppresses repeats an anomaly that the ground has been
\* told of and that no CLEARED event has closed.
SuppressedIsOpen ==
  \A id \in Ids : g_latched_reason[id] # NO_REASON =>
    FDIR_ANOMALY_ID(id, g_latched_reason[id]) \in tm_open

\* evaluate_dual_path: as long as nobody marks subsystems or lowers the mode by
\* hand, the threshold of failed critical subsystems always means SAFE or beyond.
DualPathEnforced ==
  critical_unavailable_count(g_subs) >= SAFE_THRESHOLD => g_mode >= FDIR_MODE_SAFE

\* Reports of one entity do not pile up in the queue (docs/safety/seooC.md, Queue
\* back-pressure): one, plus one for every restart after a watchdog report that
\* overtook the entity's own.
OneSlotPerEntity ==
  \A id \in Ids : Cardinality(Pending(id)) <= 1 + restart_calls[id].watchdog

\* Modes only go up, except by fdir_set_system_mode, fdir_deescalate_system_mode or
\* a reset: no recovery path leaves REBOOT_PENDING or SAFE.
OnlyGroundLowersMode ==
  [][g_mode' < g_mode => GroundLowerMode \/ PlatformReset]_vars

\* Once supervision is disabled, at most the one recovery that fdir_handle_failure has
\* let pass still happens, and at most the one report that fdir_submit_failure has let
\* pass still gets into the queue.  With no recovery under way, supervisor, workers,
\* submitters and reporters begin none, let no other report pass, and leave latches,
\* modes, subsystems, restart counters and the ground's anomalies alone.
Report == AppReport /\ UNCHANGED <<supVars, worker, submit>>
BypassIsPassive ==
  [][/\ ~g_supervision_enabled /\ pc # "handle"
     /\ Supervisor \/ (\E id \in Ids : Worker(id)) \/ SubmitCheck \/ SubmitPut \/ Report
     => /\ pc' # "handle"
        /\ submit' \subseteq submit
        /\ \/ Len(queue') <= Len(queue)
           \/ submit' = {} /\ \E r \in submit : queue' = Append(queue, r)
        /\ UNCHANGED <<portVars, subVars, g_latched_reason, g_mode, g_entities>>]_vars

\* fdir_check_watchdogs reports an entity only when it was silent for longer than
\* the maximum age, or when its last heartbeat is younger than the clock reading
\* the scan works with; the wrap-around of the 32-bit clock makes no difference.
TrueAge(id) == Elapsed(now_ms) - Elapsed(g_health[id].last_heartbeat_ms)
WatchdogJustified ==
  [][pc = "scan" /\ pc' = "handle_check" =>
       LET age == TrueAge(report'.entity)
       IN  age > fdir_heartbeat_max_age_ms \/ age < 0]_vars

\* Every entity marked FAILED is eventually restarted or latched: the supervisor
\* gets to its report however many others are queued.
FaultHandled ==
  \A id \in Ids :
    IsFailed(id) ~> (~IsFailed(id) \/ g_latched_reason[id] # NO_REASON)

\* A fault does not stop an entity's work for good: as long as its worker keeps
\* calling fdir_worker_may_run, it is back at work after a restart, unless the fault is
\* latched or the mode has reached SAFE.  The gates of the modes below let it pass.
WorkersKeepRunning == \A id \in Ids : WF_vars(Worker(id))
WorkResumes ==
  WorkersKeepRunning =>
    \A id \in Ids : IsFailed(id) ~>
      \/ worker[id] = "work" /\ ~IsFailed(id)
      \/ g_latched_reason[id] # NO_REASON \/ g_mode >= FDIR_MODE_SAFE

\* An entity that falls silent does not stay silent unnoticed: it is marked FAILED
\* or a restart or a heartbeat renews its time stamp.
Silent(id) ==
  /\ Registered(id) /\ ~IsFailed(id)
  /\ clock - Elapsed(g_health[id].last_heartbeat_ms) > fdir_heartbeat_max_age_ms
SilenceDetected == \A id \in Ids : Silent(id) ~> ~Silent(id)

\* fdir_supervisor_tick leaves its drain loop: the watchdog scan keeps happening.
ScanKeepsHappening == []<>(pc = "scan")

\* The life of the entities registered at start-up, seen from outside: a FAILED
\* entity becomes OK again only through a call of restart() within its budget, and
\* nothing but isolation and unknown entities raises the mode.
BootIds == 0 .. Len(BootEntities) - 1
Life == INSTANCE EntityLifecycle WITH
          Entities  <- BootIds,
          Unlimited <- FDIR_RESTART_UNLIMITED,
          Budget    <- [id \in BootIds |->
                          [normal   |-> BootEntities[id + 1].max_restarts,
                           watchdog |-> BootEntities[id + 1].max_watchdog_restarts]],
          phase     <- [id \in BootIds |->
                          IF ~IsFailed(id) THEN "ok"
                          ELSE IF g_latched_reason[id] = NO_REASON THEN "reported"
                          ELSE "isolated"],
          spent     <- [id \in BootIds |-> restart_calls[id]],
          mode      <- g_mode
ImplementsLifecycle == Life!LifeSpec

-----------------------------------------------------------------------------
(***************************************************************************)
(* Statements of the documentation that the code does not keep.  Each has a *)
(* run in which TLC finds the behaviour that breaks it.                     *)
(***************************************************************************)
\* include/recovery.h on fdir_check_watchdogs: WATCHDOG is raised for stale entities.
WatchdogOnlyForStale ==
  [][pc = "scan" /\ pc' = "handle_check" =>
       TrueAge(report'.entity) > fdir_heartbeat_max_age_ms]_vars

\* include/recovery.h: when supervision is disabled faults are not queued, and the
\* pending ones have been cleared.
DisabledQueuesNothing == ~g_supervision_enabled => queue = <<>>

\* docs/api.md: anomalies get the phase CLEARED after a ground mark, so a subsystem
\* that is back in service has no open anomaly.
AvailableIsCleared ==
  \A s \in SubIds : slot_of(s) /\ g_subs[s].available /\ ~g_subs[s].degraded =>
    \A reason \in Reasons : FDIR_SUBSYSTEM_ANOMALY_ID(s, reason) \notin tm_open

\* docs/integration.md: enabling supervision again restores normal FDIR, in which
\* every FAILED entity is accounted for.
RestoredIsNormal == g_supervision_enabled => FailedIsAccounted
=============================================================================
