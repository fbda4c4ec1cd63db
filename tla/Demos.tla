--------------------------------- MODULE Demos ---------------------------------
(***************************************************************************)
(* examples/dual_path and examples/getting_started: single-threaded programs *)
(* that call fdir_init several times and print what has become of the        *)
(* system.  A program is the sequence of its library calls; fdir_init is     *)
(* modelled here.  Both programs pass a constant port with every required    *)
(* callback, so that fdir_port_bind accepts it and no call of fdir_init      *)
(* fails.  Fdir's worker and submit variables are not used.                 *)
(***************************************************************************)
EXTENDS Fdir

CONSTANTS
  SLACK,           \* bound: time that passes while the program does not sleep
  SLEEP            \* the nanosleep of getting_started; periods are the unit of time

ASSUME DemoAssumption ==
  /\ SLACK \in Nat /\ SLEEP \in Nat /\ SLACK + SLEEP <= CLOCK_BOUND
  /\ SLACK <= fdir_heartbeat_max_age_ms /\ SLEEP > fdir_heartbeat_max_age_ms
  /\ BootEntities = <<>> /\ BootSubs = <<>>

VARIABLES
  program,       \* the calls of the program that runs
  ip             \* the next of them

demoVars == <<vars, program, ip>>

-----------------------------------------------------------------------------
Call(op, arg) == [op |-> op, arg |-> arg]

\* A line of output: the mode, the calls of restart() so far, the subsystems that
\* are not available.
Shown(mode, restarts, down) ==
  Call("show", [mode |-> mode, restarts |-> restarts, down |-> down])

\* dual_path.  A hook answers the reports of a scenario by the state of the link.
downlink_decide(link_up, reason) ==
  IF ~link_up /\ reason # REASON_WATCHDOG THEN "DEGRADE" ELSE "NONE"
storage_decide(reason) ==
  IF reason = REASON_INIT_FAILED THEN "UNAVAILABLE" ELSE "NONE"

critical_sub == [is_critical_path |-> TRUE, on_entity_exhausted |-> {"NONE"}]
dl_desc(link_up, reason) ==
  [max_restarts |-> 1, max_watchdog_restarts |-> 1, on_exhausted |-> "REBOOT",
   linked_subsystem |-> 0, restart |-> TRUE,
   decide |-> {downlink_decide(link_up, reason)}]
st_desc(reason) ==
  [max_restarts |-> 1, max_watchdog_restarts |-> 1, on_exhausted |-> "UNAVAILABLE",
   linked_subsystem |-> 1, restart |-> TRUE, decide |-> {storage_decide(reason)}]

DualPathSetup(link_up, reason) ==
  << Call("init", 0), Call("subsystem", critical_sub), Call("subsystem", critical_sub),
     Call("entity", dl_desc(link_up, reason)), Call("entity", st_desc(reason)) >>
BothHeartbeats == << Call("heartbeat", 0), Call("heartbeat", 1) >>

dual_path ==
  DualPathSetup(FALSE, REASON_IO_ERROR) \o BothHeartbeats \o
  << Shown(FDIR_MODE_NOMINAL, 0, {}),
     \* scenario 1: link loss -> DEGRADED (no restart)
     Call("report", [entity |-> 0, reason |-> REASON_IO_ERROR]), Call("tick", 0),
     Call("worker_loop", 0), Shown(FDIR_MODE_DEGRADED, 0, {}) >> \o
  \* scenario 2: storage init fail -> unavailable
  DualPathSetup(TRUE, REASON_INIT_FAILED) \o
  << Call("report", [entity |-> 1, reason |-> REASON_INIT_FAILED]), Call("tick", 0),
     Shown(FDIR_MODE_DEGRADED, 0, {1}) >> \o
  \* scenario 3: both critical paths unavailable -> SAFE
  DualPathSetup(TRUE, REASON_IO_ERROR) \o BothHeartbeats \o
  << Call("mark_unavailable", 0), Call("mark_unavailable", 1), Call("reassess", 0),
     Call("worker_loop", 0), Shown(FDIR_MODE_SAFE, 0, {0, 1}) >>

\* getting_started.
sensor_desc ==
  [max_restarts |-> 2, max_watchdog_restarts |-> 1, on_exhausted |-> "DEGRADE",
   linked_subsystem |-> SUBSYSTEM_NONE, restart |-> TRUE, decide |-> {"NONE"}]
SensorSetup == << Call("init", 0), Call("entity", sensor_desc), Call("heartbeat", 0) >>
SensorFault ==
  << Call("report", [entity |-> 0, reason |-> REASON_IO_ERROR]), Call("tick", 0) >>

getting_started ==
  SensorSetup \o << Shown(FDIR_MODE_NOMINAL, 0, {}) >> \o
  \* fault 1: restart
  SensorFault \o << Shown(FDIR_MODE_NOMINAL, 1, {}), Call("heartbeat", 0) >> \o
  \* faults 2+3: budget exhausted -> DEGRADED
  SensorFault \o << Call("heartbeat", 0) >> \o
  SensorFault \o << Shown(FDIR_MODE_DEGRADED, 2, {}) >> \o
  \* watchdog miss -> restart
  SensorSetup \o
  << Call("sleep", 0), Call("tick", 0), Shown(FDIR_MODE_NOMINAL, 3, {}) >>

-----------------------------------------------------------------------------
Running == ip \in DOMAIN program
At(op) == Running /\ pc = "idle" /\ program[ip].op = op
Arg == program[ip].arg

\* The call is over; of the state only what the call writes changes.
Return == ip' = ip + 1 /\ UNCHANGED <<program, supVars, worker, submit>>
KeepLibrary == UNCHANGED <<libVars, queueVars>>

DemoInit ==
  /\ Init
  /\ program \in {dual_path, getting_started}
  /\ ip = 1

\* Mutant: the mode outlives fdir_init.
InitKeepsMode ==
  /\ g_health' = BootedHealth /\ g_latched_reason' = NoLatches
  /\ g_subs' = BootedSubs /\ g_sub_count' = 0
  /\ Queue!QueueClear
  /\ g_entities' = BootedEntities /\ g_entity_limit' = 0
  /\ g_supervision_enabled' = TRUE /\ UNCHANGED g_mode

\* fdir_init, once the port is bound.
fdir_init ==
  /\ g_health' = BootedHealth /\ g_latched_reason' = NoLatches
  /\ g_subs' = BootedSubs /\ g_sub_count' = 0
  /\ Queue!QueueClear
  /\ g_entities' = BootedEntities /\ g_entity_limit' = 0
  /\ g_mode' = FDIR_MODE_NOMINAL /\ g_supervision_enabled' = TRUE

init_fdir == At("init") /\ fdir_init /\ Return /\ UNCHANGED portVars

CallRegister ==
  /\ \/ At("entity") /\ entity_register(Arg) /\ UNCHANGED portVars
     \/ /\ At("subsystem") /\ subsystem_register(Arg)
        /\ UNCHANGED <<clock, reboot_requested, restart_calls, healthVars, g_mode,
                       g_supervision_enabled, g_entities>>
  /\ Return /\ UNCHANGED queueVars

CallHeartbeat ==
  /\ At("heartbeat") /\ heartbeat_notify(Arg)
  /\ Return
  /\ UNCHANGED <<portVars, subVars, g_mode, g_supervision_enabled, g_entities, queueVars>>

\* worker_loop: the first refusal ends it; without other threads the iterations
\* are alike.
CallWorkerLoop ==
  /\ At("worker_loop")
  /\ IF g_mode >= FDIR_MODE_SAFE \/ entity_may_run(Arg)
     THEN heartbeat_notify(Arg) ELSE UNCHANGED healthVars
  /\ Return
  /\ UNCHANGED <<portVars, subVars, g_mode, g_supervision_enabled, g_entities, queueVars>>

CallReport ==
  /\ At("report")
  /\ \/ \E ok \in BOOLEAN : report_fault(Arg.entity, Arg.reason, ok)
     \/ report_fault_ignored(Arg.entity, Arg.reason)
  /\ Return /\ UNCHANGED portVars

CallTick ==
  /\ At("tick") /\ TickBegin
  /\ UNCHANGED <<program, ip>>

\* The restart callbacks of both programs return 0.
TickStep ==
  /\ pc # "idle" /\ SupervisorLoop
  /\ restart_calls' # restart_calls => g_health'[report.entity].health = "OK"
  /\ ip' = IF pc' = "idle" THEN ip + 1 ELSE ip
  /\ UNCHANGED program

CallMode ==
  /\ \/ At("mark_unavailable") /\ subsystem_mark_unavailable(Arg)
        /\ UNCHANGED <<healthVars, g_mode, g_supervision_enabled, g_entities>>
     \/ At("reassess") /\ reassess_system_mode /\ UNCHANGED tm_open
  /\ Return /\ UNCHANGED <<clock, reboot_requested, restart_calls, queueVars>>

Show == At("show") /\ Return /\ KeepLibrary /\ UNCHANGED portVars

Sleep ==
  /\ At("sleep")
  /\ clock' = clock + SLEEP
  /\ Return /\ KeepLibrary /\ UNCHANGED <<tm_open, reboot_requested, restart_calls>>

TimePasses ==
  /\ Running /\ clock < SLACK
  /\ ClockTick
  /\ KeepLibrary /\ UNCHANGED <<supVars, worker, submit, program, ip>>

Finished == ~Running /\ UNCHANGED demoVars

DemoNext ==
  \/ init_fdir \/ CallRegister \/ CallHeartbeat \/ CallWorkerLoop \/ CallReport
  \/ CallTick \/ TickStep \/ CallMode \/ Show \/ Sleep \/ TimePasses
  \/ Finished

DemoSpec == DemoInit /\ [][DemoNext]_demoVars

-----------------------------------------------------------------------------
\* Each program prints what its headings announce, however much time passes between
\* the calls up to the limit of a heartbeat's age: a hook that answers DEGRADE keeps
\* the entity from being restarted, the third fault exhausts a budget of two, only
\* the long sleep is a watchdog miss, and nothing of a scenario outlives fdir_init.
TotalRestarts ==
  LET calls(id) == restart_calls[id].normal + restart_calls[id].watchdog
  IN  calls(0) + calls(1)
ShowsWhatIsAnnounced ==
  At("show") =>
    /\ g_mode = Arg.mode
    /\ TotalRestarts = Arg.restarts
    /\ {s \in SubIds : slot_of(s) /\ ~g_subs[s].available} = Arg.down
=============================================================================
