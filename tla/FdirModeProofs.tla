---------------------------- MODULE FdirModeProofs ----------------------------
(***************************************************************************)
(* Theorems about the system mode, disabled supervision and the watchdog    *)
(* scan, for every value of the constants.                                  *)
(***************************************************************************)
EXTENDS FdirProofs, FiniteSetTheorems

-----------------------------------------------------------------------------
(***************************************************************************)
(* Who changes the mode, and in which direction.                            *)
(***************************************************************************)
\* The mode functions never go down.
LEMMA ModesRise ==
  ASSUME NEW mode \in Modes, NEW subs
  PROVE  /\ mode <= enter_degraded_mode(mode)
         /\ mode <= enter_safe_mode(mode)
         /\ mode <= evaluate_dual_path(mode, subs)
BY DEF Modes, enter_degraded_mode, enter_safe_mode, evaluate_dual_path, FDIR_MODE_NOMINAL,
       FDIR_MODE_DEGRADED, FDIR_MODE_SAFE, FDIR_MODE_REBOOT_PENDING

\* Neither does apply_action.
LEMMA ModeAfterRises ==
  ASSUME g_mode \in Modes, NEW action PROVE g_mode <= mode_after(action)
BY DEF Modes, mode_after, enter_degraded_mode, enter_safe_mode, FDIR_MODE_NOMINAL,
       FDIR_MODE_DEGRADED, FDIR_MODE_SAFE, FDIR_MODE_REBOOT_PENDING

\* The outcomes of fdir_handle_failure for the mode and the subsystems: nothing
\* happens, an unknown entity degrades the system, or the dual-path rule has the
\* last word on a mode that is at least the old one.
ModeUntouched == UNCHANGED <<g_mode, g_subs>>
ModeDegraded == g_mode' = enter_degraded_mode(g_mode) /\ UNCHANGED g_subs
ModeEvaluated ==
  \E mode \in Modes : g_mode <= mode /\ g_mode' = evaluate_dual_path(mode, g_subs')

\* fdir_handle_failure has these three outcomes.
LEMMA HandleMode ==
  ASSUME TypeOK, NEW r \in Reports, handle_failure(r)
  PROVE  g_sub_count' = g_sub_count /\ (ModeUntouched \/ ModeDegraded \/ ModeEvaluated)
<1>0. g_mode \in Modes
  BY DEF TypeOK, RecoveryType
<1>1. CASE handle_suppressed(r)
  BY <1>1 DEF handle_suppressed, ModeUntouched, libVars, subVars
<1>2. CASE handle_unknown(r)
  BY <1>2 DEF handle_unknown, ModeDegraded, subVars
<1>3. CASE handle_registered(r)
  <2>1. ASSUME NEW override, recover_by_restart(r, override)
        PROVE  g_sub_count' = g_sub_count /\ ModeEvaluated
    BY <1>0, <2>1 DEF recover_by_restart, ModeEvaluated, subVars, Modes
  <2>2. ASSUME NEW override, NEW action, NEW attempted,
               isolate_and_escalate(r, override, action, attempted)
        PROVE  g_sub_count' = g_sub_count /\ ModeEvaluated
    <3>1. mode_after(action) \in Modes /\ g_mode <= mode_after(action)
      BY <1>0, ModeAfterType, ModeAfterRises
    <3>2. g_mode' = evaluate_dual_path(mode_after(action), g_subs')
      BY <2>2 DEF isolate_and_escalate
    <3> QED BY <2>2, <3>1, <3>2 DEF isolate_and_escalate, ModeEvaluated
  <2>3. \/ \E override : recover_by_restart(r, override)
        \/ \E override, action, attempted : isolate_and_escalate(r, override, action, attempted)
    BY <1>3 DEF handle_registered
  <2> QED BY <2>1, <2>2, <2>3
<1> QED BY <1>1, <1>2, <1>3 DEF handle_failure

\* Apart from fdir_handle_failure and a reset, only ground commands touch the mode.
LEMMA OthersKeepMode ==
  ASSUME [Next]_vars, ~Handle, ~PlatformReset, ~GroundLowerMode, ~GroundRaiseMode,
         ~GroundReboot
  PROVE  g_mode' = g_mode
<1> USE DEF vars, libVars, healthVars, subVars
<1>1. CASE UNCHANGED vars
  BY <1>1
<1>2. CASE Supervisor
  BY <1>2 DEF Supervisor, SupervisorLoop, TickBegin, DrainGet, DrainEmpty, WatchdogBegin,
     WatchdogReadClock, WatchdogCheck, WatchdogRaise, WatchdogEnd, HandleBegin, HandleCheck,
     OnlySupervisor
<1>3. ASSUME NEW id \in Ids, Worker(id) PROVE g_mode' = g_mode
  BY <1>3 DEF Worker, WorkerReadMode, WorkerSafeHeartbeat, WorkerGate, WorkerDone, WorkerFault,
     report_fault, report_fault_ignored
<1>4. CASE SubmitCheck \/ SubmitPut
  BY <1>4 DEF SubmitCheck, SubmitPut
<1>5. CASE Environment
  BY <1>5 DEF Environment, AppReport, AppHealth, AppRegister, GroundSupervision, GroundMark,
     report_fault, entity_register, set_supervision_enabled
<1> QED BY <1>1, <1>2, <1>3, <1>4, <1>5 DEF Next

\* Modes only go up, except by fdir_set_system_mode, fdir_deescalate_system_mode or
\* a reset: whatever recovery does, it never leaves SAFE or REBOOT_PENDING.
THEOREM OnlyGroundLowersModeSafe == Spec => OnlyGroundLowersMode
<1>1. TypeOK /\ [Next]_vars => [g_mode' < g_mode => GroundLowerMode \/ PlatformReset]_vars
  <2> SUFFICES ASSUME TypeOK, [Next]_vars, ~GroundLowerMode, ~PlatformReset
               PROVE  ~(g_mode' < g_mode)
    OBVIOUS
  <2>0. g_mode \in Modes /\ g_mode \in Int /\ g_mode <= g_mode
    BY DEF TypeOK, RecoveryType, Modes
  <2>1. CASE Handle
    <3>1. ModeUntouched \/ ModeDegraded \/ ModeEvaluated
      BY <2>1, HandleMode DEF Handle, TypeOK, RecoveryType
    <3>2. CASE ModeUntouched
      BY <2>0, <3>2 DEF ModeUntouched
    <3>3. CASE ModeDegraded
      BY <2>0, <3>3, ModesRise, ModeType DEF ModeDegraded, Modes
    <3>4. CASE ModeEvaluated
      BY <2>0, <3>4, ModesRise, ModeType DEF ModeEvaluated, Modes
    <3> QED BY <3>1, <3>2, <3>3, <3>4
  <2>2. CASE GroundRaiseMode
    BY <2>0, <2>2, ModesRise, ModeType DEF GroundRaiseMode, reassess_system_mode, ModeCommand, Modes
  <2>3. CASE GroundReboot
    BY <2>0, <2>3 DEF GroundReboot, try_reboot, ModeCommand, Modes, FDIR_MODE_REBOOT_PENDING
  <2>4. CASE ~Handle /\ ~GroundRaiseMode /\ ~GroundReboot
    BY <2>0, <2>4, OthersKeepMode
  <2> QED BY <2>1, <2>2, <2>3, <2>4
<1> QED BY <1>1, TypeCorrect, PTL DEF Spec, OnlyGroundLowersMode

-----------------------------------------------------------------------------
(***************************************************************************)
(* The bypass.                                                              *)
(***************************************************************************)
\* With supervision disabled and no recovery under way, supervisor, workers and
\* reporters do nothing but empty the queue, send heartbeats and return, and only a
\* submission that had passed its test still queues, whichever functions the ground
\* and the application call meanwhile.
THEOREM BypassIsPassiveSafe == Spec => BypassIsPassive
<1> DEFINE Bypassed == ~g_supervision_enabled /\ pc # "handle"
           Actor == Supervisor \/ (\E id \in Ids : Worker(id)) \/ SubmitCheck \/ SubmitPut \/ Report
           Kept == UNCHANGED <<portVars, subVars, g_latched_reason, g_mode, g_entities>>
           Queued(r) == queue' = Append(queue, r)
           OnlySubmitted == Len(queue') <= Len(queue) \/ (submit' = {} /\ \E r \in submit : Queued(r))
           Passive == pc' # "handle" /\ submit' \subseteq submit /\ OnlySubmitted /\ Kept
<1>1. TypeOK => [Bypassed /\ Actor => Passive]_vars
  <2> SUFFICES ASSUME TypeOK, Bypassed, Actor
               PROVE  Passive
    OBVIOUS
  <2>0. queue \in Seq(Reports) /\ Len(queue) \in Nat /\ ret # "handle"
    BY DEF TypeOK, RecoveryType
  <2>1. CASE Supervisor
    <3>1. CASE DrainGet
      <4>1. queue # <<>> /\ queue' = Tail(queue) /\ pc' = "handle_check" /\ submit' = submit
        BY <3>1 DEF DrainGet, Queue!QueueGet
      <4>2. Len(queue') <= Len(queue)
        BY <2>0, <4>1
      <4> QED BY <3>1, <4>1, <4>2 DEF DrainGet, libVars, healthVars
    <3>2. CASE ~DrainGet
      <4>1. OnlySupervisor /\ pc' # "handle"
        BY <2>0, <2>1, <3>2 DEF Supervisor, SupervisorLoop, TickBegin, DrainEmpty, WatchdogBegin,
           WatchdogReadClock, WatchdogCheck, WatchdogRaise, WatchdogEnd, HandleBegin,
           HandleCheck, Handle, ReturnTo
      <4> QED BY <2>0, <4>1 DEF OnlySupervisor, libVars, healthVars
    <3> QED BY <3>1, <3>2
  <2>2. ASSUME NEW id \in Ids, Worker(id) PROVE Passive
    <3>1. queue' = queue /\ pc' = pc /\ submit' = submit
      BY <2>2 DEF Worker, WorkerReadMode, WorkerSafeHeartbeat, WorkerGate, WorkerDone,
         WorkerFault, Goto, queueVars, supVars, report_fault, report_fault_ignored
    <3>2. Kept
      BY <2>2 DEF Worker, WorkerReadMode, WorkerSafeHeartbeat, WorkerGate, WorkerDone,
         WorkerFault, libVars, healthVars, heartbeat_notify, report_fault, report_fault_ignored
    <3> QED BY <2>0, <3>1, <3>2
  <2>3. ~SubmitCheck /\ ~Report
    BY DEF SubmitCheck, Report, AppReport, report_fault
  <2>4. CASE SubmitPut
    <3>1. submit' = {} /\ pc' = pc /\ Kept
      BY <2>4 DEF SubmitPut, supVars, libVars, healthVars
    <3>2. PICK r \in submit : Queue!QueuePut(r) \/ Queue!QueueRefuse
      BY <2>4 DEF SubmitPut
    <3>3. OnlySubmitted
      BY <2>0, <3>1, <3>2 DEF Queue!QueuePut, Queue!QueueRefuse
    <3> QED BY <3>1, <3>3
  <2> QED BY <2>1, <2>2, <2>3, <2>4
<1> QED BY <1>1, TypeCorrect, PTL DEF BypassIsPassive

-----------------------------------------------------------------------------
(***************************************************************************)
(* The watchdog.                                                            *)
(***************************************************************************)
\* uint32_t subtraction of two readings.
LEMMA WrappedDifference ==
  ASSUME NEW a \in Times, NEW b \in Times
  PROVE  (a - b) % TIME_MOD = IF a >= b THEN a - b ELSE a - b + TIME_MOD
BY ClockAssumption DEF Times

\* The age that the scan computes is the true one unless the heartbeat is younger
\* than the scan's clock reading: the wrap-around cancels.
LEMMA AgeIsTrue ==
  ASSUME NEW a \in Times, NEW b \in Times, Elapsed(a) >= Elapsed(b)
  PROVE  (a - b) % TIME_MOD = Elapsed(a) - Elapsed(b)
<1>1. BOOT_MS \in Times /\ TIME_MOD \in Nat
  BY ClockAssumption DEF Times
<1>2. /\ Elapsed(a) = IF a >= BOOT_MS THEN a - BOOT_MS ELSE a - BOOT_MS + TIME_MOD
      /\ Elapsed(b) = IF b >= BOOT_MS THEN b - BOOT_MS ELSE b - BOOT_MS + TIME_MOD
  BY <1>1, WrappedDifference DEF Elapsed
<1>3. (a - b) % TIME_MOD = IF a >= b THEN a - b ELSE a - b + TIME_MOD
  BY WrappedDifference
<1> QED BY <1>1, <1>2, <1>3 DEF Times

\* A run that the clock does not lap: within it Elapsed of a reading is the time of
\* the run, so that TrueAge is the age of the heartbeat and not its remainder.
WithinOnePeriod == CLOCK_BOUND < TIME_MOD
ReadingIsTime == Elapsed(fdir_get_now_ms) = clock

\* The reading of the 32-bit clock tells the time of such a run.
LEMMA ReadingTells == ASSUME WithinOnePeriod, TypeOK PROVE ReadingIsTime
<1>1. clock \in 0 .. TIME_MOD - 1 /\ BOOT_MS \in Times /\ TIME_MOD \in Nat
  BY ClockAssumption DEF TypeOK, PortType, WithinOnePeriod, Times
<1>2. fdir_get_now_ms = IF BOOT_MS + clock < TIME_MOD THEN BOOT_MS + clock
                        ELSE BOOT_MS + clock - TIME_MOD
  BY <1>1 DEF fdir_get_now_ms, Times
<1>3. fdir_get_now_ms \in Times
  BY <1>1, <1>2 DEF Times
<1>4. Elapsed(fdir_get_now_ms) = IF fdir_get_now_ms >= BOOT_MS THEN fdir_get_now_ms - BOOT_MS
                                 ELSE fdir_get_now_ms - BOOT_MS + TIME_MOD
  BY <1>1, <1>3, WrappedDifference DEF Elapsed
<1> QED BY <1>1, <1>2, <1>4 DEF ReadingIsTime, Times

\* fdir_check_watchdogs reports an entity only when it was silent for too long or
\* has given a sign of life since the scan read the clock, for every clock width and
\* boot time, hence wherever in the run the reading wraps, as long as the run is
\* shorter than one period of the clock.
THEOREM WatchdogJustifiedSafe ==
  WithinOnePeriod /\ Spec => WatchdogJustified /\ []ReadingIsTime
<1> SUFFICES ASSUME WithinOnePeriod PROVE Spec => WatchdogJustified /\ []ReadingIsTime
  OBVIOUS
<1> DEFINE Justified == LET age == TrueAge(report'.entity)
                        IN  age > fdir_heartbeat_max_age_ms \/ age < 0
<1>1. TypeOK /\ [Next]_vars => [pc = "scan" /\ pc' = "handle_check" => Justified]_vars
  <2> SUFFICES ASSUME TypeOK, [Next]_vars, pc = "scan", pc' = "handle_check" PROVE Justified
    OBVIOUS
  <2>1. WatchdogRaise
    <3>1. pc' # pc
      OBVIOUS
    <3>2. ASSUME NEW id \in Ids PROVE ~Worker(id)
      BY <3>1 DEF Worker, WorkerReadMode, WorkerSafeHeartbeat, WorkerGate, WorkerDone, WorkerFault,
                  Goto, supVars
    <3>3. ~SubmitCheck /\ ~SubmitPut /\ ~Environment /\ ~PlatformReset
      BY <3>1 DEF SubmitCheck, SubmitPut, Environment, PlatformReset, supVars
    <3>4. ~Handle /\ ~HandleCheck /\ ~WatchdogCheck /\ ~DrainGet /\ ~HandleBegin
      BY DEF Handle, HandleCheck, WatchdogCheck, DrainGet, HandleBegin
    <3>5. ~TickBegin /\ ~DrainEmpty /\ ~WatchdogBegin /\ ~WatchdogReadClock /\ ~WatchdogEnd
      BY DEF TickBegin, DrainEmpty, WatchdogBegin, WatchdogReadClock, WatchdogEnd, ReturnTo
    <3> QED BY <3>1, <3>2, <3>3, <3>4, <3>5 DEF Next, Supervisor, SupervisorLoop, vars, supVars
  <2>2. PICK id \in watchdog_due : report' = [entity |-> id, reason |-> REASON_WATCHDOG]
    BY <2>1 DEF WatchdogRaise
  <2>3. id \in Ids /\ is_stale(id, now_ms, fdir_heartbeat_max_age_ms)
    <3>1. id \in scan .. g_entity_limit - 1
      BY DEF watchdog_due
    <3> QED BY <3>1, CapAssumption DEF watchdog_due, TypeOK, HealthType, Ids
  <2> DEFINE beat == g_health[id].last_heartbeat_ms
  <2>4. now_ms \in Times /\ beat \in Times
    BY <2>3 DEF TypeOK, HealthType, Snapshots
  <2>5. (now_ms - beat) % TIME_MOD > fdir_heartbeat_max_age_ms
    BY <2>3 DEF is_stale
  <2>6. Elapsed(now_ms) \in Int /\ Elapsed(beat) \in Int
    BY <2>4, ClockAssumption DEF Elapsed, Times
  <2>7. CASE Elapsed(now_ms) >= Elapsed(beat)
    BY <2>2, <2>4, <2>5, <2>7, AgeIsTrue DEF TrueAge
  <2>8. CASE ~(Elapsed(now_ms) >= Elapsed(beat))
    BY <2>2, <2>6, <2>8 DEF TrueAge
  <2> QED BY <2>7, <2>8
<1>2. TypeOK => ReadingIsTime
  BY ReadingTells
<1> QED BY <1>1, <1>2, TypeCorrect, PTL DEF Spec, WatchdogJustified

-----------------------------------------------------------------------------
(***************************************************************************)
(* The dual-path rule.  The code evaluates it at the end of a recovery only, *)
(* so the invariant needs that nothing else takes a critical subsystem down *)
(* or lowers the mode.                                                      *)
(***************************************************************************)
\* Nobody takes subsystems down or lowers the mode by hand, and the threshold is one
\* that the start-up state, with nothing down, does not reach.
RecoveryRulesMode ==
  /\ SAFE_THRESHOLD > 0
  /\ Calls \cap {"mark_unavailable", "set_system_mode", "deescalate_system_mode"} = {}

\* The critical subsystems that are down.
Down == {s \in 0 .. g_sub_count - 1 :
           g_subs[s].desc.is_critical_path /\ ~g_subs[s].available}

\* With nothing down the threshold is not reached.
LEMMA NoneDown ==
  ASSUME SAFE_THRESHOLD > 0, Down = {} PROVE DualPathEnforced
<1>1. critical_unavailable_count(g_subs) = 0
  BY FS_EmptySet DEF Down, critical_unavailable_count
<1> QED BY <1>1, ThresholdAssumption DEF DualPathEnforced

\* A step after which no more subsystems are down, in no lower mode, keeps the rule.
LEMMA FewerDown ==
  ASSUME TypeOK, TypeOK', DualPathEnforced, Down' \subseteq Down, g_mode <= g_mode'
  PROVE  DualPathEnforced'
<1>1. IsFiniteSet(Down)
  <2>1. 0 \in Int /\ g_sub_count - 1 \in Int
    BY DEF TypeOK, SubsystemType
  <2>2. IsFiniteSet(0 .. g_sub_count - 1)
    BY <2>1, FS_Interval
  <2>3. Down \in SUBSET (0 .. g_sub_count - 1)
    BY DEF Down
  <2> QED BY <2>2, <2>3, FS_Subset
<1>2. /\ Cardinality(Down') <= Cardinality(Down)
      /\ Cardinality(Down) \in Nat /\ Cardinality(Down') \in Nat
  BY <1>1, FS_Subset, FS_CardinalityType
<1>3. /\ critical_unavailable_count(g_subs) = Cardinality(Down)
      /\ critical_unavailable_count(g_subs)' = Cardinality(Down')
  BY DEF critical_unavailable_count, Down
<1>4. g_mode \in Int /\ g_mode' \in Int
  BY DEF TypeOK, RecoveryType, Modes
<1> QED BY <1>2, <1>3, <1>4, ThresholdAssumption DEF DualPathEnforced, FDIR_MODE_SAFE

\* After fdir_init every registered subsystem is available.
LEMMA BootedUp ==
  ASSUME NEW s \in 0 .. Len(BootSubs) - 1 PROVE BootedSubs[s].available
<1>1. s \in SubIds /\ s < Len(BootSubs)
  BY BootAssumption, CapAssumption DEF SubIds
<1> QED BY <1>1 DEF BootedSubs, NewSub

\* Apart from recovery and a reset, what RecoveryRulesMode allows takes no
\* subsystem down: a late registration adds one that is available.
LEMMA OthersTakeNoneDown ==
  ASSUME TypeOK, [Next]_vars, ~Handle, ~PlatformReset, RecoveryRulesMode
  PROVE  Down' \subseteq Down
<1> USE DEF vars, libVars, healthVars, subVars
<1>0. ASSUME UNCHANGED <<g_subs, g_sub_count>> PROVE Down' \subseteq Down
  BY <1>0 DEF Down
<1>1. CASE UNCHANGED vars
  BY <1>0, <1>1
<1>2. CASE Supervisor
  BY <1>0, <1>2 DEF Supervisor, SupervisorLoop, TickBegin, DrainGet, DrainEmpty, WatchdogBegin,
     WatchdogReadClock, WatchdogCheck, WatchdogRaise, WatchdogEnd, HandleBegin, HandleCheck,
     OnlySupervisor
<1>3. ASSUME NEW id \in Ids, Worker(id) PROVE Down' \subseteq Down
  BY <1>0, <1>3 DEF Worker, WorkerReadMode, WorkerSafeHeartbeat, WorkerGate, WorkerDone,
     WorkerFault, report_fault, report_fault_ignored
<1>4. CASE SubmitCheck \/ SubmitPut
  BY <1>0, <1>4 DEF SubmitCheck, SubmitPut
<1>5. CASE Environment
  <2>0. /\ g_subs \in [SubIds -> SubSlots] /\ g_sub_count \in 0 .. SUBSYSTEM_CAP
        /\ SUBSYSTEM_CAP \in Nat
    BY CapAssumption DEF TypeOK, SubsystemType
  <2>1. CASE GroundMark
    <3>1. PICK s \in SubIds : subsystem_mark_available(s) \/ subsystem_mark_degraded(s)
      BY <2>1 DEF GroundMark, RecoveryRulesMode
    <3>2. g_sub_count' = g_sub_count
      BY <3>1 DEF subsystem_mark_available, subsystem_mark_degraded
    <3>3. ASSUME NEW t \in SubIds
          PROVE  /\ g_subs'[t].desc = g_subs[t].desc
                 /\ g_subs[t].available => g_subs'[t].available
      BY <2>0, <3>1 DEF subsystem_mark_available, subsystem_mark_degraded, mark_degraded_unsafe,
                        SubSlots
    <3>4. \A t \in 0 .. g_sub_count - 1 : t \in SubIds
      BY <2>0 DEF SubIds
    <3> QED BY <3>2, <3>3, <3>4 DEF Down
  <2>2. CASE \E d \in LateSubs : subsystem_register(d)
    <3>1. PICK d \in LateSubs : subsystem_register(d)
      BY <2>2
    <3>2. /\ g_sub_count \in SubIds /\ g_sub_count' = g_sub_count + 1
          /\ g_subs' = [g_subs EXCEPT ![g_sub_count] = NewSub(d)]
      BY <2>0, <3>1 DEF subsystem_register, SubIds
    <3>3. ASSUME NEW t \in 0 .. g_sub_count' - 1, ~g_subs'[t].available
          PROVE  t \in 0 .. g_sub_count - 1 /\ g_subs'[t] = g_subs[t]
      <4>1. t \in SubIds
        BY <2>0, <3>2 DEF SubIds
      <4>2. t # g_sub_count
        BY <2>0, <3>2, <3>3 DEF NewSub
      <4> QED BY <2>0, <3>2, <4>1, <4>2
    <3> QED BY <3>3 DEF Down
  <2>3. CASE ~GroundMark /\ ~(\E d \in LateSubs : subsystem_register(d))
    <3>1. UNCHANGED <<g_subs, g_sub_count>>
      BY <1>5, <2>3 DEF Environment, AppReport, AppHealth, AppRegister, GroundSupervision,
         GroundLowerMode, GroundRaiseMode, GroundReboot, report_fault, entity_register,
         set_supervision_enabled, ModeCommand, set_system_mode, deescalate_system_mode,
         reassess_system_mode, try_reboot
    <3> QED BY <1>0, <3>1
  <2> QED BY <2>1, <2>2, <2>3
<1> QED BY <1>1, <1>2, <1>3, <1>4, <1>5 DEF Next

\* evaluate_dual_path: once the threshold of failed critical subsystems is reached,
\* the mode is SAFE or REBOOT_PENDING, and stays so while the others run.
THEOREM DualPathSafe == RecoveryRulesMode /\ Spec => []DualPathEnforced
<1> SUFFICES ASSUME RecoveryRulesMode PROVE Spec => []DualPathEnforced
  OBVIOUS
<1>0. SAFE_THRESHOLD > 0
  BY DEF RecoveryRulesMode
<1>1. Init => DualPathEnforced
  BY <1>0, NoneDown, BootedUp DEF Init, Down
<1>2. TypeOK /\ TypeOK' /\ DualPathEnforced /\ [Next]_vars => DualPathEnforced'
  <2> SUFFICES ASSUME TypeOK, TypeOK', DualPathEnforced, [Next]_vars PROVE DualPathEnforced'
    OBVIOUS
  <2>0. g_mode \in Modes /\ g_mode \in Int /\ g_mode <= g_mode
    BY DEF TypeOK, RecoveryType, Modes
  <2>1. CASE Handle
    <3>1. g_sub_count' = g_sub_count /\ (ModeUntouched \/ ModeDegraded \/ ModeEvaluated)
      BY <2>1, HandleMode DEF Handle, TypeOK, RecoveryType
    <3>2. CASE ModeUntouched \/ ModeDegraded
      <4>1. Down' = Down /\ g_mode <= g_mode'
        BY <2>0, <3>1, <3>2, ModesRise DEF ModeUntouched, ModeDegraded, Down
      <4> QED BY <4>1, FewerDown
    <3>3. CASE ModeEvaluated
      <4>1. PICK mode \in Modes : g_mode' = evaluate_dual_path(mode, g_subs')
        BY <3>3 DEF ModeEvaluated
      <4>2. critical_unavailable_count(g_subs)' = critical_unavailable_count(g_subs')
        BY <3>1 DEF critical_unavailable_count
      <4> QED BY <4>1, <4>2 DEF DualPathEnforced, evaluate_dual_path, enter_safe_mode, Modes,
                                FDIR_MODE_SAFE, FDIR_MODE_REBOOT_PENDING
    <3> QED BY <3>1, <3>2, <3>3
  <2>2. CASE PlatformReset
    <3>1. (Down = {})'
      BY <2>2, BootedUp DEF PlatformReset, Down
    <3>2. critical_unavailable_count(g_subs)' = 0
      BY <3>1, FS_EmptySet DEF Down, critical_unavailable_count
    <3> QED BY <1>0, <3>2, ThresholdAssumption DEF DualPathEnforced
  <2>3. CASE ~Handle /\ ~PlatformReset
    <3>1. g_mode <= g_mode'
      <4>1. ~GroundLowerMode
        BY DEF GroundLowerMode, RecoveryRulesMode
      <4>2. CASE GroundRaiseMode
        BY <2>0, <4>2, ModesRise DEF GroundRaiseMode, reassess_system_mode, ModeCommand
      <4>3. CASE GroundReboot
        BY <2>0, <4>3 DEF GroundReboot, try_reboot, ModeCommand, Modes, FDIR_MODE_REBOOT_PENDING
      <4>4. CASE ~GroundRaiseMode /\ ~GroundReboot
        BY <2>0, <2>3, <4>1, <4>4, OthersKeepMode
      <4> QED BY <4>2, <4>3, <4>4
    <3> QED BY <2>3, <3>1, OthersTakeNoneDown, FewerDown
  <2> QED BY <2>1, <2>2, <2>3
<1> QED BY <1>1, <1>2, TypeCorrect, PTL DEF Spec
=============================================================================
