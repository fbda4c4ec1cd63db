------------------------------ MODULE FdirProofs ------------------------------
(***************************************************************************)
(* Theorems about Fdir for every value of its constants.                    *)
(***************************************************************************)
EXTENDS Fdir, TLAPS

-----------------------------------------------------------------------------
(***************************************************************************)
(* Lemmas on the operators: what they return, given TypeOK.                 *)
(***************************************************************************)
\* The clock reading is a uint32_t.
LEMMA NowType ==
  ASSUME PortType PROVE fdir_get_now_ms \in Times
BY ClockAssumption DEF PortType, fdir_get_now_ms, Times

\* bump_restart and CountRestart keep their counters in range.
LEMMA BumpType ==
  ASSUME NEW slot \in EntitySlots, NEW reason PROVE bump_restart(slot, reason) \in EntitySlots
BY CapAssumption DEF EntitySlots, bump_restart

\* The ghost count of restart() calls saturates within its range.
LEMMA CountType ==
  ASSUME PortType, NEW id \in Ids, NEW reason
  PROVE  CountRestart(id, reason) \in [Ids -> [normal : CallCounts, watchdog : CallCounts]]
<1> DEFINE Counts == [normal : CallCounts, watchdog : CallCounts]
<1>1. restart_calls[id] \in Counts
  BY DEF PortType
<1>2. \A n \in CallCounts : (IF n < U8_MAX + 1 THEN n + 1 ELSE n) \in CallCounts
  BY CapAssumption DEF CallCounts
<1>3. CASE reason = REASON_WATCHDOG
  BY <1>1, <1>2, <1>3 DEF PortType, CountRestart
<1>4. CASE reason # REASON_WATCHDOG
  BY <1>1, <1>2, <1>4 DEF PortType, CountRestart
<1> QED BY <1>3, <1>4

\* Anomaly keys are 16 bits wide.
LEMMA KeyRange ==
  ASSUME NEW k \in Int, 0 <= k, k <= 65535 PROVE k \in Keys
<1>1. KEY_MAX \in Int /\ k <= KEY_MAX
  BY DEF KEY_MAX
<1> QED BY <1>1 DEF Keys

\* The keys of entity, unknown-entity and subsystem events are all 16-bit keys.
LEMMA KeyType ==
  /\ \A e \in AnyId, reason \in Reasons : FDIR_ANOMALY_ID(e, reason) \in Keys
  /\ \A r \in Reports : EventAnomalyId(r.entity, r.reason) \in Keys
  /\ \A s \in AnySubId, reason \in Reasons : FDIR_SUBSYSTEM_ANOMALY_ID(s, reason) \in Keys
<1>1. ASSUME NEW e \in AnyId, NEW reason \in Reasons PROVE FDIR_ANOMALY_ID(e, reason) \in Keys
  <2>1. e \in 0 .. 255
    BY CapAssumption DEF AnyId, Ids, ENTITY_NONE
  <2>2. /\ e * 256 + reason \in Int
        /\ 0 <= e * 256 + reason
        /\ e * 256 + reason <= 65535
    BY <2>1 DEF Reasons
  <2> QED BY <2>2, KeyRange DEF FDIR_ANOMALY_ID
<1>2. ASSUME NEW r \in Reports PROVE EventAnomalyId(r.entity, r.reason) \in Keys
  <2>1. r.entity \in AnyId /\ r.reason \in Reasons
    BY DEF Reports
  <2>2. 0 \in Keys
    BY KeyRange
  <2> QED BY <1>1, <2>1, <2>2 DEF EventAnomalyId
<1>3. ASSUME NEW s \in AnySubId, NEW reason \in Reasons
      PROVE  FDIR_SUBSYSTEM_ANOMALY_ID(s, reason) \in Keys
  <2>1. s \in Nat
    BY CapAssumption DEF AnySubId, SubIds, SUBSYSTEM_NONE
  <2>2. PICK m \in 0 .. 127 : m = s % 128
    BY <2>1
  <2>3. /\ 32768 + m * 256 + reason \in Int
        /\ 0 <= 32768 + m * 256 + reason
        /\ 32768 + m * 256 + reason <= 65535
    BY DEF Reasons
  <2> QED BY <2>2, <2>3, KeyRange DEF FDIR_SUBSYSTEM_ANOMALY_ID
<1> QED BY <1>1, <1>2, <1>3

\* Every mode function returns a mode.
LEMMA ModeType ==
  ASSUME NEW mode \in Modes, NEW subs
  PROVE  /\ enter_degraded_mode(mode) \in Modes
         /\ enter_safe_mode(mode) \in Modes
         /\ evaluate_dual_path(mode, subs) \in Modes
BY DEF Modes, enter_degraded_mode, enter_safe_mode, evaluate_dual_path, FDIR_MODE_NOMINAL,
       FDIR_MODE_DEGRADED, FDIR_MODE_SAFE, FDIR_MODE_REBOOT_PENDING

\* The mode that apply_action leaves behind is a mode.
LEMMA ModeAfterType ==
  ASSUME g_mode \in Modes, NEW action PROVE mode_after(action) \in Modes
BY DEF Modes, mode_after, enter_degraded_mode, enter_safe_mode, FDIR_MODE_NOMINAL,
       FDIR_MODE_DEGRADED, FDIR_MODE_SAFE, FDIR_MODE_REBOOT_PENDING

\* Marking a subsystem keeps the table well formed.
LEMMA SubsType ==
  ASSUME SubsystemType, NEW sub \in AnySubId, NEW action
  PROVE  /\ mark_unavailable_unsafe(sub) \in [SubIds -> SubSlots]
         /\ mark_degraded_unsafe(sub) \in [SubIds -> SubSlots]
         /\ subs_after(sub, action) \in [SubIds -> SubSlots]
<1>1. mark_unavailable_unsafe(sub) \in [SubIds -> SubSlots]
  BY DEF SubsystemType, mark_unavailable_unsafe, SubSlots, slot_of
<1>2. mark_degraded_unsafe(sub) \in [SubIds -> SubSlots]
  BY DEF SubsystemType, mark_degraded_unsafe, SubSlots, slot_of
<1>3. subs_after(sub, action) \in [SubIds -> SubSlots]
  BY <1>1, <1>2 DEF SubsystemType, subs_after
<1> QED BY <1>1, <1>2, <1>3

\* A reset and a heartbeat write well-formed snapshots.
LEMMA ResetType ==
  ASSUME PortType, HealthType, NEW id \in Ids
  PROVE  health_reset_unsafe(id) \in [Ids -> Snapshots]
BY NowType DEF HealthType, health_reset_unsafe, Snapshots, HealthStates

\* fdir_health_set_unsafe writes well-formed snapshots and ignores unknown ids.
LEMMA SetType ==
  ASSUME HealthType, NEW id \in AnyId, NEW health \in HealthStates
  PROVE  health_set_unsafe(id, health) \in [Ids -> Snapshots]
BY DEF HealthType, health_set_unsafe, Snapshots

\* Ids below the limit index the tables.
LEMMA RegisteredIsId ==
  ASSUME HealthType, NEW id \in AnyId, Registered(id) PROVE id \in Ids
BY CapAssumption DEF HealthType, Registered, AnyId, Ids, ENTITY_NONE

-----------------------------------------------------------------------------
(***************************************************************************)
(* Type correctness.                                                        *)
(***************************************************************************)
\* What fdir_handle_failure may change, well formed.
LibType ==
  /\ tm_open \in SUBSET Keys
  /\ reboot_requested \in BOOLEAN
  /\ restart_calls \in [Ids -> [normal : CallCounts, watchdog : CallCounts]]
  /\ HealthType /\ SubsystemType
  /\ g_mode \in Modes
  /\ g_supervision_enabled \in BOOLEAN
  /\ g_entities \in [Ids -> EntitySlots]

\* The anomalies that fdir_handle_failure raises have 16-bit keys.
LEMMA RaisedType ==
  ASSUME NEW r \in Reports, NEW sub \in AnySubId, NEW override, NEW action
  PROVE  raised_keys(r, sub, override, action) \subseteq Keys
BY KeyType DEF raised_keys, Reports

\* A restart() that succeeds leaves the state of the library well formed.
LEMMA RestartType ==
  ASSUME TypeOK, NEW r \in Reports, Registered(r.entity), NEW override,
         recover_by_restart(r, override)
  PROVE  LibType'
<1> DEFINE id == r.entity
           sub == g_entities[id].desc.linked_subsystem
<1>1. id \in Ids /\ r.reason \in Reasons
  BY RegisteredIsId DEF TypeOK, Reports
<1>2. sub \in AnySubId /\ g_entities[id] \in EntitySlots
  BY <1>1 DEF TypeOK, RecoveryType, EntitySlots, EntityDescType
<1>3. g_entities' \in [Ids -> EntitySlots]
  BY <1>1, <1>2, BumpType DEF TypeOK, RecoveryType, recover_by_restart
<1>4. restart_calls' \in [Ids -> [normal : CallCounts, watchdog : CallCounts]]
  BY <1>1, CountType DEF TypeOK, recover_by_restart
<1>5. tm_open' \in SUBSET Keys
  BY <1>2, RaisedType DEF TypeOK, PortType, recover_by_restart
<1>6. g_health' \in [Ids -> Snapshots]
  BY <1>1, ResetType DEF TypeOK, recover_by_restart
<1>7. g_latched_reason' \in [Ids -> Reasons \cup {NO_REASON}]
  BY <1>1 DEF TypeOK, HealthType, recover_by_restart, clear_latch
<1>8. g_mode' \in Modes
  BY ModeType DEF TypeOK, RecoveryType, recover_by_restart
<1>9. UNCHANGED <<g_entity_limit, g_subs, g_sub_count, g_supervision_enabled, reboot_requested>>
  BY DEF recover_by_restart, subVars
<1> QED
  BY <1>3, <1>4, <1>5, <1>6, <1>7, <1>8, <1>9
  DEF TypeOK, LibType, PortType, HealthType, SubsystemType, RecoveryType

\* So does every action that isolates the entity.
LEMMA EscalateType ==
  ASSUME TypeOK, NEW r \in Reports, Registered(r.entity), NEW override, NEW action,
         NEW attempted, isolate_and_escalate(r, override, action, attempted)
  PROVE  LibType'
<1> DEFINE id == r.entity
           sub == g_entities[id].desc.linked_subsystem
<1>1. id \in Ids /\ r.reason \in Reasons
  BY RegisteredIsId DEF TypeOK, Reports
<1>2. sub \in AnySubId /\ g_entities[id] \in EntitySlots
  BY <1>1 DEF TypeOK, RecoveryType, EntitySlots, EntityDescType
<1>3. g_entities' \in [Ids -> EntitySlots]
  BY <1>1, <1>2, BumpType DEF TypeOK, RecoveryType, isolate_and_escalate
<1>4. restart_calls' \in [Ids -> [normal : CallCounts, watchdog : CallCounts]]
  BY <1>1, CountType DEF TypeOK, PortType, isolate_and_escalate
<1>5. tm_open' \in SUBSET Keys
  BY <1>2, RaisedType DEF TypeOK, PortType, isolate_and_escalate
<1>6. g_health' \in [Ids -> Snapshots]
  BY <1>1, SetType DEF TypeOK, isolate_and_escalate, AnyId, HealthStates
<1>7. g_latched_reason' \in [Ids -> Reasons \cup {NO_REASON}]
  BY <1>1 DEF TypeOK, HealthType, isolate_and_escalate, latch_fault
<1>8. g_subs' \in [SubIds -> SubSlots]
  BY <1>2, SubsType DEF TypeOK, isolate_and_escalate
<1>9. g_mode' \in Modes
  BY ModeType, ModeAfterType DEF TypeOK, RecoveryType, isolate_and_escalate
<1>10. reboot_requested' \in BOOLEAN
  BY DEF isolate_and_escalate
<1>11. UNCHANGED <<g_entity_limit, g_sub_count, g_supervision_enabled>>
  BY DEF isolate_and_escalate
<1> QED
  BY <1>3, <1>4, <1>5, <1>6, <1>7, <1>8, <1>9, <1>10, <1>11
  DEF TypeOK, LibType, HealthType, SubsystemType, RecoveryType

\* So does fdir_handle_failure, whatever it is given.
LEMMA HandleType ==
  ASSUME TypeOK, NEW r \in Reports, handle_failure(r)
  PROVE  LibType'
<1>1. CASE handle_suppressed(r)
  BY <1>1 DEF handle_suppressed, libVars, healthVars, subVars, LibType, TypeOK, PortType,
              HealthType, SubsystemType, RecoveryType
<1>2. CASE handle_unknown(r)
  <2>1. tm_open' \in SUBSET Keys
    BY <1>2, KeyType DEF handle_unknown, TypeOK, PortType
  <2>2. g_mode' \in Modes
    BY <1>2, ModeType DEF handle_unknown, TypeOK, RecoveryType
  <2> QED BY <1>2, <2>1, <2>2
          DEF handle_unknown, healthVars, subVars, LibType, TypeOK, PortType, HealthType,
              SubsystemType, RecoveryType
<1>3. CASE handle_registered(r)
  <2>1. Registered(r.entity)
    BY <1>3 DEF handle_registered
  <2>2. \/ \E override : recover_by_restart(r, override)
        \/ \E override, action, attempted : isolate_and_escalate(r, override, action, attempted)
    BY <1>3 DEF handle_registered
  <2> QED BY <2>1, <2>2, RestartType, EscalateType
<1> QED BY <1>1, <1>2, <1>3 DEF handle_failure

\* fdir_init and the start-up registrations build well-formed tables.
LEMMA BootType ==
  /\ BootedEntities \in [Ids -> EntitySlots]
  /\ BootedSubs \in [SubIds -> SubSlots]
  /\ BootedHealth \in [Ids -> Snapshots]
  /\ NoLatches \in [Ids -> Reasons \cup {NO_REASON}]
  /\ Len(BootEntities) \in 0 .. ENTITY_CAP
  /\ Len(BootSubs) \in 0 .. SUBSYSTEM_CAP
  /\ ZERO_REPORT \in Reports
<1>1. ASSUME NEW d \in EntityDescType PROVE NewEntity(d) \in EntitySlots
  BY CapAssumption DEF NewEntity, EntitySlots
<1>0. {"NONE"} \in (SUBSET Actions) \ {{}}
  <2>1. "NONE" \in {"NONE"} /\ "NONE" \in Actions
    BY DEF Actions
  <2> QED BY <2>1
<1>2. ZeroDesc \in EntityDescType
  BY <1>0, CapAssumption DEF ZeroDesc, EntityDescType, AnySubId, SubIds, SUBSYSTEM_NONE, Actions
<1>3. \A i \in 1 .. Len(BootEntities) : BootEntities[i] \in EntityDescType
  BY BootAssumption
<1>4. BootedEntities \in [Ids -> EntitySlots]
  BY <1>1, <1>2, <1>3, BootAssumption DEF BootedEntities, Ids
<1>5. BootedSubs \in [SubIds -> SubSlots]
  <2>1. ZeroSub \in SubSlots
    BY <1>0 DEF ZeroSub, SubSlots, SubDescType
  <2>2. \A i \in 1 .. Len(BootSubs) : NewSub(BootSubs[i]) \in SubSlots
    BY BootAssumption DEF NewSub, SubSlots
  <2> QED BY <2>1, <2>2, BootAssumption DEF BootedSubs, SubIds
<1>6. BootedHealth \in [Ids -> Snapshots]
  BY ClockAssumption DEF BootedHealth, Snapshots, HealthStates, Times
<1>7. ZERO_REPORT \in Reports
  BY CapAssumption DEF ZERO_REPORT, Reports, AnyId, Ids, Reasons, REASON_INIT_FAILED
<1>8. Len(BootEntities) \in 0 .. ENTITY_CAP /\ Len(BootSubs) \in 0 .. SUBSYSTEM_CAP
  BY BootAssumption, CapAssumption
<1> QED BY <1>4, <1>5, <1>6, <1>7, <1>8 DEF NoLatches

\* fdir_init and the start-up registrations establish the type invariant.
LEMMA TypeInit == Init => TypeOK
<1> SUFFICES ASSUME Init PROVE TypeOK
  OBVIOUS
<1>1. PortType
  <2>1. 0 \in 0 .. CLOCK_BOUND /\ 0 \in CallCounts
    BY ClockAssumption, CapAssumption DEF CallCounts
  <2> QED BY <2>1 DEF Init, PortInit, PortType
<1>2. HealthType /\ SubsystemType
  BY BootType DEF Init, HealthType, SubsystemType
<1>3. RecoveryType
  <2>0. queue = <<>> /\ g_full_latched = FALSE /\ report = ZERO_REPORT
    BY DEF Init, Queue!QueueInit
  <2>1. queue \in Seq(Reports) /\ report \in Reports
    BY <2>0, BootType
  <2>2. g_mode \in Modes
    BY DEF Init, Modes, FDIR_MODE_NOMINAL
  <2>3. g_full_latched \in BOOLEAN /\ g_supervision_enabled \in BOOLEAN
    BY <2>0 DEF Init
  <2> QED BY <2>1, <2>2, <2>3, BootType DEF Init, RecoveryType
<1> QED
  BY <1>1, <1>2, <1>3, CapAssumption, ClockAssumption
  DEF Init, TypeOK, SupervisorPcs, WorkerPcs, Times

\* report_fault_impl keeps health, subsystem and recovery state well formed.
LEMMA ReportType ==
  ASSUME TypeOK, NEW id \in AnyId, NEW reason \in FaultReasons, NEW ok \in BOOLEAN,
         report_fault(id, reason, ok)
  PROVE  HealthType' /\ SubsystemType' /\ RecoveryType'
<1> DEFINE r == [entity |-> id, reason |-> reason]
<1>1. r \in Reports /\ queue \in Seq(Reports)
  BY ConfigAssumption DEF Reports, TypeOK, RecoveryType
<1>2. \/ Queue!QueuePut(r) /\ g_health' = health_set_unsafe(id, "FAILED")
      \/ Queue!QueueRefuse /\ UNCHANGED g_health
  BY DEF report_fault
<1>3. queue' \in Seq(Reports)
  BY <1>1, <1>2 DEF Queue!QueuePut, Queue!QueueRefuse
<1>4. g_full_latched' \in BOOLEAN /\ report' = report
  BY <1>2 DEF Queue!QueuePut, Queue!QueueRefuse, TypeOK, RecoveryType
<1>5. g_health' \in [Ids -> Snapshots]
  BY <1>2, SetType DEF TypeOK, HealthType, HealthStates
<1>6. UNCHANGED <<g_latched_reason, g_entity_limit, g_subs, g_sub_count, g_mode,
                  g_supervision_enabled, g_entities>>
  BY DEF report_fault, subVars
<1> QED BY <1>3, <1>4, <1>5, <1>6 DEF TypeOK, HealthType, SubsystemType, RecoveryType

\* Application and ground calls keep the library's state well formed.
LEMMA EnvironmentType ==
  ASSUME TypeOK, Environment
  PROVE  PortType' /\ HealthType' /\ SubsystemType' /\ RecoveryType'
<1> USE DEF portVars, libVars, healthVars, subVars, queueVars
<1>1. CASE AppReport
  <2>1. HealthType' /\ SubsystemType' /\ RecoveryType'
    BY <1>1, ReportType DEF AppReport
  <2> QED BY <1>1, <2>1 DEF AppReport, TypeOK, PortType
<1>2. CASE AppHealth
  <2>1. PICK id \in Ids : health_reset(id) \/ \E h \in HealthStates : health_set(id, h)
    BY <1>2 DEF AppHealth
  <2>2. HealthType'
    BY <2>1, ResetType, SetType DEF health_reset, health_set, TypeOK, HealthType, AnyId
  <2> QED BY <1>2, <2>2 DEF AppHealth, TypeOK, PortType, SubsystemType, RecoveryType
<1>3. CASE AppRegister
  <2>1. ASSUME NEW d \in LateEntities, entity_register(d), UNCHANGED portVars
        PROVE  PortType' /\ HealthType' /\ SubsystemType' /\ RecoveryType'
    <3>1. d \in EntityDescType /\ g_entity_limit \in Ids /\ g_entity_limit + 1 \in 0 .. ENTITY_CAP
      BY <2>1, BootAssumption, CapAssumption DEF entity_register, TypeOK, HealthType, Ids
    <3>2. NewEntity(d) \in EntitySlots
      BY <3>1, CapAssumption DEF NewEntity, EntitySlots
    <3>3. g_entities' \in [Ids -> EntitySlots]
      BY <2>1, <3>1, <3>2 DEF entity_register, TypeOK, RecoveryType
    <3>4. HealthType'
      BY <2>1, <3>1, ResetType DEF entity_register, TypeOK, HealthType
    <3> QED BY <1>3, <2>1, <3>3, <3>4 DEF AppRegister, entity_register, TypeOK, PortType,
                                          SubsystemType, RecoveryType
  <2>2. ASSUME NEW d \in LateSubs, subsystem_register(d),
               UNCHANGED <<clock, reboot_requested, restart_calls, healthVars, g_mode,
                           g_supervision_enabled, g_entities>>
        PROVE  PortType' /\ HealthType' /\ SubsystemType' /\ RecoveryType'
    <3>1. NewSub(d) \in SubSlots
      BY BootAssumption DEF NewSub, SubSlots
    <3>2. SubsystemType'
      BY <2>2, <3>1, CapAssumption DEF subsystem_register, TypeOK, SubsystemType, SubIds
    <3> QED BY <1>3, <2>2, <3>2 DEF AppRegister, subsystem_register, TypeOK, PortType, HealthType,
                                    RecoveryType
  <2> QED BY <1>3, <2>1, <2>2 DEF AppRegister
<1>4. CASE GroundSupervision
  <2>1. PICK enabled \in BOOLEAN : set_supervision_enabled(enabled)
    BY <1>4 DEF GroundSupervision
  <2>2. queue' \in Seq(Reports) /\ report' = report
    <3>1. (queue' = queue \/ queue' = <<>>) /\ report' = report
      BY <2>1 DEF set_supervision_enabled, Queue!QueueClear
    <3>2. <<>> \in Seq(Reports) /\ queue \in Seq(Reports)
      BY DEF TypeOK, RecoveryType
    <3> QED BY <3>1, <3>2
  <2>3. g_full_latched' \in BOOLEAN /\ g_supervision_enabled' \in BOOLEAN
    BY <2>1 DEF set_supervision_enabled, Queue!QueueClear, TypeOK, RecoveryType
  <2> QED BY <1>4, <2>1, <2>2, <2>3 DEF GroundSupervision, set_supervision_enabled, TypeOK,
                                        PortType, HealthType, SubsystemType, RecoveryType
<1>5. ASSUME NEW mode \in Modes, ModeCommand(mode), UNCHANGED queueVars
      PROVE  HealthType' /\ SubsystemType' /\ RecoveryType'
  BY <1>5 DEF ModeCommand, TypeOK, HealthType, SubsystemType, RecoveryType
<1>6. g_mode \in Modes
  BY DEF TypeOK, RecoveryType
<1>7. CASE GroundLowerMode
  <2>1. PICK mode \in Modes : ModeCommand(mode)
    BY <1>6, <1>7 DEF GroundLowerMode, set_system_mode, deescalate_system_mode, Modes,
                      FDIR_MODE_DEGRADED, FDIR_MODE_SAFE
  <2> QED BY <1>5, <1>7, <2>1 DEF GroundLowerMode, TypeOK, PortType
<1>8. CASE GroundRaiseMode
  <2>1. PICK mode \in Modes : ModeCommand(mode)
    BY <1>6, <1>8, ModeType DEF GroundRaiseMode, reassess_system_mode
  <2> QED BY <1>5, <1>8, <2>1 DEF GroundRaiseMode, TypeOK, PortType
<1>9. CASE GroundReboot
  <2>1. FDIR_MODE_REBOOT_PENDING \in Modes
    BY DEF Modes, FDIR_MODE_REBOOT_PENDING
  <2>2. ModeCommand(FDIR_MODE_REBOOT_PENDING) /\ reboot_requested' = TRUE
    BY <1>9 DEF GroundReboot, try_reboot
  <2> QED BY <1>5, <1>9, <2>1, <2>2 DEF GroundReboot, TypeOK, PortType
<1>10. CASE GroundMark
  <2>1. PICK s \in SubIds : \/ subsystem_mark_available(s)
                            \/ subsystem_mark_unavailable(s)
                            \/ subsystem_mark_degraded(s)
    BY <1>10 DEF GroundMark
  <2>2. s \in AnySubId
    BY DEF AnySubId
  <2>3. g_subs' \in [SubIds -> SubSlots] /\ g_sub_count' = g_sub_count
    <3>1. CASE subsystem_mark_available(s)
      BY <3>1 DEF subsystem_mark_available, TypeOK, SubsystemType, SubSlots
    <3>2. CASE subsystem_mark_unavailable(s) \/ subsystem_mark_degraded(s)
      BY <2>2, <3>2, SubsType DEF subsystem_mark_unavailable, subsystem_mark_degraded, TypeOK
    <3> QED BY <2>1, <3>1, <3>2
  <2>4. FDIR_SUBSYSTEM_ANOMALY_ID(s, REASON_USER) \in Keys
    BY <2>2, KeyType DEF Reasons, REASON_USER
  <2>5. tm_open' \in SUBSET Keys
    BY <2>1, <2>4 DEF subsystem_mark_available, subsystem_mark_unavailable,
                      subsystem_mark_degraded, TypeOK, PortType
  <2> QED BY <1>10, <2>3, <2>5 DEF GroundMark, TypeOK, PortType, HealthType, SubsystemType,
                                   RecoveryType
<1>11. CASE ClockTick /\ UNCHANGED <<libVars, queueVars>>
  <2>1. clock' \in 0 .. CLOCK_BOUND
    BY <1>11, ClockAssumption DEF ClockTick, TypeOK, PortType
  <2> QED BY <1>11, <2>1 DEF ClockTick, TypeOK, PortType, HealthType, SubsystemType, RecoveryType
<1> QED BY <1>1, <1>2, <1>3, <1>4, <1>7, <1>8, <1>9, <1>10, <1>11 DEF Environment

\* Every step of every process preserves the type invariant.
LEMMA TypeNext == TypeOK /\ [Next]_vars => TypeOK'
<1> SUFFICES ASSUME TypeOK, [Next]_vars PROVE TypeOK'
  OBVIOUS
<1> USE DEF vars, portVars, libVars, healthVars, subVars, queueVars, supVars
<1>1. CASE UNCHANGED vars
  BY <1>1 DEF TypeOK, PortType, HealthType, SubsystemType, RecoveryType
<1>2. ASSUME OnlySupervisor, pc' \in SupervisorPcs, ret' \in {"idle", "drain", "scan"},
             scan' \in 0 .. ENTITY_CAP, now_ms' \in Times, report' \in Reports
      PROVE  TypeOK'
  BY <1>2 DEF OnlySupervisor, TypeOK, PortType, HealthType, SubsystemType, RecoveryType
<1>3. ASSUME NEW p \in {"idle", "drain", "scan"}, ReturnTo(p)
      PROVE  /\ pc' \in SupervisorPcs
             /\ ret' \in {"idle", "drain", "scan"}
             /\ scan' \in 0 .. ENTITY_CAP
             /\ now_ms' \in Times
             /\ report' \in Reports
  BY <1>3, BootType, CapAssumption, ClockAssumption DEF ReturnTo, TypeOK, SupervisorPcs, Times
<1>4. CASE SupervisorLoop \/ WatchdogBegin \/ HandleBegin
  <2>1. CASE TickBegin \/ DrainEmpty \/ WatchdogBegin
    BY <2>1, <1>2 DEF TickBegin, DrainEmpty, WatchdogBegin, TypeOK, RecoveryType, SupervisorPcs
  <2>2. CASE DrainGet
    <3>1. queue' \in Seq(Reports) /\ report' \in Reports /\ g_full_latched' = g_full_latched
      BY <2>2 DEF DrainGet, Queue!QueueGet, TypeOK, RecoveryType
    <3> QED BY <2>2, <3>1 DEF DrainGet, TypeOK, PortType, HealthType, SubsystemType,
                              RecoveryType, SupervisorPcs
  <2>3. CASE WatchdogReadClock
    BY <2>3, <1>2, NowType DEF WatchdogReadClock, TypeOK, RecoveryType, SupervisorPcs
  <2>4. CASE WatchdogCheck
    BY <2>4, <1>2, <1>3 DEF WatchdogCheck, TypeOK, RecoveryType, SupervisorPcs
  <2>5. CASE WatchdogRaise
    <3>1. PICK id \in watchdog_due : /\ report' = [entity |-> id, reason |-> REASON_WATCHDOG]
                                     /\ scan' = id + 1
      BY <2>5 DEF WatchdogRaise
    <3>2. id \in Ids /\ id \in AnyId
      <4>1. id \in scan .. g_entity_limit - 1
        BY DEF watchdog_due
      <4> QED BY <4>1, CapAssumption DEF TypeOK, HealthType, Ids, AnyId
    <3>3. scan' \in 0 .. ENTITY_CAP
      BY <3>1, <3>2, CapAssumption DEF Ids
    <3>4. report' \in Reports
      BY <3>1, <3>2 DEF Reports, Reasons, REASON_WATCHDOG
    <3> QED BY <2>5, <1>2, <3>3, <3>4 DEF WatchdogRaise, TypeOK, SupervisorPcs
  <2>6. CASE WatchdogEnd
    BY <2>6, <1>2, <1>3 DEF WatchdogEnd
  <2>7. CASE HandleBegin
    <3>1. report' \in Reports
      BY <2>7, ConfigAssumption DEF HandleBegin, Reports
    <3> QED BY <2>7, <1>2, <3>1 DEF HandleBegin, TypeOK, SupervisorPcs
  <2>8. CASE HandleCheck
    BY <2>8, <1>2, <1>3 DEF HandleCheck, TypeOK, RecoveryType, SupervisorPcs
  <2>9. CASE Handle
    <3>1. LibType'
      BY <2>9, HandleType DEF Handle, TypeOK, RecoveryType
    <3>2. ReturnTo(ret) /\ ret \in {"idle", "drain", "scan"}
      BY <2>9 DEF Handle, TypeOK
    <3> QED BY <2>9, <3>1, <3>2, <1>3
            DEF Handle, LibType, TypeOK, PortType, HealthType, SubsystemType, RecoveryType
  <2> QED BY <1>4, <2>1, <2>2, <2>3, <2>4, <2>5, <2>6, <2>7, <2>8, <2>9 DEF SupervisorLoop
<1>5. ASSUME NEW id \in Ids, Worker(id) PROVE TypeOK'
  <2>1. ASSUME NEW from, NEW to \in WorkerPcs, Goto(id, from, to)
        PROVE  worker' \in [Ids -> WorkerPcs] /\ UNCHANGED <<pc, ret, scan, now_ms, submit>>
    BY <2>1 DEF Goto, TypeOK
  <2>2. CASE WorkerReadMode(id)
    BY <2>1, <2>2 DEF WorkerReadMode, WorkerPcs, TypeOK, PortType, HealthType, SubsystemType,
                      RecoveryType
  <2>3. CASE WorkerSafeHeartbeat(id) \/ WorkerDone(id)
    <3>1. HealthType'
      BY <2>3, NowType DEF WorkerSafeHeartbeat, WorkerDone, heartbeat_notify, TypeOK, HealthType,
                           Snapshots, HealthStates
    <3> QED BY <2>1, <2>3, <3>1 DEF WorkerSafeHeartbeat, WorkerDone, WorkerPcs, TypeOK, PortType,
                                    SubsystemType, RecoveryType
  <2>4. CASE WorkerGate(id)
    BY <2>1, <2>4 DEF WorkerGate, WorkerPcs, TypeOK, PortType, HealthType, SubsystemType,
                      RecoveryType
  <2>5. CASE WorkerFault(id)
    <3>1. PICK reason \in FaultReasons : \/ \E ok \in BOOLEAN : report_fault(id, reason, ok)
                                         \/ report_fault_ignored(id, reason)
      BY <2>5 DEF WorkerFault
    <3>2. CASE report_fault_ignored(id, reason)
      BY <2>1, <2>5, <3>2 DEF WorkerFault, report_fault_ignored, WorkerPcs, TypeOK, PortType,
                              HealthType, SubsystemType, RecoveryType
    <3>3. CASE \E ok \in BOOLEAN : report_fault(id, reason, ok)
      <4>1. HealthType' /\ SubsystemType' /\ RecoveryType'
        BY <3>3, ReportType DEF AnyId
      <4> QED BY <2>1, <2>5, <4>1 DEF WorkerFault, WorkerPcs, TypeOK, PortType
    <3> QED BY <3>1, <3>2, <3>3
  <2> QED BY <1>5, <2>2, <2>3, <2>4, <2>5 DEF Worker
<1>6. CASE SubmitCheck
  <2>1. submit' \in SUBSET Reports
    BY <1>6, ConfigAssumption DEF SubmitCheck, Reports
  <2> QED BY <1>6, <2>1 DEF SubmitCheck, TypeOK, PortType, HealthType, SubsystemType, RecoveryType
<1>7. CASE SubmitPut
  <2>1. PICK r \in submit : Queue!QueuePut(r) \/ Queue!QueueRefuse
    BY <1>7 DEF SubmitPut
  <2>2. r \in Reports /\ queue \in Seq(Reports)
    BY DEF TypeOK, RecoveryType
  <2>3. queue' \in Seq(Reports)
    BY <2>1, <2>2 DEF Queue!QueuePut, Queue!QueueRefuse
  <2>4. g_full_latched' \in BOOLEAN /\ report' = report
    BY <2>1 DEF Queue!QueuePut, Queue!QueueRefuse, TypeOK, RecoveryType
  <2> QED BY <1>7, <2>3, <2>4 DEF SubmitPut, TypeOK, PortType, HealthType, SubsystemType,
                                  RecoveryType
<1>8. CASE Environment
  BY <1>8, EnvironmentType DEF Environment, TypeOK
<1>9. CASE PlatformReset
  <2>1. PortType'
    <3>1. 0 \in 0 .. CLOCK_BOUND /\ 0 \in CallCounts
      BY ClockAssumption, CapAssumption DEF CallCounts
    <3> QED BY <1>9, <3>1 DEF PlatformReset, PortType
  <2>2. HealthType' /\ SubsystemType'
    BY <1>9, BootType DEF PlatformReset, HealthType, SubsystemType
  <2>3. RecoveryType'
    <3>1. FDIR_MODE_NOMINAL \in Modes
      BY DEF Modes, FDIR_MODE_NOMINAL
    <3>2. queue' \in Seq(Reports) /\ report' \in Reports
      BY <1>9, BootType DEF PlatformReset
    <3>3. g_full_latched' \in BOOLEAN /\ g_supervision_enabled' \in BOOLEAN
      BY <1>9 DEF PlatformReset
    <3> QED BY <1>9, <3>1, <3>2, <3>3, BootType DEF PlatformReset, RecoveryType
  <2> QED BY <1>9, <2>1, <2>2, <2>3, CapAssumption, ClockAssumption
          DEF PlatformReset, TypeOK, SupervisorPcs, WorkerPcs, Times
<1> QED BY <1>1, <1>4, <1>5, <1>6, <1>7, <1>8, <1>9 DEF Next, Supervisor

\* Spec keeps every variable of the model in its type: in particular the restart
\* counters never wrap, the clock readings and the time stamps stay 32-bit values
\* and every index into a table is in range.
THEOREM TypeCorrect == Spec => []TypeOK
BY TypeInit, TypeNext, PTL DEF Spec

-----------------------------------------------------------------------------
(***************************************************************************)
(* What fdir_handle_failure does to the health table, the latches and the   *)
(* open anomalies, and which other steps touch them at all.                 *)
(***************************************************************************)
\* A handled report is suppressed or names nobody, or the entity is restarted, or
\* it is isolated and its anomaly opened.
Untouched(r) ==
  /\ fault_is_latched(r.entity, r.reason) \/ ~Registered(r.entity)
  /\ UNCHANGED <<g_health, g_latched_reason>>
  /\ tm_open \subseteq tm_open'
Restarted(r) ==
  /\ Registered(r.entity)
  /\ g_latched_reason' = clear_latch(r.entity)
  /\ g_health' = health_reset_unsafe(r.entity)
  /\ tm_open \ {FDIR_ANOMALY_ID(r.entity, r.reason)} \subseteq tm_open'
Isolated(r) ==
  /\ Registered(r.entity)
  /\ g_latched_reason' = latch_fault(r.entity, r.reason)
  /\ g_health' = [g_health EXCEPT ![r.entity].health = "FAILED"]
  /\ tm_open \cup {FDIR_ANOMALY_ID(r.entity, r.reason)} \subseteq tm_open'

\* fdir_handle_failure has exactly these three outcomes.
LEMMA HandleOutcome ==
  ASSUME TypeOK, NEW r \in Reports, handle_failure(r)
  PROVE  /\ g_entity_limit' = g_entity_limit
         /\ Untouched(r) \/ Restarted(r) \/ Isolated(r)
<1>1. CASE handle_suppressed(r)
  BY <1>1 DEF handle_suppressed, Untouched, libVars, healthVars
<1>2. CASE handle_unknown(r)
  BY <1>2 DEF handle_unknown, Untouched, healthVars
<1>3. CASE handle_registered(r)
  <2>1. Registered(r.entity) /\ r.entity \in Ids
    BY <1>3, RegisteredIsId DEF handle_registered, TypeOK, Reports
  <2>2. ASSUME NEW override, recover_by_restart(r, override)
        PROVE  g_entity_limit' = g_entity_limit /\ Restarted(r)
    BY <2>1, <2>2 DEF recover_by_restart, Restarted
  <2>3. ASSUME NEW override, NEW action, NEW attempted,
               isolate_and_escalate(r, override, action, attempted)
        PROVE  g_entity_limit' = g_entity_limit /\ Isolated(r)
    <3>1. r.entity # ENTITY_NONE
      BY <2>1, CapAssumption DEF Ids, ENTITY_NONE
    <3>2. FDIR_ANOMALY_ID(r.entity, r.reason)
            \in raised_keys(r, g_entities[r.entity].desc.linked_subsystem, override, action)
      BY <3>1 DEF raised_keys, EventAnomalyId
    <3> QED BY <2>1, <2>3, <3>2 DEF isolate_and_escalate, Isolated, health_set_unsafe
  <2>4. \/ \E override : recover_by_restart(r, override)
        \/ \E override, action, attempted : isolate_and_escalate(r, override, action, attempted)
    BY <1>3 DEF handle_registered
  <2> QED BY <2>2, <2>3, <2>4
<1> QED BY <1>1, <1>2, <1>3 DEF handle_failure

\* Only fdir_handle_failure and a reset touch the latches; only these two and
\* fdir_subsystem_mark_available close an anomaly.
LEMMA OthersKeepLatches ==
  ASSUME [Next]_vars, ~Handle, ~PlatformReset
  PROVE  /\ g_latched_reason' = g_latched_reason
         /\ \/ tm_open \subseteq tm_open'
            \/ \E s \in SubIds :
                 tm_open' = tm_open \ {FDIR_SUBSYSTEM_ANOMALY_ID(s, REASON_USER)}
<1> USE DEF vars, portVars, libVars, healthVars, subVars
<1>1. CASE UNCHANGED vars
  BY <1>1
<1>2. CASE Supervisor
  BY <1>2 DEF Supervisor, SupervisorLoop, TickBegin, DrainGet, DrainEmpty, WatchdogBegin,
     WatchdogReadClock, WatchdogCheck, WatchdogRaise, WatchdogEnd, HandleBegin, HandleCheck,
     OnlySupervisor
<1>3. ASSUME NEW id \in Ids, Worker(id)
      PROVE  g_latched_reason' = g_latched_reason /\ tm_open' = tm_open
  BY <1>3 DEF Worker, WorkerReadMode, WorkerSafeHeartbeat, WorkerGate, WorkerDone, WorkerFault,
     heartbeat_notify, report_fault, report_fault_ignored
<1>4. CASE SubmitCheck \/ SubmitPut
  BY <1>4 DEF SubmitCheck, SubmitPut
<1>5. CASE Environment
  <2>1. CASE GroundMark
    BY <2>1 DEF GroundMark, subsystem_mark_available, subsystem_mark_unavailable,
       subsystem_mark_degraded
  <2>2. CASE ~GroundMark
    BY <1>5, <2>2 DEF Environment, AppReport, AppHealth, AppRegister, GroundSupervision,
       GroundLowerMode, GroundRaiseMode, GroundReboot, ClockTick, report_fault, health_reset,
       health_set, entity_register, subsystem_register, set_supervision_enabled, ModeCommand,
       set_system_mode, deescalate_system_mode, reassess_system_mode, try_reboot
  <2> QED BY <2>1, <2>2
<1> QED BY <1>1, <1>2, <1>3, <1>4, <1>5 DEF Next

-----------------------------------------------------------------------------
(***************************************************************************)
(* Suppressed reports: SuppressedIsOpen is inductive together with TypeOK.  *)
(***************************************************************************)
\* Keys of different entities, and of entities and subsystems, differ.
LEMMA KeysDiffer ==
  ASSUME NEW id \in Ids, NEW reason \in Reasons
  PROVE  /\ \A other \in Ids, why \in Reasons :
              FDIR_ANOMALY_ID(id, reason) = FDIR_ANOMALY_ID(other, why) => id = other
         /\ \A s \in SubIds, why \in Reasons :
              FDIR_ANOMALY_ID(id, reason) # FDIR_SUBSYSTEM_ANOMALY_ID(s, why)
<1>1. id \in 0 .. 127
  BY CapAssumption DEF Ids
<1>2. ASSUME NEW other \in Ids, NEW why \in Reasons, id * 256 + reason = other * 256 + why
      PROVE  id = other
  BY <1>1, <1>2, CapAssumption DEF Ids, Reasons
<1>3. ASSUME NEW s \in SubIds, NEW why \in Reasons
      PROVE  id * 256 + reason # 32768 + (s % 128) * 256 + why
  <2>1. PICK m \in 0 .. 127 : m = s % 128
    BY CapAssumption DEF SubIds
  <2>2. id * 256 + reason # 32768 + m * 256 + why
    BY <1>1 DEF Reasons
  <2> QED BY <2>1, <2>2
<1> QED BY <1>2, <1>3 DEF FDIR_ANOMALY_ID, FDIR_SUBSYSTEM_ANOMALY_ID

\* Every latched fault is open: a step that latches opens the anomaly, and the
\* only step that closes it removes the latch.
THEOREM SuppressionSafe == Spec => []SuppressedIsOpen
<1>1. Init => SuppressedIsOpen
  BY DEF Init, SuppressedIsOpen, NoLatches
<1>2. TypeOK /\ TypeOK' /\ SuppressedIsOpen /\ [Next]_vars => SuppressedIsOpen'
  <2> SUFFICES ASSUME TypeOK, TypeOK', SuppressedIsOpen, [Next]_vars,
                      NEW id \in Ids, g_latched_reason'[id] # NO_REASON
               PROVE  FDIR_ANOMALY_ID(id, g_latched_reason'[id]) \in tm_open'
    BY DEF SuppressedIsOpen
  <2>1. /\ g_latched_reason \in [Ids -> Reasons \cup {NO_REASON}]
        /\ g_latched_reason'[id] \in Reasons
    BY DEF TypeOK, HealthType
  <2>2. CASE Handle
    <3>1. report \in Reports /\ handle_failure(report)
      BY <2>2 DEF Handle, TypeOK, RecoveryType
    <3>2. report.reason \in Reasons
      BY <3>1 DEF Reports
    <3>3. Registered(report.entity) => report.entity \in Ids
      BY <3>1, RegisteredIsId DEF TypeOK, Reports
    <3>4. CASE Untouched(report)
      BY <2>1, <3>4 DEF Untouched, SuppressedIsOpen
    <3>5. CASE Restarted(report)
      <4>1. id # report.entity
        BY <2>1, <3>3, <3>5 DEF Restarted, clear_latch, Reasons, NO_REASON
      <4>2. g_latched_reason'[id] = g_latched_reason[id]
        BY <2>1, <3>3, <3>5, <4>1 DEF Restarted, clear_latch
      <4>3. FDIR_ANOMALY_ID(id, g_latched_reason[id]) # FDIR_ANOMALY_ID(report.entity, report.reason)
        BY <2>1, <3>2, <3>3, <3>5, <4>1, <4>2, KeysDiffer DEF Restarted
      <4> QED BY <3>5, <4>2, <4>3 DEF Restarted, SuppressedIsOpen
    <3>6. CASE Isolated(report)
      BY <2>1, <3>3, <3>6 DEF Isolated, latch_fault, SuppressedIsOpen
    <3> QED BY <3>1, <3>4, <3>5, <3>6, HandleOutcome
  <2>3. CASE PlatformReset
    BY <2>3 DEF PlatformReset, NoLatches
  <2>4. CASE ~Handle /\ ~PlatformReset
    <3>1. FDIR_ANOMALY_ID(id, g_latched_reason'[id]) \in tm_open
      BY <2>4, OthersKeepLatches DEF SuppressedIsOpen
    <3>2. \A s \in SubIds : FDIR_ANOMALY_ID(id, g_latched_reason'[id])
                              # FDIR_SUBSYSTEM_ANOMALY_ID(s, REASON_USER)
      BY <2>1, KeysDiffer DEF Reasons, REASON_USER
    <3> QED BY <2>4, <3>1, <3>2, OthersKeepLatches
  <2> QED BY <2>2, <2>3, <2>4
<1> QED BY <1>1, <1>2, TypeCorrect, PTL DEF Spec

-----------------------------------------------------------------------------
(***************************************************************************)
(* Isolation: LatchedIsIsolated is inductive together with TypeOK when the  *)
(* application leaves the health of its entities to the supervisor.         *)
(***************************************************************************)
\* The application calls neither fdir_health_reset nor fdir_health_set.
HealthIsSupervised == Calls \cap {"health_reset", "health_set"} = {}

\* Heartbeats, reports, registrations and commands leave a FAILED entity FAILED.
LEMMA OthersKeepFailed ==
  ASSUME TypeOK, [Next]_vars, ~Handle, ~PlatformReset, HealthIsSupervised,
         NEW id \in Ids, IsFailed(id)
  PROVE  IsFailed(id)'
<1> USE DEF vars, portVars, libVars, healthVars, subVars
<1>0. /\ g_health \in [Ids -> Snapshots]
      /\ g_entity_limit \in 0 .. ENTITY_CAP
      /\ id < g_entity_limit /\ g_health[id].health = "FAILED"
  BY DEF TypeOK, HealthType, IsFailed, Registered
<1>a. ASSUME UNCHANGED <<g_health, g_entity_limit>> PROVE IsFailed(id)'
  BY <1>a, <1>0 DEF IsFailed, Registered
<1>b. ASSUME NEW other \in AnyId, g_health' = health_set_unsafe(other, "FAILED"),
             UNCHANGED g_entity_limit
      PROVE  IsFailed(id)'
  BY <1>b, <1>0 DEF IsFailed, Registered, health_set_unsafe, Snapshots
<1>c. ASSUME NEW other \in AnyId, NEW reason, NEW ok, report_fault(other, reason, ok)
      PROVE  IsFailed(id)'
  BY <1>a, <1>b, <1>c DEF report_fault
<1>1. CASE UNCHANGED vars
  BY <1>1, <1>a
<1>2. CASE Supervisor
  BY <1>2, <1>a DEF Supervisor, SupervisorLoop, TickBegin, DrainGet, DrainEmpty, WatchdogBegin,
     WatchdogReadClock, WatchdogCheck, WatchdogRaise, WatchdogEnd, HandleBegin, HandleCheck,
     OnlySupervisor
<1>3. ASSUME NEW w \in Ids, Worker(w) PROVE IsFailed(id)'
  <2>1. CASE WorkerReadMode(w) \/ WorkerGate(w)
    BY <2>1, <1>a DEF WorkerReadMode, WorkerGate
  <2>2. CASE WorkerSafeHeartbeat(w) \/ WorkerDone(w)
    BY <2>2, <1>0 DEF WorkerSafeHeartbeat, WorkerDone, heartbeat_notify, IsFailed, Registered,
                      Snapshots
  <2>3. CASE WorkerFault(w)
    BY <2>3, <1>a, <1>c DEF WorkerFault, report_fault_ignored, AnyId
  <2> QED BY <1>3, <2>1, <2>2, <2>3 DEF Worker
<1>4. CASE SubmitCheck \/ SubmitPut
  BY <1>4, <1>a DEF SubmitCheck, SubmitPut
<1>5. CASE Environment
  <2>1. CASE AppReport
    BY <2>1, <1>c DEF AppReport
  <2>2. CASE AppHealth
    BY <2>2 DEF AppHealth, HealthIsSupervised
  <2>3. CASE AppRegister
    <3>1. ASSUME NEW d, entity_register(d) PROVE IsFailed(id)'
      <4>1. /\ g_entity_limit' = g_entity_limit + 1
            /\ g_health'[id] = g_health[id]
        BY <3>1, <1>0 DEF entity_register, health_reset_unsafe
      <4> QED BY <4>1, <1>0, CapAssumption DEF IsFailed, Registered, Ids
    <3> QED BY <2>3, <3>1, <1>a DEF AppRegister
  <2>4. CASE ~AppReport /\ ~AppHealth /\ ~AppRegister
    BY <1>5, <2>4, <1>a DEF Environment, GroundSupervision, GroundLowerMode, GroundRaiseMode,
       GroundReboot, GroundMark, set_supervision_enabled, ModeCommand, set_system_mode,
       deescalate_system_mode, reassess_system_mode, try_reboot
  <2> QED BY <2>1, <2>2, <2>3, <2>4
<1> QED BY <1>1, <1>2, <1>3, <1>4, <1>5 DEF Next

\* While the health table is left to the supervisor, an entity with a latched fault
\* is FAILED: worker heartbeats, further reports and ground commands cannot bring
\* it back, only a restart() that succeeds, which also removes the latch.
THEOREM IsolationSafe == HealthIsSupervised /\ Spec => []LatchedIsIsolated
<1> SUFFICES ASSUME HealthIsSupervised PROVE Spec => []LatchedIsIsolated
  OBVIOUS
<1>1. Init => LatchedIsIsolated
  BY DEF Init, LatchedIsIsolated, NoLatches
<1>2. TypeOK /\ LatchedIsIsolated /\ [Next]_vars => LatchedIsIsolated'
  <2> SUFFICES ASSUME TypeOK, LatchedIsIsolated, [Next]_vars,
                      NEW id \in Ids, g_latched_reason'[id] # NO_REASON
               PROVE  IsFailed(id)'
    BY DEF LatchedIsIsolated
  <2>1. /\ g_latched_reason \in [Ids -> Reasons \cup {NO_REASON}]
        /\ g_health \in [Ids -> Snapshots]
    BY DEF TypeOK, HealthType
  <2>2. CASE Handle
    <3>1. report \in Reports /\ handle_failure(report)
      BY <2>2 DEF Handle, TypeOK, RecoveryType
    <3>2. Registered(report.entity) => report.entity \in Ids
      BY <3>1, RegisteredIsId DEF TypeOK, Reports
    <3>3. g_entity_limit' = g_entity_limit
      BY <3>1, HandleOutcome
    <3>4. CASE Untouched(report)
      BY <3>3, <3>4 DEF Untouched, LatchedIsIsolated, IsFailed, Registered
    <3>5. CASE Restarted(report)
      <4>1. id # report.entity
        BY <2>1, <3>2, <3>5 DEF Restarted, clear_latch
      <4>2. g_latched_reason'[id] = g_latched_reason[id] /\ g_health'[id] = g_health[id]
        BY <2>1, <3>2, <3>5, <4>1 DEF Restarted, clear_latch, health_reset_unsafe
      <4> QED BY <3>3, <4>2 DEF LatchedIsIsolated, IsFailed, Registered
    <3>6. CASE Isolated(report)
      BY <2>1, <3>2, <3>3, <3>6
      DEF Isolated, latch_fault, LatchedIsIsolated, IsFailed, Registered, Snapshots
    <3> QED BY <3>1, <3>4, <3>5, <3>6, HandleOutcome
  <2>3. CASE PlatformReset
    BY <2>3 DEF PlatformReset, NoLatches
  <2>4. CASE ~Handle /\ ~PlatformReset
    BY <2>4, OthersKeepLatches, OthersKeepFailed DEF LatchedIsIsolated
  <2> QED BY <2>2, <2>3, <2>4
<1> QED BY <1>1, <1>2, TypeCorrect, PTL DEF Spec

-----------------------------------------------------------------------------
(***************************************************************************)
(* No fault is lost.  The invariant needs supervision to stay enabled: the   *)
(* queue is emptied, and a report in flight dropped, only when it is not.   *)
(***************************************************************************)
\* Nobody disables supervision or sets health by decree.
FaultsAreReported == Calls \cap {"set_supervision_enabled", "health_set"} = {}

\* The inductive invariant.
NoFaultLost == g_supervision_enabled /\ FailedIsAccounted

\* What accounts for the failure of one entity.
Accounted(id) ==
  g_latched_reason[id] # NO_REASON \/ InFlight(id) \/ Pending(id) # {}

\* A report that waits goes on waiting when others are queued.
LEMMA PendingGrows ==
  ASSUME queue \in Seq(Reports), NEW id, Pending(id) # {},
         queue' = queue \/ \E r \in Reports : queue' = Append(queue, r)
  PROVE  Pending(id)' # {}
<1>1. PICK i \in DOMAIN queue : queue[i].entity = id
  BY DEF Pending
<1>2. i \in DOMAIN queue' /\ queue'[i] = queue[i]
  BY <1>1
<1> QED BY <1>1, <1>2 DEF Pending

\* An entity whose report is appended to the queue has a report waiting.
LEMMA PendingNew ==
  ASSUME queue \in Seq(Reports), NEW r \in Reports, queue' = Append(queue, r)
  PROVE  Pending(r.entity)' # {}
<1>1. Len(queue) + 1 \in DOMAIN queue' /\ queue'[Len(queue) + 1] = r
  OBVIOUS
<1> QED BY <1>1 DEF Pending

\* Taking the oldest report leaves every other one waiting.
LEMMA PendingTaken ==
  ASSUME queue \in Seq(Reports), NEW id, Pending(id) # {}, queue' = Tail(queue)
  PROVE  Head(queue).entity = id \/ Pending(id)' # {}
<1>1. PICK i \in DOMAIN queue : queue[i].entity = id
  BY DEF Pending
<1>2. CASE i = 1
  BY <1>1, <1>2
<1>3. CASE i # 1
  <2>1. i - 1 \in DOMAIN queue' /\ queue'[i - 1] = queue[i]
    BY <1>1, <1>3
  <2> QED BY <1>1, <2>1 DEF Pending
<1> QED BY <1>2, <1>3

\* A step that fails nobody, keeps the latches and the supervisor's report, and at
\* most adds to the queue, loses nothing.
LEMMA QuietStep ==
  ASSUME TypeOK, FailedIsAccounted, NEW id \in Ids, IsFailed(id),
         UNCHANGED <<g_latched_reason, pc, report>>,
         queue' = queue \/ \E r \in Reports : queue' = Append(queue, r)
  PROVE  Accounted(id)'
<1>1. Accounted(id) /\ queue \in Seq(Reports)
  BY DEF FailedIsAccounted, Accounted, TypeOK, RecoveryType
<1>2. CASE Pending(id) # {}
  BY <1>1, <1>2, PendingGrows DEF Accounted
<1>3. CASE Pending(id) = {}
  BY <1>1, <1>3 DEF Accounted, InFlight
<1> QED BY <1>2, <1>3

\* report_fault_impl queues a report of every entity it marks FAILED.
LEMMA ReportAccounted ==
  ASSUME TypeOK, FailedIsAccounted, NEW e \in AnyId, NEW reason \in FaultReasons, NEW ok,
         report_fault(e, reason, ok), UNCHANGED pc, NEW id \in Ids, IsFailed(id)'
  PROVE  Accounted(id)'
<1> DEFINE r == [entity |-> e, reason |-> reason]
<1>1. /\ queue \in Seq(Reports) /\ r \in Reports
      /\ g_health \in [Ids -> Snapshots]
  BY ConfigAssumption DEF TypeOK, HealthType, RecoveryType, Reports
<1>2. UNCHANGED <<g_latched_reason, g_entity_limit, report>>
  BY DEF report_fault, Queue!QueuePut, Queue!QueueRefuse
<1>3. CASE Queue!QueuePut(r) /\ g_health' = health_set_unsafe(e, "FAILED")
  <2>1. queue' = Append(queue, r)
    BY <1>3 DEF Queue!QueuePut
  <2>2. CASE id = e
    BY <1>1, <2>1, <2>2, PendingNew DEF Accounted
  <2>3. CASE id # e
    <3>1. IsFailed(id)
      BY <1>1, <1>2, <1>3, <2>3 DEF IsFailed, Registered, health_set_unsafe
    <3> QED BY <1>1, <1>2, <2>1, <3>1, QuietStep
  <2> QED BY <2>2, <2>3
<1>4. CASE Queue!QueueRefuse /\ UNCHANGED g_health
  <2>1. IsFailed(id) /\ queue' = queue
    BY <1>2, <1>4 DEF IsFailed, Registered, Queue!QueueRefuse
  <2> QED BY <1>2, <2>1, QuietStep
<1> QED BY <1>3, <1>4 DEF report_fault

\* fdir_handle_failure restarts or latches the entity of the report it consumes.
LEMMA HandleAccounted ==
  ASSUME TypeOK, FailedIsAccounted, Handle, NEW id \in Ids, IsFailed(id)'
  PROVE  Accounted(id)'
<1>1. report \in Reports /\ handle_failure(report) /\ queue' = queue
  BY DEF Handle, TypeOK, RecoveryType
<1>2. report.reason \in Reasons /\ (Registered(report.entity) => report.entity \in Ids)
  BY <1>1, RegisteredIsId DEF TypeOK, Reports
<1>3. /\ g_health \in [Ids -> Snapshots]
      /\ g_latched_reason \in [Ids -> Reasons \cup {NO_REASON}]
      /\ NO_REASON \notin Reasons
  BY DEF TypeOK, HealthType, Reasons, NO_REASON
<1>4. g_entity_limit' = g_entity_limit /\ (Pending(id)' # {} <=> Pending(id) # {})
  BY <1>1, HandleOutcome DEF Pending
<1>5. ASSUME IsFailed(id), g_latched_reason'[id] = g_latched_reason[id], report.entity # id
      PROVE  Accounted(id)'
  BY <1>4, <1>5 DEF FailedIsAccounted, Accounted, InFlight
<1>6. CASE Untouched(report)
  <2>1. IsFailed(id)
    BY <1>4, <1>6 DEF Untouched, IsFailed, Registered
  <2>2. CASE report.entity = id
    <3>1. g_latched_reason[id] = report.reason
      BY <1>6, <2>1, <2>2 DEF Untouched, IsFailed, fault_is_latched
    <3> QED BY <1>2, <1>3, <1>6, <3>1 DEF Untouched, Accounted
  <2> QED BY <1>5, <1>6, <2>1, <2>2 DEF Untouched
<1>7. CASE Restarted(report)
  <2>1. report.entity # id
    BY <1>2, <1>3, <1>7 DEF Restarted, health_reset_unsafe, IsFailed
  <2>2. g_latched_reason'[id] = g_latched_reason[id] /\ g_health'[id] = g_health[id]
    BY <1>2, <1>3, <1>7, <2>1 DEF Restarted, health_reset_unsafe, clear_latch
  <2> QED BY <1>4, <1>5, <2>1, <2>2 DEF IsFailed, Registered
<1>8. CASE Isolated(report)
  <2>1. CASE report.entity = id
    BY <1>2, <1>3, <1>8, <2>1 DEF Isolated, latch_fault, Accounted
  <2>2. CASE report.entity # id
    <3>1. g_latched_reason'[id] = g_latched_reason[id] /\ g_health'[id] = g_health[id]
      BY <1>2, <1>3, <1>8, <2>2 DEF Isolated, latch_fault
    <3> QED BY <1>4, <1>5, <2>2, <3>1 DEF IsFailed, Registered
  <2> QED BY <2>1, <2>2
<1> QED BY <1>1, <1>6, <1>7, <1>8, HandleOutcome

\* A supervisor step other than Handle takes a report into its hands or drops it
\* only when supervision is disabled.
LEMMA SupervisorAccounted ==
  ASSUME TypeOK, NoFaultLost, Supervisor, ~Handle, NEW id \in Ids, IsFailed(id)'
  PROVE  Accounted(id)'
<1> USE DEF libVars, healthVars, queueVars
<1>1. UNCHANGED <<g_health, g_entity_limit, g_latched_reason>>
  BY DEF Supervisor, SupervisorLoop, TickBegin, DrainGet, DrainEmpty, WatchdogBegin,
     WatchdogReadClock, WatchdogCheck, WatchdogRaise, WatchdogEnd, HandleBegin, HandleCheck,
     OnlySupervisor
<1>2. Accounted(id) /\ queue \in Seq(Reports)
  BY <1>1 DEF NoFaultLost, FailedIsAccounted, Accounted, IsFailed, Registered, TypeOK,
              RecoveryType
<1>3. CASE DrainGet
  <2>1. queue' = Tail(queue) /\ report' = Head(queue) /\ pc = "drain" /\ pc' = "handle_check"
    BY <1>3 DEF DrainGet, Queue!QueueGet
  <2>2. CASE g_latched_reason[id] # NO_REASON
    BY <1>1, <2>2 DEF Accounted
  <2>3. CASE Pending(id) # {}
    BY <1>2, <2>1, <2>3, PendingTaken DEF Accounted, InFlight
  <2> QED BY <1>2, <2>1, <2>2, <2>3 DEF Accounted, InFlight
<1>4. CASE HandleCheck
  BY <1>1, <1>2, <1>4
  DEF HandleCheck, OnlySupervisor, NoFaultLost, Accounted, InFlight, Pending
<1>5. CASE ~DrainGet /\ ~HandleCheck
  <2>1. queue' = queue /\ pc \notin {"handle_check", "handle"}
    BY <1>5 DEF Supervisor, SupervisorLoop, TickBegin, DrainEmpty, WatchdogBegin,
       WatchdogReadClock, WatchdogCheck, WatchdogRaise, WatchdogEnd, HandleBegin, OnlySupervisor
  <2> QED BY <1>1, <1>2, <2>1 DEF Accounted, InFlight, Pending
<1> QED BY <1>3, <1>4, <1>5

\* Workers mark nobody FAILED without a report in the queue.
LEMMA WorkerAccounted ==
  ASSUME TypeOK, NoFaultLost, NEW w \in Ids, Worker(w), NEW id \in Ids, IsFailed(id)'
  PROVE  Accounted(id)'
<1> USE DEF libVars, healthVars, queueVars, supVars
<1>0. FailedIsAccounted /\ g_health \in [Ids -> Snapshots]
  BY DEF NoFaultLost, TypeOK, HealthType
<1>1. UNCHANGED pc
  BY DEF Worker, WorkerReadMode, WorkerSafeHeartbeat, WorkerGate, WorkerDone, WorkerFault, Goto
<1>2. ASSUME UNCHANGED <<g_health, g_entity_limit, g_latched_reason, queue, report>>
      PROVE  Accounted(id)'
  BY <1>0, <1>1, <1>2, QuietStep DEF IsFailed, Registered
<1>3. CASE WorkerReadMode(w) \/ WorkerGate(w)
  BY <1>2, <1>3 DEF WorkerReadMode, WorkerGate
<1>4. CASE WorkerSafeHeartbeat(w) \/ WorkerDone(w)
  <2>1. heartbeat_notify(w) /\ UNCHANGED <<queue, report>>
    BY <1>4 DEF WorkerSafeHeartbeat, WorkerDone
  <2>2. IsFailed(id)
    BY <1>0, <2>1 DEF heartbeat_notify, IsFailed, Registered
  <2> QED BY <1>0, <1>1, <2>1, <2>2, QuietStep DEF heartbeat_notify
<1>5. CASE WorkerFault(w)
  <2>1. PICK reason \in FaultReasons : \/ \E ok \in BOOLEAN : report_fault(w, reason, ok)
                                      \/ report_fault_ignored(w, reason)
    BY <1>5 DEF WorkerFault
  <2>2. CASE report_fault_ignored(w, reason)
    BY <1>2, <2>2 DEF report_fault_ignored
  <2>3. CASE \E ok \in BOOLEAN : report_fault(w, reason, ok)
    BY <1>0, <1>1, <2>3, ReportAccounted DEF AnyId
  <2> QED BY <2>1, <2>2, <2>3
<1> QED BY <1>3, <1>4, <1>5 DEF Worker

\* Neither do the calls of application and ground that FaultsAreReported allows.
LEMMA EnvironmentAccounted ==
  ASSUME TypeOK, NoFaultLost, FaultsAreReported, Environment, NEW id \in Ids, IsFailed(id)'
  PROVE  Accounted(id)'
<1> USE DEF libVars, healthVars, queueVars, supVars
<1>0. /\ FailedIsAccounted /\ g_health \in [Ids -> Snapshots]
      /\ g_entity_limit \in 0 .. ENTITY_CAP
      /\ UNCHANGED pc
  BY DEF NoFaultLost, TypeOK, HealthType, Environment
<1>1. ASSUME IsFailed(id), UNCHANGED <<g_latched_reason, queue, report>>
      PROVE  Accounted(id)'
  BY <1>0, <1>1, QuietStep
<1>2. CASE AppReport
  BY <1>0, <1>2, ReportAccounted DEF AppReport
<1>3. CASE AppHealth
  <2>1. PICK other \in Ids : health_reset(other)
    BY <1>3 DEF AppHealth, FaultsAreReported
  <2>2. IsFailed(id)
    BY <1>0, <2>1 DEF health_reset, health_reset_unsafe, IsFailed, Registered
  <2> QED BY <1>1, <1>3, <2>1, <2>2 DEF AppHealth, health_reset
<1>4. CASE AppRegister
  <2>1. CASE \E d \in LateEntities : entity_register(d)
    <3>1. IsFailed(id)
      BY <1>0, <2>1, CapAssumption
      DEF entity_register, health_reset_unsafe, IsFailed, Registered, Ids
    <3> QED BY <1>1, <1>4, <2>1, <3>1 DEF AppRegister, entity_register
  <2>2. CASE UNCHANGED <<g_health, g_latched_reason, g_entity_limit>>
    BY <1>1, <1>4, <2>2 DEF AppRegister, IsFailed, Registered
  <2> QED BY <1>4, <2>1, <2>2 DEF AppRegister
<1>5. CASE ~AppReport /\ ~AppHealth /\ ~AppRegister
  <2>1. UNCHANGED <<g_health, g_latched_reason, g_entity_limit, queue, report>>
    BY <1>5 DEF Environment, FaultsAreReported, GroundSupervision, GroundLowerMode,
       GroundRaiseMode, GroundReboot, GroundMark, ModeCommand, set_system_mode,
       deescalate_system_mode, reassess_system_mode, try_reboot
  <2> QED BY <1>1, <2>1 DEF IsFailed, Registered
<1> QED BY <1>2, <1>3, <1>4, <1>5

\* Without the switch among the calls, supervision stays enabled.
LEMMA StaysEnabled ==
  ASSUME TypeOK, g_supervision_enabled, FaultsAreReported, [Next]_vars
  PROVE  g_supervision_enabled'
<1> USE DEF vars, libVars, healthVars, subVars
<1>1. CASE UNCHANGED vars
  BY <1>1
<1>2. CASE Handle
  <2>1. report \in Reports /\ handle_failure(report)
    BY <1>2 DEF Handle, TypeOK, RecoveryType
  <2>2. CASE handle_suppressed(report) \/ handle_unknown(report)
    BY <2>2 DEF handle_suppressed, handle_unknown
  <2>3. CASE handle_registered(report)
    BY <2>3 DEF handle_registered, recover_by_restart, isolate_and_escalate
  <2> QED BY <2>1, <2>2, <2>3 DEF handle_failure
<1>3. CASE Supervisor /\ ~Handle
  BY <1>3 DEF Supervisor, SupervisorLoop, TickBegin, DrainGet, DrainEmpty, WatchdogBegin,
     WatchdogReadClock, WatchdogCheck, WatchdogRaise, WatchdogEnd, HandleBegin, HandleCheck,
     OnlySupervisor
<1>4. ASSUME NEW w \in Ids, Worker(w) PROVE g_supervision_enabled'
  BY <1>4 DEF Worker, WorkerReadMode, WorkerSafeHeartbeat, WorkerGate, WorkerDone, WorkerFault,
     report_fault, report_fault_ignored
<1>5. CASE SubmitCheck \/ SubmitPut \/ PlatformReset
  BY <1>5 DEF SubmitCheck, SubmitPut, PlatformReset
<1>6. CASE Environment
  BY <1>6 DEF Environment, FaultsAreReported, AppReport, AppHealth, AppRegister,
     GroundSupervision, GroundLowerMode, GroundRaiseMode, GroundReboot, GroundMark,
     report_fault, entity_register, ModeCommand, set_system_mode, deescalate_system_mode,
     reassess_system_mode, try_reboot
<1> QED BY <1>1, <1>2, <1>3, <1>4, <1>5, <1>6 DEF Next

\* As long as supervision stays enabled and nobody decrees health, every entity
\* that report_fault_impl marks FAILED has its report in the queue, in the
\* supervisor's hands, or handled and latched.
THEOREM NoFaultLostSafe == FaultsAreReported /\ Spec => []FailedIsAccounted
<1> SUFFICES ASSUME FaultsAreReported PROVE Spec => []FailedIsAccounted
  OBVIOUS
<1>1. Init => NoFaultLost
  BY DEF Init, NoFaultLost, FailedIsAccounted, IsFailed, BootedHealth
<1>2. TypeOK /\ NoFaultLost /\ [Next]_vars => NoFaultLost'
  <2> SUFFICES ASSUME TypeOK, NoFaultLost, [Next]_vars, NEW id \in Ids, IsFailed(id)'
               PROVE  Accounted(id)'
    BY StaysEnabled DEF NoFaultLost, FailedIsAccounted, Accounted
  <2>0. FailedIsAccounted
    BY DEF NoFaultLost
  <2>1. CASE UNCHANGED vars
    BY <2>0, <2>1, QuietStep DEF vars, libVars, healthVars, supVars, IsFailed, Registered
  <2>2. CASE Handle
    BY <2>0, <2>2, HandleAccounted
  <2>3. CASE Supervisor /\ ~Handle
    BY <2>3, SupervisorAccounted
  <2>4. ASSUME NEW w \in Ids, Worker(w) PROVE Accounted(id)'
    BY <2>4, WorkerAccounted
  <2>5. CASE SubmitCheck \/ SubmitPut
    <3>1. UNCHANGED <<g_health, g_entity_limit, g_latched_reason, pc, report>>
      BY <2>5 DEF SubmitCheck, SubmitPut, libVars, healthVars, supVars, queueVars,
                  Queue!QueuePut, Queue!QueueRefuse
    <3>2. queue' = queue \/ \E r \in Reports : queue' = Append(queue, r)
      BY <2>5 DEF SubmitCheck, SubmitPut, queueVars, TypeOK, Queue!QueuePut, Queue!QueueRefuse
    <3> QED BY <2>0, <3>1, <3>2, QuietStep DEF IsFailed, Registered
  <2>6. CASE Environment
    BY <2>6, EnvironmentAccounted
  <2>7. CASE PlatformReset
    BY <2>7 DEF PlatformReset, BootedHealth, IsFailed
  <2> QED BY <2>1, <2>2, <2>3, <2>4, <2>5, <2>6, <2>7 DEF Next
<1>3. NoFaultLost => FailedIsAccounted
  BY DEF NoFaultLost
<1> QED BY <1>1, <1>2, <1>3, TypeCorrect, PTL DEF Spec
=============================================================================
