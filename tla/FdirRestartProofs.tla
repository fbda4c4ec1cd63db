--------------------------- MODULE FdirRestartProofs ---------------------------
(***************************************************************************)
(* Theorem about restarts: no entity is restarted more often than its       *)
(* descriptor allows.                                                       *)
(***************************************************************************)
EXTENDS FdirModeProofs

-----------------------------------------------------------------------------
(***************************************************************************)
(* What changes the entity table and the calls of restart().                *)
(***************************************************************************)
\* The calls of restart() of one entity that the budget for `reason' counts, the
\* counter the code keeps of them, and the budget.
CallsFor(id, reason) ==
  IF reason = REASON_WATCHDOG THEN restart_calls[id].watchdog ELSE restart_calls[id].normal
CountFor(slot, reason) ==
  IF reason = REASON_WATCHDOG THEN slot.watchdog_restart_count ELSE slot.restart_count
MaxFor(desc, reason) ==
  IF reason = REASON_WATCHDOG THEN desc.max_watchdog_restarts ELSE desc.max_restarts

\* Recovery without a call of restart(), and with one that the budget or a policy
\* callback allowed.
Uncounted == UNCHANGED <<restart_calls, g_entities>>
Counted(r) ==
  LET slot == g_entities[r.entity]
  IN  /\ Registered(r.entity)
      /\ g_entities' = [g_entities EXCEPT ![r.entity] = bump_restart(@, r.reason)]
      /\ restart_calls' = CountRestart(r.entity, r.reason)
      /\ \/ PolicyRestarts(slot.desc)
         \/ default_decide(slot, r.reason) = "RESTART"

\* The outcomes of fdir_handle_failure, and the calls of restart() in each.
LEMMA HandleCounts ==
  ASSUME TypeOK, NEW r \in Reports, handle_failure(r)
  PROVE  \/ (handle_suppressed(r) \/ handle_unknown(r)) /\ Uncounted
         \/ (\E override : recover_by_restart(r, override)) /\ Counted(r)
         \/ /\ \E override, action, attempted :
                 isolate_and_escalate(r, override, action, attempted)
            /\ Uncounted \/ Counted(r)
<1>1. CASE handle_suppressed(r) \/ handle_unknown(r)
  BY <1>1 DEF handle_suppressed, handle_unknown, Uncounted, libVars
<1>2. CASE handle_registered(r)
  <2> DEFINE slot == g_entities[r.entity]
  <2>0. Registered(r.entity) /\ r.entity \in Ids
    BY <1>2, RegisteredIsId DEF handle_registered, TypeOK, Reports
  <2>1. PICK decided \in decided_actions(slot, r.reason) :
          \E answer \in subsystem_answers(slot, decided) :
            LET override == answer # "NONE"
                action   == IF override THEN answer ELSE decided
            IN  \/ /\ action = "RESTART"
                   /\ recover_by_restart(r, override)
                \/ /\ action = "RESTART"
                   /\ isolate_and_escalate(r, override, fallback(slot), slot.desc.restart)
                \/ /\ action # "RESTART"
                   /\ isolate_and_escalate(r, override, action, FALSE)
    BY <1>2 DEF handle_registered
  <2>2. PICK answer \in subsystem_answers(slot, decided) :
          LET override == answer # "NONE"
              action   == IF override THEN answer ELSE decided
          IN  \/ /\ action = "RESTART"
                 /\ recover_by_restart(r, override)
              \/ /\ action = "RESTART"
                 /\ isolate_and_escalate(r, override, fallback(slot), slot.desc.restart)
              \/ /\ action # "RESTART"
                 /\ isolate_and_escalate(r, override, action, FALSE)
    BY <2>1
  <2> DEFINE override == answer # "NONE"
             action   == IF override THEN answer ELSE decided
  <2>3. ASSUME action = "RESTART"
        PROVE  PolicyRestarts(slot.desc) \/ default_decide(slot, r.reason) = "RESTART"
    <3>1. CASE override
      BY <2>2, <2>3, <3>1 DEF subsystem_answers, PolicyRestarts
    <3>2. CASE ~override
      BY <2>1, <2>3, <3>2 DEF decided_actions, PolicyRestarts
    <3> QED BY <3>1, <3>2
  <2>4. ASSUME NEW o, NEW a, isolate_and_escalate(r, o, a, FALSE) PROVE Uncounted
    BY <2>4 DEF isolate_and_escalate, Uncounted
  <2>5. ASSUME NEW o, NEW a, NEW attempted, isolate_and_escalate(r, o, a, attempted), 
               action = "RESTART"
        PROVE  Uncounted \/ Counted(r)
    BY <2>0, <2>3, <2>5 DEF isolate_and_escalate, Uncounted, Counted
  <2>6. ASSUME NEW o, recover_by_restart(r, o), action = "RESTART" PROVE Counted(r)
    BY <2>0, <2>3, <2>6 DEF recover_by_restart, Counted
  <2> QED BY <2>2, <2>4, <2>5, <2>6
<1> QED BY <1>1, <1>2 DEF handle_failure

\* Apart from recovery and a reset, nobody calls restart(), and only a registration
\* writes to the entity table, into the next free slot.
LEMMA OthersKeepEntities ==
  ASSUME [Next]_vars, ~Handle, ~PlatformReset
  PROVE  /\ restart_calls' = restart_calls
         /\ \/ UNCHANGED <<g_entities, g_entity_limit>>
            \/ \E d \in LateEntities : entity_register(d)
<1> USE DEF vars, portVars, libVars, healthVars
<1>1. CASE UNCHANGED vars
  BY <1>1
<1>2. CASE Supervisor
  BY <1>2 DEF Supervisor, SupervisorLoop, TickBegin, DrainGet, DrainEmpty, WatchdogBegin,
     WatchdogReadClock, WatchdogCheck, WatchdogRaise, WatchdogEnd, HandleBegin, HandleCheck,
     OnlySupervisor
<1>3. ASSUME NEW id \in Ids, Worker(id) PROVE UNCHANGED <<restart_calls, g_entities, g_entity_limit>>
  BY <1>3 DEF Worker, WorkerReadMode, WorkerSafeHeartbeat, WorkerGate, WorkerDone, WorkerFault,
     heartbeat_notify, report_fault, report_fault_ignored
<1>4. CASE SubmitCheck \/ SubmitPut
  BY <1>4 DEF SubmitCheck, SubmitPut
<1>5. CASE Environment
  <2>1. CASE AppRegister
    BY <2>1 DEF AppRegister
  <2>2. CASE ~AppRegister
    BY <1>5, <2>2 DEF Environment, AppReport, AppHealth, GroundSupervision, GroundLowerMode,
       GroundRaiseMode, GroundReboot, GroundMark, ClockTick, report_fault, health_reset,
       health_set, set_supervision_enabled, ModeCommand, set_system_mode,
       deescalate_system_mode, reassess_system_mode, try_reboot
  <2> QED BY <2>1, <2>2
<1> QED BY <1>1, <1>2, <1>3, <1>4, <1>5 DEF Next

\* A registered subsystem keeps its descriptor until a reset.
LEMMA SubDescsKept ==
  ASSUME TypeOK, [Next]_vars, ~PlatformReset, NEW s \in AnySubId, slot_of(s)
  PROVE  s \in SubIds /\ slot_of(s)' /\ g_subs'[s].desc = g_subs[s].desc
<1> USE DEF vars, libVars, healthVars, subVars
<1>0. /\ g_subs \in [SubIds -> SubSlots] /\ g_sub_count \in 0 .. SUBSYSTEM_CAP
      /\ s \in SubIds /\ s < g_sub_count /\ SUBSYSTEM_CAP \in 1 .. 255
  BY CapAssumption DEF TypeOK, SubsystemType, slot_of, AnySubId, SubIds, SUBSYSTEM_NONE
<1>a. ASSUME UNCHANGED <<g_subs, g_sub_count>>
      PROVE  slot_of(s)' /\ g_subs'[s].desc = g_subs[s].desc
  BY <1>0, <1>a DEF slot_of
<1>b. ASSUME NEW sub \in AnySubId, g_sub_count' = g_sub_count,
             g_subs' \in {g_subs, mark_unavailable_unsafe(sub), mark_degraded_unsafe(sub)}
      PROVE  slot_of(s)' /\ g_subs'[s].desc = g_subs[s].desc
  <2>1. ~slot_of(sub) \/ sub \in SubIds
    BY <1>0 DEF slot_of, AnySubId, SubIds, SUBSYSTEM_NONE
  <2> QED BY <1>0, <1>b, <2>1 DEF slot_of, mark_unavailable_unsafe, mark_degraded_unsafe, SubSlots
<1>1. CASE UNCHANGED vars
  BY <1>0, <1>1, <1>a
<1>2. CASE Handle
  <2>1. report \in Reports /\ handle_failure(report)
    BY <1>2 DEF Handle, TypeOK, RecoveryType
  <2>2. CASE handle_suppressed(report) \/ handle_unknown(report)
    BY <1>0, <1>a, <2>2 DEF handle_suppressed, handle_unknown
  <2>3. CASE handle_registered(report)
    <3>1. report.entity \in Ids
      BY <2>1, <2>3, RegisteredIsId DEF handle_registered, TypeOK, Reports
    <3> DEFINE sub == g_entities[report.entity].desc.linked_subsystem
    <3>2. sub \in AnySubId
      BY <3>1 DEF TypeOK, RecoveryType, EntitySlots, EntityDescType
    <3>3. ASSUME NEW o, NEW a, NEW attempted, isolate_and_escalate(report, o, a, attempted)
          PROVE  slot_of(s)' /\ g_subs'[s].desc = g_subs[s].desc
      <4>1. g_subs' = subs_after(sub, a) /\ g_sub_count' = g_sub_count
        BY <3>3 DEF isolate_and_escalate
      <4>2. g_subs' \in {g_subs, mark_unavailable_unsafe(sub), mark_degraded_unsafe(sub)}
        BY <4>1 DEF subs_after
      <4> QED BY <1>b, <3>2, <4>1, <4>2
    <3>4. ASSUME NEW o, recover_by_restart(report, o)
          PROVE  slot_of(s)' /\ g_subs'[s].desc = g_subs[s].desc
      BY <1>a, <3>4 DEF recover_by_restart
    <3> QED BY <1>0, <2>3, <3>3, <3>4 DEF handle_registered
  <2> QED BY <2>1, <2>2, <2>3 DEF handle_failure
<1>3. CASE Supervisor /\ ~Handle
  BY <1>0, <1>a, <1>3 DEF Supervisor, SupervisorLoop, TickBegin, DrainGet, DrainEmpty,
     WatchdogBegin, WatchdogReadClock, WatchdogCheck, WatchdogRaise, WatchdogEnd, HandleBegin,
     HandleCheck, OnlySupervisor
<1>4. ASSUME NEW w \in Ids, Worker(w) PROVE UNCHANGED <<g_subs, g_sub_count>>
  BY <1>4 DEF Worker, WorkerReadMode, WorkerSafeHeartbeat, WorkerGate, WorkerDone, WorkerFault,
     report_fault, report_fault_ignored
<1>5. CASE SubmitCheck \/ SubmitPut
  BY <1>0, <1>a, <1>5 DEF SubmitCheck, SubmitPut
<1>6. CASE Environment
  <2>1. CASE GroundMark
    <3>1. PICK t \in SubIds : \/ subsystem_mark_available(t)
                              \/ subsystem_mark_unavailable(t)
                              \/ subsystem_mark_degraded(t)
      BY <2>1 DEF GroundMark
    <3>2. CASE subsystem_mark_available(t)
      BY <1>0, <3>2 DEF subsystem_mark_available, slot_of, SubSlots
    <3>3. CASE subsystem_mark_unavailable(t) \/ subsystem_mark_degraded(t)
      BY <1>0, <1>b, <3>3 DEF subsystem_mark_unavailable, subsystem_mark_degraded, AnySubId
    <3> QED BY <1>0, <3>1, <3>2, <3>3
  <2>2. CASE \E d \in LateSubs : subsystem_register(d)
    BY <1>0, <2>2 DEF subsystem_register, slot_of, SubIds
  <2>3. CASE ~GroundMark /\ ~(\E d \in LateSubs : subsystem_register(d))
    <3>1. UNCHANGED <<g_subs, g_sub_count>>
      BY <1>6, <2>3 DEF Environment, AppReport, AppHealth, AppRegister, GroundSupervision,
         GroundLowerMode, GroundRaiseMode, GroundReboot, report_fault, entity_register,
         set_supervision_enabled, ModeCommand, set_system_mode, deescalate_system_mode,
         reassess_system_mode, try_reboot
    <3> QED BY <1>0, <1>a, <3>1
  <2> QED BY <2>1, <2>2, <2>3
<1> QED BY <1>0, <1>a, <1>1, <1>2, <1>3, <1>4, <1>5, <1>6 DEF Next

-----------------------------------------------------------------------------
(***************************************************************************)
(* The budgets.  RestartsWithinBudget is not inductive: the code compares   *)
(* its own counters with the budget, so the invariant says that they agree  *)
(* with the calls until they saturate, also in a slot that is free.         *)
(***************************************************************************)
\* What a uint8_t counter that stops at its maximum shows after n calls.
Saturated(n) == IF n < U8_MAX THEN n ELSE U8_MAX

CountersAgree ==
  \A id \in Ids, reason \in Reasons :
    CountFor(g_entities[id], reason) = Saturated(CallsFor(id, reason))
FreeIsUncalled ==
  \A id \in Ids, reason \in Reasons : ~Registered(id) => CallsFor(id, reason) = 0
ExhaustedIsFinal ==
  \A id \in Ids : g_entities[id].desc.on_exhausted # "RESTART"

\* The inductive invariant.
BudgetInv == CountersAgree /\ FreeIsUncalled /\ ExhaustedIsFinal /\ RestartsWithinBudget

\* RestartsWithinBudget, reason by reason.
WithinBudget(id) ==
  \A reason \in Reasons :
    LET max == MaxFor(g_entities[id].desc, reason)
    IN  CallsFor(id, reason) <= max \/ max = FDIR_RESTART_UNLIMITED

\* Every entity that RestartsWithinBudget is about.
AllWithinBudget ==
  \A id \in Ids : Registered(id) /\ ~PolicyRestarts(g_entities[id].desc) => WithinBudget(id)

\* WithinBudget states RestartsWithinBudget for one entity.
LEMMA BudgetByReason ==
  (RestartsWithinBudget <=> AllWithinBudget) /\ (AllWithinBudget' => RestartsWithinBudget')
<1>1. /\ REASON_WATCHDOG \in Reasons /\ REASON_IO_ERROR \in Reasons
      /\ REASON_IO_ERROR # REASON_WATCHDOG
  BY DEF REASON_WATCHDOG, REASON_IO_ERROR, Reasons
<1> QED BY <1>1 DEF RestartsWithinBudget, AllWithinBudget, WithinBudget, CallsFor, MaxFor

\* The ranges of counters, calls and budgets.
LEMMA BudgetTypes ==
  ASSUME TypeOK, NEW id \in Ids, NEW reason
  PROVE  /\ CallsFor(id, reason) \in 0 .. U8_MAX + 1
         /\ CountFor(g_entities[id], reason) \in 0 .. U8_MAX
         /\ MaxFor(g_entities[id].desc, reason) \in 0 .. U8_MAX
         /\ U8_MAX \in Nat \ {0}
<1>1. /\ restart_calls[id] \in [normal : CallCounts, watchdog : CallCounts]
      /\ g_entities[id] \in EntitySlots
  BY DEF TypeOK, PortType, RecoveryType
<1>2. g_entities[id].desc \in EntityDescType
  BY <1>1 DEF EntitySlots
<1> QED BY <1>1, <1>2, CapAssumption
        DEF CallsFor, CountFor, MaxFor, CallCounts, EntitySlots, EntityDescType

\* Budgets are kept apart: a restart after r counts for the reasons of r's budget.
SameBudget(reason, why) == (reason = REASON_WATCHDOG) <=> (why = REASON_WATCHDOG)

\* A restart moves one counter of one entity, and the calls with it.
LEMMA CountedEffect ==
  ASSUME TypeOK, NEW r \in Reports, Counted(r), NEW id \in Ids, NEW why \in Reasons
  PROVE  LET calls == CallsFor(id, why)
             count == CountFor(g_entities[id], why)
         IN  /\ g_entities'[id].desc = g_entities[id].desc
             /\ IF id = r.entity /\ SameBudget(r.reason, why)
                THEN /\ CallsFor(id, why)' = IF calls < U8_MAX + 1 THEN calls + 1 ELSE calls
                     /\ CountFor(g_entities'[id], why) = IF count < U8_MAX THEN count + 1 ELSE count
                ELSE /\ CallsFor(id, why)' = calls
                     /\ CountFor(g_entities'[id], why) = count
<1>1. /\ r.entity \in Ids
      /\ restart_calls \in [Ids -> [normal : CallCounts, watchdog : CallCounts]]
      /\ g_entities \in [Ids -> EntitySlots]
  BY RegisteredIsId DEF Counted, TypeOK, PortType, RecoveryType, Reports
<1>2. /\ g_entities' = [g_entities EXCEPT ![r.entity] = bump_restart(@, r.reason)]
      /\ restart_calls' = CountRestart(r.entity, r.reason)
  BY DEF Counted
<1>3. CASE id # r.entity
  BY <1>1, <1>2, <1>3 DEF CountRestart, CallsFor, CountFor
<1>4. CASE id = r.entity /\ r.reason = REASON_WATCHDOG
  BY <1>1, <1>2, <1>4 DEF CountRestart, bump_restart, CallsFor, CountFor, SameBudget, EntitySlots
<1>5. CASE id = r.entity /\ r.reason # REASON_WATCHDOG
  BY <1>1, <1>2, <1>5 DEF CountRestart, bump_restart, CallsFor, CountFor, SameBudget, EntitySlots
<1> QED BY <1>3, <1>4, <1>5

\* Until a reset, registered entities keep their descriptors and policies their answers.
LEMMA PolicyKept ==
  ASSUME TypeOK, [Next]_vars, ~PlatformReset, NEW id \in Ids, Registered(id)
  PROVE  /\ Registered(id)'
         /\ g_entities'[id].desc = g_entities[id].desc
         /\ PolicyRestarts(g_entities[id].desc) => PolicyRestarts(g_entities[id].desc)'
<1>0. /\ g_entities \in [Ids -> EntitySlots] /\ g_entity_limit \in 0 .. ENTITY_CAP
      /\ ENTITY_CAP \in 1 .. 128
  BY CapAssumption DEF TypeOK, HealthType, RecoveryType
<1>1. Registered(id)' /\ g_entities'[id].desc = g_entities[id].desc
  <2>1. CASE Handle
    <3>1. report \in Reports /\ handle_failure(report)
      BY <2>1 DEF Handle, TypeOK, RecoveryType
    <3>2. Uncounted \/ Counted(report)
      BY <3>1, HandleCounts
    <3>3. Registered(id)'
      BY <3>1, HandleOutcome DEF Registered
    <3>4. REASON_WATCHDOG \in Reasons
      BY DEF REASON_WATCHDOG, Reasons
    <3>5. CASE Uncounted
      BY <3>3, <3>5 DEF Uncounted
    <3>6. CASE Counted(report)
      BY <3>1, <3>3, <3>4, <3>6, CountedEffect
    <3> QED BY <3>2, <3>5, <3>6
  <2>2. CASE ~Handle
    <3>1. CASE UNCHANGED <<g_entities, g_entity_limit>>
      BY <3>1 DEF Registered
    <3>2. CASE \E d \in LateEntities : entity_register(d)
      BY <1>0, <3>2 DEF entity_register, Registered, Ids
    <3> QED BY <2>2, <3>1, <3>2, OthersKeepEntities
  <2> QED BY <2>1, <2>2
<1>2. PolicyRestarts(g_entities[id].desc) => PolicyRestarts(g_entities[id].desc)'
  <2> DEFINE sub == g_entities[id].desc.linked_subsystem
  <2>1. sub \in AnySubId
    BY <1>0 DEF EntitySlots, EntityDescType
  <2>2. CASE slot_of(sub)
    <3>1. slot_of(sub)' /\ g_subs'[sub].desc = g_subs[sub].desc
      <4>1. \A s \in AnySubId : slot_of(s) => (s < g_sub_count' /\ g_subs'[s].desc = g_subs[s].desc)
        BY SubDescsKept DEF slot_of
      <4> QED BY <1>1, <2>1, <2>2, <4>1 DEF slot_of
    <3> QED BY <1>1, <2>2, <3>1 DEF PolicyRestarts, on_entity_exhausted
  <2>3. CASE ~slot_of(sub)
    BY <1>1, <2>3 DEF PolicyRestarts, on_entity_exhausted
  <2> QED BY <2>2, <2>3
<1> QED BY <1>1, <1>2

\* After fdir_init nothing has been restarted.
LEMMA BudgetBoot ==
  ASSUME NEW id \in Ids
  PROVE  /\ BootedEntities[id].restart_count = 0
         /\ BootedEntities[id].watchdog_restart_count = 0
         /\ BootedEntities[id].desc.on_exhausted # "RESTART"
<1>1. CASE id < Len(BootEntities)
  <2>1. id + 1 \in 1 .. Len(BootEntities)
    BY <1>1, CapAssumption, BootAssumption DEF Ids
  <2>2. BootEntities[id + 1].on_exhausted # "RESTART"
    BY <2>1, BootAssumption
  <2> QED BY <1>1, <2>2 DEF BootedEntities, NewEntity
<1>2. CASE ~(id < Len(BootEntities))
  BY <1>2 DEF BootedEntities, NewEntity, ZeroDesc
<1> QED BY <1>1, <1>2

\* A state that fdir_init leaves behind satisfies the invariant.
LEMMA BudgetFresh ==
  ASSUME NEW calls, calls = [id \in Ids |-> [normal |-> 0, watchdog |-> 0]],
         NEW id \in Ids, NEW reason \in Reasons
  PROVE  /\ (IF reason = REASON_WATCHDOG THEN calls[id].watchdog ELSE calls[id].normal) = 0
         /\ CountFor(BootedEntities[id], reason) = Saturated(0)
         /\ MaxFor(BootedEntities[id].desc, reason) \in Nat
<1>1. BootedEntities[id] \in EntitySlots
  BY BootType
<1>2. BootedEntities[id].desc \in EntityDescType
  BY <1>1 DEF EntitySlots
<1>3. MaxFor(BootedEntities[id].desc, reason) \in Nat
  BY <1>2, CapAssumption DEF MaxFor, EntityDescType
<1>4. Saturated(0) = 0
  BY CapAssumption DEF Saturated
<1> QED BY <1>3, <1>4, BudgetBoot DEF CountFor

\* So does the start of a run.
LEMMA BudgetInit == Init => BudgetInv
<1> SUFFICES ASSUME Init PROVE BudgetInv
  OBVIOUS
<1>0. /\ g_entities = BootedEntities
      /\ restart_calls = [id \in Ids |-> [normal |-> 0, watchdog |-> 0]]
  BY DEF Init, PortInit
<1>1. ASSUME NEW id \in Ids, NEW reason \in Reasons
      PROVE  /\ CallsFor(id, reason) = 0
             /\ CountFor(g_entities[id], reason) = Saturated(0)
             /\ MaxFor(g_entities[id].desc, reason) \in Nat
  BY <1>0, BudgetFresh DEF CallsFor
<1>2. \A id \in Ids : WithinBudget(id)
  BY <1>1 DEF WithinBudget
<1>3. ExhaustedIsFinal
  BY <1>0, BudgetBoot DEF ExhaustedIsFinal
<1> QED BY <1>1, <1>2, <1>3, BudgetByReason DEF AllWithinBudget, BudgetInv, CountersAgree, FreeIsUncalled

\* A restart that default_decide allowed stays within the budget, because below the
\* budget the counter has not saturated and is the number of calls.
LEMMA RestartStaysWithin ==
  ASSUME TypeOK, BudgetInv, NEW r \in Reports, Counted(r), NEW id \in Ids, Registered(id),
         ~PolicyRestarts(g_entities[id].desc), NEW why \in Reasons
  PROVE  LET max == MaxFor(g_entities'[id].desc, why)
         IN  CallsFor(id, why)' <= max \/ max = FDIR_RESTART_UNLIMITED
<1> DEFINE max   == MaxFor(g_entities[id].desc, why)
           calls == CallsFor(id, why)
           count == CountFor(g_entities[id], why)
<1>0. MaxFor(g_entities'[id].desc, why) = max
  BY CountedEffect
<1>1. /\ calls \in 0 .. U8_MAX + 1 /\ count \in 0 .. U8_MAX /\ max \in 0 .. U8_MAX
      /\ U8_MAX \in Nat \ {0}
  BY BudgetTypes
<1>2. calls <= max \/ max = FDIR_RESTART_UNLIMITED
  BY BudgetByReason DEF AllWithinBudget, BudgetInv, WithinBudget
<1>3. CASE ~(id = r.entity /\ SameBudget(r.reason, why))
  <2>1. CallsFor(id, why)' = calls
    BY <1>3, CountedEffect
  <2> QED BY <1>0, <1>2, <2>1
<1>4. CASE id = r.entity /\ SameBudget(r.reason, why)
  <2>1. CallsFor(id, why)' = IF calls < U8_MAX + 1 THEN calls + 1 ELSE calls
    BY <1>4, CountedEffect
  <2>2. default_decide(g_entities[id], r.reason) = "RESTART"
    BY <1>4 DEF Counted
  <2>3. max = FDIR_RESTART_UNLIMITED \/ count < max
    BY <1>4, <2>2 DEF default_decide, BudgetInv, ExhaustedIsFinal, SameBudget, MaxFor, CountFor
  <2>4. count = Saturated(calls)
    BY DEF BudgetInv, CountersAgree
  <2> QED BY <1>0, <1>1, <2>1, <2>3, <2>4 DEF Saturated
<1> QED BY <1>3, <1>4

\* Every step preserves the invariant.
LEMMA BudgetNext ==
  ASSUME TypeOK, BudgetInv, [Next]_vars PROVE BudgetInv'
<1>0. /\ g_entities \in [Ids -> EntitySlots] /\ g_entity_limit \in 0 .. ENTITY_CAP
      /\ ENTITY_CAP \in 1 .. 128
  BY CapAssumption DEF TypeOK, HealthType, RecoveryType
<1>1. CASE PlatformReset
  <2>0. /\ g_entities' = BootedEntities
        /\ restart_calls' = [id \in Ids |-> [normal |-> 0, watchdog |-> 0]]
    BY <1>1 DEF PlatformReset
  <2>1. ASSUME NEW id \in Ids, NEW reason \in Reasons
        PROVE  /\ CallsFor(id, reason)' = 0
               /\ CountFor(g_entities'[id], reason) = Saturated(0)
               /\ MaxFor(g_entities'[id].desc, reason) \in Nat
    BY <2>0, BudgetFresh DEF CallsFor
  <2>2. (\A id \in Ids : WithinBudget(id))'
    BY <2>1 DEF WithinBudget
  <2>3. ExhaustedIsFinal'
    BY <2>0, BudgetBoot DEF ExhaustedIsFinal
  <2>4. RestartsWithinBudget'
    BY <2>2, BudgetByReason DEF AllWithinBudget
  <2> QED BY <2>1, <2>3, <2>4 DEF BudgetInv, CountersAgree, FreeIsUncalled
<1>2. CASE Handle /\ ~PlatformReset
  <2>0. report \in Reports /\ handle_failure(report)
    BY <1>2 DEF Handle, TypeOK, RecoveryType
  <2>1. g_entity_limit' = g_entity_limit /\ (Uncounted \/ Counted(report))
    BY <2>0, HandleOutcome, HandleCounts
  <2>2. ASSUME NEW id \in Ids
        PROVE  /\ g_entities'[id].desc = g_entities[id].desc
               /\ Registered(id)' <=> Registered(id)
    <3>1. REASON_WATCHDOG \in Reasons
      BY DEF REASON_WATCHDOG, Reasons
    <3> QED BY <2>0, <2>1, <3>1, CountedEffect DEF Uncounted, Registered
  <2>3. ExhaustedIsFinal'
    BY <2>2 DEF BudgetInv, ExhaustedIsFinal
  <2>4. FreeIsUncalled'
    <3> SUFFICES ASSUME NEW id \in Ids, NEW reason \in Reasons, ~Registered(id)
                 PROVE  CallsFor(id, reason)' = 0
      BY <2>2 DEF FreeIsUncalled
    <3>1. CallsFor(id, reason) = 0
      BY DEF BudgetInv, FreeIsUncalled
    <3>2. CASE Uncounted
      BY <3>1, <3>2 DEF Uncounted, CallsFor
    <3>3. CASE Counted(report)
      BY <2>0, <3>1, <3>3, CountedEffect DEF Counted
    <3> QED BY <2>1, <3>2, <3>3
  <2>5. CountersAgree'
    <3> SUFFICES ASSUME NEW id \in Ids, NEW reason \in Reasons
                 PROVE  CountFor(g_entities'[id], reason) = Saturated(CallsFor(id, reason)')
      BY DEF CountersAgree, Saturated
    <3>1. CountFor(g_entities[id], reason) = Saturated(CallsFor(id, reason))
      BY DEF BudgetInv, CountersAgree
    <3>2. CASE Uncounted
      BY <3>1, <3>2 DEF Uncounted, CallsFor
    <3>3. CASE Counted(report)
      <4>1. /\ CallsFor(id, reason) \in 0 .. U8_MAX + 1
            /\ CountFor(g_entities[id], reason) \in 0 .. U8_MAX
            /\ U8_MAX \in Nat \ {0}
        BY BudgetTypes
      <4> QED BY <2>0, <3>1, <3>3, <4>1, CountedEffect DEF Saturated
    <3> QED BY <2>1, <3>2, <3>3
  <2>6. RestartsWithinBudget'
    <3>1. ASSUME NEW id \in Ids, Registered(id)', ~PolicyRestarts(g_entities[id].desc)'
          PROVE  WithinBudget(id)'
      <4>1. Registered(id) /\ ~PolicyRestarts(g_entities[id].desc)
        BY <1>2, <2>2, <3>1, PolicyKept
      <4>2. CASE Uncounted
        <5>1. WithinBudget(id)
          BY <4>1, BudgetByReason DEF AllWithinBudget, BudgetInv
        <5> QED BY <4>2, <5>1 DEF Uncounted, WithinBudget, CallsFor
      <4>3. CASE Counted(report)
        BY <2>0, <4>1, <4>3, RestartStaysWithin DEF WithinBudget
      <4> QED BY <2>1, <4>2, <4>3
    <3> QED BY <3>1, BudgetByReason DEF AllWithinBudget
  <2> QED BY <2>3, <2>4, <2>5, <2>6 DEF BudgetInv
<1>3. CASE ~Handle /\ ~PlatformReset
  <2>1. restart_calls' = restart_calls
    BY <1>3, OthersKeepEntities
  <2>2. ASSUME NEW id \in Ids, NEW reason \in Reasons
        PROVE  CallsFor(id, reason)' = CallsFor(id, reason)
    BY <2>1 DEF CallsFor
  <2>3. ASSUME NEW id \in Ids, NEW reason \in Reasons
        PROVE  /\ CountFor(g_entities'[id], reason) = Saturated(CallsFor(id, reason)')
               /\ ~Registered(id)' => CallsFor(id, reason)' = 0
               /\ g_entities'[id].desc.on_exhausted # "RESTART"
    <3>1. /\ CountFor(g_entities[id], reason) = Saturated(CallsFor(id, reason))
          /\ ~Registered(id) => CallsFor(id, reason) = 0
          /\ g_entities[id].desc.on_exhausted # "RESTART"
      BY DEF BudgetInv, CountersAgree, FreeIsUncalled, ExhaustedIsFinal
    <3>2. CASE UNCHANGED <<g_entities, g_entity_limit>>
      BY <2>2, <3>1, <3>2 DEF Registered
    <3>3. CASE \E d \in LateEntities : entity_register(d)
      <4>1. PICK d \in LateEntities : entity_register(d)
        BY <3>3
      <4>2. /\ g_entities' = [g_entities EXCEPT ![g_entity_limit] = NewEntity(d)]
            /\ g_entity_limit' = g_entity_limit + 1 /\ g_entity_limit < ENTITY_CAP
            /\ d.on_exhausted # "RESTART"
        BY <4>1 DEF entity_register
      <4>3. CASE id = g_entity_limit
        <5>1. CallsFor(id, reason) = 0
          BY <1>0, <3>1, <4>3 DEF Registered
        <5>2. CountFor(g_entities'[id], reason) = 0 /\ g_entities'[id].desc = d
          BY <1>0, <4>2, <4>3 DEF CountFor, NewEntity
        <5> QED BY <2>2, <4>2, <5>1, <5>2, CapAssumption DEF Saturated
      <4>4. CASE id # g_entity_limit
        BY <1>0, <2>2, <3>1, <4>2, <4>4 DEF Registered, Ids
      <4> QED BY <4>3, <4>4
    <3> QED BY <1>3, <3>2, <3>3, OthersKeepEntities
  <2>4. RestartsWithinBudget'
    <3>1. ASSUME NEW id \in Ids, Registered(id)', ~PolicyRestarts(g_entities[id].desc)'
          PROVE  WithinBudget(id)'
      <4>1. CASE Registered(id)
        <5>1. ~PolicyRestarts(g_entities[id].desc) /\ g_entities'[id].desc = g_entities[id].desc
          BY <1>3, <3>1, <4>1, PolicyKept
        <5>2. WithinBudget(id)
          BY <4>1, <5>1, BudgetByReason DEF AllWithinBudget, BudgetInv
        <5> QED BY <2>1, <5>1, <5>2 DEF WithinBudget, CallsFor
      <4>2. CASE ~Registered(id)
        <5>1. \A reason \in Reasons : CallsFor(id, reason)' = 0
          BY <2>2, <4>2 DEF BudgetInv, FreeIsUncalled
        <5>2. \A reason \in Reasons : MaxFor(g_entities'[id].desc, reason) \in 0 .. U8_MAX
          <6>1. TypeOK'
            BY TypeNext
          <6>2. g_entities'[id].desc \in EntityDescType
            BY <6>1 DEF TypeOK, RecoveryType, EntitySlots
          <6> QED BY <6>2 DEF MaxFor, EntityDescType
        <5> QED BY <5>1, <5>2, CapAssumption DEF WithinBudget
      <4> QED BY <4>1, <4>2
    <3> QED BY <3>1, BudgetByReason DEF AllWithinBudget
  <2>5. REASON_WATCHDOG \in Reasons
    BY DEF REASON_WATCHDOG, Reasons
  <2> QED BY <2>3, <2>4, <2>5 DEF BudgetInv, CountersAgree, FreeIsUncalled, ExhaustedIsFinal
<1> QED BY <1>1, <1>2, <1>3

\* restart() is called at most max_restarts and max_watchdog_restarts times for every
\* entity, however reports, late registrations and ground commands interleave and
\* although the counters saturate, unless a policy callback asks for RESTART itself.
THEOREM BudgetSafe == Spec => []RestartsWithinBudget
<1>1. BudgetInv => RestartsWithinBudget
  BY DEF BudgetInv
<1> QED BY <1>1, BudgetInit, BudgetNext, TypeCorrect, PTL DEF Spec
=============================================================================
