-------------------------- MODULE FdirLifecycleProofs --------------------------
(***************************************************************************)
(* Fdir implements EntityLifecycle: every step of supervisor, workers,      *)
(* application and ground is a step of the abstract specification or leaves *)
(* its variables alone.                                                     *)
(***************************************************************************)
EXTENDS FdirRestartProofs

\* What the abstract specification is about: recovery alone changes health and
\* mode (the ground may still enter DEGRADED mode, reassess, switch supervision and
\* mark subsystems available or degraded), the entities are those registered at
\* start-up, and no policy asks for restarts beyond the budget.
RecoveryAlone ==
  /\ RecoveryRulesMode /\ HealthIsSupervised
  /\ Calls \cap {"enter_safe_mode", "try_reboot", "reset"} = {}
  /\ LateEntities = {}
  /\ \A i \in 1 .. Len(BootEntities) : "RESTART" \notin BootEntities[i].decide
  /\ \A i \in 1 .. Len(BootSubs) : "RESTART" \notin BootSubs[i].on_entity_exhausted
  /\ \A d \in LateSubs : "RESTART" \notin d.on_entity_exhausted

\* The entity table is the one of fdir_init's registrations, and no subsystem's
\* handler answers RESTART.
BootKept ==
  /\ g_entity_limit = Len(BootEntities)
  /\ \A id \in BootIds : g_entities[id].desc = BootEntities[id + 1]
  /\ \A s \in SubIds : slot_of(s) => "RESTART" \notin g_subs[s].desc.on_entity_exhausted

\* The invariant under which every step maps to an abstract one.
LifeInv == TypeOK /\ LatchedIsIsolated /\ DualPathEnforced /\ BudgetInv /\ BootKept

-----------------------------------------------------------------------------
(***************************************************************************)
(* The boot-time registrations persist.                                     *)
(***************************************************************************)
\* The ids registered at start-up are ids.
LEMMA BootIdsAreIds ==
  /\ BootIds \subseteq Ids /\ Len(BootEntities) \in Nat
  /\ \A id \in BootIds : id + 1 \in 1 .. Len(BootEntities)
BY BootAssumption, CapAssumption DEF BootIds, Ids

\* Only a registration adds a subsystem.
LEMMA OnlyRegistrationAdds ==
  ASSUME TypeOK, [Next]_vars, ~PlatformReset
  PROVE  g_sub_count' = g_sub_count \/ \E d \in LateSubs : subsystem_register(d)
<1> USE DEF vars, libVars, healthVars, subVars
<1>1. CASE UNCHANGED vars
  BY <1>1
<1>2. CASE Handle
  BY <1>2, HandleMode DEF Handle, TypeOK, RecoveryType
<1>3. CASE Supervisor /\ ~Handle
  BY <1>3 DEF Supervisor, SupervisorLoop, TickBegin, DrainGet, DrainEmpty, WatchdogBegin,
     WatchdogReadClock, WatchdogCheck, WatchdogRaise, WatchdogEnd, HandleBegin, HandleCheck,
     OnlySupervisor
<1>4. ASSUME NEW w \in Ids, Worker(w) PROVE g_sub_count' = g_sub_count
  BY <1>4 DEF Worker, WorkerReadMode, WorkerSafeHeartbeat, WorkerGate, WorkerDone, WorkerFault,
     report_fault, report_fault_ignored
<1>5. CASE SubmitCheck \/ SubmitPut
  BY <1>5 DEF SubmitCheck, SubmitPut
<1>6. CASE Environment
  BY <1>6 DEF Environment, AppReport, AppHealth, AppRegister, GroundSupervision, GroundMark,
     GroundLowerMode, GroundRaiseMode, GroundReboot, report_fault, entity_register,
     set_supervision_enabled, ModeCommand, set_system_mode, deescalate_system_mode,
     reassess_system_mode, try_reboot, subsystem_mark_available, subsystem_mark_unavailable,
     subsystem_mark_degraded
<1> QED BY <1>1, <1>2, <1>3, <1>4, <1>5, <1>6 DEF Next

\* No reset takes place.
LEMMA NoReset == ASSUME RecoveryAlone PROVE ~PlatformReset
BY DEF RecoveryAlone, PlatformReset

\* The start-up registrations satisfy BootKept.
LEMMA BootKeptInit == ASSUME RecoveryAlone, Init PROVE BootKept
<1>1. /\ g_entity_limit = Len(BootEntities) /\ g_sub_count = Len(BootSubs)
      /\ g_entities = BootedEntities /\ g_subs = BootedSubs
  BY DEF Init
<1>2. ASSUME NEW id \in BootIds PROVE g_entities[id].desc = BootEntities[id + 1]
  <2>1. id \in Ids /\ id < Len(BootEntities)
    BY BootIdsAreIds DEF BootIds
  <2> QED BY <1>1, <2>1 DEF BootedEntities, NewEntity
<1>3. ASSUME NEW s \in SubIds, slot_of(s)
      PROVE  "RESTART" \notin g_subs[s].desc.on_entity_exhausted
  <2>1. s < Len(BootSubs) /\ s + 1 \in 1 .. Len(BootSubs)
    BY <1>1, <1>3, BootAssumption, CapAssumption DEF slot_of, SubIds
  <2> QED BY <1>1, <2>1 DEF BootedSubs, NewSub, RecoveryAlone
<1> QED BY <1>1, <1>2, <1>3 DEF BootKept

\* Every step preserves it.
LEMMA BootKeptNext ==
  ASSUME RecoveryAlone, TypeOK, BootKept, [Next]_vars PROVE BootKept'
<1>0. ~PlatformReset /\ LateEntities = {}
  BY NoReset DEF RecoveryAlone
<1>1. g_entity_limit' = Len(BootEntities)
  <2>1. CASE Handle
    BY <2>1, HandleOutcome DEF Handle, TypeOK, RecoveryType, BootKept
  <2>2. CASE ~Handle
    BY <1>0, <2>2, OthersKeepEntities DEF BootKept
  <2> QED BY <2>1, <2>2
<1>2. ASSUME NEW id \in BootIds PROVE g_entities'[id].desc = BootEntities[id + 1]
  <2>1. id \in Ids /\ Registered(id)
    BY BootIdsAreIds DEF BootIds, BootKept, Registered
  <2> QED BY <1>0, <2>1, PolicyKept DEF BootKept
<1>3. ASSUME NEW s \in SubIds, slot_of(s)'
      PROVE  "RESTART" \notin g_subs'[s].desc.on_entity_exhausted
  <2>1. CASE slot_of(s)
    <3>1. g_subs'[s].desc = g_subs[s].desc
      BY <1>0, <2>1, SubDescsKept DEF AnySubId
    <3> QED BY <2>1, <3>1 DEF BootKept
  <2>2. CASE ~slot_of(s)
    <3>1. PICK d \in LateSubs : subsystem_register(d)
      BY <1>0, <1>3, <2>2, OnlyRegistrationAdds DEF slot_of
    <3>2. /\ g_sub_count \in 0 .. SUBSYSTEM_CAP /\ g_subs \in [SubIds -> SubSlots]
          /\ g_sub_count' = g_sub_count + 1
          /\ g_subs' = [g_subs EXCEPT ![g_sub_count] = NewSub(d)]
      BY <3>1 DEF TypeOK, SubsystemType, subsystem_register
    <3>3. s = g_sub_count
      BY <1>3, <2>2, <3>2, CapAssumption DEF slot_of, SubIds
    <3> QED BY <3>2, <3>3 DEF NewSub, RecoveryAlone
  <2> QED BY <2>1, <2>2
<1> QED BY <1>1, <1>2, <1>3 DEF BootKept

\* Under RecoveryAlone no policy asks for a restart.
LEMMA NoPolicyRestarts ==
  ASSUME RecoveryAlone, TypeOK, BootKept, NEW id \in BootIds
  PROVE  ~PolicyRestarts(g_entities[id].desc)
<1> DEFINE desc == g_entities[id].desc
           sub  == desc.linked_subsystem
<1>1. id \in Ids /\ desc = BootEntities[id + 1] /\ "RESTART" \notin desc.decide
  BY BootIdsAreIds DEF BootKept, RecoveryAlone
<1>2. sub \in AnySubId
  BY <1>1 DEF TypeOK, RecoveryType, EntitySlots, EntityDescType
<1>3. slot_of(sub) => sub \in SubIds
  BY <1>2, CapAssumption DEF slot_of, AnySubId, SubIds, SUBSYSTEM_NONE, TypeOK, SubsystemType
<1>4. "RESTART" \notin on_entity_exhausted(sub)
  BY <1>3 DEF BootKept, on_entity_exhausted
<1> QED BY <1>1, <1>4 DEF PolicyRestarts

-----------------------------------------------------------------------------
(***************************************************************************)
(* The abstract steps, entity by entity.                                    *)
(***************************************************************************)
\* The refinement mapping of one entity.
Phase(id) ==
  IF ~IsFailed(id) THEN "ok"
  ELSE IF g_latched_reason[id] = NO_REASON THEN "reported"
  ELSE "isolated"

\* Nothing abstract happens.
LEMMA LifeStutter ==
  ASSUME \A id \in BootIds : Phase(id)' = Phase(id), UNCHANGED <<restart_calls, g_mode>>
  PROVE  UNCHANGED Life!lifeVars
BY DEF Life!lifeVars, Phase

\* An entity is reported.
LEMMA LifeReport ==
  ASSUME NEW id \in BootIds, Phase(id) = "ok", Phase(id)' = "reported",
         \A other \in BootIds \ {id} : Phase(other)' = Phase(other),
         UNCHANGED <<restart_calls, g_mode>>
  PROVE  Life!LifeNext
<1>1. Life!Report(id)
  BY DEF Life!Report, Phase
<1> QED BY <1>1 DEF Life!LifeNext

\* The system is degraded.
LEMMA LifeDegrade ==
  ASSUME \A id \in BootIds : Phase(id)' = Phase(id), UNCHANGED restart_calls,
         g_mode = 0, g_mode' = 1
  PROVE  Life!LifeNext
<1>1. Life!Degrade
  BY DEF Life!Degrade, Phase
<1> QED BY <1>1 DEF Life!LifeNext

\* A counted call of restart() is paid from the budget.
LEMMA LifeSpend ==
  ASSUME RecoveryAlone, LifeInv, NEW r \in Reports, Counted(r), r.entity \in BootIds
  PROVE  \E k \in Life!Kinds : Life!Spend(r.entity, k)
<1> DEFINE id    == r.entity
           desc  == g_entities[id].desc
           max   == MaxFor(desc, r.reason)
           calls == CallsFor(id, r.reason)
           count == CountFor(g_entities[id], r.reason)
<1>0. /\ TypeOK /\ BudgetInv /\ BootKept /\ id \in Ids /\ r.reason \in Reasons
      /\ restart_calls \in [Ids -> [normal : CallCounts, watchdog : CallCounts]]
  BY BootIdsAreIds DEF LifeInv, Reports, TypeOK, PortType
<1>1. /\ calls \in 0 .. U8_MAX + 1 /\ count \in 0 .. U8_MAX /\ max \in 0 .. U8_MAX
      /\ U8_MAX \in Nat \ {0}
  BY <1>0, BudgetTypes
<1>2. default_decide(g_entities[id], r.reason) = "RESTART"
  BY <1>0, NoPolicyRestarts DEF Counted
<1>3. max = U8_MAX \/ count < max
  BY <1>0, <1>2 DEF default_decide, BudgetInv, ExhaustedIsFinal, MaxFor, CountFor,
                    FDIR_RESTART_UNLIMITED
<1>4. count = Saturated(calls)
  BY <1>0 DEF BudgetInv, CountersAgree
<1>5. /\ max = U8_MAX \/ calls < max
      /\ calls < U8_MAX + 1 \/ max = U8_MAX
  BY <1>1, <1>3, <1>4 DEF Saturated
<1>6. desc = BootEntities[id + 1]
  BY <1>0 DEF BootKept
<1>7. restart_calls' = CountRestart(id, r.reason)
  BY DEF Counted
<1>8. CASE r.reason = REASON_WATCHDOG
  <2>1. Life!Spend(id, "watchdog")
    BY <1>0, <1>1, <1>5, <1>6, <1>7, <1>8, BootIdsAreIds
    DEF Life!Spend, CountRestart, CallsFor, MaxFor, FDIR_RESTART_UNLIMITED
  <2> QED BY <2>1 DEF Life!Kinds
<1>9. CASE r.reason # REASON_WATCHDOG
  <2>1. Life!Spend(id, "normal")
    BY <1>0, <1>1, <1>5, <1>6, <1>7, <1>9, BootIdsAreIds
    DEF Life!Spend, CountRestart, CallsFor, MaxFor, FDIR_RESTART_UNLIMITED
  <2> QED BY <2>1 DEF Life!Kinds
<1> QED BY <1>8, <1>9

\* An entity is restarted.
LEMMA LifeRestart ==
  ASSUME RecoveryAlone, LifeInv, NEW r \in Reports, Counted(r), r.entity \in BootIds,
         Phase(r.entity)' = "ok", g_mode' = g_mode,
         \A other \in BootIds \ {r.entity} : Phase(other)' = Phase(other)
  PROVE  Life!LifeNext
<1>1. Life!Restart(r.entity)
  BY LifeSpend DEF Life!Restart, Phase
<1> QED BY <1>1 DEF Life!LifeNext

\* An entity is isolated.
LEMMA LifeIsolate ==
  ASSUME RecoveryAlone, LifeInv, NEW r \in Reports, Uncounted \/ Counted(r),
         r.entity \in BootIds, Phase(r.entity)' = "isolated", g_mode' \in g_mode .. 3,
         \A other \in BootIds \ {r.entity} : Phase(other)' = Phase(other)
  PROVE  Life!LifeNext
<1>1. Life!Isolate(r.entity)
  BY LifeSpend DEF Life!Isolate, Phase, Uncounted
<1> QED BY <1>1 DEF Life!LifeNext

-----------------------------------------------------------------------------
(***************************************************************************)
(* Every concrete step is an abstract step or a stutter.                    *)
(***************************************************************************)
\* fdir_handle_failure restarts or isolates an entity, degrades, or does nothing.
LEMMA HandleLives ==
  ASSUME RecoveryAlone, LifeInv, NEW r \in Reports, handle_failure(r)
  PROVE  Life!LifeNext \/ UNCHANGED Life!lifeVars
<1>0. /\ TypeOK /\ BootKept /\ g_mode \in Modes
      /\ g_health \in [Ids -> Snapshots]
      /\ g_latched_reason \in [Ids -> Reasons \cup {NO_REASON}]
      /\ NO_REASON \notin Reasons
  BY DEF LifeInv, TypeOK, HealthType, RecoveryType, Reasons, NO_REASON
<1>1. g_entity_limit' = g_entity_limit /\ BootIds \subseteq Ids
  BY <1>0, HandleOutcome, BootIdsAreIds
<1>2. ASSUME UNCHANGED <<g_health, g_latched_reason>>, NEW id \in BootIds
      PROVE  Phase(id)' = Phase(id)
  BY <1>1, <1>2 DEF Phase, IsFailed, Registered
<1>3. CASE handle_suppressed(r)
  <2>1. UNCHANGED <<g_health, g_latched_reason, restart_calls, g_mode>>
    BY <1>3 DEF handle_suppressed, libVars, healthVars
  <2> QED BY <1>2, <2>1, LifeStutter
<1>4. CASE handle_unknown(r)
  <2>1. /\ UNCHANGED <<g_health, g_latched_reason, restart_calls>>
        /\ g_mode' = enter_degraded_mode(g_mode)
    BY <1>4 DEF handle_unknown, healthVars
  <2>2. CASE g_mode = 0
    <3>1. g_mode' = 1
      BY <2>1, <2>2 DEF enter_degraded_mode, FDIR_MODE_NOMINAL, FDIR_MODE_DEGRADED
    <3> QED BY <1>2, <2>1, <2>2, <3>1, LifeDegrade
  <2>3. CASE g_mode # 0
    <3>1. g_mode' = g_mode
      BY <2>1, <2>3 DEF enter_degraded_mode, FDIR_MODE_NOMINAL
    <3> QED BY <1>2, <2>1, <3>1, LifeStutter
  <2> QED BY <2>2, <2>3
<1>5. ASSUME Registered(r.entity)
      PROVE  r.entity \in BootIds /\ r.entity \in Ids /\ r.reason \in Reasons
  <2>1. r.entity \in Ids /\ r.entity < Len(BootEntities)
    BY <1>0, <1>5, RegisteredIsId DEF TypeOK, Reports, BootKept, Registered
  <2> QED BY <1>0, <2>1, BootIdsAreIds, CapAssumption DEF BootIds, Ids, Reports
<1>6. CASE (\E override : recover_by_restart(r, override)) /\ Counted(r)
  <2>1. PICK override : recover_by_restart(r, override)
    BY <1>6
  <2>2. r.entity \in BootIds /\ r.entity \in Ids
    BY <1>5, <1>6 DEF Counted
  <2>3. /\ g_latched_reason' = clear_latch(r.entity)
        /\ g_health' = health_reset_unsafe(r.entity)
        /\ g_mode' = evaluate_dual_path(g_mode, g_subs)
    BY <2>1 DEF recover_by_restart
  <2>4. Phase(r.entity)' = "ok"
    BY <1>0, <2>2, <2>3 DEF Phase, IsFailed, health_reset_unsafe
  <2>5. ASSUME NEW other \in BootIds \ {r.entity} PROVE Phase(other)' = Phase(other)
    BY <1>0, <1>1, <2>2, <2>3 DEF Phase, IsFailed, Registered, health_reset_unsafe, clear_latch
  <2>6. g_mode' = g_mode
    BY <1>0, <2>3 DEF LifeInv, DualPathEnforced, evaluate_dual_path, enter_safe_mode, Modes,
                      FDIR_MODE_SAFE, FDIR_MODE_REBOOT_PENDING
  <2> QED BY <1>0, <1>6, <2>2, <2>4, <2>5, <2>6, LifeRestart
<1>7. CASE /\ \E override, action, attempted :
                isolate_and_escalate(r, override, action, attempted)
           /\ Uncounted \/ Counted(r)
           /\ Registered(r.entity)
  <2>1. PICK override, action, attempted :
          isolate_and_escalate(r, override, action, attempted)
    BY <1>7
  <2>2. r.entity \in BootIds /\ r.entity \in Ids /\ r.reason \in Reasons
    BY <1>5, <1>7
  <2>3. /\ g_latched_reason' = latch_fault(r.entity, r.reason)
        /\ g_health' = [g_health EXCEPT ![r.entity].health = "FAILED"]
    BY <1>7, <2>1 DEF isolate_and_escalate, health_set_unsafe
  <2>4. Phase(r.entity)' = "isolated"
    BY <1>0, <1>1, <1>7, <2>2, <2>3 DEF Phase, IsFailed, Registered, latch_fault, Snapshots
  <2>5. ASSUME NEW other \in BootIds \ {r.entity} PROVE Phase(other)' = Phase(other)
    BY <1>0, <1>1, <2>2, <2>3 DEF Phase, IsFailed, Registered, latch_fault
  <2>6. g_mode' \in g_mode .. 3
    <3>1. mode_after(action) \in Modes /\ g_mode <= mode_after(action)
      BY <1>0, ModeAfterType, ModeAfterRises
    <3>2. PICK subs : g_mode' = evaluate_dual_path(mode_after(action), subs)
      BY <2>1 DEF isolate_and_escalate
    <3>3. g_mode' \in Modes /\ mode_after(action) <= g_mode'
      BY <3>1, <3>2, ModeType, ModesRise
    <3> QED BY <1>0, <3>1, <3>3 DEF Modes
  <2> QED BY <1>0, <1>7, <2>2, <2>4, <2>5, <2>6, LifeIsolate
<1>8. handle_suppressed(r) \/ handle_unknown(r) \/ Registered(r.entity)
  BY <1>0 DEF handle_failure, handle_registered
<1> QED BY <1>0, <1>3, <1>4, <1>6, <1>7, <1>8, HandleCounts

\* report_fault_impl reports an entity that is "ok", or changes nothing abstract.
LEMMA ReportLives ==
  ASSUME LifeInv, NEW e \in AnyId, NEW reason, NEW ok, report_fault(e, reason, ok),
         UNCHANGED restart_calls
  PROVE  Life!LifeNext \/ UNCHANGED Life!lifeVars
<1>0. /\ g_health \in [Ids -> Snapshots] /\ BootIds \subseteq Ids /\ HealthType
      /\ g_entity_limit = Len(BootEntities)
  BY BootIdsAreIds DEF LifeInv, BootKept, TypeOK, HealthType
<1>1. UNCHANGED <<g_latched_reason, g_entity_limit, g_mode>> /\ ~IsFailed(e)
  BY DEF report_fault, already_reported
<1>2. CASE UNCHANGED g_health
  <2>1. ASSUME NEW id \in BootIds PROVE Phase(id)' = Phase(id)
    BY <1>1, <1>2 DEF Phase, IsFailed, Registered
  <2> QED BY <1>1, <2>1, LifeStutter
<1>3. CASE g_health' = health_set_unsafe(e, "FAILED") /\ Registered(e)
  <2>1. e \in Ids /\ e \in BootIds
    BY <1>0, <1>3, RegisteredIsId, BootIdsAreIds, CapAssumption DEF Registered, BootIds, Ids
  <2>2. g_health' = [g_health EXCEPT ![e].health = "FAILED"]
    BY <1>3 DEF health_set_unsafe
  <2>3. g_latched_reason[e] = NO_REASON
    BY <1>1, <2>1 DEF LifeInv, LatchedIsIsolated
  <2>4. Phase(e) = "ok" /\ Phase(e)' = "reported"
    BY <1>0, <1>1, <1>3, <2>1, <2>2, <2>3 DEF Phase, IsFailed, Registered, Snapshots
  <2>5. ASSUME NEW other \in BootIds \ {e} PROVE Phase(other)' = Phase(other)
    BY <1>0, <1>1, <2>1, <2>2 DEF Phase, IsFailed, Registered
  <2> QED BY <1>1, <2>1, <2>4, <2>5, LifeReport
<1> QED BY <1>2, <1>3 DEF report_fault, health_set_unsafe

\* The steps of all others: reports, degradation by the ground, or nothing.
LEMMA OthersLive ==
  ASSUME RecoveryAlone, LifeInv, [Next]_vars, ~Handle
  PROVE  Life!LifeNext \/ UNCHANGED Life!lifeVars
<1> USE DEF vars, portVars, libVars, healthVars, subVars
<1>0. /\ ~PlatformReset /\ LateEntities = {} /\ TypeOK /\ g_mode \in Modes
      /\ g_health \in [Ids -> Snapshots] /\ BootIds \subseteq Ids
      /\ ~GroundLowerMode /\ ~GroundReboot
  BY NoReset, BootIdsAreIds DEF RecoveryAlone, RecoveryRulesMode, LifeInv, TypeOK, HealthType,
     RecoveryType, GroundLowerMode, GroundReboot
<1>1. UNCHANGED <<restart_calls, g_latched_reason, g_entity_limit>>
  BY <1>0, OthersKeepLatches, OthersKeepEntities
<1>2. ASSUME UNCHANGED g_health, NEW id \in BootIds PROVE Phase(id)' = Phase(id)
  BY <1>1, <1>2 DEF Phase, IsFailed, Registered
<1>3. CASE UNCHANGED vars
  BY <1>2, <1>3, LifeStutter
<1>4. CASE Supervisor
  <2>1. UNCHANGED <<g_health, g_mode>>
    BY <1>4 DEF Supervisor, SupervisorLoop, TickBegin, DrainGet, DrainEmpty, WatchdogBegin,
       WatchdogReadClock, WatchdogCheck, WatchdogRaise, WatchdogEnd, HandleBegin, HandleCheck,
       OnlySupervisor
  <2> QED BY <1>1, <1>2, <2>1, LifeStutter
<1>5. ASSUME NEW w \in Ids, Worker(w) PROVE Life!LifeNext \/ UNCHANGED Life!lifeVars
  <2>1. CASE WorkerReadMode(w) \/ WorkerGate(w)
    <3>1. UNCHANGED <<g_health, g_mode>>
      BY <2>1 DEF WorkerReadMode, WorkerGate
    <3> QED BY <1>1, <1>2, <3>1, LifeStutter
  <2>2. CASE WorkerSafeHeartbeat(w) \/ WorkerDone(w)
    <3>1. heartbeat_notify(w) /\ g_mode' = g_mode
      BY <2>2 DEF WorkerSafeHeartbeat, WorkerDone
    <3>2. ASSUME NEW id \in BootIds PROVE Phase(id)' = Phase(id)
      BY <1>0, <1>1, <3>1 DEF heartbeat_notify, Phase, IsFailed, Registered, Snapshots
    <3> QED BY <1>1, <3>1, <3>2, LifeStutter
  <2>3. CASE WorkerFault(w)
    <3>1. PICK reason \in FaultReasons : \/ \E ok \in BOOLEAN : report_fault(w, reason, ok)
                                         \/ report_fault_ignored(w, reason)
      BY <2>3 DEF WorkerFault
    <3>2. CASE report_fault_ignored(w, reason)
      BY <1>1, <1>2, <3>2, LifeStutter DEF report_fault_ignored
    <3>3. CASE \E ok \in BOOLEAN : report_fault(w, reason, ok)
      BY <1>1, <3>3, ReportLives DEF AnyId
    <3> QED BY <3>1, <3>2, <3>3
  <2> QED BY <1>5, <2>1, <2>2, <2>3 DEF Worker
<1>6. CASE SubmitCheck \/ SubmitPut
  <2>1. UNCHANGED <<g_health, g_mode>>
    BY <1>6 DEF SubmitCheck, SubmitPut
  <2> QED BY <1>1, <1>2, <2>1, LifeStutter
<1>7. CASE Environment
  <2>1. CASE AppReport
    BY <1>1, <2>1, ReportLives DEF AppReport
  <2>2. CASE GroundRaiseMode
    <3>1. PICK mode : /\ ModeCommand(mode)
                      /\ mode \in {enter_degraded_mode(g_mode), evaluate_dual_path(g_mode, g_subs)}
      BY <2>2 DEF GroundRaiseMode, RecoveryAlone, reassess_system_mode
    <3>2. g_mode' = mode /\ UNCHANGED g_health
      BY <3>1 DEF ModeCommand
    <3>3. evaluate_dual_path(g_mode, g_subs) = g_mode
      BY <1>0 DEF LifeInv, DualPathEnforced, evaluate_dual_path, enter_safe_mode, Modes,
                  FDIR_MODE_SAFE, FDIR_MODE_REBOOT_PENDING
    <3>4. g_mode' = g_mode \/ (g_mode = 0 /\ g_mode' = 1)
      BY <3>1, <3>2, <3>3 DEF enter_degraded_mode, FDIR_MODE_NOMINAL, FDIR_MODE_DEGRADED
    <3> QED BY <1>1, <1>2, <3>2, <3>4, LifeStutter, LifeDegrade
  <2>3. CASE ~AppReport /\ ~GroundRaiseMode
    <3>1. g_mode' = g_mode
      BY <1>0, <2>3, OthersKeepMode
    <3>2. UNCHANGED g_health
      BY <1>0, <1>7, <2>3 DEF Environment, AppHealth, AppRegister, GroundSupervision, GroundMark,
         set_supervision_enabled, RecoveryAlone, HealthIsSupervised
    <3> QED BY <1>1, <1>2, <3>1, <3>2, LifeStutter
  <2> QED BY <2>1, <2>2, <2>3
<1> QED BY <1>0, <1>3, <1>4, <1>5, <1>6, <1>7 DEF Next

\* The start of a run is a start of the abstract specification.
LEMMA LifeStarts == Init => Life!LifeInit
<1> SUFFICES ASSUME Init PROVE Life!LifeInit
  OBVIOUS
<1>0. /\ BootIds \subseteq Ids
      /\ restart_calls = [id \in Ids |-> [normal |-> 0, watchdog |-> 0]]
      /\ g_mode = 0 /\ g_health = BootedHealth
  BY BootIdsAreIds DEF Init, PortInit, FDIR_MODE_NOMINAL
<1>1. ASSUME NEW id \in BootIds PROVE ~IsFailed(id)
  BY <1>0 DEF IsFailed, BootedHealth
<1> QED BY <1>0, <1>1 DEF Life!LifeInit

\* As long as recovery alone rules health and mode, the library implements the
\* abstract life cycle: a FAILED entity comes back only through a call of restart()
\* paid from its budget, and the mode rises only when an entity is isolated, when
\* a report names no entity or when the ground degrades the system.
THEOREM LifecycleRefined == RecoveryAlone /\ Spec => ImplementsLifecycle
<1> SUFFICES ASSUME RecoveryAlone PROVE Spec => Life!LifeSpec
  BY DEF ImplementsLifecycle
<1>1. Spec => []LatchedIsIsolated
  BY IsolationSafe DEF RecoveryAlone
<1>2. Spec => []DualPathEnforced
  BY DualPathSafe DEF RecoveryAlone
<1>3. TypeOK /\ LatchedIsIsolated /\ DualPathEnforced /\ BudgetInv /\ BootKept => LifeInv
  BY DEF LifeInv
<1>4. LifeInv /\ [Next]_vars => [Life!LifeNext]_(Life!lifeVars)
  <2>1. LifeInv /\ Handle => report \in Reports /\ handle_failure(report)
    BY DEF LifeInv, TypeOK, RecoveryType, Handle
  <2> QED BY <2>1, HandleLives, OthersLive
<1>5. Init => BootKept
  BY BootKeptInit
<1>6. TypeOK /\ BootKept /\ [Next]_vars => BootKept'
  BY BootKeptNext
<1>7. TypeOK /\ BudgetInv /\ [Next]_vars => BudgetInv'
  BY BudgetNext
<1> QED BY <1>1, <1>2, <1>3, <1>4, <1>5, <1>6, <1>7, BudgetInit, LifeStarts, TypeCorrect, PTL
        DEF Spec, Life!LifeSpec
=============================================================================
