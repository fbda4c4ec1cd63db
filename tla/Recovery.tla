------------------------------- MODULE Recovery -------------------------------
(***************************************************************************)
(* The critical sections of recovery.c and report.c: system mode, entity    *)
(* table, recovery of one failure, ground commands, the supervision switch  *)
(* and the reports that workers file.  Each is one action because the code  *)
(* holds the port lock from its first read to its last write.               *)
(***************************************************************************)
EXTENDS Health, Subsystem, Sequences

CONSTANTS
  SAFE_THRESHOLD    \* cfg.safe_mode_critical_failure_threshold

ASSUME ThresholdAssumption == SAFE_THRESHOLD \in 0 .. 255

VARIABLES
  g_mode, g_supervision_enabled,
  g_entities,       \* per entity: desc, restart_count, watchdog_restart_count
  queue, g_full_latched, report      \* the failure queue, see FifoQueue

queueVars == <<queue, g_full_latched, report>>
libVars == <<healthVars, subVars, g_mode, g_supervision_enabled, g_entities>>

ZERO_REPORT == [entity |-> 0, reason |-> REASON_INIT_FAILED]
Queue == INSTANCE FifoQueue WITH
           Capacity <- FAILURE_QUEUE_CAP, QueueReports <- Reports,
           ZeroReport <- ZERO_REPORT

EntitySlots == [desc : EntityDescType, restart_count : 0 .. U8_MAX,
                watchdog_restart_count : 0 .. U8_MAX]

RecoveryType ==
  /\ g_mode \in Modes
  /\ g_supervision_enabled \in BOOLEAN
  /\ g_entities \in [Ids -> EntitySlots]
  /\ queue \in Seq(Reports)
  /\ g_full_latched \in BOOLEAN
  /\ report \in Reports

ZeroDesc == [max_restarts |-> 0, max_watchdog_restarts |-> 0,
             on_exhausted |-> "NONE", linked_subsystem |-> 0,
             restart |-> FALSE, decide |-> {"NONE"}]
NewEntity(d) == [desc |-> d, restart_count |-> 0, watchdog_restart_count |-> 0]

-----------------------------------------------------------------------------
(***************************************************************************)
(* Mode transitions, as functions from mode to mode.  set_mode's event and  *)
(* the escalation hook decide nothing.                                      *)
(***************************************************************************)
enter_degraded_mode(mode) ==
  IF mode = FDIR_MODE_NOMINAL THEN FDIR_MODE_DEGRADED ELSE mode
\* Mutant: SAFE also replaces REBOOT_PENDING.
SafeFromAnyMode(mode) == FDIR_MODE_SAFE
enter_safe_mode(mode) ==
  IF mode # FDIR_MODE_REBOOT_PENDING THEN FDIR_MODE_SAFE ELSE mode
\* Mutant: off by one in the threshold.
DualPathStrict(mode, subs) ==
  IF critical_unavailable_count(subs) > SAFE_THRESHOLD
  THEN enter_safe_mode(mode) ELSE mode
evaluate_dual_path(mode, subs) ==
  IF critical_unavailable_count(subs) >= SAFE_THRESHOLD
  THEN enter_safe_mode(mode) ELSE mode

(***************************************************************************)
(* Recovery of one failure.                                                 *)
(***************************************************************************)
\* Mutant: one restart more than the budget.
DecideOneTooMany(slot, reason) ==
  LET max  == IF reason = REASON_WATCHDOG THEN slot.desc.max_watchdog_restarts
                                          ELSE slot.desc.max_restarts
      used == IF reason = REASON_WATCHDOG THEN slot.watchdog_restart_count
                                          ELSE slot.restart_count
  IN  IF used <= max THEN "RESTART" ELSE slot.desc.on_exhausted

default_decide(slot, reason) ==
  LET max  == IF reason = REASON_WATCHDOG THEN slot.desc.max_watchdog_restarts
                                          ELSE slot.desc.max_restarts
      used == IF reason = REASON_WATCHDOG THEN slot.watchdog_restart_count
                                          ELSE slot.restart_count
  IN  IF max = FDIR_RESTART_UNLIMITED \/ used < max
      THEN "RESTART" ELSE slot.desc.on_exhausted

\* decide() first, the budgets when it answers NONE.
decided_actions(slot, reason) ==
  {IF d = "NONE" THEN default_decide(slot, reason) ELSE d : d \in slot.desc.decide}

\* resolve_exhausted_action: what the linked subsystem may answer to `action',
\* NONE when it is not asked.
subsystem_answers(slot, action) ==
  IF action \in {"RESTART", "NONE"} \/ slot.desc.linked_subsystem = SUBSYSTEM_NONE
  THEN {"NONE"}
  ELSE on_entity_exhausted(slot.desc.linked_subsystem)

\* Mutant: restarts are not counted.
BumpNothing(slot, reason) == slot

bump_restart(slot, reason) ==
  LET up(n) == IF n < U8_MAX THEN n + 1 ELSE n
  IN  IF reason = REASON_WATCHDOG
      THEN [slot EXCEPT !.watchdog_restart_count = up(@)]
      ELSE [slot EXCEPT !.restart_count = up(@)]

\* The linked subsystem and the mode after a non-restart action.
subs_after(sub, action) ==
  CASE action \in {"UNAVAILABLE", "SAFE", "REBOOT"} -> mark_unavailable_unsafe(sub)
    [] action = "DEGRADE" -> mark_degraded_unsafe(sub)
    [] OTHER -> g_subs
mode_after(action) ==
  CASE action \in {"DEGRADE", "UNAVAILABLE"} -> enter_degraded_mode(g_mode)
    [] action = "SAFE" -> enter_safe_mode(g_mode)
    [] action = "REBOOT" -> FDIR_MODE_REBOOT_PENDING
    [] OTHER -> g_mode

\* The anomalies that handling r raises: the entity's own, then the linked
\* subsystem's when its policy overrides the action or the action marks it.
raised_keys(r, sub, override, action) ==
  {EventAnomalyId(r.entity, r.reason)} \cup
  (IF override \/ (sub # SUBSYSTEM_NONE
                   /\ action \in {"DEGRADE", "UNAVAILABLE", "SAFE", "REBOOT"})
   THEN {FDIR_SUBSYSTEM_ANOMALY_ID(sub, r.reason)} ELSE {})

\* Critical section of fdir_handle_failure, one disjunct per outcome.
\* The report repeats a latched fault.
handle_suppressed(r) ==
  /\ fault_is_latched(r.entity, r.reason)
  /\ UNCHANGED <<libVars, tm_open, reboot_requested, restart_calls>>

\* The report names no registered entity.
handle_unknown(r) ==
  /\ ~Registered(r.entity)
  /\ tm_open' = tm_open \cup {EventAnomalyId(r.entity, r.reason)}
  /\ g_mode' = enter_degraded_mode(g_mode)
  /\ UNCHANGED <<healthVars, subVars, g_supervision_enabled, g_entities,
                 reboot_requested, restart_calls>>

\* Mutant: the latch survives the restart that closes the anomaly.
RestartKeepsLatch(r, override) ==
  LET id == r.entity  slot == g_entities[id]
  IN  /\ slot.desc.restart
      /\ g_entities' = [g_entities EXCEPT ![id] = bump_restart(@, r.reason)]
      /\ restart_calls' = CountRestart(id, r.reason)
      /\ g_latched_reason' = latch_fault(id, r.reason)
      /\ g_health' = health_reset_unsafe(id)
      /\ tm_open' = tm_open \ {FDIR_ANOMALY_ID(id, r.reason)}
      /\ g_mode' = evaluate_dual_path(g_mode, g_subs)
      /\ UNCHANGED <<g_entity_limit, subVars, g_supervision_enabled, reboot_requested>>

\* apply_action(RESTART), restart() returned 0: latch and failure are cleared.
recover_by_restart(r, override) ==
  LET id == r.entity  slot == g_entities[id]
  IN  /\ slot.desc.restart
      /\ g_entities' = [g_entities EXCEPT ![id] = bump_restart(@, r.reason)]
      /\ restart_calls' = CountRestart(id, r.reason)
      /\ g_latched_reason' = clear_latch(id)
      /\ g_health' = health_reset_unsafe(id)
      /\ tm_open' = (tm_open \cup raised_keys(r, slot.desc.linked_subsystem, override, "RESTART"))
                    \ {FDIR_ANOMALY_ID(id, r.reason)}
      /\ g_mode' = evaluate_dual_path(g_mode, g_subs)
      /\ UNCHANGED <<g_entity_limit, subVars, g_supervision_enabled, reboot_requested>>

\* The other actions, also as the fallback of a restart that was tried in vain
\* (attempted: restart() was called and failed): the entity stays isolated.
isolate_and_escalate(r, override, action, attempted) ==
  LET id == r.entity  slot == g_entities[id]  sub == slot.desc.linked_subsystem
  IN  /\ g_latched_reason' = latch_fault(id, r.reason)
      /\ g_health' = health_set_unsafe(id, "FAILED")
      /\ g_entities' = IF attempted
                       THEN [g_entities EXCEPT ![id] = bump_restart(@, r.reason)]
                       ELSE g_entities
      /\ restart_calls' = IF attempted THEN CountRestart(id, r.reason) ELSE restart_calls
      /\ tm_open' = tm_open \cup raised_keys(r, sub, override, action)
      /\ g_subs' = subs_after(sub, action)
      /\ g_mode' = evaluate_dual_path(mode_after(action), subs_after(sub, action))
      /\ reboot_requested' = (reboot_requested \/ action = "REBOOT")
      /\ UNCHANGED <<g_entity_limit, g_sub_count, g_supervision_enabled>>

\* on_exhausted replaces a RESTART that did not work.
fallback(slot) ==
  IF slot.desc.on_exhausted = "RESTART" THEN "NONE" ELSE slot.desc.on_exhausted

handle_registered(r) ==
  LET slot == g_entities[r.entity]
  IN  /\ Registered(r.entity)
      /\ ~fault_is_latched(r.entity, r.reason)
      /\ \E decided \in decided_actions(slot, r.reason) :
         \E answer \in subsystem_answers(slot, decided) :
           LET override == answer # "NONE"
               action   == IF override THEN answer ELSE decided
           IN  \/ /\ action = "RESTART"
                  /\ recover_by_restart(r, override)
               \/ /\ action = "RESTART"     \* restart() fails, or there is none
                  /\ isolate_and_escalate(r, override, fallback(slot), slot.desc.restart)
               \/ /\ action # "RESTART"
                  /\ isolate_and_escalate(r, override, action, FALSE)

handle_failure(r) ==
  handle_suppressed(r) \/ handle_unknown(r) \/ handle_registered(r)

-----------------------------------------------------------------------------
(***************************************************************************)
(* Reports.  ok is what the caller learns: FALSE is FDIR_ERR_BUSY.           *)
(***************************************************************************)
\* Mutant: only the latch is tested, so every repeat takes a queue slot.
ReportedIfLatched(id, reason) == fault_is_latched(id, reason)

\* report_fault_impl drops a fault of an entity that is known to have failed.
already_reported(id, reason) == fault_is_latched(id, reason) \/ IsFailed(id)

\* Mutant: the entity is marked FAILED before the queue refuses its report.
ReportMarksFirst(id, reason, ok) ==
  /\ g_supervision_enabled
  /\ ~already_reported(id, reason)
  /\ IF ok THEN Queue!QueuePut([entity |-> id, reason |-> reason]) ELSE Queue!QueueRefuse
  /\ g_health' = health_set_unsafe(id, "FAILED")
  /\ UNCHANGED <<g_latched_reason, g_entity_limit, subVars, g_mode,
                 g_supervision_enabled, g_entities>>

report_fault(id, reason, ok) ==
  /\ g_supervision_enabled
  /\ ~already_reported(id, reason)
  /\ \/ /\ ok
        /\ Queue!QueuePut([entity |-> id, reason |-> reason])
        /\ g_health' = health_set_unsafe(id, "FAILED")
     \/ /\ ~ok
        /\ Queue!QueueRefuse
        /\ UNCHANGED g_health
  /\ UNCHANGED <<g_latched_reason, g_entity_limit, subVars, g_mode,
                 g_supervision_enabled, g_entities>>

\* The cases in which report_fault_impl returns FDIR_OK and does nothing.
report_fault_ignored(id, reason) ==
  /\ ~g_supervision_enabled \/ already_reported(id, reason)
  /\ UNCHANGED <<libVars, queueVars>>

-----------------------------------------------------------------------------
(***************************************************************************)
(* Registration and ground commands.  A refused call changes nothing and    *)
(* has no action.                                                           *)
(***************************************************************************)
entity_register(d) ==
  /\ g_entity_limit < ENTITY_CAP
  /\ d.on_exhausted # "RESTART"
  /\ g_entities' = [g_entities EXCEPT ![g_entity_limit] = NewEntity(d)]
  /\ g_entity_limit' = g_entity_limit + 1
  /\ g_health' = health_reset_unsafe(g_entity_limit)
  /\ UNCHANGED <<g_latched_reason, subVars, g_mode, g_supervision_enabled>>

set_supervision_enabled(enabled) ==
  /\ g_supervision_enabled # enabled
  /\ g_supervision_enabled' = enabled
  /\ IF enabled THEN UNCHANGED queueVars ELSE Queue!QueueClear
  /\ UNCHANGED <<healthVars, subVars, g_mode, g_entities>>

\* The ground's commands on the mode alone.
ModeCommand(new) ==
  /\ g_mode' = new
  /\ UNCHANGED <<healthVars, subVars, g_supervision_enabled, g_entities>>

set_system_mode(mode) == mode # FDIR_MODE_REBOOT_PENDING /\ ModeCommand(mode)
deescalate_system_mode ==
  /\ g_mode \in {FDIR_MODE_DEGRADED, FDIR_MODE_SAFE}
  /\ ModeCommand(g_mode - 1)
reassess_system_mode == ModeCommand(evaluate_dual_path(g_mode, g_subs))
try_reboot == ModeCommand(FDIR_MODE_REBOOT_PENDING) /\ reboot_requested' = TRUE

\* Mutant: DEGRADED stops the workers too.
MayRunInNominal(id) ==
  \/ ~g_supervision_enabled
  \/ g_mode < FDIR_MODE_DEGRADED /\ Registered(id) /\ ~IsFailed(id)

\* fdir_entity_may_run.
entity_may_run(id) ==
  \/ ~g_supervision_enabled
  \/ g_mode < FDIR_MODE_SAFE /\ Registered(id) /\ ~IsFailed(id)
=============================================================================
