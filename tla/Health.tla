-------------------------------- MODULE Health --------------------------------
(***************************************************************************)
(* The health table and the fault latches of health.c.  The _unsafe helpers *)
(* that callers use inside a critical section are expressions for the next  *)
(* table; the public operations are actions.                                *)
(***************************************************************************)
EXTENDS Port

VARIABLES
  g_health,           \* per entity: health and last_heartbeat_ms
  g_latched_reason,   \* per entity: the latched reason, NO_REASON when none is
  g_entity_limit      \* registered entities; always equal to g_entity_count

healthVars == <<g_health, g_latched_reason, g_entity_limit>>

Snapshots == [health : HealthStates, last_heartbeat_ms : Times]

HealthType ==
  /\ g_health \in [Ids -> Snapshots]
  /\ g_latched_reason \in [Ids -> Reasons \cup {NO_REASON}]
  /\ g_entity_limit \in 0 .. ENTITY_CAP

Registered(id) == id < g_entity_limit

\* fdir_health_init's memset leaves no fault latched.
NoLatches == [id \in Ids |-> NO_REASON]

IsFailed(id) == Registered(id) /\ g_health[id].health = "FAILED"

fault_is_latched(id, reason) ==
  Registered(id) /\ g_latched_reason[id] = reason

latch_fault(id, reason) == [g_latched_reason EXCEPT ![id] = reason]
clear_latch(id) == [g_latched_reason EXCEPT ![id] = NO_REASON]
health_set_unsafe(id, health) ==
  IF Registered(id) THEN [g_health EXCEPT ![id].health = health] ELSE g_health
health_reset_unsafe(id) ==
  [g_health EXCEPT ![id] = [health |-> "OK", last_heartbeat_ms |-> fdir_get_now_ms]]

\* Mutants: a heartbeat of exactly the maximum age is stale; signed subtraction.
StaleTooEarly(id, now_ms, max_age_ms) ==
  /\ Registered(id)
  /\ g_health[id].health # "FAILED"
  /\ (now_ms - g_health[id].last_heartbeat_ms) % TIME_MOD >= max_age_ms
StaleSigned(id, now_ms, max_age_ms) ==
  /\ Registered(id)
  /\ g_health[id].health # "FAILED"
  /\ now_ms - g_health[id].last_heartbeat_ms > max_age_ms

\* uint32_t subtraction: now_ms may be older than the heartbeat it is compared to.
is_stale(id, now_ms, max_age_ms) ==
  /\ Registered(id)
  /\ g_health[id].health # "FAILED"
  /\ (now_ms - g_health[id].last_heartbeat_ms) % TIME_MOD > max_age_ms

-----------------------------------------------------------------------------
\* An id that is not registered returns early and changes nothing.
\* Mutants: a heartbeat makes any entity OK, or any whose fault is not handled yet.
HeartbeatHeals(id) ==
  /\ Registered(id)
  /\ g_health' = health_reset_unsafe(id)
  /\ UNCHANGED <<g_latched_reason, g_entity_limit>>

HeartbeatHealsReported(id) ==
  /\ Registered(id)
  /\ g_health' = [g_health EXCEPT
                    ![id] = [health |-> IF g_latched_reason[id] # NO_REASON THEN @.health ELSE "OK",
                             last_heartbeat_ms |-> fdir_get_now_ms]]
  /\ UNCHANGED <<g_latched_reason, g_entity_limit>>

\* fdir_health_heartbeat_notify: proves life, but never lifts FAILED.
heartbeat_notify(id) ==
  /\ Registered(id)
  /\ g_health' = [g_health EXCEPT
                    ![id] = [health |-> IF @.health = "FAILED" THEN "FAILED" ELSE "OK",
                             last_heartbeat_ms |-> fdir_get_now_ms]]
  /\ UNCHANGED <<g_latched_reason, g_entity_limit>>

\* fdir_health_set: health by decree, the heartbeat and the latch stay.
health_set(id, health) ==
  /\ Registered(id)
  /\ g_health' = health_set_unsafe(id, health)
  /\ UNCHANGED <<g_latched_reason, g_entity_limit>>

\* fdir_health_reset: a clean baseline; the latch stays.
health_reset(id) ==
  /\ Registered(id)
  /\ g_health' = health_reset_unsafe(id)
  /\ UNCHANGED <<g_latched_reason, g_entity_limit>>
=============================================================================
