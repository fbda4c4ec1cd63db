------------------------------ MODULE Subsystem ------------------------------
(***************************************************************************)
(* The subsystem table of subsystem.c and the subsystem events that the     *)
(* marking operations emit through recovery.c.                              *)
(***************************************************************************)
EXTENDS Port

VARIABLES
  g_subs,        \* per subsystem: descriptor, available, degraded
  g_sub_count    \* registered subsystems

subVars == <<g_subs, g_sub_count>>

SubSlots == [desc : SubDescType, available : BOOLEAN, degraded : BOOLEAN]

SubsystemType ==
  /\ g_subs \in [SubIds -> SubSlots]
  /\ g_sub_count \in 0 .. SUBSYSTEM_CAP

\* A zeroed slot, and a slot fdir_subsystem_register has just filled.
ZeroSub == [desc |-> [is_critical_path |-> FALSE, on_entity_exhausted |-> {"NONE"}],
            available |-> FALSE, degraded |-> FALSE]
NewSub(d) == [desc |-> d, available |-> TRUE, degraded |-> FALSE]

slot_of(sub) == sub < g_sub_count    \* slot_of(sub) != NULL

\* The number of critical-path subsystems that are down in table subs.
critical_unavailable_count(subs) ==
  Cardinality({s \in 0 .. g_sub_count - 1 :
                 subs[s].desc.is_critical_path /\ ~subs[s].available})

mark_unavailable_unsafe(sub) ==
  IF slot_of(sub)
  THEN [g_subs EXCEPT ![sub].available = FALSE, ![sub].degraded = TRUE]
  ELSE g_subs
mark_degraded_unsafe(sub) ==
  IF slot_of(sub) THEN [g_subs EXCEPT ![sub].degraded = TRUE] ELSE g_subs

\* What the subsystem's handler may answer; no handler answers NONE.
on_entity_exhausted(sub) ==
  IF slot_of(sub) THEN g_subs[sub].desc.on_entity_exhausted ELSE {"NONE"}

-----------------------------------------------------------------------------
subsystem_register(d) ==
  /\ g_sub_count < SUBSYSTEM_CAP
  /\ g_subs' = [g_subs EXCEPT ![g_sub_count] = NewSub(d)]
  /\ g_sub_count' = g_sub_count + 1
  /\ UNCHANGED tm_open

subsystem_mark_available(sub) ==
  /\ slot_of(sub)
  /\ g_subs' = [g_subs EXCEPT ![sub].available = TRUE, ![sub].degraded = FALSE]
  /\ tm_open' = tm_open \ {FDIR_SUBSYSTEM_ANOMALY_ID(sub, REASON_USER)}
  /\ UNCHANGED g_sub_count

subsystem_mark_unavailable(sub) ==
  /\ slot_of(sub)
  /\ g_subs' = mark_unavailable_unsafe(sub)
  /\ tm_open' = tm_open \cup {FDIR_SUBSYSTEM_ANOMALY_ID(sub, REASON_USER)}
  /\ UNCHANGED g_sub_count

subsystem_mark_degraded(sub) ==
  /\ slot_of(sub)
  /\ g_subs' = mark_degraded_unsafe(sub)
  /\ tm_open' = tm_open \cup {FDIR_SUBSYSTEM_ANOMALY_ID(sub, REASON_USER)}
  /\ UNCHANGED g_sub_count
=============================================================================
