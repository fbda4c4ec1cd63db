------------------------------ MODULE FdirTypes ------------------------------
(***************************************************************************)
(* The enumerations, identifiers and compile-time limits of include/types.h *)
(* that the other modules share.  Names are the source's, without FDIR_     *)
(* where no other name could be meant.                                      *)
(***************************************************************************)
EXTENDS Integers, FiniteSets

CONSTANTS
  ENTITY_CAP,            \* FDIR_ENTITY_CAP: entity slots
  SUBSYSTEM_CAP,         \* FDIR_SUBSYSTEM_CAP: subsystem slots
  FAILURE_QUEUE_CAP,     \* FDIR_FAILURE_QUEUE_CAP: depth of the failure queue
  U8_MAX                 \* largest uint8_t, 255 in the code

ASSUME CapAssumption ==
  /\ ENTITY_CAP \in 1..128            \* the #error of types.h
  /\ SUBSYSTEM_CAP \in 1..255         \* g_sub_count is a uint8_t
  /\ FAILURE_QUEUE_CAP \in Nat \ {0}
  /\ U8_MAX \in Nat \ {0}

(***************************************************************************)
(* Identifiers.  ENTITY_NONE is the only id at or above ENTITY_CAP that     *)
(* callers of the model use.  The other such ids take the same path in the  *)
(* code and differ only in the key of the event they raise: ENTITY_NONE has *)
(* none, and the key of an id from 128 on is in the range of the subsystems'.*)
(***************************************************************************)
Ids     == 0 .. ENTITY_CAP - 1
SubIds  == 0 .. SUBSYSTEM_CAP - 1
ENTITY_NONE    == 255
SUBSYSTEM_NONE == 255
AnyId    == Ids \cup {ENTITY_NONE}
AnySubId == SubIds \cup {SUBSYSTEM_NONE}

FDIR_MODE_NOMINAL        == 0
FDIR_MODE_DEGRADED       == 1
FDIR_MODE_SAFE           == 2
FDIR_MODE_REBOOT_PENDING == 3
Modes == 0 .. 3

HealthStates == {"OK", "DEGRADED", "FAILED"}

\* fdir_reason_t keeps its numbers: anomaly ids are built from them.
REASON_INIT_FAILED == 0
REASON_IO_ERROR    == 1
REASON_WATCHDOG    == 4
REASON_USER        == 6
Reasons   == 0 .. 6
NO_REASON == 255          \* (fdir_reason_t)0xFF: no fault is latched

Actions == {"NONE", "RESTART", "DEGRADE", "UNAVAILABLE", "SAFE", "REBOOT"}

FDIR_RESTART_UNLIMITED == U8_MAX

\* fdir_failure_report_t; error code, detail text and time stamp decide
\* nothing, and the flags only choose between two error codes.
Reports == [entity : AnyId, reason : Reasons]

(***************************************************************************)
(* 16-bit anomaly keys.  The reason fills the low byte, so `|' is `+'.      *)
(***************************************************************************)
FDIR_ANOMALY_ID(entity, reason) == entity * 256 + reason
FDIR_SUBSYSTEM_ANOMALY_ID(sub, reason) == 32768 + (sub % 128) * 256 + reason

\* The key carried by an entity-level event: emit_event_full leaves it 0 when
\* the event names no entity.
EventAnomalyId(entity, reason) ==
  IF entity # ENTITY_NONE THEN FDIR_ANOMALY_ID(entity, reason) ELSE 0

\* fdir_entity_desc_t.  A callback is what it can return: decide is a set of
\* actions ({"NONE"} is also the NULL pointer, which the code treats alike) and
\* restart says whether the pointer is set.
EntityDescType ==
  [max_restarts : 0 .. U8_MAX, max_watchdog_restarts : 0 .. U8_MAX,
   on_exhausted : Actions, linked_subsystem : AnySubId,
   restart : BOOLEAN, decide : (SUBSET Actions) \ {{}}]

\* fdir_subsystem_desc_t, on_entity_exhausted likewise.
SubDescType ==
  [is_critical_path : BOOLEAN, on_entity_exhausted : (SUBSET Actions) \ {{}}]
=============================================================================
