-------------------------------- MODULE Port --------------------------------
(***************************************************************************)
(* What lies behind fdir_port_t and the entity callbacks: the millisecond   *)
(* clock, the event sink as a ground observer reads it, the reboot hook and *)
(* the application's restart callback.  All of it is outside the library.   *)
(* The port lock is the atomicity of the actions: the library's state only  *)
(* changes between fdir_port_sync_enter and fdir_port_sync_exit.            *)
(***************************************************************************)
EXTENDS FdirTypes

CONSTANTS
  TIME_MOD,      \* 2^32 in the code: fdir_get_now_ms is a uint32_t
  BOOT_MS,       \* the reading of the clock when the run starts
  CLOCK_BOUND    \* bound: the clock advances at most this far in a run, see Elapsed

ASSUME ClockAssumption ==
  /\ TIME_MOD \in Nat \ {0}
  /\ BOOT_MS \in 0 .. TIME_MOD - 1
  /\ CLOCK_BOUND \in Nat

VARIABLES
  clock,             \* milliseconds since the start of the run
  tm_open,           \* anomaly ids raised and not cleared by FAILURE/WATCHDOG events
  reboot_requested,  \* the request_reboot hook has been called
  restart_calls      \* calls of an entity's restart(), per budget

portVars == <<clock, tm_open, reboot_requested, restart_calls>>

Times == 0 .. TIME_MOD - 1
KEY_MAX == 65535                  \* anomaly_id is a uint16_t
Keys  == 0 .. KEY_MAX
CallCounts == 0 .. U8_MAX + 1     \* bound: larger counts saturate

\* Mutant: the clock does not wrap.
NowWithoutWrap == BOOT_MS + clock
fdir_get_now_ms == (BOOT_MS + clock) % TIME_MOD

\* The time elapsed in the run at clock reading t: undoes the wrap-around, as long as
\* the run is shorter than one period of the clock (49.7 days in the code).
Elapsed(t) == (t - BOOT_MS) % TIME_MOD

PortType ==
  /\ clock \in 0 .. CLOCK_BOUND
  /\ tm_open \in SUBSET Keys
  /\ reboot_requested \in BOOLEAN
  /\ restart_calls \in [Ids -> [normal : CallCounts, watchdog : CallCounts]]

PortInit ==
  /\ clock = 0
  /\ tm_open = {}
  /\ reboot_requested = FALSE
  /\ restart_calls = [id \in Ids |-> [normal |-> 0, watchdog |-> 0]]

\* Time passes.
ClockTick ==
  /\ clock < CLOCK_BOUND
  /\ clock' = clock + 1
  /\ UNCHANGED <<tm_open, reboot_requested, restart_calls>>

\* The application's restart() has been called once more for id.
CountRestart(id, reason) ==
  LET more(n) == IF n < U8_MAX + 1 THEN n + 1 ELSE n
  IN  IF reason = REASON_WATCHDOG
      THEN [restart_calls EXCEPT ![id].watchdog = more(@)]
      ELSE [restart_calls EXCEPT ![id].normal = more(@)]
=============================================================================
