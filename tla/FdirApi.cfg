CONSTANTS
  ENTITY_CAP = 1
  SUBSYSTEM_CAP = 1
  FAILURE_QUEUE_CAP = 2
  U8_MAX = 3
  TIME_MOD = 8
  BOOT_MS = 6
  CLOCK_BOUND = 2
  SAFE_THRESHOLD = 1
  BootEntities <- Empty
  BootSubs <- Empty
  LateEntities <- Late
  LateSubs <- LateCritical
  Calls = {"check_watchdogs", "handle_failure", "submit_failure", "submit_unknown", "report_fault", "report_unknown", "health_reset"}
  FaultReasons = {1}
  HEALTH_CHECK_PERIOD_MS = 1
  MISSED_HEARTBEAT_TOLERANCE = 1
SPECIFICATION Spec
INVARIANT FailedIsAccounted
INVARIANT SuppressedIsOpen
