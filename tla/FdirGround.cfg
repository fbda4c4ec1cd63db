CONSTANTS
  ENTITY_CAP = 1
  SUBSYSTEM_CAP = 1
  FAILURE_QUEUE_CAP = 1
  U8_MAX = 2
  TIME_MOD = 8
  BOOT_MS = 6
  CLOCK_BOUND = 1
  SAFE_THRESHOLD = 1
  BootEntities <- Hooked
  BootSubs <- Overruling
  LateEntities = {}
  LateSubs = {}
  Calls = {"submit_failure", "report_fault", "health_set", "set_supervision_enabled", "set_system_mode", "deescalate_system_mode", "enter_degraded_mode", "enter_safe_mode", "reassess_system_mode", "try_reboot", "mark_available", "mark_unavailable", "mark_degraded", "reset"}
  FaultReasons = {1}
  HEALTH_CHECK_PERIOD_MS = 1
  MISSED_HEARTBEAT_TOLERANCE = 0
SPECIFICATION Spec
PROPERTY OnlyGroundLowersMode
PROPERTY BypassIsPassive
