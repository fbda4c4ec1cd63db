CONSTANTS
  ENTITY_CAP = 2
  SUBSYSTEM_CAP = 2
  FAILURE_QUEUE_CAP = 2
  U8_MAX = 3
  TIME_MOD = 8
  BOOT_MS = 6
  CLOCK_BOUND = 0
  SAFE_THRESHOLD = 2
  BootEntities <- TwoPaths
  BootSubs <- TwoCritical
  LateEntities = {}
  LateSubs = {}
  Calls = {"submit_failure", "submit_unknown", "report_fault", "report_unknown"}
  FaultReasons = {1}
  HEALTH_CHECK_PERIOD_MS = 1
  MISSED_HEARTBEAT_TOLERANCE = 1
SPECIFICATION FairSpec
PROPERTY FaultHandled
PROPERTY WorkResumes
