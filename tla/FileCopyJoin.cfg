CONSTANTS
  ENTITY_CAP = 1
  SUBSYSTEM_CAP = 1
  FAILURE_QUEUE_CAP = 2
  U8_MAX = 3
  TIME_MOD = 8
  BOOT_MS = 0
  CLOCK_BOUND = 2
  SAFE_THRESHOLD = 1
  BootEntities <- OneWorker
  BootSubs <- Empty
  LateEntities = {}
  LateSubs = {}
  Calls = {}
  FaultReasons = {1}
  HEALTH_CHECK_PERIOD_MS = 1
  MISSED_HEARTBEAT_TOLERANCE = 1
  JOBS = 1
  JOB_QUEUE_CAP = 1
SPECIFICATION TimedFileCopySpec
CHECK_DEADLOCK FALSE
PROPERTY JoinReturns
