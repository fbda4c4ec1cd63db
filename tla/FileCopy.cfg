CONSTANTS
  ENTITY_CAP = 2
  SUBSYSTEM_CAP = 1
  FAILURE_QUEUE_CAP = 2
  U8_MAX = 3
  TIME_MOD = 8
  BOOT_MS = 7
  CLOCK_BOUND = 0
  SAFE_THRESHOLD = 2
  BootEntities <- TwoWorkers
  BootSubs <- Empty
  LateEntities = {}
  LateSubs = {}
  Calls = {}
  FaultReasons = {1}
  HEALTH_CHECK_PERIOD_MS = 1
  MISSED_HEARTBEAT_TOLERANCE = 1
  JOBS = 4
  JOB_QUEUE_CAP = 1
SPECIFICATION FileCopySpec
CHECK_DEADLOCK FALSE
INVARIANT FileCopyType
INVARIANT CleanRunCopiesAll
INVARIANT EachFileOnce
INVARIANT JoinNeedsNoLock
PROPERTY JoinReturns
PROPERTY ShutdownEnds
PROPERTY WalkerServed
