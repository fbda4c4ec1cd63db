CONSTANTS
  ENTITY_CAP = 2
  SUBSYSTEM_CAP = 2
  FAILURE_QUEUE_CAP = 2
  U8_MAX = 3
  TIME_MOD = 8
  BOOT_MS = 6
  CLOCK_BOUND = 5
  SAFE_THRESHOLD = 2
  BootEntities <- Empty
  BootSubs <- Empty
  LateEntities = {}
  LateSubs = {}
  Calls = {}
  FaultReasons = {0, 1}
  HEALTH_CHECK_PERIOD_MS = 1
  MISSED_HEARTBEAT_TOLERANCE = 2
  SLACK = 2
  SLEEP = 3
SPECIFICATION DemoSpec
INVARIANT ShowsWhatIsAnnounced
