CONSTANTS
  ENTITY_CAP = 2
  SUBSYSTEM_CAP = 2
  FAILURE_QUEUE_CAP = 2
  U8_MAX = 3
  TIME_MOD = 8
  BOOT_MS = 7
  CLOCK_BOUND = 2
  SAFE_THRESHOLD = 2
  BootEntities <- TwoPaths
  BootSubs <- TwoCritical
  LateEntities = {}
  LateSubs = {}
  Calls = {"report_fault"}
  FaultReasons = {1}
  HEALTH_CHECK_PERIOD_MS = 1
  MISSED_HEARTBEAT_TOLERANCE = 1
SPECIFICATION FairSpec
INVARIANT TypeOK
INVARIANT LatchedIsIsolated
INVARIANT RestartsWithinBudget
INVARIANT DualPathEnforced
INVARIANT OneSlotPerEntity
PROPERTY WatchdogJustified
PROPERTY SilenceDetected
PROPERTY ScanKeepsHappening
PROPERTY ImplementsLifecycle
