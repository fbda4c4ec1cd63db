CONSTANTS
  FAILURE_QUEUE_CAP = 3
  U8_MAX = 3
  QueueReports <- MCReports
  ZeroReport = "zero"
SPECIFICATION RingSpec
INVARIANT RingTypeOK
INVARIANT TailFollowsCount
PROPERTY RingImplementsFifo
PROPERTY AcceptedIsPending
