SPECIFICATION Spec
CONSTANTS
  r1 = r1
  Requesters = {r1}
  Frames <- MCFrames
  CAPACITY = 6
  RESERVE = 4
  MAILBOXES = 1
  RX_RING = 1
  RX_BUDGET = 2
  TX_BUDGET = 2
  TX_DEADLINE = 1
  HIGH_DEADLINE = 1
  RX_TIMEOUT = 1
  CLEANUP = 1
  STATUS_PERIOD = 1
  RECOVERY = 2
INVARIANTS
  TypeOK
  BlocksAreAccounted
  QueueIsOrdered
  TelemetryIsWhole
  ReserveIsKept
  BackpressureIsReported
