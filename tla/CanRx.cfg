SPECIFICATION Spec
CONSTANTS
  CAN_RING_SIZE = 3
  RX_BUDGET = 2
  CLOCK = 3
  LOOP_MAX = 1
  TIME_MAX = 4
INVARIANTS
  TypeOK
  StampIsHonest
  OverflowIsReported
PROPERTY
  RxImplementsQueue
