SPECIFICATION Spec
CONSTANTS
  CLOCK = 19
  LOOP_MAX = 1
  RESET_TICKS = 1
  BOOT_TICKS = 1
  SEQ_LENGTH = 2
  SEQ_DELAY = 0
  SENSOR_RETRY = 9
  HEALTH_CHECK = 2
  COUNT_MAX = 1
  Deltas = {1}
  Quality = {0}
PROPERTY
  MotionIsRead
