SPECIFICATION Spec
CONSTANTS
  CLOCK = 28
  LOOP_MAX = 2
  BOOT = 1
  WAKE = 2
  POLL = 2
  TOF_BOOT_TIMEOUT = 9
  SAMPLE_TIMEOUT = 8
  SENSOR_RETRY = 6
  CONFIG_LENGTH = 2
  SAMPLE = 4
  Outcomes = {"VALID", "INVALID"}
  AGE_MAX = 16
INVARIANTS TypeOK DistanceIsHealthy DistanceIsFresh ChipIsOffInFault
PROPERTIES LossIsReported ServiceReturns
