SPECIFICATION Spec
CONSTANTS
  CLOCK = 13
  LOOP_MAX = 3
  PERIOD = 2
  HOLD = 1
  LAMP_GAP = 1
INVARIANTS
  TypeOK
  GridIsKept
  PulseEnds
  LampIsTruthful
