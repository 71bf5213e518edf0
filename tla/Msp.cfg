SPECIFICATION Spec
CONSTANTS
  MSP_MAX_PAYLOAD = 2
  Frames <- MCFrames
  Noise <- MCNoise
  NOISE_MAX = 3
INVARIANTS
  TypeOK
  PayloadFits
  AcceptsExactlyFrames
  CleanFrameIsAccepted
PROPERTIES
  PlaceIsFound
