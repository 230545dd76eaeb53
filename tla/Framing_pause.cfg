SPECIFICATION Spec
CONSTANTS
  HeaderSize = 2
  PayloadSize = 2
  MaxFrames = 1
INVARIANTS PauseIsHarmless
CHECK_DEADLOCK FALSE
