SPECIFICATION Spec
CONSTANTS
  SlowStart = FALSE
  DeviceLoss = TRUE
  MaxSuspends = 3
INVARIANT ResumedWhenRestored
CHECK_DEADLOCK FALSE
