SPECIFICATION FairSpec
CONSTANTS
  SlowStart = FALSE
  DeviceLoss = TRUE
  MaxSuspends = 3
INVARIANT OrderlyEnd
PROPERTIES ResetAlone Ends
CHECK_DEADLOCK FALSE
