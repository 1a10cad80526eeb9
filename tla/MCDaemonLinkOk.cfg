SPECIFICATION Spec
CONSTANTS
  LATCH = FALSE
  MAX_CONN = 1
  MAX_FAULTS = 0
INVARIANTS OkMeansSent
CHECK_DEADLOCK FALSE
