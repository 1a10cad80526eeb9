SPECIFICATION FairSpec
CONSTANTS
  LATCH = FALSE
  MAX_CONN = 1
  MAX_FAULTS = 0
PROPERTIES AckArrives
CHECK_DEADLOCK FALSE
