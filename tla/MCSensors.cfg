SPECIFICATION MCSpec
CONSTANTS
  EDGES = 4
  DHT_TIMEOUT = 2
  MAIN_TASK_Q_SIZE = 2
  MAX_REQUESTS = 2
  MAX_EDGES = 10
  DEV = TRUE
  WIDTH = 3
  QSIZE = 3
  MAX_STARTS = 3
  HUMS = {0, 255, 652, 1000}
  TEMPS = {0, 9, 21, 255, 641, 32773, 32869, 65535}
  T0 = 78
  T1 = 120
  LATE = 19
  GAP = 300
INVARIANTS IdxInBounds RetryDisarmed 
INVARIANTS FrameExact 
INVARIANTS OneShortPerPress LongWhileDown NeverDeaf
INVARIANTS ResultExact NoStorm EventPerStart
PROPERTIES BegunEnds
CHECK_DEADLOCK FALSE
