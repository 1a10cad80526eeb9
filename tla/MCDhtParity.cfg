SPECIFICATION Spec
CONSTANTS
  EDGES = 4
  DHT_TIMEOUT = 2
  MAIN_TASK_Q_SIZE = 2
  MAX_REQUESTS = 0
INVARIANTS BadNotReported
CHECK_DEADLOCK FALSE
