SPECIFICATION FairSpec
CONSTANTS
  EDGES = 4
  DHT_TIMEOUT = 2
  MAIN_TASK_Q_SIZE = 2
  MAX_REQUESTS = 0
PROPERTIES TimeoutRecalled
CHECK_DEADLOCK FALSE
