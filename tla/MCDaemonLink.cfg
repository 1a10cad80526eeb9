SPECIFICATION MCSpec
CONSTANTS
  LATCH = FALSE
  MAX_CONN = 3
  MAX_FAULTS = 3
  BACKLOG = 2
  MAX_STOPS = 2
  MAX_REBOOTS = 2
  SENT = 2
  BODY = 3
  ROUNDS = 4
INVARIANTS ReadingsAsked OneGetAtATime SketchSound JsonSound
PROPERTIES AskServed 
CHECK_DEADLOCK FALSE
