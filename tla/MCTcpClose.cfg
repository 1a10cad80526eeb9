SPECIFICATION CloseSpec
INVARIANT ClosedDelivered
CHECK_DEADLOCK FALSE
CONSTANTS
  SEQ = 64
  WORD = 16
  TCP_WND = 5
  MSS = 2
  IRS = 1
  N = 7
  FAILS = TRUE
