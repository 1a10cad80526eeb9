SPECIFICATION SendSpec
INVARIANTS SendSound SendCounted
 
CHECK_DEADLOCK FALSE
CONSTANTS
  SEQ = 32
  WORD = 8
  BYTE = 5
  TCP_WND = 4
  MSS = 2
  TCP_SND_BUF = 2
  TCP_SND_QUEUELEN = 4
  BACKOFFS = 1
  ISS = 29
  N = 3
  PIECES = {1, 2}
  PWND = 2
  LOSSES = 1
  HELD = FALSE
  FAILS = TRUE
  PATIENT = TRUE
  STRAYS = FALSE
  TCP_MAXRTX = 2
