SPECIFICATION Spec
CONSTANTS
  PING_PONG_LINE_COUNT = 1
  MaxConn = 3
  FileLines = 1
  MaxQueued = 2
  OneAtATime = FALSE
  Faults = {"accept", "fopen"}
INVARIANTS NoStandoff
CHECK_DEADLOCK FALSE
