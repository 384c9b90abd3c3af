SPECIFICATION Spec
CONSTANTS
  PING_PONG_LINE_COUNT = 1
  MaxConn = 1
  FileLines = 1
  MaxQueued = 1
  OneAtATime = TRUE
  Faults = {}
PROPERTIES SwappedIsRead
CHECK_DEADLOCK FALSE
