SPECIFICATION Spec
CONSTANTS
  THREAD_MAX = 2
  MAX_QUEUE_SIZE = 1
  MAX_WAITING_COUNT = 1
  HEADER_LINES = 0
  Table <- OneHost
  Ips <- FromA
  Localhost <- local
  LineKind <- LogOneRecord
  LastDay = 1
  MaxConn = 2
  FdLimit = 2
  SlowReconnect = FALSE
  Faults <- NoFaults
INVARIANTS OneTalkerPerSlot
CHECK_DEADLOCK FALSE
