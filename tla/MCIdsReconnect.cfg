SPECIFICATION Spec
CONSTANTS
  THREAD_MAX = 2
  MAX_QUEUE_SIZE = 1
  MAX_WAITING_COUNT = 1
  HEADER_LINES = 0
  Table <- OneHost
  Ips <- FromAAndConsole
  Localhost <- local
  LineKind <- LogTwoRecords
  LastDay = 1
  MaxConn = 2
  FdLimit = 2
  SlowReconnect = TRUE
  Faults <- NoFaults
INVARIANTS CheckedInOrder OneTalkerPerSlot ConnectedIsCounted QueueBounded
CHECK_DEADLOCK FALSE
