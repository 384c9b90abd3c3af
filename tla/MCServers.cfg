SPECIFICATION ServersSpec
CONSTANTS
  THREAD_MAX = 2
  MAX_QUEUE_SIZE = 1
  MAX_WAITING_COUNT = 2
  HEADER_LINES = 1
  Table <- OneHost
  Ips <- FromAAndConsole
  Localhost <- local
  LineKind <- LogEveryKind
  LastDay = 1
  MaxConn = 1
  FdLimit = 2
  SlowReconnect = TRUE
  Faults <- OtherFaults
  PING_PONG_LINE_COUNT = 1
  MaxClients = 3
  FileLines = 1
  MaxQueued = 1
  OneAtATime = TRUE
  SampleFaults = {"fopen"}
  Client = {1, 2, 3}
  OPEN_MAX = 2
INVARIANTS CheckedAreWhole  EchoSound
PROPERTIES QueueIsDrained SlotIsReleased ClientsAreServed LinesAreAnswered
CHECK_DEADLOCK FALSE
