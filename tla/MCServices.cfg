SPECIFICATION ServicesSpec
CONSTANTS
  Client = {c1, c2}
  None = None
  MaxRestarts = 1
  Interim = TRUE
  MayFail = TRUE
  LastDay = 2
  MaxLen = 2
  MAX_RETRY_COUNT = 2
  MAX_WAITING_COUNT = 3
  CHECK_COUNT = 2
  MaxFaults = 3
  Prompt = TRUE
  Faults <- AllFaults
INVARIANTS AnsweredIsSpooled PendingOnce NoLostWakeup StatusTruthful DownloadIsPrefix
PROPERTIES FirstComeFirstPrinted JobnoGrows DocumentsArePrinted TodayIsDownloaded
CHECK_DEADLOCK FALSE
