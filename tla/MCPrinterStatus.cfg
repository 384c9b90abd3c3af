SPECIFICATION FairSpec
CONSTANTS
  Interim = FALSE
  MayFail = FALSE
PROPERTIES AnyPiecesUnderstood
CHECK_DEADLOCK FALSE
