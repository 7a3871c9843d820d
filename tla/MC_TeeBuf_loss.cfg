CONSTANTS
  Chars <- MC_Chars
  EOF = EOF
  NULL = NULL
  Names <- MC_Names
  Apps <- MC_Apps
  Unopenable <- MC_Unopenable
  ConsoleMayFail = TRUE
  MaxLog <- MC_MaxLog
SPECIFICATION Spec
CHECK_DEADLOCK FALSE
INVARIANT
  OverflowReportsLoss
