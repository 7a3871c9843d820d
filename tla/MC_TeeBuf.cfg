CONSTANTS
  Chars <- MC_Chars
  EOF = EOF
  NULL = NULL
  Names <- MC_Names
  Apps <- MC_Apps
  Unopenable <- MC_Unopenable
  ConsoleMayFail = FALSE
  MaxLog <- MC_MaxLog
SPECIFICATION Spec
CHECK_DEADLOCK FALSE
INVARIANTS
  TypeOK
  LogFileIsConsoleTail
