CONSTANTS
  NCPU <- One_NCPU
  EIRQ <- One_EIRQ
  Lines <- One_Lines
  WriteValues <- One_WriteValues
  GlobalForceValues <- One_NoGlobalForce
  ForceValues <- One_ForceValues
  MaskValues <- One_MaskValues
  MpStatValues <- One_NoMpStat
  StatCpus <- One_NoStatCpus
SPECIFICATION Spec
PROPERTY
  RequestEventuallyJustified
