CONSTANTS
  NCPU <- One_NCPU
  EIRQ <- One_EIRQ
  Lines <- One_Lines
  WriteValues <- One_WriteValues
  GlobalForceValues <- One_NoGlobalForce
  ForceValues <- One_ForceValues
  MaskValues <- One_MaskValues
  MpStatValues <- One_MpStatValues
  StatCpus <- One_StatCpus
SPECIFICATION Spec
PROPERTY
  EligibleEventuallyRequested
