CONSTANTS
  NCPU <- MC_NCPU
  EIRQ <- MC_EIRQ
  Lines <- MC_Lines
  WriteValues <- MC_WriteValues
  GlobalForceValues <- MC_GlobalForceValues
  ForceValues <- MC_ForceValues
  MaskValues <- MC_MaskValues
  MpStatValues <- MC_MpStatValues
  StatCpus <- MC_StatCpus
SPECIFICATION Spec
INVARIANTS
  TypeOK
  RequestsCurrentWhenSettled
  ForceShadowInSync
PROPERTY
  ForceStateStaysPerCpu
