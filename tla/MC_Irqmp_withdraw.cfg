CONSTANTS
  NCPU <- MC_NCPU
  EIRQ <- MC_EIRQ
  Lines <- MC_Lines
  WriteValues <- MC_ClearHighValues
  GlobalForceValues <- MC_GlobalForceValues
  ForceValues <- MC_ForceValues
  MaskValues <- MC_MaskValues
  MpStatValues <- MC_MpStatValues
  StatCpus <- MC_StatCpus
SPECIFICATION Spec
PROPERTY
  RequestWithdrawnOnlyWhenResolved
