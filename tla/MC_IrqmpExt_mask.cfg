CONSTANTS
  NCPU <- Ext_NCPU
  EIRQ <- Ext_EIRQ
  Lines <- Ext_Lines
  WriteValues <- Ext_WriteValues
  GlobalForceValues <- Ext_GlobalForceValues
  ForceValues <- Ext_ForceValues
  MaskValues <- Ext_MaskValues
  MpStatValues <- Ext_MpStatValues
  StatCpus <- Ext_StatCpus
SPECIFICATION Spec
INVARIANT
  ExtRequestOnlyIfUnmasked
