CONSTANTS
  NCPU <- Sixteen_NCPU
  EIRQ <- Sixteen_EIRQ
  Lines <- Sixteen_Lines
  WriteValues <- Sixteen_NoValues
  GlobalForceValues <- Sixteen_NoValues
  ForceValues <- Sixteen_NoValues
  MaskValues <- Sixteen_NoValues
  MpStatValues <- Sixteen_MpStatValues
  StatCpus <- Sixteen_StatCpus
SPECIFICATION Spec
INVARIANT
  MpStatReadIsLive
