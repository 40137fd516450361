SPECIFICATION Spec
CONSTANTS
  PriMin = 4
  PriMax = 5
  Ppb = 5
  NumPri = 1
  Tolerance = 1
  Threshold = 3
  PpbThresh <- MCPpbThresh
  LongDuration = 28
  LongMaxBurst = 4
  LongPriMax = 2
  LongThresh = 2
  Distances <- MCDistances
  MaxTs <- MCMaxTs
  MaxPulses <- MCMaxPulses
  MaxDomainTs = 4
INVARIANTS
  DetectorTypeOK
  SequencesCountPulses
  
  NoRadarMissed
CHECK_DEADLOCK FALSE
