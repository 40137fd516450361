SPECIFICATION Spec
CONSTANTS
  Vif = {v1, v2}
  None = None
  VifMax = 2
  StaMax = 2
  Loads <- CacLoads
  MaxInd = 1
SYMMETRY Symmetry
PROPERTY CacStartsAlone
CHECK_DEADLOCK FALSE
