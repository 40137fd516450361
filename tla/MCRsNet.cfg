SPECIFICATION Spec
CONSTANTS
  Vif = {v1, v2}
  None = None
  VifMax = 2
  StaMax = 2
  Loads <- AllLoads
  MaxInd = 1
SYMMETRY Symmetry
INVARIANTS
  NetTypeOK
  
  
  NothingOutlivesItsInterface
  SwitchWorkHasRecord
CHECK_DEADLOCK FALSE
