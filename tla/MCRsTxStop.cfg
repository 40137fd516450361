SPECIFICATION FairSpec
CONSTANTS
  DataSender = {d1}
  MgmtSender = {}
  Vif = {v1}
  CapAc = 1
  CapPower = 1
  Cap <- MCCap
  Threshold = 2
  Statuses <- MCStatusRoom
  None = None
PROPERTY StopCompletes
CHECK_DEADLOCK FALSE
