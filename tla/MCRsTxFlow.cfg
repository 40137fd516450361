SPECIFICATION ConnectedSpec
CONSTANTS
  DataSender = {d1}
  MgmtSender = {}
  Vif = {v1, v2}
  CapAc = 2
  CapPower = 1
  Cap <- MCCap
  Threshold = 2
  Statuses <- MCStatusRoom
  None = None
INVARIANT NoVifLeftStopped
CHECK_DEADLOCK FALSE
