SPECIFICATION Spec
CONSTANTS
  DataSender = {d1}
  MgmtSender = {m1}
  Vif = {v1}
  CapAc = 2
  CapPower = 1
  Cap <- MCCap
  Threshold = 2
  Statuses <- MCStatusSafety
  None = None
INVARIANTS
  TxTypeOK
  NoLostWakeup
  
CHECK_DEADLOCK FALSE
