SPECIFICATION FairConnectedSpec
CONSTANTS
  DataSender = {d1}
  MgmtSender = {m1}
  Vif = {v1}
  CapAc = 1
  CapPower = 1
  Cap <- MCCap
  Threshold = 2
  Statuses <- MCStatuses
  None = None
PROPERTIES
  DataDrains
  PowerDrains
CHECK_DEADLOCK FALSE
