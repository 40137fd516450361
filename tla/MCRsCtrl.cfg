SPECIFICATION FairSpec
CONSTANTS
  ADD_IF = ADD_IF
  MM_RESET = MM_RESET
  GET_RSSI = GET_RSSI
  DEV_RESET = DEV_RESET
  c1 = c1
  c2 = c2
  Caller = {c1, c2}
  Notifier = {n1}
  Reporter = {n1}
  Cmd = {ADD_IF, MM_RESET}
  CmdOf <- MCCmdOf
  NotifyCmd = GET_RSSI
  ResetCmd = DEV_RESET
  Bits <- MCBits
  None = None
  FwDepth = 1
INVARIANTS CtrlTypeOK ResponsesReachTheirCall 
PROPERTY CallsReturn
