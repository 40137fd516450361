SPECIFICATION FairSpec
CONSTANTS
  Buf = {b1, b2}
  Frame = {f1, f2}
  Indication = {i1}
  Payload <- MCPayload
  CapData = 2
  CapIndi = 1
  Cap <- MCCap
  ChipDepth = 1
  None = None
INVARIANTS RxTypeOK BuffersOwnedOnce
PROPERTIES RefinesDelivery LaterArrivalWakes
CHECK_DEADLOCK FALSE
