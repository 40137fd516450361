SPECIFICATION Spec
CONSTANTS
  Bus <- Buses
  User <- Users
  MaxProbe = 2
  MaxXfer = 3
INVARIANTS
  BusTypeOK
  
  
  
  PayloadWhenReady
CHECK_DEADLOCK FALSE
