SPECIFICATION Spec
CONSTANTS
  Item = {i1, i2, i3}
  Depth = 3
  NULL = NULL
INVARIANTS
  TypeOK
  SlotsMatchIndices
  PickIsNextPop
PROPERTIES
  RefinesFifo
