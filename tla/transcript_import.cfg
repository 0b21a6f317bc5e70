SPECIFICATION FairSpec
CONSTANTS
  Lines = {l1, l2, l3}
  Importers = {i1, i2}
  Window = 1
  NoCursor = NoCursor
  MaxChanges = 3
  MaxFaults = 1
CHECK_DEADLOCK FALSE
INVARIANTS ConsumedIsStored
PROPERTIES StoreCatchesUp
