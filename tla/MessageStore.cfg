SPECIFICATION StoreSpec
CONSTANTS
  Msgs = {m1, m2}
  Capacity = 3
  MaxId = 5
  MaxFaults = 2
INVARIANTS
  StoreTypeOK
  WindowSound
  WholeWithoutFaults
PROPERTIES
  LogSpec
