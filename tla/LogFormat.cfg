SPECIFICATION Spec
CONSTANTS
  BlockSize = 5
  HeaderSize = 2
  Sizes <- MCSizes
  MaxRecords = 4
  MaxFails = 2
INVARIANTS
  TypeOK
  CutsReadBack
  NothingForged
CHECK_DEADLOCK FALSE
