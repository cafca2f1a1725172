SPECIFICATION Spec
CONSTANTS
  Keys = {1, 2}
  NumLevels = 3
  MaxMemCompactLevel = 1
  Faults = {"newlog", "sync", "table", "manifest"}
  MaxFaults = 1
  Ops = {"put"}
  Syncs = {TRUE, FALSE}
  MaxQueue = 2
  MaxSeq = 3
  MaxFile = 9
  MaxForced = 7
  L0Stop = 3
  Manual = TRUE
  MaxSnaps = 0
  MaxIters = 1
  MaxStarts = 1
INVARIANTS
  TypeOK
  FilesOnDisk
PROPERTIES
  ServesTheStore
CHECK_DEADLOCK FALSE
