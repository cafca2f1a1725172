SPECIFICATION Spec
CONSTANTS
  Keys = {1, 2}
  NumLevels = 3
  MaxMemCompactLevel = 2
  Faults = {"append"}
  MaxFaults = 1
  Ops = {"put", "del", "flush"}
  Syncs = {FALSE}
  MaxQueue = 1
  MaxSeq = 3
  MaxFile = 11
  MaxForced = 6
  L0Stop = 2
  Manual = FALSE
  MaxSnaps = 1
  MaxIters = 0
  MaxStarts = 0
INVARIANTS
  ReadsAgree
  NoOverlap
  ForcedIsFlushed
PROPERTIES
  ServesTheStore
CHECK_DEADLOCK FALSE
