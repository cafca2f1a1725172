SPECIFICATION Spec
CONSTANTS
  Keys = {1, 2}
  NumLevels = 3
  MaxMemCompactLevel = 1
  Faults = {"append"}
  MaxFaults = 1
  Ops = {"put"}
  Syncs = {TRUE, FALSE}
  MaxQueue = 2
  MaxSeq = 3
  MaxFile = 9
  MaxForced = 7
  L0Stop = 3
  Manual = FALSE
  MaxSnaps = 0
  MaxIters = 0
  MaxStarts = 1
INVARIANTS
  SurvivesCrash
CHECK_DEADLOCK FALSE
