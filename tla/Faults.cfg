SPECIFICATION Spec
CONSTANTS
  e1 = e1
  e2 = e2
  v1 = v1
  v2 = v2
  o1 = o1
  o2 = o2
  shopping = shopping
  lunch = lunch
  walk = walk
  NoName = NoName
  NoUser = NoUser
  Absent = Absent
  Elders = {e1}
  Volunteers = {v1, v2}
  Organisers = {o1}
  Running = {v1, v2, o1}
  Names = {shopping}
  Grades = {5}
  SafeEmail <- MCSafeEmail
  Filed <- MCOne
  MaxRequests = 1
  MaxPending = 2
  MaxInbox = 1
  MaxReconnects = 1
  MaxRestarts = 1
  MaxTaps = 2
  Hasty = TRUE
  ReuseNames = FALSE
  Searchers = {v1}
  Leavers = {v1}
INVARIANTS
  KeyedRowsCurrent
  ScheduledWasAccepted
CHECK_DEADLOCK FALSE
