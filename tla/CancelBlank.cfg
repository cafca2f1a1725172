SPECIFICATION Spec
CONSTANTS
  e1 = e1
  e2 = e2
  v1 = v1
  v2 = v2
  o1 = o1
  o2 = o2
  shopping = shopping
  lunch = lunch
  walk = walk
  NoName = NoName
  NoUser = NoUser
  Absent = Absent
  Elders = {e1, e2}
  Volunteers = {v1}
  Organisers = {o1}
  Running = {e1, o1}
  Names = {shopping}
  Grades = {5}
  SafeEmail <- MCSafeEmail
  Filed <- MCTwins
  MaxRequests = 2
  MaxPending = 2
  MaxInbox = 2
  MaxReconnects = 0
  MaxRestarts = 0
  MaxTaps = 3
  Hasty = FALSE
  ReuseNames = TRUE
  Searchers = {}
  Leavers = {}
PROPERTIES
  RemovesOwnOnly
CHECK_DEADLOCK FALSE
