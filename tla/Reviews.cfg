SPECIFICATION Spec
CONSTANTS
  e1 = e1
  e2 = e2
  v1 = v1
  v2 = v2
  o1 = o1
  o2 = o2
  shopping = shopping
  lunch = lunch
  walk = walk
  NoName = NoName
  NoUser = NoUser
  Absent = Absent
  Elders = {e1}
  Volunteers = {v1, v2}
  Organisers = {o1}
  Running = {v1, v2}
  Names = {shopping, lunch, walk}
  Grades = {2, 5}
  SafeEmail <- MCSafeEmail
  Filed <- MCGraded
  MaxRequests = 3
  MaxPending = 1
  MaxInbox = 2
  MaxReconnects = 0
  MaxRestarts = 0
  MaxTaps = 2
  Hasty = FALSE
  ReuseNames = FALSE
  Searchers = {}
  Leavers = {}
INVARIANTS
  LoneGraderLosesNothing
  GradesAreRated
  RatingsInScale
CHECK_DEADLOCK FALSE
