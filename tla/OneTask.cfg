SPECIFICATION FairSpec
CONSTANTS
  e1 = e1
  e2 = e2
  v1 = v1
  v2 = v2
  o1 = o1
  o2 = o2
  shopping = shopping
  lunch = lunch
  walk = walk
  NoName = NoName
  NoUser = NoUser
  Absent = Absent
  Elders = {e1}
  Volunteers = {v1}
  Organisers = {o1}
  Running = {e1, v1, o1}
  Names = {shopping}
  Grades = {5}
  SafeEmail <- MCSafeEmail
  Filed <- MCNone
  MaxRequests = 2
  MaxPending = 1
  MaxInbox = 1
  MaxReconnects = 0
  MaxRestarts = 0
  MaxTaps = 4
  Hasty = FALSE
  ReuseNames = FALSE
  Searchers = {}
  Leavers = {}
INVARIANTS
  KeyedRowsCurrent
PROPERTIES
  ActivitiesOnlyGrow
  EventuallySettled
  KeepsTheBoard
CHECK_DEADLOCK FALSE
