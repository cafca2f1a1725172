SPECIFICATION Spec
CONSTANTS
  v = v
  e = e
  n = n
  User = {v, e, n}
  Role <- MCRole
  Picks = {"Volunteer", "Elder", "Organiser", ""}
  Leavers = {n}
  Newcomers = {n}
  OnRecord <- MCOnRecord
  morning = morning
  evening = evening
  Hours = {morning, evening}
  Place = {1, 2}
  BlankRow = BlankRow
  Absent = Absent
  MaxPending = 1
  MaxInbox = 1
  MaxReconnects = 0
  MaxRestarts = 1
  MaxTaps = 2
INVARIANTS
  TypeOK
  HoursAsWanted
  ShownHoursOnRecord
  PlaceWasPressed
  RowsAreCurrent
  CommentsAreShown
PROPERTIES
  OnlyEarlyLoginsStray
CHECK_DEADLOCK FALSE
