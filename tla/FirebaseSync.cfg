SPECIFICATION Spec
CONSTANTS
  c1 = c1
  c2 = c2
  status = status
  volunteer = volunteer
  a = a
  b = b
  Client <- MCClient
  Leaf <- MCLeaf
  Value <- MCValue
  Blank <- MCBlank
  Listens <- MCPartListens
  MaxPending = 1
  MaxInbox = 2
  MaxReconnects = 1
  MaxRestarts = 1
INVARIANTS TypeOK Converged ReadYourWrites NothingMissed EchoesInOrder IInv
CHECK_DEADLOCK FALSE
