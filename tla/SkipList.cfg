SPECIFICATION Spec
CONSTANTS
  Keys = {1, 2, 3}
  Nil = 4
  MaxHeight = 3
  r1 = r1
  Reader = {r1}
INVARIANTS
  LinksAreSet
  NothingSkipped
CHECK_DEADLOCK FALSE
