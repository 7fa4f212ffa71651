\* Three runs on two files.
SPECIFICATION Spec
CONSTANTS
  f1 = f1
  f2 = f2
  plain = plain
  dotted = dotted
  second = second
  lost = lost
  Commands = {c1, c2, c3}
  Files = {f1, f2}
  Paths = {plain, dotted, second, lost}
  Resolved <- MCResolved
  NoParent = NoParent
  NoPath = NoPath
  Partial = Partial
CHECK_DEADLOCK FALSE
INVARIANTS SuccessLasts PublicHasSeed
PROPERTY NothingOverwritten
