CONSTANTS
  User = {u1}
  Checker = checker
  Closer = {k1}
  Conn = {c1, c2, c3}
  MaxCap = 2
  InitialCap = 1
  StackDepth = 2
  None = None
SPECIFICATION FairSpec
INVARIANTS CapacityBound NoPanic
PROPERTIES DueIsPurged CloseCompletes
CHECK_DEADLOCK FALSE
