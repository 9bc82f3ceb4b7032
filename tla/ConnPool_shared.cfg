CONSTANTS
  User = {u1, u2}
  Checker = checker
  Closer = {k1}
  Conn = {c1, c2, c3}
  MaxCap = 1
  InitialCap = 1
  StackDepth = 2
  None = None
SPECIFICATION Spec
SYMMETRY Symmetry
INVARIANTS TypeOK ExclusiveOwner NoLeak Usable NoSendOnClosed ClosedPoolStaysEmpty
PROPERTIES NeverClosesHealthy ImplementsLease
CHECK_DEADLOCK FALSE
