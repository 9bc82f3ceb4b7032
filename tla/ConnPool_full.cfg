CONSTANTS
  User = {u1, u2}
  Checker = checker
  Closer = {}
  Conn = {c1, c2, c3}
  MaxCap = 1
  InitialCap = 1
  StackDepth = 3
  None = None
SPECIFICATION Spec
SYMMETRY Symmetry
INVARIANT FullPoolSafe
