CONSTANTS
  Caller = {u1, u2}
  MaxNodes = 2
  None = None
SPECIFICATION Spec
INVARIANT InRange
