CONSTANTS
  Caller = {u1, u2}
  Conn = {u1, u2}
  MaxCalls <- Calls
  Length = {1000, 70000, 4194304, 4194305}
  None = None
  Foreign = Foreign
  Service = {s1, s2}
  MaxChain = 2
  MaxNodes = 3
  Node = {n1, n2, n3}
  Weights = {0, 1, 3}
  Duration = 1
SPECIFICATION StagesSpec
SYMMETRY Symmetry
INVARIANTS TypeOK FrameFits OwnAnswer OwnPath OwnTargetAlone Share Known
PROPERTY TakesTurns
CHECK_DEADLOCK FALSE
