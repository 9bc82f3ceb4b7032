CONSTANTS
  Caller = {u1, u2}
  MaxCalls = 2
  Conn = {c1, c2}
  CanCancel = FALSE
  CanStop = TRUE
  Reply = {"frame", "nothing"}
  Pool = Pool
  Nobody = Nobody
  None = None
SPECIFICATION Spec
SYMMETRY Symmetry
INVARIANTS TypeOK ReadsOwnReply IdleIsQuiet
PROPERTY ImplementsRpc
CHECK_DEADLOCK FALSE
