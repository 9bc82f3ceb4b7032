CONSTANTS
  Caller = {u1}
  MaxCalls = 2
  Conn = {c1, c2}
  CanCancel = TRUE
  CanStop = FALSE
  Reply = {"frame"}
  Pool = Pool
  Nobody = Nobody
  None = None
SPECIFICATION Spec
INVARIANT ReadsOwnReply
CHECK_DEADLOCK FALSE
