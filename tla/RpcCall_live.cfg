CONSTANTS
  Caller = {u1, u2}
  MaxCalls = 1
  Conn = {c1, c2}
  CanCancel = TRUE
  CanStop = FALSE
  Reply = {"frame", "big"}
  Pool = Pool
  Nobody = Nobody
  None = None
SPECIFICATION FairSpec
INVARIANT AtMostOnce
PROPERTY CallReturns
CHECK_DEADLOCK FALSE
