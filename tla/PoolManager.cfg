CONSTANTS
  Caller = {u1, u2}
  Address = {a1, a2}
  PoolId = {p1, p2, p3}
  Conn = {c1, c2, c3}
  Configured = 2
  None = None
SPECIFICATION FairSpec
INVARIANTS TypeOK RightPeer PublishedIsChecked BoundedCheckers
PROPERTY LosersDrain
CHECK_DEADLOCK FALSE
