\* One peer with two connections; its key may be removed, the processes may end.
SPECIFICATION FairSpec
CONSTANTS
  b1 = b1
  b2 = b2
  b3 = b3
  k = k
  Prepared = Prepared
  None = None
  Key = k
  Keys = {k}
  Bridges = {b1, b2}
  MaxEdits = 1
  MaxServes = 2
INVARIANTS
  AllowlistEnforced
  OneServer
  SessionsInUseOpen
PROPERTIES
  NodeReachable
  IdleSessionsClose
  BridgesEnd
\* The Node and the connector may be gone for good.
CHECK_DEADLOCK FALSE
