\* An ask interrupted right after its admission.
SPECIFICATION FairSpec
CONSTANTS
  a1 = a1
  a2 = a2
  p1 = p1
  p2 = p2
  w1 = w1
  w2 = w2
  b1 = b1
  b2 = b2
  None = None
  Peers = {p1}
  Workspaces = {w1}
  Backends = {b1}
  Asks = {a1}
  FirstPeers = {p1}
  FirstSpaces = {w1}
  MaxRotation = 1
  Cuts = {"admitted"}
PROPERTIES
  EditsAcknowledged
