\* One Peer, two calls, two edits.
SPECIFICATION FairSpec
CONSTANTS
  p1 = p1
  p2 = p2
  c1 = c1
  c2 = c2
  None = None
  Peers = {p1}
  Calls = {c1, c2}
  MaxVersion = 3
  MaxRequests = 2
INVARIANTS
  OneCredential
  BlockedQuiet
  PromiseKept
PROPERTIES
  ReloadsAcknowledged
