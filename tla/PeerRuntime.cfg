\* Three callers, two bootstraps.
SPECIFICATION FairSpec
CONSTANTS
  c1 = c1
  c2 = c2
  c3 = c3
  Callers = {c1, c2, c3}
  MaxBootstraps = 2
INVARIANTS
  OneConnector
  ConnectorsOwned
PROPERTIES
  OwnSessionDropped
  RequestsEnd
