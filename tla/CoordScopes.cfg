\* Two asks of a peer whose scope is edited in every way.
SPECIFICATION Spec
CONSTANTS
  a1 = a1
  a2 = a2
  p1 = p1
  p2 = p2
  w1 = w1
  w2 = w2
  b1 = b1
  b2 = b2
  None = None
  Peers = {p1}
  Workspaces = {w1}
  Backends = {b1,b2}
  Asks = {a1, a2}
  FirstPeers = {p1}
  FirstSpaces = {w1}
  MaxRotation = 2
  Cuts = {"admitted","writing"}
SYMMETRY AskSymmetry
INVARIANTS
  ScopeQuiet
  ScopesRetired
  BindingsRetired
PROPERTIES
  BindingsKept
