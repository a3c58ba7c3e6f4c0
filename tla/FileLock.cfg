\* Two Nodes, or a Node and a maintenance, whose recoveries are not overtaken; or two
\* configuration locks, whose are.
SPECIFICATION FairSpec
CONSTANTS
  node = node
  maintenance = maintenance
  config = config
  n1 = n1
  n2 = n2
  m1 = m1
  c1 = c1
  c2 = c2
  p = p
  q = q
  NoPath = NoPath
  NoFile = NoFile
  Stale = Stale
  Older = Older
  Torn = Torn
  PathOf <- PathsOf
  ProcessOf <- ProcessesOf
  Rival <- Rivals
  Parties <- Together
  Processes = {p, q}
  Paths = {node, maintenance, config}
  Attempts = {n1, n2, m1, c1, c2}
  Patient = {c1, c2}
  Races = {config}
INVARIANTS
  LockTellsOwner
  NodeOrMaintenance
PROPERTIES
  AloneGetsLock
\* A process may end at any time and leave its attempts where they are.
CHECK_DEADLOCK FALSE
