\* Two processes come to the lock of a dead one.
SPECIFICATION Spec
CONSTANTS
  node = node
  maintenance = maintenance
  config = config
  n1 = n1
  n2 = n2
  m1 = m1
  c1 = c1
  c2 = c2
  p = p
  q = q
  NoPath = NoPath
  NoFile = NoFile
  Stale = Stale
  Older = Older
  Torn = Torn
  PathOf <- PathsOf
  ProcessOf <- ProcessesOf
  Rival <- Rivals
  Parties <- Together
  Processes = {p, q}
  Paths = {config}
  Attempts = {c1, c2}
  Patient = {c1, c2}
  Races = {config}
INVARIANTS
  Exclusive
CHECK_DEADLOCK FALSE
