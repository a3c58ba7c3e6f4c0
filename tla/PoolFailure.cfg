\* One ask of two peers' sessions and one slot: evictions, failing aborts,
\* creations that outlive their retirement, and liveness.
SPECIFICATION FairSpec
CONSTANTS
  a1 = a1
  a2 = a2
  s1 = s1
  s2 = s2
  None = None
  Asks = {a1}
  Sessions = {s1, s2}
  Scopes <- TwoScopes
  Runtimes = {1, 2, 3}
  MaxRuntimes = 1
  QueueCapacity = 1
  MayFail = TRUE
INVARIANTS
  BackendsOwned
PROPERTIES
  AsksSettle
  BackendsRetire
  DisposalsEnd
