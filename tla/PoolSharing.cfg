\* Two peers compete for one slot: eviction, the idle sweep, disposal.
SPECIFICATION Spec
CONSTANTS
  a1 = a1
  a2 = a2
  s1 = s1
  s2 = s2
  None = None
  Asks = {a1, a2}
  Sessions = {s1, s2}
  Scopes <- TwoScopes
  Runtimes <- Ids
  MaxRuntimes = 1
  QueueCapacity = 1
  MayFail = FALSE
SYMMETRY Symmetry
INVARIANTS
  SlotsAccounted
  QueueAccounted
  PromptedOnce
  ClosedIsEmpty
PROPERTIES
  UsedBackendAborted
