\* Three requests, two at a time, of two credentials; one slot each; one rotation;
\* two ids that calls may share.
SPECIFICATION Spec
CONSTANTS
  r1 = r1
  r2 = r2
  r3 = r3
  c1 = c1
  c2 = c2
  i1 = i1
  i2 = i2
  None = None
  Requests = {r1, r2, r3}
  Credentials = {c1, c2}
  Entries <- EntryIds
  CallIds = {i1, i2}
  MaxSessions = 2
  MaxCredentialSessions = 1
  MaxActive = 2
  MaxCredentialActive = 2
  MaxRotation = 1
SYMMETRY Symmetry
INVARIANTS
  OldCredentialQuiet
  CountersAccounted
  NoSessionLeaks
PROPERTIES
  RemovedCallAborted
CHECK_DEADLOCK FALSE
