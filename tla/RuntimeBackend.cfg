\* A Pi process that answers, refuses, is silent, ignores SIGTERM or dies, or an
\* ACP harness that ends its runs in every way, or never.
SPECIFICATION BackendSpec
CONSTANTS
  MaxTurns = 2
  MaxOut = 2
INVARIANTS
  TurnsApart
PROPERTIES
  DeathEndsCalls
  StoppedIsKilled
  SessionSpec
\* The session may be gone for good.
CHECK_DEADLOCK FALSE
