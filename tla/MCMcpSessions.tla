---------------------------- MODULE MCMcpSessions ----------------------------
(* McpSessions for TLC.                                                     *)
EXTENDS McpSessions, TLC

CONSTANTS r1, r2, r3, c1, c2, i1, i2

EntryIds == 1 .. 2

Symmetry == Permutations(Requests) \cup Permutations(Credentials) \cup Permutations(CallIds)
=============================================================================
