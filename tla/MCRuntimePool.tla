---------------------------- MODULE MCRuntimePool ----------------------------
(* RuntimePool for TLC.  With two sessions, each belongs to a peer of its   *)
(* own; with one session, the peer and its workspace own the same set.     *)
EXTENDS RuntimePool, TLC

CONSTANTS a1, a2, s1, s2

OneScope  == {{s1}}
TwoScopes == {{s1}, {s2}}
Ids       == 1 .. 5

AskSymmetry == Permutations(Asks)
Symmetry    == Permutations(Asks) \cup Permutations(Sessions)
=============================================================================
