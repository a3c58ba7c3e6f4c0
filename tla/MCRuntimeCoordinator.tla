------------------------ MODULE MCRuntimeCoordinator ------------------------
(* RuntimeCoordinator for TLC.                                              *)
EXTENDS RuntimeCoordinator, TLC

CONSTANTS a1, a2, p1, p2, w1, w2, b1, b2

AskSymmetry == Permutations(Asks)
=============================================================================
