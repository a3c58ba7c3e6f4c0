-------------------------- MODULE MCRuntimeBackend --------------------------
(* RuntimeBackend for TLC: enough turns that one can meet what another     *)
(* left behind.                                                            *)
EXTENDS RuntimeBackend
=============================================================================
