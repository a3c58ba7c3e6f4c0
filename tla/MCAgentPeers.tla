---------------------------- MODULE MCAgentPeers ----------------------------
(* AgentPeers for TLC.                                                      *)
EXTENDS AgentPeers

CONSTANTS p1, p2, c1, c2
=============================================================================
