--------------------------- MODULE MCPeerRuntime ----------------------------
(* PeerRuntime for TLC.                                                     *)
EXTENDS PeerRuntime

CONSTANTS c1, c2, c3
=============================================================================
