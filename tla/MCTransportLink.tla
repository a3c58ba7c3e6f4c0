-------------------------- MODULE MCTransportLink ---------------------------
(* TransportLink for TLC: one peer, whose key comes and goes.              *)
EXTENDS TransportLink

CONSTANTS b1, b2, b3, k
=============================================================================
