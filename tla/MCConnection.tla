---------------------------- MODULE MCConnection ----------------------------
(* Three threads on two connections: all on one, or two on one. *)
EXTENDS Connection

CONSTANTS c1, c2, c3, k1, k2
=============================================================================
