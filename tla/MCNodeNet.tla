------------------------------ MODULE MCNodeNet ------------------------------
(* Bounds for TLC: two requests at a time, two networks, one directory. *)
EXTENDS NodeNet, TLC

CONSTANTS c1, c2, d1

=============================================================================
