------------------------------ MODULE MCNodeGC ------------------------------
(* Bounds for TLC: three objects; statements that share one, a statement   *)
(* of two parts and one with an unknown part in front. Batches of two keys *)
(* make some statements fill a batch and others not.                       *)
EXTENDS NodeGC

CONSTANTS k1, k2, k3

MCKeys == {k1, k2, k3}
Part(K) == [known |-> TRUE, keys |-> K]
Archive == [known |-> FALSE, keys |-> {}]

MCWellFormed == {<<Part({k1})>>, <<Part({k2}), Part({k1, k3})>>}
MCStmts == MCWellFormed \cup {<<Archive, Part({k3})>>}

=============================================================================
