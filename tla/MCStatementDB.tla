---------------------------- MODULE MCStatementDB ----------------------------
(* Bounds for TLC: three statements, two of which have the same id, with   *)
(* none, one and two references; batches of one and two, one with the same *)
(* id twice.                                                               *)
EXTENDS StatementDB

CONSTANTS i1, i2, n1, n2, w1, w2, p1, p2

s1 == [id |-> i1, ns |-> n1, refs |-> {w1, w2}]
s2 == [id |-> i2, ns |-> n2, refs |-> {w1}]
s3 == [id |-> i1, ns |-> n2, refs |-> {}]

MCStmts == {s1, s2, s3}
MCBatches == {<<s1>>, <<s1, s2>>, <<s3, s1>>}
MCQueries == {[ns |-> AnyNs, wkis |-> {}, limit |-> 0],
              [ns |-> n2, wkis |-> {}, limit |-> 1],
              [ns |-> AnyNs, wkis |-> {w1}, limit |-> 0],
              [ns |-> AnyNs, wkis |-> {w1, w2}, limit |-> 0]}
MCProcs == {p1, p2}

=============================================================================
