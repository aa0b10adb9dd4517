------------------------------- MODULE MCPush -------------------------------
(* Bounds for TLC: three statements in two namespaces, a rule for one      *)
(* namespace and one for all; a stream of one message, so that writes      *)
(* block; a receiver that has nothing, and one that has a statement; a     *)
(* query with LIMIT 1 and one without.                                     *)
EXTENDS Push, TLC

CONSTANTS s1, s2, s3, n1, n2, exact, star

MCStmts == {s1, s2, s3}
MCNsOf == (s1 :> n1) @@ (s2 :> n1) @@ (s3 :> n2)
MCRules == {exact, star}
MCCovers == (exact :> {n1}) @@ (star :> {n1, n2})
MCFound == {{}, {s1}}
MCLimits == {0, 1}

=============================================================================
