----------------------------- MODULE MCDirectory -----------------------------
(* Bounds for TLC: two nodes, of which one connects twice; one manifest    *)
(* that both send, one that does not verify under the same key; one        *)
(* registration that is rejected.                                          *)
EXTENDS Directory, TLC

CONSTANTS p1, p2, r1, r2, rbad, m1, m2, kid

MCPeers == {p1, p2}
MCRegs == {r1, r2, rbad}
MCRegsOf == (p1 :> {r1}) @@ (p2 :> {r2, rbad})
MCRegsOfFew == (p1 :> {r1}) @@ (p2 :> {r2})
MCManifests == {m1, m2}
MCManifestsOf == (r1 :> <<m2, m1>>) @@ (r2 :> <<m1>>) @@ (rbad :> <<>>)
MCMaxConns == (p1 :> 2) @@ (p2 :> 1)
MCKeyOf == (m1 :> kid) @@ (m2 :> kid)

=============================================================================
