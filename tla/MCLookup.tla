------------------------------- MODULE MCLookup -------------------------------
(* Bounds for TLC: two directories and two peers, of which one is the      *)
(* node itself; two namespaces, of which a prefix covers both.             *)
EXTENDS Lookup, TLC

CONSTANTS d1, d2, me, p1, na, nb, pre, m1

MCPeers == {me, p1}
MCNamesOf == (me :> {na}) @@ (p1 :> {nb})
MCManifestsOf == (me :> {}) @@ (p1 :> {m1})
MCEntityOf == m1 :> na
MCCovers == (All :> {na, nb}) @@ (na :> {na}) @@ (pre :> {na, nb})
MCQuestions ==
    {[kind |-> "lookup"], [kind |-> "listns"],
     [kind |-> "list", ns |-> pre, all |-> FALSE], [kind |-> "listmf", entity |-> All]}

=============================================================================
