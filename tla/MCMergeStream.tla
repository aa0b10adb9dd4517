---------------------------- MODULE MCMergeStream ----------------------------
(* Bounds for TLC: two workers and a queue of one batch, so that the queue *)
(* is full while a worker fails; batches of two keys and two statements,   *)
(* so that statements fill batches in the loop and leave some for after    *)
(* it; streams with a shared object, a repeated statement and a bad        *)
(* statement; a peer that lacks an object; a first merge, and one that     *)
(* finds what a partial merge left.                                        *)
EXTENDS MergeStream, TLC

CONSTANTS a, b, c, bad, k1, k2, k3, w1, w2

MCStmts == {a, b, c, bad}
MCGood == {a, b, c}
MCKeys == {k1, k2, k3}
MCKeysOf == (a :> {k1, k2}) @@ (b :> {k2, k3}) @@ (c :> {k2}) @@ (bad :> {})
MCInputs == {<<a, b>>, <<b, a, b>>, <<a, b, c>>, <<c, a, bad>>}
MCPeers == {{k1, k2, k3}, {k1, k2}}
MCFound == {[db |-> {}, ds |-> {}], [db |-> {a}, ds |-> {k1}]}
MCWorkers == {w1, w2}

=============================================================================
