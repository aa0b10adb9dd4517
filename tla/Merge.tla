-------------------------------- MODULE Merge --------------------------------
(***************************************************************************)
(* What a merge (mcnode/proto.go, doMergeStream) promises the goroutine    *)
(* that feeds it and waits for its result:                                 *)
(*                                                                         *)
(*   - statements are taken from the stream as long as there is no result; *)
(*   - what was taken is stored in batches, at any time;                   *)
(*   - one result is posted: without an error only at the end of the       *)
(*     stream and with all that was taken stored, with an error at any     *)
(*     time, and then what is not stored never will be;                    *)
(*   - the result counts what was added to the db, in both cases.          *)
(*                                                                         *)
(* MergeStream, which spells out the channels, the batches of keys and the *)
(* workers, implements this specification; Push, which runs a merge at the *)
(* receiver, relies on nothing else.                                       *)
(***************************************************************************)
EXTENDS FiniteSets, Sequences

CONSTANT Stmts      \* the statements

VARIABLES
    found,      \* the statement db as the merge found it
    stored,     \* the statement db
    pending,    \* the statements taken and not stored
    over,       \* the stream may end here
    results     \* the results posted, one at most

vars == <<found, stored, pending, over, results>>

Running == results = <<>>

(* The count is that of the db after the step. *)
Posts(e) == results' = <<[count |-> Cardinality(stored' \ found), err |-> e]>>

-----------------------------------------------------------------------------

Init ==
    /\ found \in SUBSET Stmts /\ stored = found
    /\ pending = {} /\ over \in BOOLEAN /\ results = <<>>

(* The next statement of the stream, which may be its last. *)
Take(s) ==
    /\ Running
    /\ pending' = pending \cup {s} /\ over' \in {over, TRUE}
    /\ UNCHANGED <<found, stored, results>>

(* The stream is closed by whoever writes it. *)
Closed ==
    /\ over' = TRUE
    /\ UNCHANGED <<found, stored, pending, results>>

Store ==
    /\ Running
    /\ stored' = stored \cup pending /\ pending' = {}
    /\ UNCHANGED <<found, over, results>>

Fail ==
    /\ Running
    /\ pending' = {} /\ Posts(TRUE)
    /\ UNCHANGED <<found, stored, over>>

Finish ==
    /\ Running /\ over
    /\ stored' = stored \cup pending /\ pending' = {} /\ Posts(FALSE)
    /\ UNCHANGED <<found, over>>

Next == Closed \/ Store \/ Fail \/ Finish \/ \E s \in Stmts : Take(s)

Spec == Init /\ [][Next]_vars

=============================================================================
