--------------------------- MODULE StatementStore ---------------------------
(***************************************************************************)
(* What the statement database promises its callers: one set of signed     *)
(* statements, at most one per statement id, and operations that take      *)
(* effect at one instant between their call and their return, or not at    *)
(* all:                                                                    *)
(*                                                                         *)
(*   Publish    (Put, PutBatch) adds the whole batch, and only when no id  *)
(*              of it is taken;                                            *)
(*   MergeAll   (Merge, MergeBatch) adds, of each id that is not taken,    *)
(*              the first statement that has it; what is stored under a    *)
(*              taken id stays;                                            *)
(*   Remove     (Delete) removes statements, all of which match the query. *)
(*                                                                         *)
(* StatementDB, which spells out the three SQL tables, the transactions    *)
(* and the lock, implements this specification with store <- db.data.      *)
(***************************************************************************)
EXTENDS Sequences, Naturals

CONSTANTS
    Procs,      \* the callers
    Stmts,      \* the statements, records [id, ns, refs]
    Batches,    \* the batches, sequences of statements
    Queries,    \* the DELETE queries, records [ns, wkis, limit]
    AnyNs,      \* the namespace of a query on "*"
    None

VARIABLES
    store,      \* the statements stored
    op,         \* the operation each caller is in, "none" outside
    batch,      \* its batch
    query       \* its query

vars == <<store, op, batch, query>>

-----------------------------------------------------------------------------

IdsOf(S) == {s.id : s \in S}

(* The positions up to n of a batch whose statement is new to S: its id is *)
(* neither in S nor earlier in the batch.                                  *)
NewPositions(S, b, n) ==
    {i \in 1..n :
        /\ b[i].id \notin IdsOf(S)
        /\ \A j \in 1..(i - 1) : b[j].id # b[i].id}

(* S after the first n statements of a batch were merged into it. *)
Merged(S, b, n) == S \cup {b[i] : i \in NewPositions(S, b, n)}

(* The statements a query selects, told from the statements alone. *)
Matches(s, q) ==
    /\ q.ns = AnyNs \/ q.ns = s.ns
    /\ q.wkis = {} \/ q.wkis \cap s.refs # {}

-----------------------------------------------------------------------------

Inserts == {"Put", "PutBatch", "Merge", "MergeBatch"}

Init ==
    /\ store = {}
    /\ op = [p \in Procs |-> "none"]
    /\ batch = [p \in Procs |-> <<>>]
    /\ query = [p \in Procs |-> None]

CallInsert(p) ==
    /\ op[p] = "none"
    /\ \E o \in Inserts, b \in Batches :
          op' = [op EXCEPT ![p] = o] /\ batch' = [batch EXCEPT ![p] = b]
    /\ UNCHANGED <<store, query>>

CallDelete(p) ==
    /\ op[p] = "none"
    /\ op' = [op EXCEPT ![p] = "Delete"]
    /\ \E q \in Queries : query' = [query EXCEPT ![p] = q]
    /\ UNCHANGED <<store, batch>>

Returned(p) ==
    /\ op' = [op EXCEPT ![p] = "none"]
    /\ batch' = [batch EXCEPT ![p] = <<>>]
    /\ query' = [query EXCEPT ![p] = None]

Publish(p) ==
    /\ op[p] \in {"Put", "PutBatch"}
    /\ NewPositions(store, batch[p], Len(batch[p])) = DOMAIN batch[p]
    /\ store' = Merged(store, batch[p], Len(batch[p]))
    /\ Returned(p)

MergeAll(p) ==
    /\ op[p] \in {"Merge", "MergeBatch"}
    /\ store' = Merged(store, batch[p], Len(batch[p]))
    /\ Returned(p)

Remove(p) ==
    /\ op[p] = "Delete"
    /\ store' \subseteq store
    /\ \A s \in store \ store' : Matches(s, query[p])
    /\ Returned(p)

(* An operation fails and leaves nothing behind. *)
Fail(p) ==
    /\ op[p] # "none"
    /\ store' = store
    /\ Returned(p)

(* The process ends with operations under way: none of them took effect. *)
Reset ==
    /\ store' = store
    /\ op' = [p \in Procs |-> "none"]
    /\ batch' = [p \in Procs |-> <<>>]
    /\ query' = [p \in Procs |-> None]

Next ==
    \/ Reset
    \/ \E p \in Procs : \/ CallInsert(p) \/ CallDelete(p) \/ Publish(p)
                        \/ MergeAll(p) \/ Remove(p) \/ Fail(p)

Spec == Init /\ [][Next]_vars

=============================================================================
