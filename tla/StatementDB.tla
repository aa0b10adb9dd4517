----------------------------- MODULE StatementDB -----------------------------
(***************************************************************************)
(* The statement database of an mcnode (mcnode/db.go): three SQL tables    *)
(* that have to agree, written by the goroutines of the HTTP API and of    *)
(* the merge protocol under one write lock and one SQL transaction each.   *)
(*                                                                         *)
(* SQLite itself is external: a transaction works on a private copy (tx)   *)
(* of the committed tables (db) and a commit is atomic and durable.        *)
(* Everything around it is the program's: the order of the inserts and     *)
(* deletes, which errors abort a batch and which are skipped, the counts   *)
(* that are returned, the lock, and the creation of the tables at the      *)
(* first start.                                                            *)
(***************************************************************************)
EXTENDS Naturals, Sequences, FiniteSets

CONSTANTS
    Procs,      \* goroutines that call the database
    Stmts,      \* statements: records [id, ns, refs]
    Batches,    \* the batches callers hand in, sequences of statements
    Queries,    \* DELETE queries: records [ns, wkis, limit]
    AnyNs,      \* the namespace of a query on "*"
    None,       \* no process, no id
    MaxSeq      \* bound: no new insert is called once this many rows were numbered

ASSUME StmtsAssumption == \A s \in Stmts : {"id", "ns", "refs"} \subseteq DOMAIN s
ASSUME BatchesAssumption == Batches \subseteq Seq(Stmts)
ASSUME QueriesAssumption == \A q \in Queries : q.limit \in Nat /\ IsFiniteSet(q.wkis)
ASSUME NoneAssumption == None \notin Procs
ASSUME MaxSeqAssumption == MaxSeq \in Nat

VARIABLES
    node,       \* how far Open has come: "down", "tune", "create", "prepare", "serving"
    file,       \* stmt.db exists
    schema,     \* how many of the DDL statements of createTables are committed
    db,         \* the committed tables
    tx,         \* the tables as the open transaction sees them; db when none is open
    wlock,      \* holder of SQLDB.wlock
    pc,         \* where each goroutine is
    op,         \* the operation it is in
    batch,      \* the statements it inserts ...
    pos,        \* ... and the position of the next one
    wkis,       \* refs of the statement at hand still to insert
    query,      \* the DELETE query
    rows,       \* result rows of it still to come
    cur,        \* id of the row being deleted
    count,      \* the counter it returns when it commits
    mark        \* the highest insertion counter a reader has seen

procVars == <<pc, op, batch, pos, wkis, query, rows, cur, count>>
openVars == <<node, file, schema>>
vars == <<openVars, db, tx, wlock, procVars, mark>>

-----------------------------------------------------------------------------
(* The tables *)

Ids == {s.id : s \in Stmts}
Namespaces == {s.ns : s \in Stmts}
WKIs == UNION {s.refs : s \in Stmts}

EnvelopeRows == [counter : Nat, id : Ids, ns : Namespaces]
RefsRows == [id : Ids, wki : WKIs]
Tables == [data : SUBSET Stmts, env : SUBSET EnvelopeRows,
           refs : SUBSET RefsRows, seq : Nat]
EmptyTables == [data |-> {}, env |-> {}, refs |-> {}, seq |-> 0]

(* Slip: the tables first, and then the indices. *)
TablesFirst ==
    <<"Statement", "Envelope", "Refs", "EnvelopeId", "EnvelopeNS", "RefsId", "RefsWki">>

(* What createTables creates, in its order: EnvelopeId is the unique index *)
(* on Envelope.id, the other names that are no tables are plain indices.   *)
DDL == <<"Statement", "Envelope", "EnvelopeId", "EnvelopeNS", "Refs", "RefsId", "RefsWki">>
SchemaSize == 7

Created == {DDL[i] : i \in 1..schema}

HasId(t, id) == \E s \in t.data : s.id = id

(* Slip: without AUTOINCREMENT the next counter would be one above the     *)
(* highest row.                                                            *)
NextCounterFromRows(t) ==
    CHOOSE n \in 1..(t.seq + 1) :
        /\ \A r \in t.env : r.counter < n
        /\ n = 1 \/ \E r \in t.env : r.counter = n - 1

(* AUTOINCREMENT: the next counter is one above the highest ever committed.*)
NextCounter(t) == t.seq + 1

WithData(t, s) == [t EXCEPT !.data = @ \cup {s}]
WithEnvelope(t, s) ==
    [t EXCEPT !.env = @ \cup {[counter |-> NextCounter(t), id |-> s.id, ns |-> s.ns]},
              !.seq = NextCounter(t)]
WithRef(t, s, w) == [t EXCEPT !.refs = @ \cup {[id |-> s.id, wki |-> w]}]
WithoutData(t, i) == [t EXCEPT !.data = {s \in @ : s.id # i}]
WithoutEnvelope(t, i) == [t EXCEPT !.env = {r \in @ : r.id # i}]
\* Slip: a delete that leaves the references behind.
RefsForgotten(t, i) == t
WithoutRefs(t, i) == [t EXCEPT !.refs = {x \in @ : x.id # i}]

(* The rows of the query SELECT id a DELETE compiles to. A criterion on    *)
(* well-known ids joins with Refs: one row for each matching ref, so an id *)
(* comes once per matching ref. The query on "*" without criteria reads    *)
(* Statement, every other one Envelope.                                    *)
NsMatches(q, ns) == q.ns = AnyNs \/ q.ns = ns
QueryRows(t, q) ==
    IF q.wkis # {}
    THEN {x \in t.refs : x.wki \in q.wkis /\ \E r \in t.env : r.id = x.id /\ NsMatches(q, r.ns)}
    ELSE IF q.ns = AnyNs
    THEN {[id |-> s.id, wki |-> None] : s \in t.data}
    ELSE {[id |-> r.id, wki |-> None] : r \in {e \in t.env : NsMatches(q, e.ns)}}

(* The row sets LIMIT admits; limit 0 stands for no LIMIT clause. *)
LimitedTo(R, n) ==
    {L \in SUBSET R : IF n = 0 \/ Cardinality(R) <= n THEN L = R ELSE Cardinality(L) = n}

-----------------------------------------------------------------------------
(* Opening the database *)

Init ==
    /\ node = "down" /\ file = FALSE /\ schema = 0
    /\ db = EmptyTables /\ tx = EmptyTables /\ wlock = None
    /\ pc = [p \in Procs |-> "idle"] /\ op = [p \in Procs |-> "none"]
    /\ batch = [p \in Procs |-> <<>>] /\ pos = [p \in Procs |-> 1]
    /\ wkis = [p \in Procs |-> {}] /\ query = [p \in Procs |-> None]
    /\ rows = [p \in Procs |-> {}] /\ cur = [p \in Procs |-> None]
    /\ count = [p \in Procs |-> 0]
    /\ mark = 0

(* Stat of stmt.db decides whether the tables are made. sql.Open is lazy:  *)
(* the file appears with the first statement that is executed.             *)
Open ==
    /\ node = "down"
    /\ node' = IF file THEN "prepare" ELSE "tune"
    /\ UNCHANGED <<file, schema, db, tx, wlock, procVars, mark>>

TuneDB ==
    /\ node = "tune"
    /\ node' = "create" /\ file' = TRUE
    /\ UNCHANGED <<schema, db, tx, wlock, procVars, mark>>

(* Slip: one CREATE too many. *)
CreateTablesTwice ==
    /\ node = "create"
    /\ schema' = schema + 1
    /\ node' = IF schema = SchemaSize THEN "prepare" ELSE "create"
    /\ UNCHANGED <<file, db, tx, wlock, procVars, mark>>

(* Each DDL statement is a transaction of its own. *)
CreateTables ==
    /\ node = "create"
    /\ schema' = schema + 1
    /\ node' = IF schema' = SchemaSize THEN "prepare" ELSE "create"
    /\ UNCHANGED <<file, db, tx, wlock, procVars, mark>>

(* prepareStatements needs the tables it inserts into, and does not ask    *)
(* for the indices. If it fails, the node exits.                           *)
Prepared == {"Statement", "Envelope", "Refs"} \subseteq Created
PrepareStatements ==
    /\ node = "prepare"
    /\ node' = IF Prepared THEN "serving" ELSE "down"
    /\ UNCHANGED <<file, schema, db, tx, wlock, procVars, mark>>

(* The process ends, in any state: a crash, a failed Open, or doShutdown's *)
(* os.Exit with operations in flight. The committed tables stay.           *)
Crash ==
    /\ node # "down"
    /\ node' = "down"
    /\ tx' = db /\ wlock' = None
    /\ pc' = [p \in Procs |-> "idle"]
    /\ batch' = [p \in Procs |-> <<>>] /\ pos' = [p \in Procs |-> 1]
    /\ wkis' = [p \in Procs |-> {}] /\ query' = [p \in Procs |-> None]
    /\ rows' = [p \in Procs |-> {}] /\ cur' = [p \in Procs |-> None]
    /\ count' = [p \in Procs |-> 0] /\ op' = [p \in Procs |-> "none"]
    /\ UNCHANGED <<file, schema, db, mark>>

-----------------------------------------------------------------------------
(* Calls *)

Inserts == {"Put", "PutBatch", "Merge", "MergeBatch"}
Single == {"Put", "Merge"}

(* Put, PutBatch, Merge or MergeBatch is called. *)
CallInsert(p, o, b) ==
    /\ node = "serving" /\ pc[p] = "idle"
    /\ db.seq < MaxSeq
    /\ o \in Single => Len(b) = 1
    /\ pc' = [pc EXCEPT ![p] = "lock"] /\ op' = [op EXCEPT ![p] = o]
    /\ batch' = [batch EXCEPT ![p] = b] /\ pos' = [pos EXCEPT ![p] = 1]
    /\ count' = [count EXCEPT ![p] = 0]
    /\ UNCHANGED <<openVars, db, tx, wlock, wkis, query, rows, cur, mark>>

CallDelete(p, q) ==
    /\ node = "serving" /\ pc[p] = "idle"
    /\ pc' = [pc EXCEPT ![p] = "lock"] /\ op' = [op EXCEPT ![p] = "Delete"]
    /\ query' = [query EXCEPT ![p] = q]
    /\ count' = [count EXCEPT ![p] = 0]
    /\ UNCHANGED <<openVars, db, tx, wlock, batch, pos, wkis, rows, cur, mark>>

(* wlock.Lock and the Begin of the transaction. A Delete has its query's   *)
(* result stream opened between the two; the stream reads what is          *)
(* committed, which cannot change while the lock is held.                  *)
LockInsert(p) ==
    /\ pc[p] = "lock" /\ op[p] \in Inserts /\ wlock = None
    /\ wlock' = p
    /\ pc' = [pc EXCEPT ![p] = "data"]
    /\ UNCHANGED <<openVars, db, tx, op, batch, pos, wkis, query, rows, cur, count, mark>>

LockDelete(p) ==
    /\ pc[p] = "lock" /\ op[p] = "Delete" /\ wlock = None
    /\ wlock' = p
    /\ pc' = [pc EXCEPT ![p] = "rows"]
    /\ \E R \in LimitedTo(QueryRows(db, query[p]), query[p].limit) : rows' = [rows EXCEPT ![p] = R]
    /\ UNCHANGED <<openVars, db, tx, op, batch, pos, wkis, query, cur, count, mark>>

(* Slip: a return without the deferred Unlock. *)
ReturnLocked(p) ==
    /\ pc' = [pc EXCEPT ![p] = "idle"] /\ op' = [op EXCEPT ![p] = "none"]
    /\ batch' = [batch EXCEPT ![p] = <<>>] /\ pos' = [pos EXCEPT ![p] = 1]
    /\ wkis' = [wkis EXCEPT ![p] = {}] /\ query' = [query EXCEPT ![p] = None]
    /\ rows' = [rows EXCEPT ![p] = {}] /\ cur' = [cur EXCEPT ![p] = None]
    /\ count' = [count EXCEPT ![p] = 0]
    /\ UNCHANGED <<openVars, wlock, mark>>

(* What every return does: the local variables go, the lock is released.   *)
Return(p) ==
    /\ wlock' = None
    /\ pc' = [pc EXCEPT ![p] = "idle"] /\ op' = [op EXCEPT ![p] = "none"]
    /\ batch' = [batch EXCEPT ![p] = <<>>] /\ pos' = [pos EXCEPT ![p] = 1]
    /\ wkis' = [wkis EXCEPT ![p] = {}] /\ query' = [query EXCEPT ![p] = None]
    /\ rows' = [rows EXCEPT ![p] = {}] /\ cur' = [cur EXCEPT ![p] = None]
    /\ count' = [count EXCEPT ![p] = 0]
    /\ UNCHANGED <<openVars, mark>>

(* Slip: an error path that commits what was done so far. *)
RollbackForgotten(p) ==
    /\ db' = tx /\ UNCHANGED tx
    /\ Return(p)

(* tx.Rollback and a return with an error and the count 0. *)
Rollback(p) ==
    /\ tx' = db /\ UNCHANGED db
    /\ Return(p)

Holding == {"data", "env", "refs", "rows", "denv", "drefs"}

(* Any statement of the transaction, its Begin, its Commit and the scan of *)
(* a result row may fail (a full disk, an I/O error).                      *)
ExecFails(p) == pc[p] \in Holding /\ Rollback(p)

-----------------------------------------------------------------------------
(* The inserts of one statement: Statement, Envelope, then its Refs *)

Stmt(p) == batch[p][pos[p]]

InsertData(p) ==
    /\ pc[p] = "data" /\ pos[p] <= Len(batch[p]) /\ ~HasId(tx, Stmt(p).id)
    /\ tx' = WithData(tx, Stmt(p))
    /\ pc' = [pc EXCEPT ![p] = "env"]
    /\ UNCHANGED <<openVars, db, wlock, op, batch, pos, wkis, query, rows, cur, count, mark>>

(* Slip: duplicates counted as merged. *)
DuplicateIdCounted(p) ==
    /\ pc[p] = "data" /\ pos[p] <= Len(batch[p]) /\ HasId(tx, Stmt(p).id)
    /\ \/ /\ op[p] = "MergeBatch"
          /\ pos' = [pos EXCEPT ![p] = @ + 1]
          /\ count' = [count EXCEPT ![p] = @ + 1]
          /\ UNCHANGED <<openVars, db, tx, wlock, pc, op, batch, wkis, query, rows, cur, mark>>
       \/ op[p] # "MergeBatch" /\ Rollback(p)

(* The primary key refuses a taken id. MergeBatch goes on with the next    *)
(* statement; Put and PutBatch fail, and Merge reports that error as false. *)
DuplicateId(p) ==
    /\ pc[p] = "data" /\ pos[p] <= Len(batch[p]) /\ HasId(tx, Stmt(p).id)
    /\ \/ /\ op[p] = "MergeBatch"
          /\ pos' = [pos EXCEPT ![p] = @ + 1]
          /\ UNCHANGED <<openVars, db, tx, wlock, pc, op, batch, wkis, query, rows, cur, count, mark>>
       \/ op[p] # "MergeBatch" /\ Rollback(p)

(* The unique index, if there is one, refuses a taken id. *)
InsertEnvelope(p) ==
    /\ pc[p] = "env"
    /\ "EnvelopeId" \in Created => \A r \in tx.env : r.id # Stmt(p).id
    /\ tx' = WithEnvelope(tx, Stmt(p))
    /\ wkis' = [wkis EXCEPT ![p] = Stmt(p).refs]
    /\ pc' = [pc EXCEPT ![p] = "refs"]
    /\ UNCHANGED <<openVars, db, wlock, op, batch, pos, query, rows, cur, count, mark>>

InsertRef(p) ==
    /\ pc[p] = "refs"
    /\ \E w \in wkis[p] :
          /\ tx' = WithRef(tx, Stmt(p), w)
          /\ wkis' = [wkis EXCEPT ![p] = @ \ {w}]
    /\ UNCHANGED <<openVars, db, wlock, pc, op, batch, pos, query, rows, cur, count, mark>>

StmtDone(p) ==
    /\ pc[p] = "refs" /\ wkis[p] = {}
    /\ count' = [count EXCEPT ![p] = @ + 1]
    /\ pos' = [pos EXCEPT ![p] = @ + 1]
    /\ pc' = [pc EXCEPT ![p] = "data"]
    /\ UNCHANGED <<openVars, db, tx, wlock, op, batch, wkis, query, rows, cur, mark>>

CommitInsert(p) ==
    /\ pc[p] = "data" /\ pos[p] > Len(batch[p])
    /\ db' = tx /\ UNCHANGED tx
    /\ Return(p)

-----------------------------------------------------------------------------
(* The deletes of one result row: Statement, Envelope, then Refs *)

DeleteData(p) ==
    /\ pc[p] = "rows"
    /\ \E r \in rows[p] :
          /\ tx' = WithoutData(tx, r.id)
          /\ cur' = [cur EXCEPT ![p] = r.id]
          /\ rows' = [rows EXCEPT ![p] = @ \ {r}]
    /\ pc' = [pc EXCEPT ![p] = "denv"]
    /\ UNCHANGED <<openVars, db, wlock, op, batch, pos, wkis, query, count, mark>>

DeleteEnvelope(p) ==
    /\ pc[p] = "denv"
    /\ tx' = WithoutEnvelope(tx, cur[p])
    /\ pc' = [pc EXCEPT ![p] = "drefs"]
    /\ UNCHANGED <<openVars, db, wlock, op, batch, pos, wkis, query, rows, cur, count, mark>>

DeleteRefs(p) ==
    /\ pc[p] = "drefs"
    /\ tx' = WithoutRefs(tx, cur[p])
    /\ count' = [count EXCEPT ![p] = @ + 1]
    /\ pc' = [pc EXCEPT ![p] = "rows"]
    /\ UNCHANGED <<openVars, db, wlock, op, batch, pos, wkis, query, rows, cur, mark>>

(* rows.Next ends the stream's loop at an error of the read as it does at  *)
(* the end of the rows; rows.Err is not consulted.                         *)
StreamCut(p) ==
    /\ pc[p] = "rows" /\ rows[p] # {}
    /\ rows' = [rows EXCEPT ![p] = {}]
    /\ UNCHANGED <<openVars, db, tx, wlock, pc, op, batch, pos, wkis, query, cur, count, mark>>

CommitDelete(p) ==
    /\ pc[p] = "rows" /\ rows[p] = {}
    /\ db' = tx /\ UNCHANGED tx
    /\ Return(p)

-----------------------------------------------------------------------------
(* SELECT MAX(counter): a client that will ask for counter > mark next.    *)
QueryMaxCounter ==
    /\ node = "serving"
    /\ \E r \in db.env :
          /\ \A e \in db.env : e.counter <= r.counter
          /\ r.counter > mark /\ mark' = r.counter
    /\ UNCHANGED <<openVars, db, tx, wlock, procVars>>

InsertStep(p) ==
    \/ LockInsert(p) \/ InsertData(p) \/ DuplicateId(p) \/ InsertEnvelope(p)
    \/ InsertRef(p) \/ StmtDone(p) \/ CommitInsert(p)
DeleteStep(p) ==
    \/ LockDelete(p) \/ DeleteData(p) \/ DeleteEnvelope(p) \/ DeleteRefs(p)
    \/ CommitDelete(p)
Step(p) == InsertStep(p) \/ DeleteStep(p)

Next ==
    \/ Open \/ TuneDB \/ CreateTables \/ PrepareStatements \/ Crash
    \/ QueryMaxCounter
    \/ \E p \in Procs :
          \/ \E o \in Inserts, b \in Batches : CallInsert(p, o, b)
          \/ \E q \in Queries : CallDelete(p, q)
          \/ Step(p) \/ ExecFails(p) \/ StreamCut(p)

Spec == Init /\ [][Next]_vars

(* A goroutine that can run is run eventually. *)
Fairness == \A p \in Procs : WF_vars(Step(p))
FairSpec == Spec /\ Fairness

-----------------------------------------------------------------------------
(* Properties *)

(* Where the values of tables, transaction, lock and goroutines lie; no    *)
(* more DDL statements are executed than createTables has.                 *)
TypeOK ==
    /\ node \in {"down", "tune", "create", "prepare", "serving"}
    /\ file \in BOOLEAN /\ schema \in 0..SchemaSize
    /\ db \in Tables /\ tx \in Tables
    /\ wlock \in Procs \cup {None}
    /\ pc \in [Procs -> {"idle", "lock"} \cup Holding]
    /\ op \in [Procs -> Inserts \cup {"Delete", "none"}]
    /\ batch \in [Procs -> Batches \cup {<<>>}]
    /\ pos \in [Procs -> Nat \ {0}]
    /\ wkis \in [Procs -> SUBSET WKIs]
    /\ query \in [Procs -> Queries \cup {None}]
    /\ DOMAIN rows = Procs /\ \A p \in Procs : \A r \in rows[p] : r.id \in Ids
    /\ cur \in [Procs -> Ids \cup {None}]
    /\ count \in [Procs -> Nat]
    /\ mark \in Nat

(* No two statements under one id. *)
OnePerId(D) == \A s1, s2 \in D : s1.id = s2.id => s1 = s2

(* Envelope holds exactly one row for each statement of D, with its        *)
(* namespace.                                                              *)
EnvelopesMatch(D, E) ==
    /\ \A r \in E : \E s \in D : s.id = r.id /\ s.ns = r.ns
    /\ \A s \in D : \E r \in E : r.id = s.id
    /\ \A r1, r2 \in E : r1.id = r2.id => r1 = r2

(* Refs holds the references of the statements of D and nothing else. *)
RefsMatch(D, R) ==
    /\ \A x \in R : \E s \in D : s.id = x.id /\ x.wki \in s.refs
    /\ \A s \in D : \A w \in s.refs : [id |-> s.id, wki |-> w] \in R

CountersBelow(E, n) ==
    /\ \A r \in E : r.counter <= n
    /\ \A r1, r2 \in E : r1.counter = r2.counter => r1 = r2

Agree(t) ==
    /\ OnePerId(t.data) /\ EnvelopesMatch(t.data, t.env) /\ RefsMatch(t.data, t.refs)
    /\ CountersBelow(t.env, t.seq)

(* The three tables of db.go tell the same story in every committed state: *)
(* whatever sequence of batches, duplicates, failed statements, deletes    *)
(* and crashes led there, a query over any one of Statement, Envelope and  *)
(* Refs finds the same statements (CompileQuery picks the table by the     *)
(* shape of the query).                                                    *)
TablesAgree == Agree(db)

(* How far the tables of the open transaction agree, by the place its      *)
(* goroutine has reached: they differ by the statement at hand and by      *)
(* nothing else.                                                           *)
Cleared(T, i) == {x \in T : x.id # i}

StageAgrees(p) ==
    /\ pc[p] \in {"data", "rows"} => EnvelopesMatch(tx.data, tx.env) /\ RefsMatch(tx.data, tx.refs)
    /\ pc[p] = "env" =>
          /\ Stmt(p) \in tx.data
          /\ EnvelopesMatch(tx.data \ {Stmt(p)}, tx.env)
          /\ RefsMatch(tx.data \ {Stmt(p)}, tx.refs)
    /\ pc[p] = "refs" =>
          /\ Stmt(p) \in tx.data /\ wkis[p] \subseteq Stmt(p).refs
          /\ EnvelopesMatch(tx.data, tx.env)
          /\ RefsMatch(tx.data, tx.refs \cup {[id |-> Stmt(p).id, wki |-> w] : w \in wkis[p]})
    /\ pc[p] = "denv" =>
          /\ ~HasId(tx, cur[p])
          /\ EnvelopesMatch(tx.data, Cleared(tx.env, cur[p]))
          /\ RefsMatch(tx.data, Cleared(tx.refs, cur[p]))
    /\ pc[p] = "drefs" =>
          /\ ~HasId(tx, cur[p])
          /\ EnvelopesMatch(tx.data, tx.env)
          /\ RefsMatch(tx.data, Cleared(tx.refs, cur[p]))

(* At every point of every transaction the tables it sees agree but for    *)
(* the statement at hand; the goroutine in a transaction is the holder of  *)
(* wlock; outside of one the transaction's view is what is committed.      *)
TransactionConsistent ==
    /\ OnePerId(tx.data) /\ CountersBelow(tx.env, tx.seq)
    /\ wlock = None => tx = db
    /\ \A p \in Procs : (pc[p] \in Holding <=> wlock = p) /\ StageAgrees(p)

(* A batch adds, and a DELETE on at most one well-known id removes, as     *)
(* many statements as the call reports: MergeBatch does not count the      *)
(* duplicates it skips and counts no statement twice.                      *)
CountsStatements ==
    [][\A p \in Procs :
          /\ CommitInsert(p) => count[p] = Cardinality(db'.data) - Cardinality(db.data)
          /\ CommitDelete(p) /\ Cardinality(query[p].wkis) <= 1 =>
                count[p] = Cardinality(db.data) - Cardinality(db'.data)]_vars

(* Rows become visible above every counter a reader has been shown, also   *)
(* after the newest rows were deleted and after a rollback or restart: a   *)
(* client that asks for counter > mark misses no later statement.          *)
InsertionOrder == [][\A r \in db'.env \ db.env : r.counter > mark]_vars

(* createTables is not one transaction, and a restart skips it as soon as  *)
(* the file exists: a crash can leave a database that no later start will  *)
(* serve. But it is an empty one. Wherever the first start was cut off, a  *)
(* database that ever took a statement is not set up again, is accepted by *)
(* prepareStatements at every start to come, and has the unique index on   *)
(* Envelope.id, which prepareStatements does not ask for.                  *)
StoredIsServed ==
    db.seq > 0 => file /\ node \notin {"tune", "create"} /\ Prepared /\ "EnvelopeId" \in Created

(* Every path out of an operation releases wlock, so that the database     *)
(* does not block for good.                                                *)
LockReleased == \A p \in Procs : wlock = p ~> wlock # p

(* Every operation takes effect on the committed statements at once or not *)
(* at all, as StatementStore says: a batch of Put or PutBatch is stored    *)
(* whole or fails whole, a merge adds what is new and overwrites nothing,  *)
(* a DELETE removes nothing that its query does not match.                 *)
Store == INSTANCE StatementStore WITH store <- db.data
ImplementsStore == Store!Spec

(* "Returns the number of statements deleted" (api.go, POST /delete). *)
DeleteCountExact ==
    [][\A p \in Procs :
          CommitDelete(p) => count[p] = Cardinality(db.data) - Cardinality(db'.data)]_vars

=============================================================================
