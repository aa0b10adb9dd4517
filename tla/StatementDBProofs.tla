------------------------- MODULE StatementDBProofs -------------------------
(***************************************************************************)
(* Proofs about StatementDB, for any set of goroutines, statements,        *)
(* batches and queries.                                                    *)
(*                                                                         *)
(* TypeOK needs two facts beside itself: where a goroutine stands bounds   *)
(* its position in the batch and its current id (Bookkeeping), and how far *)
(* Open has come bounds the number of tables (OpenProgress). Served adds   *)
(* that rows are only ever committed under a schema that a start has       *)
(* accepted. TablesAgree is not inductive: a commit installs the tables of *)
(* the transaction, so TransactionConsistent carries the agreement through *)
(* its steps. On top of these rest the refinement of StatementStore        *)
(* (Progress), the order in which rows become visible (Numbered) and the   *)
(* counts (Tally).                                                         *)
(***************************************************************************)
EXTENDS StatementDB, FiniteSetTheorems, TLAPS

OpenProgress ==
    /\ ~file => schema = 0
    /\ node = "tune" => ~file
    /\ node = "create" => file /\ schema < SchemaSize
    /\ node \in {"prepare", "serving"} => file
    /\ node = "serving" => schema >= 5

Bookkeeping ==
    \A p \in Procs :
        /\ pc[p] \in {"env", "refs"} => pos[p] <= Len(batch[p])
        /\ pc[p] \in {"denv", "drefs"} => cur[p] \in Ids

Typed == TypeOK /\ OpenProgress /\ Bookkeeping

-----------------------------------------------------------------------------
(* Types *)

(* Refs is the fifth thing createTables creates, after the other tables    *)
(* and the unique index.                                                   *)
LEMMA SchemaPrepared ==
    ASSUME schema \in 0..SchemaSize
    PROVE  /\ Prepared <=> schema >= 5
           /\ schema >= 5 => "EnvelopeId" \in Created
<1>1. /\ DDL[1] = "Statement" /\ DDL[2] = "Envelope" /\ DDL[3] = "EnvelopeId"
      /\ DDL[4] = "EnvelopeNS" /\ DDL[5] = "Refs"
  BY DEF DDL
<1>2. schema >= 5 => {DDL[1], DDL[2], DDL[3], DDL[5]} \subseteq Created
  BY DEF Created, SchemaSize
<1>3. ASSUME schema < 5 PROVE "Refs" \notin Created
  <2>1. \A i \in 1..schema : i \in {1, 2, 3, 4}
    BY <1>3 DEF SchemaSize
  <2>2. \A i \in 1..schema : DDL[i] # "Refs"
    BY <1>1, <2>1
  <2> QED BY <2>2 DEF Created
<1>4. schema >= 5 \/ schema < 5
  BY DEF SchemaSize
<1> QED BY <1>1, <1>2, <1>3, <1>4 DEF Prepared

LEMMA TablesTyped ==
    ASSUME NEW t \in Tables
    PROVE  /\ \A s \in Stmts : WithData(t, s) \in Tables /\ WithEnvelope(t, s) \in Tables
           /\ \A s \in Stmts : \A w \in s.refs : WithRef(t, s, w) \in Tables
           /\ \A i \in Ids : /\ WithoutData(t, i) \in Tables
                             /\ WithoutEnvelope(t, i) \in Tables
                             /\ WithoutRefs(t, i) \in Tables
<1>1. \A s \in Stmts : s.id \in Ids /\ s.ns \in Namespaces /\ s.refs \subseteq WKIs
  BY DEF Ids, Namespaces, WKIs
<1>2. \A s \in Stmts : WithData(t, s) \in Tables
  BY DEF WithData, Tables
<1>3. ASSUME NEW s \in Stmts
      PROVE  WithEnvelope(t, s) \in Tables
  <2>1. NextCounter(t) \in Nat
    BY DEF NextCounter, Tables
  <2>2. [counter |-> NextCounter(t), id |-> s.id, ns |-> s.ns] \in EnvelopeRows
    BY <1>1, <2>1 DEF EnvelopeRows
  <2> QED BY <2>1, <2>2 DEF WithEnvelope, Tables
<1>4. ASSUME NEW s \in Stmts, NEW w \in s.refs
      PROVE  WithRef(t, s, w) \in Tables
  <2>1. [id |-> s.id, wki |-> w] \in RefsRows
    BY <1>1 DEF RefsRows
  <2> QED BY <2>1 DEF WithRef, Tables
<1>5. \A i \in Ids : WithoutData(t, i) \in Tables /\ WithoutEnvelope(t, i) \in Tables
                     /\ WithoutRefs(t, i) \in Tables
  BY DEF WithoutData, WithoutEnvelope, WithoutRefs, Tables
<1> QED BY <1>2, <1>3, <1>4, <1>5

LEMMA CurrentStatement ==
    ASSUME TypeOK, NEW p \in Procs, pos[p] <= Len(batch[p])
    PROVE  Stmt(p) \in Stmts
<1>1. batch[p] \in Seq(Stmts)
  BY BatchesAssumption DEF TypeOK
<1>2. pos[p] \in 1..Len(batch[p])
  BY <1>1 DEF TypeOK
<1> QED BY <1>1, <1>2 DEF Stmt

LEMMA QueryRowsTyped ==
    ASSUME NEW t \in Tables, NEW q, NEW n, NEW R \in LimitedTo(QueryRows(t, q), n)
    PROVE  \A r \in R : r.id \in Ids
<1>1. \A r \in QueryRows(t, q) : r.id \in Ids
  BY DEF QueryRows, Tables, RefsRows, EnvelopeRows, Ids
<1> QED BY <1>1 DEF LimitedTo

LEMMA InitTyped == Init => Typed
<1> SUFFICES ASSUME Init PROVE Typed
  OBVIOUS
<1>1. EmptyTables \in Tables
  BY DEF EmptyTables, Tables
<1>2. TypeOK
  <2>0. file \in BOOLEAN
    BY Zenon DEF Init
  <2>1. schema \in 0..SchemaSize /\ mark \in Nat
    BY DEF Init, SchemaSize
  <2>2. node \in {"down", "tune", "create", "prepare", "serving"} /\ wlock \in Procs \cup {None}
    BY DEF Init
  <2>3. /\ pc \in [Procs -> {"idle", "lock"} \cup Holding]
        /\ op \in [Procs -> Inserts \cup {"Delete", "none"}]
        /\ batch \in [Procs -> Batches \cup {<<>>}]
        /\ query \in [Procs -> Queries \cup {None}]
        /\ cur \in [Procs -> Ids \cup {None}]
    BY DEF Init
  <2>4. pos \in [Procs -> Nat \ {0}] /\ count \in [Procs -> Nat] /\ wkis \in [Procs -> SUBSET WKIs]
    BY DEF Init
  <2>5. DOMAIN rows = Procs /\ \A p \in Procs : \A r \in rows[p] : r.id \in Ids
    BY DEF Init
  <2> QED BY <1>1, <2>0, <2>1, <2>2, <2>3, <2>4, <2>5 DEF Init, TypeOK
<1>3. OpenProgress /\ Bookkeeping
  BY DEF Init, OpenProgress, Bookkeeping
<1> QED BY <1>2, <1>3 DEF Typed

LEMMA TypedStep == Typed /\ [Next]_vars => Typed'
<1> SUFFICES ASSUME Typed, [Next]_vars PROVE Typed'
  OBVIOUS
<1> USE DEF Typed
<1>1. CASE Open
  BY <1>1 DEF Open, TypeOK, OpenProgress, Bookkeeping, procVars
<1>2. CASE TuneDB
  BY <1>2 DEF TuneDB, TypeOK, OpenProgress, Bookkeeping, procVars, SchemaSize
<1>3. CASE CreateTables
  BY <1>3 DEF CreateTables, TypeOK, OpenProgress, Bookkeeping, procVars, SchemaSize
<1>4. CASE PrepareStatements
  BY <1>4, SchemaPrepared DEF PrepareStatements, TypeOK, OpenProgress, Bookkeeping, procVars
<1>5. CASE Crash
  BY <1>5 DEF Crash, TypeOK, OpenProgress, Bookkeeping
<1>6. CASE QueryMaxCounter
  BY <1>6 DEF QueryMaxCounter, TypeOK, OpenProgress, Bookkeeping, procVars, openVars,
              Tables, EnvelopeRows
<1>7. ASSUME NEW p \in Procs, NEW o \in Inserts, NEW b \in Batches, CallInsert(p, o, b)
      PROVE  Typed'
  BY <1>7 DEF CallInsert, TypeOK, OpenProgress, Bookkeeping, openVars
<1>8. ASSUME NEW p \in Procs, NEW q \in Queries, CallDelete(p, q)
      PROVE  Typed'
  BY <1>8 DEF CallDelete, TypeOK, OpenProgress, Bookkeeping, openVars
<1>9. ASSUME NEW p \in Procs, Return(p), db' \in Tables, tx' \in Tables
      PROVE  Typed'
  BY <1>9 DEF Return, TypeOK, OpenProgress, Bookkeeping, openVars
<1>10. ASSUME NEW p \in Procs, Rollback(p)
       PROVE  Typed'
  <2>1. db' \in Tables /\ tx' \in Tables /\ Return(p)
    BY <1>10 DEF Rollback, TypeOK
  <2> QED BY <1>9, <2>1
<1>11. ASSUME NEW p \in Procs, InsertStep(p)
       PROVE  Typed'
  <2>1. CASE LockInsert(p)
    BY <2>1 DEF LockInsert, TypeOK, OpenProgress, Bookkeeping, openVars, Holding
  <2>2. CASE InsertData(p)
    <3>1. tx' \in Tables
      BY <2>2, TablesTyped, CurrentStatement DEF InsertData, TypeOK
    <3> QED BY <2>2, <3>1 DEF InsertData, TypeOK, OpenProgress, Bookkeeping, openVars, Holding
  <2>3. CASE DuplicateId(p)
    <3>1. CASE Rollback(p)
      BY <3>1, <1>10
    <3>2. CASE /\ pc[p] = "data"
               /\ pos' = [pos EXCEPT ![p] = @ + 1]
               /\ UNCHANGED <<openVars, db, tx, wlock, pc, op, batch, wkis, query, rows, cur, count, mark>>
      BY <3>2 DEF TypeOK, OpenProgress, Bookkeeping, openVars
    <3> QED BY <2>3, <3>1, <3>2 DEF DuplicateId
  <2>4. CASE InsertEnvelope(p)
    <3>1. Stmt(p) \in Stmts
      BY <2>4, CurrentStatement DEF InsertEnvelope, Bookkeeping
    <3>2. tx' \in Tables
      BY <2>4, <3>1, TablesTyped DEF InsertEnvelope, TypeOK
    <3>3. Stmt(p).refs \in SUBSET WKIs
      BY <3>1 DEF WKIs
    <3> QED BY <2>4, <3>2, <3>3 DEF InsertEnvelope, TypeOK, OpenProgress, Bookkeeping, openVars, Holding
  <2>5. CASE InsertRef(p)
    <3>1. Stmt(p) \in Stmts
      BY <2>5, CurrentStatement DEF InsertRef, Bookkeeping
    <3>2. PICK w \in wkis[p] : /\ tx' = WithRef(tx, Stmt(p), w)
                               /\ wkis' = [wkis EXCEPT ![p] = @ \ {w}]
      BY <2>5 DEF InsertRef
    <3>3. tx' \in Tables
      <4>1. [id |-> Stmt(p).id, wki |-> w] \in RefsRows
        BY <3>1 DEF RefsRows, Ids, TypeOK
      <4> QED BY <4>1, <3>2 DEF WithRef, Tables, TypeOK
    <3> QED BY <2>5, <3>2, <3>3 DEF InsertRef, TypeOK, OpenProgress, Bookkeeping, openVars, Holding
  <2>6. CASE StmtDone(p)
    BY <2>6 DEF StmtDone, TypeOK, OpenProgress, Bookkeeping, openVars, Holding
  <2>7. CASE CommitInsert(p)
    BY <2>7, <1>9 DEF CommitInsert, TypeOK
  <2> QED BY <1>11, <2>1, <2>2, <2>3, <2>4, <2>5, <2>6, <2>7 DEF InsertStep
<1>12. ASSUME NEW p \in Procs, DeleteStep(p)
       PROVE  Typed'
  <2>1. CASE LockDelete(p)
    <3>1. PICK R \in LimitedTo(QueryRows(db, query[p]), query[p].limit) :
                 rows' = [rows EXCEPT ![p] = R]
      BY <2>1 DEF LockDelete
    <3>2. \A r \in R : r.id \in Ids
      BY <3>1, QueryRowsTyped DEF TypeOK
    <3> QED BY <2>1, <3>1, <3>2 DEF LockDelete, TypeOK, OpenProgress, Bookkeeping, openVars, Holding
  <2>2. CASE DeleteData(p)
    <3>1. PICK r \in rows[p] : /\ tx' = WithoutData(tx, r.id)
                               /\ cur' = [cur EXCEPT ![p] = r.id]
                               /\ rows' = [rows EXCEPT ![p] = @ \ {r}]
      BY <2>2 DEF DeleteData
    <3>2. r.id \in Ids
      BY <3>1 DEF TypeOK
    <3>3. tx' \in Tables
      BY <3>1, <3>2, TablesTyped DEF TypeOK
    <3> QED BY <2>2, <3>1, <3>2, <3>3 DEF DeleteData, TypeOK, OpenProgress, Bookkeeping, openVars, Holding
  <2>3. CASE DeleteEnvelope(p)
    <3>1. tx' \in Tables
      BY <2>3, TablesTyped DEF DeleteEnvelope, TypeOK, Bookkeeping
    <3> QED BY <2>3, <3>1 DEF DeleteEnvelope, TypeOK, OpenProgress, Bookkeeping, openVars, Holding
  <2>4. CASE DeleteRefs(p)
    <3>1. tx' \in Tables
      BY <2>4, TablesTyped DEF DeleteRefs, TypeOK, Bookkeeping
    <3> QED BY <2>4, <3>1 DEF DeleteRefs, TypeOK, OpenProgress, Bookkeeping, openVars, Holding
  <2>5. CASE CommitDelete(p)
    BY <2>5, <1>9 DEF CommitDelete, TypeOK
  <2> QED BY <1>12, <2>1, <2>2, <2>3, <2>4, <2>5 DEF DeleteStep
<1>13. ASSUME NEW p \in Procs, ExecFails(p)
       PROVE  Typed'
  BY <1>13, <1>10 DEF ExecFails
<1>14. ASSUME NEW p \in Procs, StreamCut(p)
       PROVE  Typed'
  BY <1>14 DEF StreamCut, TypeOK, OpenProgress, Bookkeeping, openVars
<1>15. CASE UNCHANGED vars
  BY <1>15 DEF vars, procVars, openVars, TypeOK, OpenProgress, Bookkeeping
<1> QED
  BY <1>1, <1>2, <1>3, <1>4, <1>5, <1>6, <1>7, <1>8, <1>11, <1>12, <1>13, <1>14, <1>15
     DEF Next, Step

(* The state of the database, of its transaction and of every goroutine is *)
(* well typed in every reachable state of db.go's operations.              *)
THEOREM TypeCorrect == Spec => []TypeOK
<1>1. Typed => TypeOK
  BY DEF Typed
<1> QED BY <1>1, InitTyped, TypedStep, PTL DEF Spec

-----------------------------------------------------------------------------
(* Whatever is stored is served *)

(* Only a goroutine of a serving node is in an operation, and rows are     *)
(* committed by those only: so the tables, once there are rows, are those  *)
(* a start has found complete, and createTables is past.                   *)
OnlyServing == \A p \in Procs : pc[p] # "idle" => node = "serving"
StoredUnderSchema == db.seq > 0 => file /\ schema >= 5 /\ node \notin {"tune", "create"}
Served == OnlyServing /\ StoredUnderSchema

LEMMA ServedStep == Typed /\ Served /\ [Next]_vars => Served'
<1> SUFFICES ASSUME Typed, Served, [Next]_vars PROVE Served'
  OBVIOUS
<1> USE DEF Served
<1>1. pc \in [Procs -> {"idle", "lock"} \cup Holding] /\ schema \in 0..SchemaSize
  BY DEF Typed, TypeOK
<1>2. CASE Open \/ TuneDB \/ CreateTables \/ PrepareStatements
  <2>1. node # "serving" /\ pc' = pc /\ db' = db
    BY <1>2 DEF Open, TuneDB, CreateTables, PrepareStatements, procVars
  <2>2. OnlyServing'
    BY <2>1 DEF OnlyServing
  <2>3. StoredUnderSchema'
    BY <1>2, <2>1 DEF StoredUnderSchema, Open, TuneDB, CreateTables, PrepareStatements
  <2> QED BY <2>2, <2>3
<1>3. CASE Crash
  BY <1>3 DEF Crash, OnlyServing, StoredUnderSchema
<1>4. CASE UNCHANGED vars \/ QueryMaxCounter
  BY <1>4 DEF vars, procVars, openVars, QueryMaxCounter, OnlyServing, StoredUnderSchema
<1>5. ASSUME NEW p \in Procs, node = "serving", UNCHANGED openVars,
             \A r \in Procs \ {p} : pc'[r] = pc[r]
      PROVE  Served'
  <2>1. file /\ schema >= 5
    BY <1>5 DEF Typed, OpenProgress
  <2> QED BY <1>5, <2>1 DEF openVars, OnlyServing, StoredUnderSchema
<1>6. ASSUME NEW p \in Procs, NEW o \in Inserts, NEW b \in Batches, CallInsert(p, o, b)
      PROVE  Served'
  BY <1>1, <1>5, <1>6 DEF CallInsert
<1>7. ASSUME NEW p \in Procs, NEW q \in Queries, CallDelete(p, q)
      PROVE  Served'
  BY <1>1, <1>5, <1>7 DEF CallDelete
<1>8. ASSUME NEW p \in Procs, Return(p)
      PROVE  UNCHANGED openVars /\ \A r \in Procs \ {p} : pc'[r] = pc[r]
  BY <1>1, <1>8 DEF Return
<1>9. ASSUME NEW p \in Procs, InsertStep(p)
      PROVE  Served'
  <2>1. node = "serving"
    BY <1>9 DEF InsertStep, OnlyServing, LockInsert, InsertData, DuplicateId, InsertEnvelope,
                InsertRef, StmtDone, CommitInsert
  <2>2. UNCHANGED openVars /\ \A r \in Procs \ {p} : pc'[r] = pc[r]
    BY <1>1, <1>8, <1>9 DEF InsertStep, LockInsert, InsertData, DuplicateId, InsertEnvelope,
                InsertRef, StmtDone, CommitInsert, Rollback
  <2> QED BY <1>5, <2>1, <2>2
<1>10. ASSUME NEW p \in Procs, DeleteStep(p)
       PROVE  Served'
  <2>1. node = "serving"
    BY <1>10 DEF DeleteStep, OnlyServing, LockDelete, DeleteData, DeleteEnvelope, DeleteRefs,
                 CommitDelete
  <2>2. UNCHANGED openVars /\ \A r \in Procs \ {p} : pc'[r] = pc[r]
    BY <1>1, <1>8, <1>10 DEF DeleteStep, LockDelete, DeleteData, DeleteEnvelope, DeleteRefs,
                 CommitDelete
  <2> QED BY <1>5, <2>1, <2>2
<1>11. ASSUME NEW p \in Procs, ExecFails(p) \/ StreamCut(p)
       PROVE  Served'
  <2>1. node = "serving"
    BY <1>11 DEF ExecFails, StreamCut, OnlyServing, Holding
  <2>2. UNCHANGED openVars /\ \A r \in Procs \ {p} : pc'[r] = pc[r]
    BY <1>1, <1>8, <1>11 DEF ExecFails, StreamCut, Rollback
  <2> QED BY <1>5, <2>1, <2>2
<1> QED
  BY <1>2, <1>3, <1>4, <1>6, <1>7, <1>9, <1>10, <1>11 DEF Next, Step

(* Rows are stored only in a database that any later start serves and in   *)
(* which the unique index guards the Envelope: a start cut short within    *)
(* createTables, whatever is left of it, is never followed by an insert    *)
(* into part of a schema, nor by a second createTables over stored rows.   *)
THEOREM StoredIsAlwaysServed == Spec => []StoredIsServed
<1>1. Init => Served
  BY DEF Init, Served, OnlyServing, StoredUnderSchema, EmptyTables
<1>2. Typed /\ Served => StoredIsServed
  <2> SUFFICES ASSUME Typed, Served PROVE StoredIsServed
    OBVIOUS
  <2>1. schema \in 0..SchemaSize
    BY DEF Typed, TypeOK
  <2> QED BY <2>1, SchemaPrepared DEF Served, StoredUnderSchema, StoredIsServed
<1> QED BY <1>1, <1>2, InitTyped, TypedStep, ServedStep, PTL DEF Spec

-----------------------------------------------------------------------------
(* Agreement of the tables *)

LEMMA StatementAdded ==
    ASSUME NEW D, NEW s, OnePerId(D), \A d \in D : d.id # s.id
    PROVE  OnePerId(D \cup {s}) /\ (D \cup {s}) \ {s} = D
BY DEF OnePerId

LEMMA EnvelopeAdded ==
    ASSUME NEW D, NEW E, NEW s \in D, NEW c, OnePerId(D), EnvelopesMatch(D \ {s}, E)
    PROVE  EnvelopesMatch(D, E \cup {[counter |-> c, id |-> s.id, ns |-> s.ns]})
<1> DEFINE row == [counter |-> c, id |-> s.id, ns |-> s.ns]
<1>0. row.id = s.id /\ row.ns = s.ns
  OBVIOUS
<1> HIDE DEF row
<1>1. \A r \in E : r.id # s.id
  BY DEF EnvelopesMatch, OnePerId
<1>2. \A r \in E \cup {row} : \E d \in D : d.id = r.id /\ d.ns = r.ns
  BY <1>0 DEF EnvelopesMatch
<1>3. \A d \in D : \E r \in E \cup {row} : r.id = d.id
  BY <1>0 DEF EnvelopesMatch
<1>4. \A r1, r2 \in E \cup {row} : r1.id = r2.id => r1 = r2
  BY <1>0, <1>1 DEF EnvelopesMatch
<1>5. EnvelopesMatch(D, E \cup {row})
  BY <1>2, <1>3, <1>4 DEF EnvelopesMatch
<1> QED BY <1>5 DEF row

LEMMA RefsPending ==
    ASSUME NEW D, NEW R, NEW s \in D, RefsMatch(D \ {s}, R)
    PROVE  RefsMatch(D, R \cup {[id |-> s.id, wki |-> w] : w \in s.refs})
<1> DEFINE P == {[id |-> s.id, wki |-> w] : w \in s.refs}
<1>1. \A x \in R \cup P : \E d \in D : d.id = x.id /\ x.wki \in d.refs
  BY DEF RefsMatch
<1>2. \A d \in D : \A w \in d.refs : [id |-> d.id, wki |-> w] \in R \cup P
  BY DEF RefsMatch
<1> QED BY <1>1, <1>2 DEF RefsMatch

LEMMA StatementRemoved ==
    ASSUME NEW D, NEW E, NEW R, NEW i, OnePerId(D), EnvelopesMatch(D, E), RefsMatch(D, R)
    PROVE  LET C == {s \in D : s.id # i}
           IN  /\ OnePerId(C) /\ \A s \in C : s.id # i
               /\ EnvelopesMatch(C, Cleared(E, i)) /\ RefsMatch(C, Cleared(R, i))
<1> DEFINE C == {s \in D : s.id # i}
<1>1. OnePerId(C) /\ \A s \in C : s.id # i
  BY DEF OnePerId
<1>2. EnvelopesMatch(C, Cleared(E, i))
  BY DEF EnvelopesMatch, Cleared
<1>3. RefsMatch(C, Cleared(R, i))
  <2>1. \A x \in Cleared(R, i) : \E s \in C : s.id = x.id /\ x.wki \in s.refs
    BY DEF RefsMatch, Cleared
  <2>2. ASSUME NEW s \in C, NEW w \in s.refs
        PROVE  [id |-> s.id, wki |-> w] \in Cleared(R, i)
    <3>1. [id |-> s.id, wki |-> w] \in R
      BY DEF RefsMatch
    <3> QED BY <3>1 DEF Cleared
  <2> QED BY <2>1, <2>2 DEF RefsMatch
<1> QED BY <1>1, <1>2, <1>3

LEMMA CountersStayBelow ==
    ASSUME NEW t \in Tables, CountersBelow(t.env, t.seq)
    PROVE  /\ \A s : CountersBelow(WithEnvelope(t, s).env, WithEnvelope(t, s).seq)
           /\ \A i : CountersBelow(WithoutEnvelope(t, i).env, WithoutEnvelope(t, i).seq)
<1>1. ASSUME NEW s
      PROVE  CountersBelow(WithEnvelope(t, s).env, WithEnvelope(t, s).seq)
  <2> DEFINE row == [counter |-> t.seq + 1, id |-> s.id, ns |-> s.ns]
  <2>1. WithEnvelope(t, s).env = t.env \cup {row} /\ WithEnvelope(t, s).seq = t.seq + 1
    BY DEF WithEnvelope, NextCounter, Tables
  <2>2. row.counter = t.seq + 1
    OBVIOUS
  <2>3. t.seq \in Nat /\ \A r \in t.env : r.counter \in Nat /\ r.counter <= t.seq
    BY DEF Tables, EnvelopeRows, CountersBelow
  <2>4. \A r1, r2 \in t.env : r1.counter = r2.counter => r1 = r2
    BY DEF CountersBelow
  <2> HIDE DEF row
  <2>5. \A r \in t.env \cup {row} : r.counter <= t.seq + 1
    BY <2>2, <2>3
  <2>6. \A r1, r2 \in t.env \cup {row} : r1.counter = r2.counter => r1 = r2
    BY <2>2, <2>3, <2>4
  <2> QED BY <2>1, <2>5, <2>6 DEF CountersBelow
<1>2. \A i : CountersBelow(WithoutEnvelope(t, i).env, WithoutEnvelope(t, i).seq)
  BY DEF WithoutEnvelope, CountersBelow, Tables
<1> QED BY <1>1, <1>2

(* A goroutine outside of a transaction has nothing half done. *)
LEMMA NothingHalfDone ==
    ASSUME NEW q, pc[q] \notin Holding
    PROVE  StageAgrees(q)
BY DEF StageAgrees, Holding

Consistent == Typed /\ TablesAgree /\ TransactionConsistent

LEMMA InitConsistent == Init => Consistent
<1> SUFFICES ASSUME Init PROVE Consistent
  OBVIOUS
<1>1. Agree(EmptyTables)
  BY DEF Agree, EmptyTables, OnePerId, EnvelopesMatch, RefsMatch, CountersBelow
<1>2. \A q \in Procs : pc[q] \notin Holding /\ wlock # q
  BY NoneAssumption DEF Init, Holding
<1>3. TransactionConsistent
  BY <1>1, <1>2, NothingHalfDone DEF Init, Agree, TransactionConsistent
<1> QED BY <1>1, <1>3, InitTyped DEF Init, Consistent, TablesAgree

(* What leaves a transaction, by a commit, a rollback or a crash. *)
LEMMA LeaveTransaction ==
    ASSUME Agree(db'), tx' = db', wlock' = None,
           \A q \in Procs : pc'[q] \notin Holding
    PROVE  TablesAgree' /\ TransactionConsistent'
<1>1. \A q \in Procs : StageAgrees(q)' /\ wlock' # q
  BY NoneAssumption DEF StageAgrees, Holding
<1> QED BY <1>1 DEF TablesAgree, TransactionConsistent, Agree

(* What a step inside the transaction of p has to show. *)
LEMMA StayInTransaction ==
    ASSUME Consistent, NEW p \in Procs, pc[p] \in Holding,
           UNCHANGED <<db, wlock>>, pc'[p] \in Holding,
           \A q \in Procs \ {p} : pc'[q] = pc[q],
           OnePerId(tx'.data), CountersBelow(tx'.env, tx'.seq), StageAgrees(p)'
    PROVE  TablesAgree' /\ TransactionConsistent'
<1>1. wlock = p
  BY DEF Consistent, TransactionConsistent
<1>2. \A q \in Procs \ {p} : pc'[q] \notin Holding /\ wlock' # q
  BY <1>1 DEF Consistent, TransactionConsistent
<1>3. \A q \in Procs \ {p} : StageAgrees(q)'
  BY <1>2 DEF StageAgrees, Holding
<1>4. TablesAgree'
  BY DEF Consistent, TablesAgree, Agree
<1> QED
  BY <1>1, <1>2, <1>3, <1>4, NoneAssumption DEF TransactionConsistent

LEMMA InsertStepConsistent ==
    ASSUME Consistent, Typed', NEW p \in Procs, InsertStep(p) \/ ExecFails(p)
    PROVE  TablesAgree' /\ TransactionConsistent'
<1> USE DEF Consistent
<1>t. tx \in Tables /\ Agree(db) /\ OnePerId(tx.data) /\ CountersBelow(tx.env, tx.seq) /\ StageAgrees(p)
  BY DEF Typed, TypeOK, TablesAgree, TransactionConsistent
<1>l. pc[p] \in Holding => wlock = p /\ \A q \in Procs \ {p} : pc[q] \notin Holding
  BY DEF TransactionConsistent
<1>pc. DOMAIN pc = Procs /\ DOMAIN pos = Procs /\ DOMAIN wkis = Procs
  BY DEF Typed, TypeOK
<1>1. ASSUME Return(p), tx' = db', Agree(db'), pc[p] \in Holding
      PROVE  TablesAgree' /\ TransactionConsistent'
  <2>1. wlock' = None /\ \A q \in Procs : pc'[q] \notin Holding
    BY <1>1, <1>l, <1>pc DEF Return, Holding
  <2> QED BY <1>1, <2>1, LeaveTransaction
<1>2. ASSUME Rollback(p), pc[p] \in Holding
      PROVE  TablesAgree' /\ TransactionConsistent'
  <2>1. Return(p) /\ tx' = db' /\ Agree(db')
    BY <1>2, <1>t DEF Rollback
  <2> QED BY <2>1, <1>1, <1>2
<1>3. CASE LockInsert(p)
  <2>1. wlock = None /\ tx = db
    BY <1>3 DEF LockInsert, TransactionConsistent
  <2>2. \A q \in Procs : pc[q] \notin Holding
    BY <2>1, NoneAssumption DEF TransactionConsistent
  <2>3. \A q \in Procs \ {p} : pc'[q] = pc[q] /\ wlock' # q /\ StageAgrees(q)'
    BY <1>3, <1>pc, <2>2 DEF LockInsert, StageAgrees, Holding
  <2>4. pc'[p] = "data" /\ wlock' = p /\ UNCHANGED <<tx, db>>
    BY <1>3, <1>pc DEF LockInsert
  <2>5. StageAgrees(p)'
    BY <2>4, <2>1, <1>t DEF StageAgrees, Agree
  <2> QED BY <2>2, <2>3, <2>4, <2>5, <1>t, NoneAssumption DEF TablesAgree, Agree, TransactionConsistent, Holding
<1>4. CASE InsertData(p)
  <2>1. pc'[p] = "env" /\ UNCHANGED <<db, wlock, batch, pos>> /\ \A q \in Procs \ {p} : pc'[q] = pc[q]
    BY <1>4, <1>pc DEF InsertData
  <2>2. tx'.data = tx.data \cup {Stmt(p)} /\ tx'.env = tx.env /\ tx'.refs = tx.refs /\ tx'.seq = tx.seq
    BY <1>4, <1>t DEF InsertData, WithData, Tables
  <2>3. OnePerId(tx'.data) /\ tx'.data \ {Stmt(p)} = tx.data
    BY <1>4, <1>t, <2>2, StatementAdded DEF InsertData, HasId
  <2>4. Stmt(p)' = Stmt(p)
    BY <2>1 DEF Stmt
  <2>5. EnvelopesMatch(tx.data, tx.env) /\ RefsMatch(tx.data, tx.refs)
    BY <1>4, <1>t DEF StageAgrees, InsertData
  <2>6. StageAgrees(p)'
    BY <2>1, <2>2, <2>3, <2>4, <2>5 DEF StageAgrees
  <2>7. pc[p] \in Holding /\ pc'[p] \in Holding
    BY <1>4, <2>1 DEF InsertData, Holding
  <2> QED BY <2>1, <2>2, <2>3, <2>6, <2>7, <1>t, StayInTransaction
<1>5. CASE DuplicateId(p)
  <2>1. pc[p] = "data" /\ pc[p] \in Holding
    BY <1>5 DEF DuplicateId, Holding
  <2>2. CASE Rollback(p)
    BY <1>2, <2>1, <2>2
  <2>3. CASE UNCHANGED <<db, tx, wlock, pc>>
    <3>1. StageAgrees(p)'
      BY <1>t, <2>1, <2>3 DEF StageAgrees
    <3> QED BY <1>t, <2>1, <2>3, <3>1, StayInTransaction
  <2> QED BY <1>5, <2>2, <2>3 DEF DuplicateId
<1>6. CASE InsertEnvelope(p)
  <2>0. pc[p] = "env" /\ pc'[p] = "refs" /\ UNCHANGED <<db, wlock, batch, pos>>
        /\ \A q \in Procs \ {p} : pc'[q] = pc[q]
    BY <1>6, <1>pc DEF InsertEnvelope
  <2>1. /\ tx'.data = tx.data /\ tx'.refs = tx.refs
        /\ tx'.env = tx.env \cup {[counter |-> NextCounter(tx), id |-> Stmt(p).id, ns |-> Stmt(p).ns]}
    BY <1>6, <1>t DEF InsertEnvelope, WithEnvelope, Tables
  <2>2. CountersBelow(tx'.env, tx'.seq)
    BY <1>6, <1>t, CountersStayBelow DEF InsertEnvelope
  <2>3. Stmt(p)' = Stmt(p) /\ wkis'[p] = Stmt(p).refs
    BY <1>6, <1>pc, <2>0 DEF Stmt, InsertEnvelope
  <2>4. /\ Stmt(p) \in tx.data /\ EnvelopesMatch(tx.data \ {Stmt(p)}, tx.env)
        /\ RefsMatch(tx.data \ {Stmt(p)}, tx.refs)
    BY <1>t, <2>0 DEF StageAgrees
  <2>5. EnvelopesMatch(tx'.data, tx'.env)
    <3> DEFINE D == tx.data
               s == Stmt(p)
               c == NextCounter(tx)
    <3>1. s \in D /\ OnePerId(D) /\ EnvelopesMatch(D \ {s}, tx.env)
      BY <1>t, <2>4
    <3> HIDE DEF D, s, c
    <3>2. EnvelopesMatch(D, tx.env \cup {[counter |-> c, id |-> s.id, ns |-> s.ns]})
      BY <3>1, EnvelopeAdded
    <3> QED BY <2>1, <3>2 DEF D, s, c
  <2>6. RefsMatch(tx'.data, tx'.refs \cup {[id |-> Stmt(p)'.id, wki |-> w] : w \in wkis'[p]})
    BY <2>1, <2>3, <2>4, RefsPending
  <2>7. StageAgrees(p)'
    BY <2>0, <2>1, <2>3, <2>4, <2>5, <2>6 DEF StageAgrees
  <2>8. pc[p] \in Holding /\ pc'[p] \in Holding
    BY <2>0 DEF Holding
  <2> QED BY <2>0, <2>1, <2>2, <2>7, <2>8, <1>t, StayInTransaction
<1>7. CASE InsertRef(p)
  <2>0. pc[p] = "refs" /\ UNCHANGED <<db, wlock, batch, pos, pc>>
    BY <1>7 DEF InsertRef
  <2>1. PICK w \in wkis[p] : tx' = WithRef(tx, Stmt(p), w) /\ wkis' = [wkis EXCEPT ![p] = @ \ {w}]
    BY <1>7 DEF InsertRef
  <2>2. /\ tx'.data = tx.data /\ tx'.env = tx.env /\ tx'.seq = tx.seq
        /\ tx'.refs = tx.refs \cup {[id |-> Stmt(p).id, wki |-> w]}
    BY <2>1, <1>t DEF WithRef, Tables
  <2>3. Stmt(p)' = Stmt(p) /\ wkis'[p] = wkis[p] \ {w}
    BY <2>0, <2>1, <1>pc DEF Stmt
  <2>4. /\ Stmt(p) \in tx.data /\ wkis[p] \subseteq Stmt(p).refs /\ EnvelopesMatch(tx.data, tx.env)
        /\ RefsMatch(tx.data, tx.refs \cup {[id |-> Stmt(p).id, wki |-> v] : v \in wkis[p]})
    BY <1>t, <2>0 DEF StageAgrees
  <2>5. tx'.refs \cup {[id |-> Stmt(p)'.id, wki |-> v] : v \in wkis'[p]}
          = tx.refs \cup {[id |-> Stmt(p).id, wki |-> v] : v \in wkis[p]}
    BY <2>1, <2>2, <2>3
  <2>6. StageAgrees(p)'
    BY <2>0, <2>2, <2>3, <2>4, <2>5 DEF StageAgrees
  <2>7. pc[p] \in Holding /\ pc'[p] \in Holding
    BY <2>0 DEF Holding
  <2> QED BY <2>0, <2>2, <2>6, <2>7, <1>t, StayInTransaction
<1>8. CASE StmtDone(p)
  <2>0. /\ pc[p] = "refs" /\ pc'[p] = "data" /\ wkis[p] = {} /\ UNCHANGED <<db, wlock, tx>>
        /\ \A q \in Procs \ {p} : pc'[q] = pc[q]
    BY <1>8, <1>pc DEF StmtDone
  <2>1. EnvelopesMatch(tx.data, tx.env) /\ RefsMatch(tx.data, tx.refs)
    <3>1. tx.refs \cup {[id |-> Stmt(p).id, wki |-> v] : v \in wkis[p]} = tx.refs
      BY <2>0
    <3> QED BY <1>t, <2>0, <3>1 DEF StageAgrees
  <2>2. StageAgrees(p)'
    BY <2>0, <2>1 DEF StageAgrees
  <2>3. pc[p] \in Holding /\ pc'[p] \in Holding
    BY <2>0 DEF Holding
  <2> QED BY <2>0, <2>2, <2>3, <1>t, StayInTransaction
<1>9. CASE CommitInsert(p)
  <2>1. pc[p] \in Holding /\ Return(p) /\ tx' = db'
    BY <1>9 DEF CommitInsert, Holding
  <2>2. Agree(db')
    BY <1>9, <1>t DEF CommitInsert, StageAgrees, Agree
  <2> QED BY <1>1, <2>1, <2>2
<1>10. CASE ExecFails(p)
  BY <1>2, <1>10 DEF ExecFails
<1> QED BY <1>3, <1>4, <1>5, <1>6, <1>7, <1>8, <1>9, <1>10 DEF InsertStep

LEMMA DeleteStepConsistent ==
    ASSUME Consistent, Typed', NEW p \in Procs, DeleteStep(p) \/ StreamCut(p)
    PROVE  TablesAgree' /\ TransactionConsistent'
<1> USE DEF Consistent
<1>t. tx \in Tables /\ Agree(db) /\ OnePerId(tx.data) /\ CountersBelow(tx.env, tx.seq) /\ StageAgrees(p)
  BY DEF Typed, TypeOK, TablesAgree, TransactionConsistent
<1>l. pc[p] \in Holding => wlock = p /\ \A q \in Procs \ {p} : pc[q] \notin Holding
  BY DEF TransactionConsistent
<1>pc. DOMAIN pc = Procs /\ DOMAIN cur = Procs
  BY DEF Typed, TypeOK
<1>1. CASE LockDelete(p)
  <2>1. wlock = None /\ tx = db
    BY <1>1 DEF LockDelete, TransactionConsistent
  <2>2. \A q \in Procs : pc[q] \notin Holding
    BY <2>1, NoneAssumption DEF TransactionConsistent
  <2>3. \A q \in Procs \ {p} : pc'[q] = pc[q] /\ wlock' # q /\ StageAgrees(q)'
    BY <1>1, <1>pc, <2>2 DEF LockDelete, StageAgrees, Holding
  <2>4. pc'[p] = "rows" /\ wlock' = p /\ UNCHANGED <<tx, db>>
    BY <1>1, <1>pc DEF LockDelete
  <2>5. StageAgrees(p)'
    BY <2>4, <2>1, <1>t DEF StageAgrees, Agree
  <2> QED BY <2>2, <2>3, <2>4, <2>5, <1>t, NoneAssumption DEF TablesAgree, Agree, TransactionConsistent, Holding
<1>2. CASE DeleteData(p)
  <2>0. /\ pc[p] = "rows" /\ pc'[p] = "denv" /\ UNCHANGED <<db, wlock>>
        /\ \A q \in Procs \ {p} : pc'[q] = pc[q]
    BY <1>2, <1>pc DEF DeleteData
  <2>1. PICK r \in rows[p] : tx' = WithoutData(tx, r.id) /\ cur' = [cur EXCEPT ![p] = r.id]
    BY <1>2 DEF DeleteData
  <2>2. /\ tx'.data = {s \in tx.data : s.id # r.id} /\ tx'.env = tx.env /\ tx'.refs = tx.refs
        /\ tx'.seq = tx.seq /\ cur'[p] = r.id
    BY <2>1, <1>t, <1>pc DEF WithoutData, Tables
  <2>3. EnvelopesMatch(tx.data, tx.env) /\ RefsMatch(tx.data, tx.refs)
    BY <1>t, <2>0 DEF StageAgrees
  <2>4. /\ OnePerId(tx'.data) /\ \A s \in tx'.data : s.id # cur'[p]
        /\ EnvelopesMatch(tx'.data, Cleared(tx'.env, cur'[p]))
        /\ RefsMatch(tx'.data, Cleared(tx'.refs, cur'[p]))
    <3> DEFINE D == tx.data
               i == r.id
               C == {s \in D : s.id # i}
    <3>1. OnePerId(D) /\ EnvelopesMatch(D, tx.env) /\ RefsMatch(D, tx.refs)
      BY <1>t, <2>3
    <3> HIDE DEF D, i
    <3>2. /\ OnePerId(C) /\ \A s \in C : s.id # i
          /\ EnvelopesMatch(C, Cleared(tx.env, i)) /\ RefsMatch(C, Cleared(tx.refs, i))
      BY <3>1, StatementRemoved
    <3> HIDE DEF C
    <3>3. tx'.data = C /\ cur'[p] = i
      BY <2>2 DEF C, D, i
    <3> QED BY <2>2, <3>2, <3>3
  <2>5. StageAgrees(p)'
    BY <2>0, <2>4 DEF StageAgrees, HasId
  <2>6. pc[p] \in Holding /\ pc'[p] \in Holding
    BY <2>0 DEF Holding
  <2> QED BY <2>0, <2>2, <2>4, <2>5, <2>6, <1>t, StayInTransaction
<1>3. CASE DeleteEnvelope(p)
  <2>0. /\ pc[p] = "denv" /\ pc'[p] = "drefs" /\ UNCHANGED <<db, wlock, cur>>
        /\ \A q \in Procs \ {p} : pc'[q] = pc[q]
    BY <1>3, <1>pc DEF DeleteEnvelope
  <2>1. /\ tx'.data = tx.data /\ tx'.env = Cleared(tx.env, cur[p]) /\ tx'.refs = tx.refs
    BY <1>3, <1>t DEF DeleteEnvelope, WithoutEnvelope, Tables, Cleared
  <2>2. CountersBelow(tx'.env, tx'.seq)
    BY <1>3, <1>t, CountersStayBelow DEF DeleteEnvelope
  <2>3. StageAgrees(p)'
    BY <1>t, <2>0, <2>1 DEF StageAgrees, HasId
  <2>4. pc[p] \in Holding /\ pc'[p] \in Holding
    BY <2>0 DEF Holding
  <2> QED BY <2>0, <2>1, <2>2, <2>3, <2>4, <1>t, StayInTransaction
<1>4. CASE DeleteRefs(p)
  <2>0. /\ pc[p] = "drefs" /\ pc'[p] = "rows" /\ UNCHANGED <<db, wlock, cur>>
        /\ \A q \in Procs \ {p} : pc'[q] = pc[q]
    BY <1>4, <1>pc DEF DeleteRefs
  <2>1. /\ tx'.data = tx.data /\ tx'.env = tx.env /\ tx'.refs = Cleared(tx.refs, cur[p])
        /\ tx'.seq = tx.seq
    BY <1>4, <1>t DEF DeleteRefs, WithoutRefs, Tables, Cleared
  <2>2. StageAgrees(p)'
    BY <1>t, <2>0, <2>1 DEF StageAgrees
  <2>3. pc[p] \in Holding /\ pc'[p] \in Holding
    BY <2>0 DEF Holding
  <2> QED BY <2>0, <2>1, <2>2, <2>3, <1>t, StayInTransaction
<1>5. CASE CommitDelete(p)
  <2>1. Agree(db') /\ tx' = db'
    BY <1>5, <1>t DEF CommitDelete, StageAgrees, Agree
  <2>2. wlock' = None /\ \A q \in Procs : pc'[q] \notin Holding
    BY <1>5, <1>l, <1>pc DEF CommitDelete, Return, Holding
  <2> QED BY <2>1, <2>2, LeaveTransaction
<1>6. CASE StreamCut(p)
  <2>0. pc[p] = "rows" /\ UNCHANGED <<db, wlock, tx, pc>>
    BY <1>6 DEF StreamCut
  <2>1. StageAgrees(p)'
    BY <1>t, <2>0 DEF StageAgrees
  <2>2. pc[p] \in Holding /\ pc'[p] \in Holding
    BY <2>0 DEF Holding
  <2> QED BY <2>0, <2>1, <2>2, <1>t, StayInTransaction
<1> QED BY <1>1, <1>2, <1>3, <1>4, <1>5, <1>6 DEF DeleteStep

LEMMA ConsistentStep == Consistent /\ [Next]_vars => Consistent'
<1> SUFFICES ASSUME Consistent, [Next]_vars PROVE Consistent'
  OBVIOUS
<1>0. Typed'
  BY TypedStep DEF Consistent
<1> SUFFICES TablesAgree' /\ TransactionConsistent'
  BY <1>0 DEF Consistent
<1>1. ASSUME NEW p \in Procs, Step(p) \/ ExecFails(p) \/ StreamCut(p)
      PROVE  TablesAgree' /\ TransactionConsistent'
  BY <1>0, <1>1, InsertStepConsistent, DeleteStepConsistent DEF Step
<1>2. CASE Crash
  <2>1. Agree(db') /\ tx' = db' /\ wlock' = None /\ \A q \in Procs : pc'[q] \notin Holding
    BY <1>2 DEF Crash, Holding, Consistent, TablesAgree
  <2> QED BY <2>1, LeaveTransaction
<1>3. ASSUME UNCHANGED <<db, tx, wlock>>,
             \A q \in Procs : pc'[q] = pc[q] \/ (pc[q] = "idle" /\ pc'[q] = "lock"),
             \A q \in Procs : pc[q] \in Holding => UNCHANGED <<batch[q], pos[q], wkis[q], cur[q]>>
      PROVE  TablesAgree' /\ TransactionConsistent'
  <2>1. TablesAgree'
    BY <1>3 DEF Consistent, TablesAgree
  <2>2. \A q \in Procs : (pc'[q] \in Holding <=> wlock' = q)
    BY <1>3 DEF Consistent, TransactionConsistent, Holding
  <2>3. ASSUME NEW q \in Procs
        PROVE  StageAgrees(q)'
    <3>1. CASE pc[q] \in Holding
      <4>1. pc'[q] = pc[q] /\ Stmt(q)' = Stmt(q) /\ wkis'[q] = wkis[q] /\ cur'[q] = cur[q]
        BY <1>3, <3>1 DEF Stmt, Holding
      <4>2. StageAgrees(q)
        BY DEF Consistent, TransactionConsistent
      <4> QED BY <1>3, <4>1, <4>2 DEF StageAgrees, HasId
    <3>2. CASE pc[q] \notin Holding
      BY <1>3, <3>2 DEF StageAgrees, Holding
    <3> QED BY <3>1, <3>2
  <2> QED BY <1>3, <2>1, <2>2, <2>3 DEF Consistent, TransactionConsistent
<1>d. DOMAIN pc = Procs /\ DOMAIN batch = Procs /\ DOMAIN pos = Procs
  BY DEF Consistent, Typed, TypeOK
<1>4. ASSUME NEW p \in Procs, NEW o \in Inserts, NEW b \in Batches, CallInsert(p, o, b)
      PROVE  TablesAgree' /\ TransactionConsistent'
  BY <1>3, <1>4, <1>d DEF CallInsert, Holding
<1>5. ASSUME NEW p \in Procs, NEW q \in Queries, CallDelete(p, q)
      PROVE  TablesAgree' /\ TransactionConsistent'
  BY <1>3, <1>5, <1>d DEF CallDelete
<1>6. CASE Open \/ TuneDB \/ CreateTables \/ PrepareStatements \/ QueryMaxCounter \/ UNCHANGED vars
  BY <1>3, <1>6 DEF Open, TuneDB, CreateTables, PrepareStatements, QueryMaxCounter, vars, procVars
<1> QED BY <1>1, <1>2, <1>4, <1>5, <1>6 DEF Next

(* Statement, Envelope and Refs agree in every committed state, and the    *)
(* tables of an open transaction agree but for the statement at hand,      *)
(* whatever fails and wherever the process crashes.                        *)
THEOREM TablesAlwaysAgree == Spec => [](TablesAgree /\ TransactionConsistent)
<1>1. Consistent => TablesAgree /\ TransactionConsistent
  BY DEF Consistent
<1> QED BY <1>1, InitConsistent, ConsistentStep, PTL DEF Spec

(* A statement that Statement's primary key accepted meets no other        *)
(* constraint: neither the unique index on Envelope.id nor the key on      *)
(* Envelope.counter refuses its row.                                       *)
NoLateConflict ==
    \A p \in Procs : pc[p] = "env" =>
        \A r \in tx.env : r.id # Stmt(p).id /\ r.counter # NextCounter(tx)

LEMMA ConsistentNoConflict == Consistent => NoLateConflict
<1> SUFFICES ASSUME Consistent, NEW p \in Procs, pc[p] = "env", NEW r \in tx.env
             PROVE  r.id # Stmt(p).id /\ r.counter # NextCounter(tx)
  BY DEF NoLateConflict
<1>1. /\ Stmt(p) \in tx.data /\ OnePerId(tx.data) /\ CountersBelow(tx.env, tx.seq)
      /\ EnvelopesMatch(tx.data \ {Stmt(p)}, tx.env)
  BY DEF Consistent, TransactionConsistent, StageAgrees
<1>2. PICK s \in tx.data \ {Stmt(p)} : s.id = r.id
  BY <1>1 DEF EnvelopesMatch
<1>3. r.id # Stmt(p).id
  BY <1>1, <1>2 DEF OnePerId
<1>4. tx.seq \in Nat /\ r.counter \in Nat /\ r.counter <= tx.seq
  BY <1>1 DEF Consistent, Typed, TypeOK, Tables, EnvelopeRows, CountersBelow
<1>5. r.counter # NextCounter(tx)
  BY <1>4 DEF NextCounter
<1> QED BY <1>3, <1>5

(* Merge reads a primary-key error of Put, whichever table it comes from,  *)
(* as a duplicate; MergeBatch skips a statement on such an error of        *)
(* Statement and fails on any constraint of Envelope. Both are right:      *)
(* Envelope refuses no statement whose id was new, so no merge calls a new *)
(* statement known, and no batch fails for a statement half known.         *)
THEOREM OnlyDuplicatesConflict == Spec => []NoLateConflict
BY InitConsistent, ConsistentStep, ConsistentNoConflict, PTL DEF Spec

-----------------------------------------------------------------------------
(***************************************************************************)
(* StatementDB implements StatementStore, and numbers its rows in the      *)
(* order in which they become visible.                                     *)
(*                                                                         *)
(* The invariant of the refinement (Progress) says what the transaction    *)
(* has done to the statements so far: an insert at position n has merged   *)
(* the first n statements of its batch, a delete has removed only          *)
(* statements that its query matches.                                      *)
(***************************************************************************)

InsertStages == {"data", "env", "refs"}
DeleteStages == {"rows", "denv", "drefs"}

(* How many statements of its batch an insert has looked at. *)
Seen(p) == IF pc[p] = "data" THEN pos[p] - 1 ELSE pos[p]

InsertProgress(p) ==
    /\ op[p] \in Inserts
    /\ Seen(p) \in 0..Len(batch[p])
    /\ tx.data = Store!Merged(db.data, batch[p], Seen(p))
    /\ \A j \in 1..Seen(p) : HasId(tx, batch[p][j].id)
    /\ op[p] # "MergeBatch" => Store!NewPositions(db.data, batch[p], Seen(p)) = 1..Seen(p)

DeleteProgress(p) ==
    /\ op[p] = "Delete"
    /\ tx.data \subseteq db.data
    /\ \A s \in db.data \ tx.data : Store!Matches(s, query[p])
    /\ \A r \in rows[p] : \A s \in db.data : s.id = r.id => Store!Matches(s, query[p])

ProgressOf(p) ==
    /\ pc[p] = "idle" <=> op[p] = "none"
    /\ pc[p] = "lock" /\ op[p] \in Inserts => pos[p] = 1
    /\ pc[p] \in InsertStages => InsertProgress(p)
    /\ pc[p] \in DeleteStages => DeleteProgress(p)

Progress == \A p \in Procs : ProgressOf(p)

-----------------------------------------------------------------------------
(* Merging one more statement *)

LEMMA MergedNew ==
    ASSUME NEW S, NEW b, NEW n \in Nat,
           \A s \in Store!Merged(S, b, n) : s.id # b[n + 1].id,
           \A j \in 1..n : \E s \in Store!Merged(S, b, n) : s.id = b[j].id
    PROVE  /\ Store!NewPositions(S, b, n + 1) = Store!NewPositions(S, b, n) \cup {n + 1}
           /\ Store!Merged(S, b, n + 1) = Store!Merged(S, b, n) \cup {b[n + 1]}
<1>1. b[n + 1].id \notin Store!IdsOf(S)
  BY DEF Store!Merged, Store!IdsOf
<1>2. \A j \in 1..n : b[j].id # b[n + 1].id
  OBVIOUS
<1>3. 1..(n + 1) = 1..n \cup {n + 1} /\ (n + 1) - 1 = n
  OBVIOUS
<1>4. Store!NewPositions(S, b, n + 1) = Store!NewPositions(S, b, n) \cup {n + 1}
  BY <1>1, <1>2, <1>3 DEF Store!NewPositions
<1> QED BY <1>4 DEF Store!Merged

LEMMA MergedKnown ==
    ASSUME NEW S, NEW b, NEW n \in Nat,
           \E s \in Store!Merged(S, b, n) : s.id = b[n + 1].id
    PROVE  /\ Store!NewPositions(S, b, n + 1) = Store!NewPositions(S, b, n)
           /\ Store!Merged(S, b, n + 1) = Store!Merged(S, b, n)
<1>1. b[n + 1].id \in Store!IdsOf(S) \/ \E j \in 1..n : b[j].id = b[n + 1].id
  BY DEF Store!Merged, Store!IdsOf, Store!NewPositions
<1>3. 1..(n + 1) = 1..n \cup {n + 1} /\ (n + 1) - 1 = n
  OBVIOUS
<1>4. Store!NewPositions(S, b, n + 1) = Store!NewPositions(S, b, n)
  BY <1>1, <1>3 DEF Store!NewPositions
<1> QED BY <1>4 DEF Store!Merged

LEMMA MergedNothing ==
    ASSUME NEW S, NEW b
    PROVE  Store!NewPositions(S, b, 0) = 1..0 /\ Store!Merged(S, b, 0) = S
<1>1. 1..0 = {}
  OBVIOUS
<1> QED BY <1>1 DEF Store!NewPositions, Store!Merged

(* The rows of a DELETE query name matching statements only: the tables    *)
(* agree, so a row of Envelope or Refs tells about its statement.          *)
LEMMA QueryRowsMatch ==
    ASSUME NEW t \in Tables, Agree(t), NEW q, NEW r \in QueryRows(t, q),
           NEW s \in t.data, s.id = r.id
    PROVE  Store!Matches(s, q)
<1>1. CASE q.wkis # {}
  <2>1. r \in t.refs /\ r.wki \in q.wkis /\ \E e \in t.env : e.id = r.id /\ NsMatches(q, e.ns)
    BY <1>1 DEF QueryRows
  <2>2. r.wki \in s.refs
    BY <2>1 DEF Agree, RefsMatch, OnePerId
  <2>3. q.ns = AnyNs \/ q.ns = s.ns
    BY <2>1 DEF Agree, EnvelopesMatch, OnePerId, NsMatches
  <2> QED BY <2>1, <2>2, <2>3 DEF Store!Matches
<1>2. CASE q.wkis = {} /\ q.ns = AnyNs
  BY <1>2 DEF Store!Matches
<1>3. CASE q.wkis = {} /\ q.ns # AnyNs
  <2>1. PICK e \in t.env : e.id = r.id /\ NsMatches(q, e.ns)
    BY <1>3 DEF QueryRows
  <2> QED BY <1>3, <2>1 DEF Agree, EnvelopesMatch, OnePerId, NsMatches, Store!Matches
<1> QED BY <1>1, <1>2, <1>3

-----------------------------------------------------------------------------

LEMMA InitProgress == Init => Progress /\ Store!Init
BY DEF Init, Progress, ProgressOf, InsertStages, DeleteStages, Store!Init, EmptyTables

(* Outside of the transaction's stages nothing is claimed of its data. *)
LEMMA OthersProgress ==
    ASSUME Consistent, Progress, NEW p \in Procs, pc[p] \in Holding \/ wlock = None,
           \A q \in Procs \ {p} : pc'[q] = pc[q] /\ op'[q] = op[q] /\ pos'[q] = pos[q]
    PROVE  \A q \in Procs \ {p} : ProgressOf(q)'
<1>1. \A q \in Procs \ {p} : pc[q] \notin Holding
  BY NoneAssumption DEF Consistent, TransactionConsistent
<1> QED BY <1>1 DEF Progress, ProgressOf, Holding, InsertStages, DeleteStages

LEMMA ReturnProgress ==
    ASSUME Consistent, Progress, NEW p \in Procs, pc[p] \in Holding, Return(p)
    PROVE  Progress' /\ Store!Returned(p)
<1>1. DOMAIN pc = Procs /\ DOMAIN op = Procs /\ DOMAIN pos = Procs
  BY DEF Consistent, Typed, TypeOK
<1>2. \A q \in Procs \ {p} : pc'[q] = pc[q] /\ op'[q] = op[q] /\ pos'[q] = pos[q]
  BY <1>1 DEF Return
<1>3. ProgressOf(p)'
  BY <1>1 DEF Return, ProgressOf, InsertStages, DeleteStages
<1>4. Progress'
  BY <1>2, <1>3, OthersProgress DEF Progress
<1> QED BY <1>4 DEF Return, Store!Returned

LEMMA RollbackProgress ==
    ASSUME Consistent, Progress, NEW p \in Procs, pc[p] \in Holding, Rollback(p)
    PROVE  Progress' /\ Store!Fail(p)
<1>1. Progress' /\ Store!Returned(p)
  BY ReturnProgress DEF Rollback
<1>2. op[p] # "none"
  BY DEF Progress, ProgressOf, Holding
<1> QED BY <1>1, <1>2 DEF Rollback, Store!Fail

LEMMA InsertStepProgress ==
    ASSUME Consistent, Progress, NEW p \in Procs, InsertStep(p)
    PROVE  Progress' /\ [Store!Next]_(Store!vars)
<1>d. DOMAIN pc = Procs /\ DOMAIN op = Procs /\ DOMAIN pos = Procs /\ tx \in Tables
  BY DEF Consistent, Typed, TypeOK
<1>s. batch[p] \in Seq(Stmts) /\ pos[p] \in Nat \ {0}
  <2>1. batch[p] \in Batches \cup {<<>>} /\ pos[p] \in Nat \ {0}
    BY DEF Consistent, Typed, TypeOK
  <2>2. <<>> \in Seq(Stmts)
    OBVIOUS
  <2>3. batch[p] \in Seq(Stmts)
    BY <2>1, <2>2, BatchesAssumption, Zenon
  <2> QED BY <2>1, <2>3
<1>b. pc[p] \in {"env", "refs"} => pos[p] <= Len(batch[p])
  BY DEF Consistent, Typed, Bookkeeping
<1>l. Len(batch[p]) \in Nat
  BY <1>s
<1>i. pc[p] \in InsertStages => InsertProgress(p)
  BY DEF Progress, ProgressOf
<1>1. CASE LockInsert(p)
  <2>1. /\ wlock = None /\ tx = db /\ op[p] \in Inserts /\ UNCHANGED <<db, tx, op, batch, pos, query>>
        /\ pc'[p] = "data" /\ \A q \in Procs \ {p} : pc'[q] = pc[q] /\ op'[q] = op[q]
    BY <1>1, <1>d DEF LockInsert, Consistent, TransactionConsistent
  <2>2. pos[p] = 1
    BY <1>1 DEF LockInsert, Progress, ProgressOf
  <2>3. InsertProgress(p)'
    BY <2>1, <2>2, <1>l, MergedNothing DEF InsertProgress, Seen
  <2>4. ProgressOf(p)'
    BY <2>1, <2>3 DEF ProgressOf, DeleteStages, Inserts
  <2>5. Progress'
    BY <2>1, <2>4, OthersProgress DEF Progress
  <2> QED BY <2>1, <2>5 DEF Store!vars
<1>2. CASE InsertData(p)
  <2>1. /\ pc[p] = "data" /\ pc'[p] = "env" /\ UNCHANGED <<db, op, batch, pos, query>>
        /\ pos[p] <= Len(batch[p])
        /\ \A q \in Procs \ {p} : pc'[q] = pc[q] /\ op'[q] = op[q]
    BY <1>2, <1>d DEF InsertData
  <2>2. Seen(p) = pos[p] - 1 /\ Seen(p)' = pos[p] /\ InsertProgress(p)
    BY <2>1, <1>i DEF Seen, InsertStages
  <2> DEFINE n == pos[p] - 1
             b == batch[p]
             D == db.data
  <2>3. n \in Nat /\ pos[p] = n + 1 /\ 1..(n + 1) = 1..n \cup {n + 1}
    BY <1>s
  <2>4. /\ tx.data = Store!Merged(D, b, n)
        /\ \A j \in 1..n : \E s \in tx.data : s.id = b[j].id
        /\ op[p] # "MergeBatch" => Store!NewPositions(D, b, n) = 1..n
    BY <2>2 DEF InsertProgress, HasId
  <2>5. tx'.data = tx.data \cup {b[n + 1]} /\ \A s \in tx.data : s.id # b[n + 1].id
    BY <1>2, <1>d, <2>3 DEF InsertData, WithData, Tables, HasId, Stmt
  <2>6. /\ Store!NewPositions(D, b, n + 1) = Store!NewPositions(D, b, n) \cup {n + 1}
        /\ Store!Merged(D, b, n + 1) = Store!Merged(D, b, n) \cup {b[n + 1]}
    <3> HIDE DEF n, b, D
    <3> QED BY <2>3, <2>4, <2>5, MergedNew
  <2>7. \A j \in 1..(n + 1) : \E s \in tx'.data : s.id = b[j].id
    <3> HIDE DEF n, b
    <3> QED BY <2>3, <2>4, <2>5
  <2>8. InsertProgress(p)'
    <3>1. Seen(p)' = n + 1 /\ n + 1 \in 0..Len(b)
      BY <2>1, <2>2, <2>3, <1>l
    <3>2. op'[p] = op[p] /\ op[p] \in Inserts /\ batch'[p] = b /\ db'.data = D
      BY <2>1, <2>2 DEF InsertProgress
    <3> HIDE DEF n, b, D
    <3>3. tx'.data = Store!Merged(D, b, n + 1)
      BY <2>4, <2>5, <2>6
    <3>4. op[p] # "MergeBatch" => Store!NewPositions(D, b, n + 1) = 1..(n + 1)
      BY <2>3, <2>4, <2>6
    <3> QED BY <2>7, <3>1, <3>2, <3>3, <3>4 DEF InsertProgress, HasId
  <2>9. ProgressOf(p)'
    <3>1. op'[p] # "none"
      BY <2>1, <2>2 DEF InsertProgress, Inserts
    <3> QED BY <2>1, <2>8, <3>1 DEF ProgressOf, InsertStages, DeleteStages
  <2>10. Progress'
    BY <2>1, <2>9, OthersProgress DEF Progress, Holding
  <2> QED BY <2>1, <2>10 DEF Store!vars
<1>3. CASE DuplicateId(p)
  <2>0. pc[p] = "data" /\ pc[p] \in Holding /\ pos[p] <= Len(batch[p]) /\ HasId(tx, Stmt(p).id)
    BY <1>3 DEF DuplicateId, Holding
  <2>a. CASE Rollback(p)
    BY <2>0, <2>a, RollbackProgress DEF Store!Next
  <2>b. CASE /\ op[p] = "MergeBatch" /\ pos' = [pos EXCEPT ![p] = @ + 1]
             /\ UNCHANGED <<db, tx, pc, op, batch, query>>
    <3> DEFINE n == pos[p] - 1
               b == batch[p]
               D == db.data
    <3>1. n \in Nat /\ pos[p] = n + 1 /\ 1..(n + 1) = 1..n \cup {n + 1}
      BY <1>s
    <3>2. Seen(p) = n /\ Seen(p)' = n + 1 /\ InsertProgress(p)
      BY <2>0, <2>b, <1>i, <1>d, <1>s DEF Seen, InsertStages
    <3>3. /\ tx.data = Store!Merged(D, b, n)
          /\ \A j \in 1..n : \E s \in tx.data : s.id = b[j].id
      BY <3>2 DEF InsertProgress, HasId
    <3>4. \E s \in tx.data : s.id = b[n + 1].id
      BY <2>0, <3>1 DEF HasId, Stmt
    <3>5. Store!Merged(D, b, n + 1) = Store!Merged(D, b, n)
      <4> HIDE DEF n, b, D
      <4> QED BY <3>1, <3>3, <3>4, MergedKnown
    <3>6. \A j \in 1..(n + 1) : \E s \in tx.data : s.id = b[j].id
      <4> HIDE DEF n, b
      <4> QED BY <3>1, <3>3, <3>4
    <3>7. InsertProgress(p)'
      BY <2>0, <2>b, <3>1, <3>2, <3>3, <3>5, <3>6, <1>l DEF InsertProgress, HasId
    <3>8. ProgressOf(p)'
      BY <2>0, <2>b, <3>7 DEF ProgressOf, InsertStages, DeleteStages
    <3>9. Progress'
      BY <2>0, <2>b, <3>8, <1>d, OthersProgress DEF Progress
    <3> QED BY <2>b, <3>9 DEF Store!vars
  <2> QED BY <1>3, <2>a, <2>b DEF DuplicateId
(* The envelope and the refs leave the statements and Seen(p) alone. *)
<1>4. ASSUME pc[p] \in {"env", "refs"}, pc'[p] \in InsertStages, Seen(p)' = Seen(p),
             tx'.data = tx.data, UNCHANGED <<db, op, batch, query>>,
             \A q \in Procs \ {p} : pc'[q] = pc[q] /\ pos'[q] = pos[q]
      PROVE  Progress' /\ [Store!Next]_(Store!vars)
  <2>1. InsertProgress(p)'
    BY <1>4, <1>i DEF InsertProgress, HasId, InsertStages
  <2>2. ProgressOf(p)'
    BY <1>4, <2>1 DEF ProgressOf, InsertStages, DeleteStages, InsertProgress, Inserts
  <2>3. Progress'
    BY <1>4, <2>2, OthersProgress DEF Progress, Holding
  <2> QED BY <1>4, <2>3 DEF Store!vars
<1>5. CASE InsertEnvelope(p)
  <2>1. pc[p] = "env" /\ pc'[p] = "refs" /\ \A q \in Procs \ {p} : pc'[q] = pc[q]
    BY <1>5, <1>d DEF InsertEnvelope
  <2>2. tx'.data = tx.data
    BY <1>5, <1>d DEF InsertEnvelope, WithEnvelope, Tables
  <2> QED BY <1>5, <2>1, <2>2, <1>4 DEF InsertEnvelope, Seen, InsertStages
<1>6. CASE InsertRef(p)
  <2>1. pc[p] = "refs" /\ UNCHANGED <<pc, pos>>
    BY <1>6 DEF InsertRef
  <2>2. tx'.data = tx.data
    BY <1>6, <1>d DEF InsertRef, WithRef, Tables
  <2> QED BY <1>6, <2>1, <2>2, <1>4 DEF InsertRef, Seen, InsertStages
<1>7. CASE StmtDone(p)
  <2>1. /\ pc[p] = "refs" /\ pc'[p] = "data" /\ pos'[p] = pos[p] + 1
        /\ \A q \in Procs \ {p} : pc'[q] = pc[q] /\ pos'[q] = pos[q]
    BY <1>7, <1>d DEF StmtDone
  <2>2. Seen(p)' = Seen(p)
    BY <2>1, <1>s DEF Seen
  <2> QED BY <1>7, <2>1, <2>2, <1>4 DEF StmtDone, InsertStages
<1>8. CASE CommitInsert(p)
  <2>1. pc[p] = "data" /\ pc[p] \in Holding /\ pos[p] > Len(batch[p]) /\ db' = tx /\ Return(p)
    BY <1>8 DEF CommitInsert, Holding
  <2>2. InsertProgress(p) /\ Seen(p) = Len(batch[p])
    BY <2>1, <1>i, <1>s, <1>l DEF InsertStages, InsertProgress, Seen
  <2>3. Progress' /\ Store!Returned(p)
    BY <2>1, ReturnProgress
  <2>4. db'.data = Store!Merged(db.data, batch[p], Len(batch[p]))
    BY <2>1, <2>2 DEF InsertProgress
  <2>5. CASE op[p] \in {"Merge", "MergeBatch"}
    BY <2>3, <2>4, <2>5 DEF Store!MergeAll, Store!Next
  <2>6. CASE op[p] \in {"Put", "PutBatch"}
    <3>1. Store!NewPositions(db.data, batch[p], Len(batch[p])) = DOMAIN batch[p]
      BY <2>2, <2>6, <1>s DEF InsertProgress
    <3> QED BY <2>3, <2>4, <2>6, <3>1 DEF Store!Publish, Store!Next
  <2> QED BY <2>2, <2>5, <2>6 DEF InsertProgress, Inserts
<1> QED BY <1>1, <1>2, <1>3, <1>5, <1>6, <1>7, <1>8 DEF InsertStep

LEMMA DeleteStepProgress ==
    ASSUME Consistent, Progress, NEW p \in Procs, DeleteStep(p) \/ StreamCut(p)
    PROVE  Progress' /\ [Store!Next]_(Store!vars)
<1>d. /\ DOMAIN pc = Procs /\ DOMAIN op = Procs /\ DOMAIN rows = Procs
      /\ tx \in Tables /\ db \in Tables
  BY DEF Consistent, Typed, TypeOK
<1>i. pc[p] \in DeleteStages => DeleteProgress(p)
  BY DEF Progress, ProgressOf
<1>1. CASE LockDelete(p)
  <2>1. /\ wlock = None /\ tx = db /\ op[p] = "Delete" /\ UNCHANGED <<db, tx, op, batch, query>>
        /\ pc'[p] = "rows" /\ UNCHANGED pos /\ \A q \in Procs \ {p} : pc'[q] = pc[q]
    BY <1>1, <1>d DEF LockDelete, Consistent, TransactionConsistent
  <2>2. rows'[p] \subseteq QueryRows(db, query[p])
    BY <1>1, <1>d DEF LockDelete, LimitedTo
  <2>3. \A r \in rows'[p] : \A s \in db.data : s.id = r.id => Store!Matches(s, query[p])
    BY <1>d, <2>2, QueryRowsMatch DEF Consistent, TablesAgree
  <2>4. DeleteProgress(p)'
    BY <2>1, <2>3 DEF DeleteProgress
  <2>5. ProgressOf(p)'
    BY <2>1, <2>4 DEF ProgressOf, InsertStages
  <2>6. Progress'
    BY <2>1, <2>5, OthersProgress DEF Progress
  <2> QED BY <2>1, <2>6 DEF Store!vars
(* A step inside the transaction removes matching statements at most. *)
<1>2. ASSUME pc[p] \in DeleteStages, pc'[p] \in DeleteStages, UNCHANGED <<db, op, batch, query>>,
             \A q \in Procs \ {p} : pc'[q] = pc[q], UNCHANGED pos,
             rows'[p] \subseteq rows[p],
             tx'.data \subseteq tx.data,
             \A s \in tx.data \ tx'.data : Store!Matches(s, query[p])
      PROVE  Progress' /\ [Store!Next]_(Store!vars)
  <2>1. DeleteProgress(p)'
    BY <1>2, <1>i DEF DeleteProgress
  <2>2. ProgressOf(p)'
    BY <1>2, <2>1 DEF ProgressOf, InsertStages, DeleteStages, DeleteProgress
  <2>3. Progress'
    BY <1>2, <2>2, OthersProgress DEF Progress, Holding, DeleteStages
  <2> QED BY <1>2, <2>3 DEF Store!vars
<1>3. CASE DeleteData(p)
  <2>1. pc[p] = "rows" /\ pc'[p] = "denv" /\ \A q \in Procs \ {p} : pc'[q] = pc[q]
    BY <1>3, <1>d DEF DeleteData
  <2>2. PICK r \in rows[p] : tx' = WithoutData(tx, r.id) /\ rows' = [rows EXCEPT ![p] = @ \ {r}]
    BY <1>3 DEF DeleteData
  <2>3. tx'.data = {s \in tx.data : s.id # r.id} /\ rows'[p] \subseteq rows[p]
    BY <2>2, <1>d DEF WithoutData, Tables
  <2>4. \A s \in tx.data \ tx'.data : Store!Matches(s, query[p])
    BY <2>1, <2>2, <2>3, <1>i DEF DeleteProgress, DeleteStages
  <2> QED BY <1>3, <2>1, <2>3, <2>4, <1>2 DEF DeleteData, DeleteStages
<1>4. CASE DeleteEnvelope(p)
  <2>1. pc[p] = "denv" /\ pc'[p] = "drefs" /\ \A q \in Procs \ {p} : pc'[q] = pc[q]
    BY <1>4, <1>d DEF DeleteEnvelope
  <2>2. tx'.data = tx.data
    BY <1>4, <1>d DEF DeleteEnvelope, WithoutEnvelope, Tables
  <2> QED BY <1>4, <2>1, <2>2, <1>2 DEF DeleteEnvelope, DeleteStages
<1>5. CASE DeleteRefs(p)
  <2>1. pc[p] = "drefs" /\ pc'[p] = "rows" /\ \A q \in Procs \ {p} : pc'[q] = pc[q]
    BY <1>5, <1>d DEF DeleteRefs
  <2>2. tx'.data = tx.data
    BY <1>5, <1>d DEF DeleteRefs, WithoutRefs, Tables
  <2> QED BY <1>5, <2>1, <2>2, <1>2 DEF DeleteRefs, DeleteStages
<1>6. CASE StreamCut(p)
  <2>1. rows'[p] \subseteq rows[p] /\ pc[p] = "rows" /\ UNCHANGED <<pc, tx>>
    BY <1>6, <1>d DEF StreamCut
  <2> QED BY <1>6, <2>1, <1>2 DEF StreamCut, DeleteStages
<1>7. CASE CommitDelete(p)
  <2>1. pc[p] \in Holding /\ pc[p] \in DeleteStages /\ db' = tx /\ Return(p)
    BY <1>7 DEF CommitDelete, Holding, DeleteStages
  <2>2. Progress' /\ Store!Returned(p)
    BY <2>1, ReturnProgress
  <2>3. Store!Remove(p)
    BY <2>1, <2>2, <1>i DEF DeleteProgress, Store!Remove
  <2> QED BY <2>2, <2>3 DEF Store!Next
<1> QED BY <1>1, <1>3, <1>4, <1>5, <1>6, <1>7 DEF DeleteStep

LEMMA NextProgress ==
    Consistent /\ Progress /\ [Next]_vars => Progress' /\ [Store!Next]_(Store!vars)
<1> SUFFICES ASSUME Consistent, Progress, [Next]_vars
             PROVE  Progress' /\ [Store!Next]_(Store!vars)
  OBVIOUS
<1>d. /\ DOMAIN pc = Procs /\ DOMAIN op = Procs /\ DOMAIN batch = Procs
      /\ DOMAIN pos = Procs /\ DOMAIN query = Procs
  BY DEF Consistent, Typed, TypeOK
<1>1. ASSUME NEW p \in Procs, Step(p) \/ StreamCut(p)
      PROVE  Progress' /\ [Store!Next]_(Store!vars)
  BY <1>1, InsertStepProgress, DeleteStepProgress DEF Step
<1>2. ASSUME NEW p \in Procs, ExecFails(p)
      PROVE  Progress' /\ [Store!Next]_(Store!vars)
  BY <1>2, RollbackProgress DEF ExecFails, Store!Next
<1>3. CASE Crash
  <2>1. Progress'
    BY <1>3 DEF Crash, Progress, ProgressOf, InsertStages, DeleteStages
  <2>2. Store!Reset
    BY <1>3 DEF Crash, Store!Reset
  <2> QED BY <2>1, <2>2 DEF Store!Next
<1>4. ASSUME UNCHANGED <<db, tx>>, NEW p \in Procs, pc[p] = "idle", pc'[p] = "lock", op'[p] # "none",
             op'[p] \in Inserts => pos'[p] = 1,
             \A q \in Procs \ {p} : /\ pc'[q] = pc[q] /\ op'[q] = op[q] /\ batch'[q] = batch[q]
                                    /\ pos'[q] = pos[q] /\ query'[q] = query[q] /\ rows'[q] = rows[q]
      PROVE  Progress'
  <2>1. ProgressOf(p)'
    BY <1>4 DEF ProgressOf, InsertStages, DeleteStages
  <2>2. ASSUME NEW q \in Procs \ {p}
        PROVE  ProgressOf(q)'
    <3>1. ProgressOf(q)
      BY DEF Progress
    <3>2. Seen(q)' = Seen(q)
      BY <1>4 DEF Seen
    <3>3. InsertProgress(q) => InsertProgress(q)'
      BY <1>4, <3>2 DEF InsertProgress, HasId
    <3>4. DeleteProgress(q) => DeleteProgress(q)'
      BY <1>4 DEF DeleteProgress
    <3> QED BY <1>4, <3>1, <3>3, <3>4 DEF ProgressOf
  <2> QED BY <2>1, <2>2 DEF Progress
<1>5. ASSUME NEW p \in Procs, NEW o \in Inserts, NEW b \in Batches, CallInsert(p, o, b)
      PROVE  Progress' /\ [Store!Next]_(Store!vars)
  <2>1. o # "none"
    BY DEF Inserts
  <2>2. Progress'
    BY <1>4, <1>5, <1>d, <2>1 DEF CallInsert
  <2>3. Store!CallInsert(p)
    BY <1>5 DEF CallInsert, Store!CallInsert, Progress, ProgressOf, Inserts, Store!Inserts
  <2> QED BY <2>2, <2>3 DEF Store!Next
<1>6. ASSUME NEW p \in Procs, NEW q \in Queries, CallDelete(p, q)
      PROVE  Progress' /\ [Store!Next]_(Store!vars)
  <2>2. Progress'
    BY <1>4, <1>6, <1>d DEF CallDelete, Inserts
  <2>3. Store!CallDelete(p)
    BY <1>6 DEF CallDelete, Store!CallDelete, Progress, ProgressOf
  <2> QED BY <2>2, <2>3 DEF Store!Next
<1>7. CASE Open \/ TuneDB \/ CreateTables \/ PrepareStatements \/ QueryMaxCounter \/ UNCHANGED vars
  <2>1. UNCHANGED <<db, tx, pc, op, batch, pos, query, rows>>
    BY <1>7 DEF Open, TuneDB, CreateTables, PrepareStatements, QueryMaxCounter, vars, procVars
  <2>2. Progress'
    BY <2>1 DEF Progress, ProgressOf, InsertProgress, DeleteProgress, Seen, HasId
  <2> QED BY <2>1, <2>2 DEF Store!vars
<1> QED BY <1>1, <1>2, <1>3, <1>5, <1>6, <1>7 DEF Next

(* The operations of db.go are atomic: with the committed statements for   *)
(* the store, every behaviour of StatementDB is one of StatementStore.     *)
THEOREM DBImplementsStore == Spec => ImplementsStore
<1>1. Init => Consistent /\ Progress /\ Store!Init
  BY InitConsistent, InitProgress
<1>2. Consistent /\ Progress /\ [Next]_vars =>
         Consistent' /\ Progress' /\ [Store!Next]_(Store!vars)
  BY ConsistentStep, NextProgress
<1> QED BY <1>1, <1>2, PTL DEF Spec, ImplementsStore, Store!Spec

-----------------------------------------------------------------------------
(* Insertion order *)

(* What a transaction has added is numbered above all that is committed,   *)
(* and a reader has been shown committed counters only.                    *)
Numbered ==
    /\ mark <= db.seq /\ db.seq <= tx.seq
    /\ \A r \in tx.env : r \in db.env \/ r.counter > db.seq

LEMMA NumberedStep ==
    Consistent /\ Numbered /\ [Next]_vars =>
        Numbered' /\ \A r \in db'.env \ db.env : r.counter > mark
<1> SUFFICES ASSUME Consistent, Numbered, [Next]_vars
             PROVE  Numbered' /\ \A r \in db'.env \ db.env : r.counter > mark
  OBVIOUS
<1>t. /\ db \in Tables /\ tx \in Tables /\ mark \in Nat
      /\ db.seq \in Nat /\ tx.seq \in Nat
      /\ \A r \in db.env \cup tx.env : r.counter \in Nat
  BY DEF Consistent, Typed, TypeOK, Tables, EnvelopeRows
<1>c. (\A r \in db.env : r.counter <= db.seq) /\ (\A r \in tx.env : r.counter <= tx.seq)
  BY DEF Consistent, TablesAgree, Agree, TransactionConsistent, CountersBelow
(* Steps that leave the counters alone, and steps that end a transaction. *)
<1>1. ASSUME UNCHANGED <<db, mark>>, tx'.env \subseteq tx.env, tx'.seq = tx.seq
      PROVE  Numbered' /\ \A r \in db'.env \ db.env : r.counter > mark
  BY <1>1 DEF Numbered
<1>2. ASSUME UNCHANGED mark, db' \in {db, tx}, tx' = db'
      PROVE  Numbered' /\ \A r \in db'.env \ db.env : r.counter > mark
  BY <1>2, <1>t, <1>c DEF Numbered
<1>3. ASSUME NEW p \in Procs, InsertEnvelope(p)
      PROVE  Numbered' /\ \A r \in db'.env \ db.env : r.counter > mark
  <2> DEFINE row == [counter |-> tx.seq + 1, id |-> Stmt(p).id, ns |-> Stmt(p).ns]
  <2>1. tx'.env = tx.env \cup {row} /\ tx'.seq = tx.seq + 1 /\ UNCHANGED <<db, mark>>
    BY <1>3, <1>t DEF InsertEnvelope, WithEnvelope, NextCounter, Tables
  <2>2. row.counter = tx.seq + 1
    OBVIOUS
  <2> HIDE DEF row
  <2> QED BY <2>1, <2>2, <1>t DEF Numbered
<1>4. ASSUME NEW p \in Procs, Step(p) \/ ExecFails(p) \/ StreamCut(p), ~InsertEnvelope(p)
      PROVE  Numbered' /\ \A r \in db'.env \ db.env : r.counter > mark
  <2>1. CASE InsertData(p)
    BY <1>1, <1>t, <2>1 DEF InsertData, WithData, Tables
  <2>2. CASE InsertRef(p)
    BY <1>1, <1>t, <2>2 DEF InsertRef, WithRef, Tables
  <2>3. CASE DeleteData(p)
    BY <1>1, <1>t, <2>3 DEF DeleteData, WithoutData, Tables
  <2>4. CASE DeleteEnvelope(p)
    BY <1>1, <1>t, <2>4 DEF DeleteEnvelope, WithoutEnvelope, Tables
  <2>5. CASE DeleteRefs(p)
    BY <1>1, <1>t, <2>5 DEF DeleteRefs, WithoutRefs, Tables
  <2>6. CASE LockInsert(p) \/ LockDelete(p) \/ StmtDone(p) \/ StreamCut(p)
    BY <1>1, <2>6 DEF LockInsert, LockDelete, StmtDone, StreamCut
  <2>7. CASE CommitInsert(p) \/ CommitDelete(p)
    BY <1>2, <2>7 DEF CommitInsert, CommitDelete, Return
  <2>8. CASE Rollback(p)
    BY <1>2, <2>8 DEF Rollback, Return
  <2>9. CASE DuplicateId(p)
    BY <1>1, <2>8, <2>9 DEF DuplicateId
  <2> QED BY <1>4, <2>1, <2>2, <2>3, <2>4, <2>5, <2>6, <2>7, <2>8, <2>9
          DEF Step, InsertStep, DeleteStep, ExecFails
<1>5. CASE Crash
  BY <1>2, <1>5 DEF Crash
<1>6. CASE QueryMaxCounter
  BY <1>6, <1>t, <1>c DEF QueryMaxCounter, Numbered
<1>7. CASE Open \/ TuneDB \/ CreateTables \/ PrepareStatements \/ UNCHANGED vars
  BY <1>1, <1>7 DEF Open, TuneDB, CreateTables, PrepareStatements, vars
<1>8. ASSUME NEW p \in Procs,
             \/ \E o \in Inserts, b \in Batches : CallInsert(p, o, b)
             \/ \E q \in Queries : CallDelete(p, q)
      PROVE  Numbered' /\ \A r \in db'.env \ db.env : r.counter > mark
  BY <1>1, <1>8 DEF CallInsert, CallDelete
<1> QED BY <1>3, <1>4, <1>5, <1>6, <1>7, <1>8 DEF Next

(* Rows become visible in the order of their counters, for every client    *)
(* that remembers the highest counter it was shown.                        *)
THEOREM RowsComeInOrder == Spec => InsertionOrder
<1>1. Init => Consistent /\ Numbered
  BY InitConsistent DEF Init, Numbered, EmptyTables
<1>2. Consistent /\ Numbered /\ [Next]_vars =>
         /\ Consistent' /\ Numbered'
         /\ [\A r \in db'.env \ db.env : r.counter > mark]_vars
  BY ConsistentStep, NumberedStep
<1> QED BY <1>1, <1>2, PTL DEF Spec, InsertionOrder

-----------------------------------------------------------------------------
(* The counts *)

(* No two rows of a result for one statement, and a statement for each. *)
RowsName(R, t) ==
    /\ \A r \in R : HasId(t, r.id)
    /\ \A r1, r2 \in R : r1.id = r2.id => r1 = r2

(* By how much the statements a transaction sees differ from the committed *)
(* ones at each place of its goroutine.                                    *)
TallyOf(p) ==
    /\ pc[p] = "lock" => count[p] = 0
    /\ pc[p] = "lock" /\ op[p] = "Delete" => query[p] \in Queries
    /\ pc[p] = "data" => Cardinality(tx.data) = Cardinality(db.data) + count[p]
    /\ pc[p] \in {"env", "refs"} => Cardinality(tx.data) = Cardinality(db.data) + count[p] + 1
    /\ pc[p] \in DeleteStages /\ Cardinality(query[p].wkis) <= 1 =>
          /\ RowsName(rows[p], tx)
          /\ Cardinality(db.data) =
                Cardinality(tx.data) + count[p] + (IF pc[p] = "rows" THEN 0 ELSE 1)

Tally ==
    /\ IsFiniteSet(db.data) /\ IsFiniteSet(tx.data)
    /\ \A p \in Procs : TallyOf(p)

(* A DELETE on at most one well-known id gets each statement at most once: *)
(* the join with Refs has one row for it.                                  *)
LEMMA QueryRowsName ==
    ASSUME NEW t \in Tables, Agree(t), NEW q \in Queries, Cardinality(q.wkis) <= 1
    PROVE  RowsName(QueryRows(t, q), t)
<1>1. CASE q.wkis # {}
  <2>1. PICK w : q.wkis = {w}
    <3>1. IsFiniteSet(q.wkis)
      BY QueriesAssumption
    <3>2. Cardinality(q.wkis) \in Nat /\ Cardinality(q.wkis) # 0
      BY <1>1, <3>1, FS_CardinalityType, FS_EmptySet
    <3>3. Cardinality(q.wkis) = 1
      BY <3>2
    <3> QED BY <3>1, <3>3, FS_Singleton
  <2>2. \A r \in QueryRows(t, q) : r \in t.refs /\ r.wki = w
    BY <1>1, <2>1 DEF QueryRows
  <2>3. \A r1, r2 \in t.refs : r1.id = r2.id /\ r1.wki = r2.wki => r1 = r2
    BY DEF Tables, RefsRows
  <2>4. \A r \in t.refs : HasId(t, r.id)
    BY DEF Agree, RefsMatch, HasId
  <2> QED BY <2>2, <2>3, <2>4 DEF RowsName
<1>2. CASE q.wkis = {} /\ q.ns = AnyNs
  BY <1>2 DEF QueryRows, RowsName, HasId
<1>3. CASE q.wkis = {} /\ q.ns # AnyNs
  <2>1. \A r \in t.env : HasId(t, r.id)
    BY DEF Agree, EnvelopesMatch, HasId
  <2> QED BY <1>3, <2>1 DEF QueryRows, RowsName
<1> QED BY <1>1, <1>2, <1>3

(* The primary key: a DELETE of an id that is there removes one statement. *)
LEMMA OneRemoved ==
    ASSUME NEW t \in Tables, IsFiniteSet(t.data), OnePerId(t.data), NEW i
    PROVE  /\ IsFiniteSet(WithoutData(t, i).data)
           /\ HasId(t, i) => Cardinality(t.data) = Cardinality(WithoutData(t, i).data) + 1
<1>1. WithoutData(t, i).data = {s \in t.data : s.id # i}
  BY DEF WithoutData, Tables
<1>2. IsFiniteSet(WithoutData(t, i).data)
  BY <1>1, FS_Subset
<1>3. ASSUME HasId(t, i)
      PROVE  Cardinality(t.data) = Cardinality(WithoutData(t, i).data) + 1
  <2>1. PICK s \in t.data : s.id = i
    BY <1>3 DEF HasId
  <2>2. WithoutData(t, i).data = t.data \ {s}
    BY <1>1, <2>1 DEF OnePerId
  <2>3. Cardinality(t.data \ {s}) = Cardinality(t.data) - 1 /\ Cardinality(t.data) \in Nat
    BY <2>1, FS_RemoveElement, FS_CardinalityType
  <2> QED BY <2>2, <2>3
<1> QED BY <1>2, <1>3

(* What a step of p that leaves the other goroutines alone has to show. *)
LEMMA OthersTally ==
    ASSUME Consistent, Tally, NEW p \in Procs, pc[p] \in Holding \/ wlock = None,
           IsFiniteSet(db'.data), IsFiniteSet(tx'.data), TallyOf(p)',
           \A q \in Procs \ {p} : /\ pc'[q] = pc[q] /\ op'[q] = op[q]
                                  /\ query'[q] = query[q] /\ count'[q] = count[q]
    PROVE  Tally'
<1>1. \A q \in Procs \ {p} : pc[q] \notin Holding
  BY NoneAssumption DEF Consistent, TransactionConsistent
<1>2. \A q \in Procs \ {p} : TallyOf(q)'
  BY <1>1 DEF Tally, TallyOf, Holding, DeleteStages
<1> QED BY <1>2 DEF Tally

LEMMA ReturnTally ==
    ASSUME Consistent, Tally, NEW p \in Procs, pc[p] \in Holding, Return(p),
           db' \in {db, tx}, tx' \in {db, tx}
    PROVE  Tally'
<1>1. /\ DOMAIN pc = Procs /\ DOMAIN op = Procs /\ DOMAIN query = Procs /\ DOMAIN count = Procs
  BY DEF Consistent, Typed, TypeOK
<1>2. pc'[p] = "idle"
  BY <1>1 DEF Return
<1>3. TallyOf(p)'
  BY <1>2 DEF TallyOf, DeleteStages
<1>4. \A q \in Procs \ {p} : /\ pc'[q] = pc[q] /\ op'[q] = op[q]
                             /\ query'[q] = query[q] /\ count'[q] = count[q]
  BY <1>1 DEF Return
<1>5. IsFiniteSet(db'.data) /\ IsFiniteSet(tx'.data)
  BY DEF Tally
<1> QED BY <1>3, <1>4, <1>5, OthersTally

LEMMA InsertStepTally ==
    ASSUME Consistent, Tally, NEW p \in Procs, InsertStep(p) \/ ExecFails(p)
    PROVE  Tally'
<1>d. /\ DOMAIN pc = Procs /\ DOMAIN op = Procs /\ DOMAIN query = Procs /\ DOMAIN count = Procs
      /\ tx \in Tables /\ count[p] \in Nat
  BY DEF Consistent, Typed, TypeOK
<1>i. TallyOf(p) /\ IsFiniteSet(tx.data) /\ IsFiniteSet(db.data)
  BY DEF Tally
<1>c. Cardinality(tx.data) \in Nat /\ Cardinality(db.data) \in Nat
  BY <1>i, FS_CardinalityType
<1>1. CASE LockInsert(p)
  <2>1. /\ wlock = None /\ tx = db /\ UNCHANGED <<db, tx, op, query, count>>
        /\ pc[p] = "lock" /\ pc'[p] = "data" /\ \A q \in Procs \ {p} : pc'[q] = pc[q]
    BY <1>1, <1>d DEF LockInsert, Consistent, TransactionConsistent
  <2>2. Cardinality(tx'.data) = Cardinality(db'.data) + count'[p]
    BY <2>1, <1>i, <1>c DEF TallyOf
  <2>3. TallyOf(p)'
    BY <2>1, <2>2 DEF TallyOf, DeleteStages
  <2> QED BY <2>1, <2>3, <1>i, OthersTally
<1>2. CASE InsertData(p)
  <2>1. /\ pc[p] = "data" /\ pc'[p] = "env" /\ UNCHANGED <<db, op, query, count>>
        /\ \A q \in Procs \ {p} : pc'[q] = pc[q]
    BY <1>2, <1>d DEF InsertData
  <2>2. tx'.data = tx.data \cup {Stmt(p)} /\ Stmt(p) \notin tx.data
    BY <1>2, <1>d DEF InsertData, WithData, HasId, Tables
  <2>3. IsFiniteSet(tx'.data) /\ Cardinality(tx'.data) = Cardinality(tx.data) + 1
    BY <2>2, <1>i, FS_AddElement
  <2>4. Cardinality(tx'.data) = Cardinality(db'.data) + count'[p] + 1
    BY <2>1, <2>3, <1>i, <1>c, <1>d DEF TallyOf
  <2>5. TallyOf(p)'
    BY <2>1, <2>4 DEF TallyOf, DeleteStages
  <2> QED BY <2>1, <2>3, <2>5, <1>i, OthersTally DEF Holding
<1>3. CASE InsertEnvelope(p) \/ InsertRef(p)
  <2>1. /\ pc[p] \in {"env", "refs"} /\ pc'[p] = "refs" /\ UNCHANGED <<db, op, query, count>>
        /\ \A q \in Procs \ {p} : pc'[q] = pc[q]
    BY <1>3, <1>d DEF InsertEnvelope, InsertRef
  <2>2. tx'.data = tx.data
    BY <1>3, <1>d DEF InsertEnvelope, InsertRef, WithEnvelope, WithRef, Tables
  <2>3. TallyOf(p)'
    BY <2>1, <2>2, <1>i DEF TallyOf, DeleteStages
  <2> QED BY <2>1, <2>2, <2>3, <1>i, OthersTally DEF Holding
<1>4. CASE StmtDone(p)
  <2>1. /\ pc[p] = "refs" /\ pc'[p] = "data" /\ UNCHANGED <<db, tx, op, query>>
        /\ count'[p] = count[p] + 1
        /\ \A q \in Procs \ {p} : pc'[q] = pc[q] /\ count'[q] = count[q]
    BY <1>4, <1>d DEF StmtDone
  <2>2. Cardinality(tx'.data) = Cardinality(db'.data) + count'[p]
    BY <2>1, <1>i, <1>c, <1>d DEF TallyOf
  <2>3. TallyOf(p)'
    BY <2>1, <2>2 DEF TallyOf, DeleteStages
  <2> QED BY <2>1, <2>3, <1>i, OthersTally DEF Holding
<1>5. CASE Rollback(p) /\ pc[p] \in Holding
  BY <1>5, ReturnTally DEF Rollback
<1>6. CASE DuplicateId(p)
  <2>1. CASE Rollback(p)
    BY <1>5, <1>6, <2>1 DEF DuplicateId, Holding
  <2>2. CASE ~Rollback(p)
    <3>1. pc[p] = "data" /\ UNCHANGED <<db, tx, pc, op, query, count>>
      BY <1>6, <2>2 DEF DuplicateId
    <3>2. TallyOf(p)'
      BY <3>1, <1>i DEF TallyOf, DeleteStages
    <3> QED BY <3>1, <3>2, <1>i, OthersTally DEF Holding
  <2> QED BY <2>1, <2>2
<1>7. CASE CommitInsert(p)
  BY <1>7, ReturnTally DEF CommitInsert, Holding
<1> QED BY <1>1, <1>2, <1>3, <1>4, <1>5, <1>6, <1>7 DEF InsertStep, ExecFails

LEMMA DeleteStepTally ==
    ASSUME Consistent, Tally, NEW p \in Procs, DeleteStep(p) \/ StreamCut(p)
    PROVE  Tally'
<1>d. /\ DOMAIN pc = Procs /\ DOMAIN op = Procs /\ DOMAIN query = Procs /\ DOMAIN count = Procs
      /\ DOMAIN rows = Procs /\ tx \in Tables /\ db \in Tables /\ count[p] \in Nat
  BY DEF Consistent, Typed, TypeOK
<1>i. TallyOf(p) /\ IsFiniteSet(tx.data) /\ IsFiniteSet(db.data)
  BY DEF Tally
<1>c. Cardinality(tx.data) \in Nat /\ Cardinality(db.data) \in Nat
  BY <1>i, FS_CardinalityType
<1>1. CASE LockDelete(p)
  <2>1. /\ wlock = None /\ tx = db /\ UNCHANGED <<db, tx, op, query, count>>
        /\ pc[p] = "lock" /\ op[p] = "Delete" /\ pc'[p] = "rows"
        /\ \A q \in Procs \ {p} : pc'[q] = pc[q]
    BY <1>1, <1>d DEF LockDelete, Consistent, TransactionConsistent
  <2>2. query[p] \in Queries /\ count[p] = 0
    BY <2>1, <1>i DEF TallyOf
  <2>3. rows'[p] \subseteq QueryRows(db, query[p])
    BY <1>1, <1>d DEF LockDelete, LimitedTo
  <2>4. ASSUME Cardinality(query[p].wkis) <= 1
        PROVE  RowsName(rows'[p], tx')
    <3>1. RowsName(QueryRows(db, query[p]), db)
      BY <2>2, <2>4, <1>d, QueryRowsName DEF Consistent, TablesAgree
    <3> QED BY <2>1, <2>3, <3>1 DEF RowsName
  <2>5. Cardinality(db'.data) = Cardinality(tx'.data) + count'[p] + 0
    BY <2>1, <2>2, <1>c
  <2>6. TallyOf(p)'
    BY <2>1, <2>4, <2>5 DEF TallyOf
  <2> QED BY <2>1, <2>6, <1>i, OthersTally
<1>2. CASE DeleteData(p)
  <2>1. /\ pc[p] = "rows" /\ pc'[p] = "denv" /\ UNCHANGED <<db, op, query, count>>
        /\ \A q \in Procs \ {p} : pc'[q] = pc[q]
    BY <1>2, <1>d DEF DeleteData
  <2>2. PICK r \in rows[p] : tx' = WithoutData(tx, r.id) /\ rows'[p] = rows[p] \ {r}
    BY <1>2, <1>d DEF DeleteData
  <2>o. OnePerId(tx.data)
    BY DEF Consistent, TransactionConsistent
  <2>3. IsFiniteSet(tx'.data)
    BY <2>2, <2>o, <1>d, <1>i, OneRemoved
  <2>4. ASSUME Cardinality(query[p].wkis) <= 1
        PROVE  /\ RowsName(rows'[p], tx')
               /\ Cardinality(db'.data) = Cardinality(tx'.data) + count'[p] + 1
    <3>1. RowsName(rows[p], tx) /\ Cardinality(db.data) = Cardinality(tx.data) + count[p] + 0
      BY <2>1, <2>4, <1>i DEF TallyOf, DeleteStages
    <3>2. Cardinality(tx.data) = Cardinality(tx'.data) + 1
      BY <2>2, <2>o, <3>1, <1>d, <1>i, OneRemoved DEF RowsName
    <3>3. Cardinality(tx'.data) \in Nat
      BY <2>3, FS_CardinalityType
    <3>4. tx'.data = {s \in tx.data : s.id # r.id}
      BY <2>2, <1>d DEF WithoutData, Tables
    <3>5. RowsName(rows'[p], tx')
      BY <2>2, <3>1, <3>4 DEF RowsName, HasId
    <3> QED BY <2>1, <3>1, <3>2, <3>3, <3>5, <1>c, <1>d
  <2>5. TallyOf(p)'
    BY <2>1, <2>4 DEF TallyOf
  <2> QED BY <2>1, <2>3, <2>5, <1>i, OthersTally DEF Holding
<1>3. CASE DeleteEnvelope(p)
  <2>1. /\ pc[p] = "denv" /\ pc'[p] = "drefs" /\ UNCHANGED <<db, op, query, rows, count>>
        /\ \A q \in Procs \ {p} : pc'[q] = pc[q]
    BY <1>3, <1>d DEF DeleteEnvelope
  <2>2. tx'.data = tx.data
    BY <1>3, <1>d DEF DeleteEnvelope, WithoutEnvelope, Tables
  <2>3. TallyOf(p)'
    BY <2>1, <2>2, <1>i DEF TallyOf, DeleteStages, RowsName, HasId
  <2> QED BY <2>1, <2>2, <2>3, <1>i, OthersTally DEF Holding
<1>4. CASE DeleteRefs(p)
  <2>1. /\ pc[p] = "drefs" /\ pc'[p] = "rows" /\ UNCHANGED <<db, op, query, rows>>
        /\ count'[p] = count[p] + 1
        /\ \A q \in Procs \ {p} : pc'[q] = pc[q] /\ count'[q] = count[q]
    BY <1>4, <1>d DEF DeleteRefs
  <2>2. tx'.data = tx.data
    BY <1>4, <1>d DEF DeleteRefs, WithoutRefs, Tables
  <2>3. ASSUME Cardinality(query[p].wkis) <= 1
        PROVE  /\ RowsName(rows'[p], tx')
               /\ Cardinality(db'.data) = Cardinality(tx'.data) + count'[p] + 0
    <3>1. RowsName(rows[p], tx) /\ Cardinality(db.data) = Cardinality(tx.data) + count[p] + 1
      BY <2>1, <2>3, <1>i DEF TallyOf, DeleteStages
    <3>2. RowsName(rows'[p], tx')
      BY <2>1, <2>2, <3>1 DEF RowsName, HasId
    <3> QED BY <2>1, <2>2, <3>1, <3>2, <1>c, <1>d
  <2>4. TallyOf(p)'
    BY <2>1, <2>3 DEF TallyOf
  <2> QED BY <2>1, <2>2, <2>4, <1>i, OthersTally DEF Holding
<1>5. CASE StreamCut(p)
  <2>1. pc[p] = "rows" /\ rows'[p] = {} /\ UNCHANGED <<db, tx, pc, op, query, count>>
    BY <1>5, <1>d DEF StreamCut
  <2>2. RowsName(rows'[p], tx')
    BY <2>1 DEF RowsName
  <2>3. TallyOf(p)'
    BY <2>1, <2>2, <1>i DEF TallyOf
  <2> QED BY <2>1, <2>3, <1>i, OthersTally DEF Holding
<1>6. CASE CommitDelete(p)
  BY <1>6, ReturnTally DEF CommitDelete, Holding
<1> QED BY <1>1, <1>2, <1>3, <1>4, <1>5, <1>6 DEF DeleteStep

LEMMA InitTally == Init => Tally
<1> SUFFICES ASSUME Init PROVE Tally
  OBVIOUS
<1>1. IsFiniteSet(db.data) /\ IsFiniteSet(tx.data)
  BY FS_EmptySet DEF Init, EmptyTables
<1>2. \A p \in Procs : TallyOf(p)
  BY DEF Init, TallyOf, DeleteStages
<1> QED BY <1>1, <1>2 DEF Tally

LEMMA TallyStep == Consistent /\ Tally /\ [Next]_vars => Tally'
<1> SUFFICES ASSUME Consistent, Tally, [Next]_vars PROVE Tally'
  OBVIOUS
<1>d. /\ DOMAIN pc = Procs /\ DOMAIN op = Procs /\ DOMAIN query = Procs /\ DOMAIN count = Procs
  BY DEF Consistent, Typed, TypeOK
<1>1. ASSUME NEW p \in Procs, Step(p) \/ ExecFails(p) \/ StreamCut(p)
      PROVE  Tally'
  BY <1>1, InsertStepTally, DeleteStepTally DEF Step
<1>2. CASE Crash
  <2>1. \A p \in Procs : pc'[p] = "idle"
    BY <1>2 DEF Crash
  <2>2. \A p \in Procs : TallyOf(p)'
    BY <2>1 DEF TallyOf, DeleteStages
  <2> QED BY <1>2, <2>2 DEF Crash, Tally
<1>3. ASSUME NEW p \in Procs, UNCHANGED <<db, tx, rows>>, pc[p] = "idle", pc'[p] = "lock", count'[p] = 0,
             op'[p] = "Delete" => query'[p] \in Queries,
             \A q \in Procs \ {p} : /\ pc'[q] = pc[q] /\ op'[q] = op[q]
                                    /\ query'[q] = query[q] /\ count'[q] = count[q]
      PROVE  Tally'
  <2>1. TallyOf(p)'
    BY <1>3 DEF TallyOf, DeleteStages
  <2>2. \A q \in Procs \ {p} : TallyOf(q)'
    BY <1>3 DEF Tally, TallyOf, RowsName, HasId
  <2> QED BY <1>3, <2>1, <2>2 DEF Tally
<1>4. ASSUME NEW p \in Procs, NEW o \in Inserts, NEW b \in Batches, CallInsert(p, o, b)
      PROVE  Tally'
  BY <1>3, <1>4, <1>d DEF CallInsert, Inserts
<1>5. ASSUME NEW p \in Procs, NEW q \in Queries, CallDelete(p, q)
      PROVE  Tally'
  BY <1>3, <1>5, <1>d DEF CallDelete
<1>6. CASE Open \/ TuneDB \/ CreateTables \/ PrepareStatements \/ QueryMaxCounter \/ UNCHANGED vars
  <2>1. UNCHANGED <<db, tx, pc, op, query, rows, count>>
    BY <1>6 DEF Open, TuneDB, CreateTables, PrepareStatements, QueryMaxCounter, vars, procVars
  <2> QED BY <2>1 DEF Tally, TallyOf, RowsName, HasId
<1> QED BY <1>1, <1>2, <1>4, <1>5, <1>6 DEF Next

(* The number an insert or a DELETE on at most one well-known id returns   *)
(* is the number of statements that its commit adds or removes, whatever   *)
(* duplicates were skipped and wherever the stream of rows ended.          *)
THEOREM CountsAreTrue == Spec => CountsStatements
<1>1. Init => Consistent /\ Tally
  BY InitConsistent, InitTally
<1>2. Consistent /\ Tally /\ [Next]_vars => Consistent' /\ Tally'
  BY ConsistentStep, TallyStep
<1>3. ASSUME Consistent, Tally, NEW p \in Procs
      PROVE  /\ CommitInsert(p) => count[p] = Cardinality(db'.data) - Cardinality(db.data)
             /\ CommitDelete(p) /\ Cardinality(query[p].wkis) <= 1 =>
                   count[p] = Cardinality(db.data) - Cardinality(db'.data)
  <2>1. Cardinality(tx.data) \in Nat /\ Cardinality(db.data) \in Nat /\ count[p] \in Nat
    BY <1>3, FS_CardinalityType DEF Tally, Consistent, Typed, TypeOK
  <2>2. TallyOf(p)
    BY <1>3 DEF Tally
  <2>3. CommitInsert(p) => db' = tx /\ Cardinality(tx.data) = Cardinality(db.data) + count[p]
    BY <2>2 DEF CommitInsert, TallyOf
  <2>4. CommitDelete(p) /\ Cardinality(query[p].wkis) <= 1 =>
           db' = tx /\ Cardinality(db.data) = Cardinality(tx.data) + count[p] + 0
    BY <2>2 DEF CommitDelete, TallyOf, DeleteStages
  <2> QED BY <2>1, <2>3, <2>4
<1>4. Consistent /\ Tally =>
         [\A p \in Procs :
             /\ CommitInsert(p) => count[p] = Cardinality(db'.data) - Cardinality(db.data)
             /\ CommitDelete(p) /\ Cardinality(query[p].wkis) <= 1 =>
                   count[p] = Cardinality(db.data) - Cardinality(db'.data)]_vars
  BY <1>3
<1> QED BY <1>1, <1>2, <1>4, PTL DEF Spec, CountsStatements

=============================================================================
