# A TLA+ model of concat

concat is the reference implementation of the mediachain peer-to-peer network:
`mcnode`, a node that keeps signed statements and the data objects they refer
to and exchanges them with its peers, and `mcdir`, a directory in which nodes
make themselves known. This project models the parts of it in which goroutines,
transactions, streams and processes meet, checks the models with TLC, and
proves the central properties with TLAPS.

1. [The system](#the-system)
2. [Modules and the code](#modules-and-the-code)
3. [Runs](#runs)
4. [What disagrees with its documentation](#what-disagrees-with-its-documentation)
5. [Proofs](#proofs)
6. [What is not modelled](#what-is-not-modelled)
7. [Plan](#plan)

## The system

| Component | State | Operations | Meets |
|---|---|---|---|
| Statement database (`mcnode/db.go`) | tables Statement, Envelope, Refs in SQLite; `wlock` | `Open`, `Put`, `PutBatch`, `Merge`, `MergeBatch`, `Delete`, `Query`, `QueryStream`, `Vacuum` | called by every HTTP handler, by merge, push and collection |
| Datastore (`mcnode/ds.go`) | objects by hash in RocksDB | `Put`, `PutBatch`, `Has`, `Get`, `Delete`, `IterKeys` | HTTP handlers, merge workers, collection, `dataHandler` |
| Garbage collection (`mcnode/gc.go`) | a temporary table of referenced keys | `doGC` | reads the statement db, deletes from the datastore, beside all other requests |
| Merge (`mcnode/proto.go`) | channels `ch`, `workch`, `resch`, batches of statements and keys | `doMergeStream`, `doMergeDataAsync`, `dataHandler` | one reader, NumCPU workers, a peer |
| Push (`mcnode/proto.go`, `PeerAuth` in `node.go`) | rules per peer, the stream under way | `doPush`, `pushHandler` | runs a merge on the receiving side |
| Node life cycle (`mcnode/net.go`, `dht.go`) | status, host, DHT, network context | `goOffline`, `goOnline`, `goPublic`, `registerPeer`, `registerPeerDHT` | background loops read what the transitions replace |
| Lookups (`mcnode/net.go`) | none of its own | `doLookupImpl`, `doDirCollect`, `doDirListMF` | one goroutine per directory and one for the DHT |
| Statements and configuration (`mcnode/node.go`) | id counter, `config.json`, auth rules | `makeStatement`, `saveConfig`, `loadConfig`, `doShutdown` | concurrent HTTP handlers, restarts |
| HTTP API (`mcnode/api.go`) | none | one handler per route | calls all of the above |
| MCQL (`mc/query`) | none | parse, compile to SQL, evaluate | statement db, queries from peers |
| Directory (`mcdir`) | peer table, manifest store with known keys | `registerHandler`, lookup and list handlers | one handler per stream of a node |
| Identities, entities, NAT, wire format | keys in files, a cached address | sequential | |

What is hard in this code, and what makes each part right:

* **Statement database.** One statement is three inserts and one delete is
  three deletes, each of which may fail; batches skip duplicates inside an open
  transaction; the process may end at any point, also while the tables are
  being created. It is right when the tables always agree, a call takes effect
  whole or not at all, its count is the truth, insertion counters are never
  given out again, and the lock is always released.
* **Collection.** It reads the statements first and deletes later, holds no
  lock, and cannot tell a stream that was cut from one that ended. It is right
  when it deletes no object in use, deletes what is not, and ends.
* **Merge.** Errors come from the stream, from the database, from any worker,
  and from the context, at any time. It is right when success means complete,
  when counters are right in all cases, when it ends and leaves no goroutine.
* **Directory.** A node that reconnects has two handlers for a while, and a
  key lookup lets other handlers in between. It is right when nodes that are
  there are listed, those that are gone are not, and only verified manifests are
  stored.
* **Push.** The sender learns what it may send before it reads what it sends;
  the receiver's merge may fail while either end reads or writes. It is right
  when only allowed namespaces get in, success means complete, the number
  reported is true or said to be unknown, and neither end waits for a result that
  does not come.
* **Life cycle.** A network is taken down while goroutines use it, and they read
  `status`, `host`, `dht` and `netCtx` without the lock. It is right when the
  status is true between calls, the loops of a former network end, and no
  goroutine panics on a network that is up.
* **Configuration and ids.** Requests save beside one another, the file is
  truncated and written in place, the process may end in between; the counter of
  ids starts anew with each process. It is right when a restart finds what was
  saved, the file is broken by nothing else, and a process gives no id twice.
* **Lookups.** Several directories and the DHT are asked at once, and answer
  late, never, or from tables that change. It is right when what is returned is
  what was heard, failure is told from not knowing, and nobody waits in vain.
* **MCQL.** A query is parsed by a generated parser into an untyped stack,
  compiled to a text that SQLite parses again, and evaluated a second time over
  statements in memory. It is right when all four readings are the same query.

## Modules and the code

| Module | Models |
|---|---|
| `StatementStore` | what the statement database promises: atomic operations on one set of statements |
| `StatementDB` | `db.go`: tables, transactions, lock, streams of deletes, table creation, crashes |
| `NodeGC` | `gc.go` beside the requests that change statements, objects and status |
| `Merge` | what a merge promises the goroutine that feeds it: what it takes, what it stores, and the one result |
| `MergeStream` | `doMergeStream` and its workers in `proto.go`, with the peer's `dataHandler` |
| `Push` | `doPush`, `pushHandler` and `PeerAuth`, with the receiver's merge as `Merge` has it |
| `Directory` | `registerHandler`, `dir.go` and `mfs.go` of mcdir with the registering loop of `net.go` |
| `NodeNet` | `goOffline`, `goOnline`, `goPublic` and the goroutines on a network in `net.go` |
| `Lookup` | `doLookup` and `doDirCollect` of `net.go` with the query handlers of mcdir |
| `NodeProcess` | `saveConfig`, `loadConfig` and `makeStatement` of `node.go` across restarts |
| `Peg`, `QueryParser` | the generated parser of MCQL: matching, and the rules of the grammar |
| `ParseState`, `QueryCompile`, `QueryEval` | `parse.go`, `compile.go`, and `eval.go` with `stmt.go` |
| `QueryEngine` | a query from its text to its rows and its evaluation |
| `MCStatementDB`, `MCNodeGC`, `MCMergeStream`, `MCPush`, `MCDirectory`, `MCNodeNet`, `MCLookup`, `MCNodeProcess`, `MCQueryEngine` | small instances for TLC |
| `StatementDBProofs`, `NodeGCProofs`, `MergeStreamProofs`, `PushProofs`, `DirectoryProofs`, `NodeNetProofs`, `LookupProofs`, `NodeProcessProofs` | theorems |

**StatementDB.** `db` holds the committed tables and `tx` the tables as the
open transaction sees them; SQLite is external and is taken to give atomic,
durable commits and readers a committed snapshot. Each SQL statement a method
executes is an action (`InsertData`, `InsertEnvelope`, `InsertRef`,
`DeleteData`, `DeleteEnvelope`, `DeleteRefs`), and `ExecFails` lets any of them,
and Begin and Commit, fail. `Put`, `PutBatch`, `Merge` and `MergeBatch` share
these actions, as their code is the same but for duplicates (`DuplicateId`). A
statement is its id, namespace and set of references; a DELETE query its
namespace, the well-known ids it asks for and its LIMIT. `QueryRows` is the
SELECT such a query compiles to, one row per matching reference. `Open`,
`TuneDB`, `CreateTables` and `PrepareStatements` are the first start, one step
per DDL statement; `Crash` may come anywhere.

**NodeGC.** The collection is `GCStart`, `StreamOpen`, `StreamRow`,
`StreamEnd`, `IterOpen`, `GCKey`, `GCEnd`; `StreamCut` and `IterCut` are the
channels closed early, `GCFails` the error returns. A statement is the sequence
of its parts, because `addKeys` stops at a part it does not know.

**MergeStream.** A step of the main goroutine is one channel operation or one
transaction with the computation that follows. Verification, hashing and
decoding appear as their outcome. `seen` and `found` are history variables. A
worker fetches one object at a time, so that fetches of two workers
interleave. Under the mapping `Outside` the module implements `Merge`: what is
pending is the statement at hand and the batch that is being filled, until the
merge returns, which is when its result is posted.

**Push.** Four goroutines: `doPush` (`spc`), the one that waits for the report
(`ReadReport`), `pushHandler` (`rpc`) and its merge (`mpc`). The merge is that of
`Merge`: it takes statements, stores batches, and posts one result, early when it
fails. The mapping `Merging` relates the two, and `MergeStream` implements the
same `Merge`, so that the three modules compose. `Publish`, `DeleteStatement` and `SetRules` change
what the two ends read between their steps. Which namespaces a rule covers (an
exact name, a prefix, `*`) is the constant `Covers`. `LimitedTo` is the LIMIT,
which `doPush` applies to the namespaces as well as to the statements.
`StreamEnds` is a stream closed at its end, at a read error or by the context,
which the code cannot tell apart; `cut` remembers which it was. Object counts
are left out: they travel with the statement counts.

**Directory.** A connection of a node is a stream `<<p, n>>` with a handler of
its own. A handler that has not noticed the end of its stream (`ReadEnd`) runs
on beside the handler of the next one. The lock of the manifest store is in the
model because `putManifest` lets go of it during the key lookup. The node
registers again and again (`Register`), and connects again only after a write
failed (`RegisterFails`). Breaking connections (`Break`) are the transport's.

**NodeNet.** A network is a number and 0 is nil. A call takes `mx` and goes
through its assignments one by one (`Offline`, `CloseDHT`, `CloseHost`, `Down`;
`NewNet`, `Up`; `NewNet`, the five seconds, `StartLoops`, `Visible`). `LoopStep`
is `registerPeer` with `registerPeerImpl` and `doDirConnect`: the status is read
in one step and the host used in a later one, and it is the host of that moment
that is used. A use of nil is a panic (`crash`), which ends the process. `late`
counts the registrations a loop sends after its context was cancelled.

**Lookup.** One request, from the call to the end of its last worker. A worker
asks one directory (`AskDirectory`, `HandleQuestion`, `ReadAnswer`), or the DHT,
and sends its result to a channel; the caller takes results (`TakeOfLookup`,
`TakeOfCollect`) or notices its context (`Cancelled`). `stalled` is the set of
directories that accept a request and do not answer. A single directory is asked
without a select on the context, as in the code. `ever` and `always` say what a
directory listed at some time, and all the time, since the request began. What
registering does to the tables is `Directory`'s; here they change at will.

**NodeProcess.** A handler assigns a field (`HandleSet`) and saves:
`ReadField` five times, `Truncate`, `Write`. The file has a text and a size, so
that a short text written over the end of a longer one by a save that overlaps
is broken, as is a write that was cut short (`CutShort`). `Marshal` omits fields
that are not set; `Unmarshal` knows the key of a former version. `doubt` is a
history variable with the accidents since a save was last made alone. A
statement's id is the second and the counter, read in two steps. A value of Go
that takes several words (a slice, an interface) is read and assigned as a
whole; a torn read is not modelled.

**MCQL.** `Peg` has the expressions of parsing expression grammars and `Match`,
which gives up an alternative with its tokens as the generated code does by
restoring `position` and `tokenIndex`. The rules in `QueryParser` are those of
`query.peg.go`, over lexemes instead of characters. `ParseState` has one
operator for each action on the stack; a pop of an empty stack or of another type is
a panic. `QueryCompile` yields tables, columns and the WHERE clause as a
sequence of tokens, which `QueryEngine` parses again with SQLite's precedence.
`QueryText` writes a query out, so that the parser can be asked for it back.

Operators whose comment begins with "Slip" (`RefsForgotten`, `ReturnLocked`,
`CollectFirst`, `TimerOnly`, ...) are variants of the
definition that follows them, as a plausible bug would have it. No
specification uses them; put in the place of the definition they show that the
property each is meant for can fail (the list `mutants` in `PROJECT.json`).

## Runs

| Run | Specification | Instance | Checks |
|---|---|---|---|
| `statementdb` | `FairSpec` | 2 goroutines, 3 statements of which 2 have one id, batches of 1 and 2, 4 queries, at most 2 numbered rows before the last call | `TypeOK`, `TablesAgree`, `StoredIsServed`, `CountsStatements`, `InsertionOrder`, `LockReleased`, `ImplementsStore` |
| `nodegc` | `FairSpec` | 3 objects, 3 statements, batches of 2 keys, both faults, clients active | `SnapshotKept`, `OrphansCollected`, `GCTerminates` |
| `mergestream` | `FairSpec` | 2 workers, a queue of 1 batch, batches of 2 keys and 2 statements, 4 streams, 2 peers, 2 initial databases | `SuccessIsComplete`, `SuccessIsWhole`, `CountsReported`, `NoWorkerLeft`, `Terminates`, `ImplementsMerge` |
| `push` | `FairSpec` | 3 statements in 2 namespaces, a rule for one namespace and one for both, a stream of 1 message, LIMIT 1 or none, an empty receiver and one that has a statement | `OnlyAuthorized`, `PushIsComplete`, `ReportTrue`, `PushEnds`, `ImplementsMerge` |
| `directory` | `Spec` | 2 nodes with 2 and 1 connections, 2 manifests under one key, a rejected registration, 1 change, 1 restart | `TypeOK`, `NoGhosts` |
| `directory_live` | `FairSpec` | the same without rejections, changes and restarts | `EventuallyListed`, `EventuallyForgotten` |
| `nodenet` | `FairSpec` | 2 callers, 1 directory, 2 networks | `StatusTrue`, `CrashByTakedown`, `LastRound`, `OldLoopsEnd` |
| `lookup` | `FairSpec` | 0 to 2 directories of which any may stall, 2 peers, every kind of question, 1 change of a table | `LookupSound`, `CollectSound`, `RequestEnds` |
| `nodeprocess` | `Spec` | 2 requests at a time and 3 in all, texts of several lengths, batches of 2, 2 ends of the process, 2 seconds | `BrokenByAccident`, `IdsUnique`, `RestartRestores` |
| `mcql` | `Spec` | queries with every selector, criterion and order, criteria of depth 2 and some of depth 3, stray texts, databases of up to 3 statements | `StackBalanced`, `ParsesBack`, `Resolves`, `AnswersAgree`, `IndexSound` |
| `delete_count`, `gc_cancel` | `Spec` | as `statementdb`; as `nodegc` without clients | one property each, which fails (next section) |

**Bounds.** `MaxSeq` stops new inserts once two rows were numbered; a batch of
two that is under way may go beyond it, and a delete and an insert after it
still happen, which is what `InsertionOrder` needs. Two goroutines suffice to
contend for a lock that serialises everything. In the merge a queue of one
batch is full as soon as one worker is busy and the other has failed; streams
leave both batches exactly full, partly filled and empty at the end of the
loop. In the directory two connections of one node give an old and a new
handler, and the second node sends the same manifest. `MaxChanges`,
`MaxRestarts` and `MaxConns` bound what the environment does; TLC stops where
a node has used up its connections, hence `CHECK_DEADLOCK FALSE` in the
directory's runs. A push ends, hence the same in `push`; `PushEnds` says in which
states. The stream of one message makes every write of the sender wait for the
receiver, and a db of three statements has one on its way, one being written and
one to come. Two networks are a former and a current one, and two callers
contend for `mx`; `MaxNets` keeps a third from being made. In `lookup` two
directories are the least for which results are collected at all, and every
table of two peers is an initial state. In `nodeprocess` two saves overlap in
every way and a third is made after them; two ends give a start from what a cut
write left, and one after that. Requests are interchangeable there, hence the
symmetry. `nodenet`, `lookup`, `nodeprocess` and `mcql` stop where a process has
panicked or could not start, a request has ended, requests or networks are used
up, or a query is answered, hence `CHECK_DEADLOCK FALSE`. The other runs check
for deadlock.

**Fairness.** `StatementDB`, `NodeGC` and `MergeStream` ask for weak fairness
of the steps of each goroutine: the Go scheduler runs a goroutine that can run.
Failures and crashes are not fair. In `MergeStream` this includes the peer's
answer: it answers or its connection breaks. The code sets no deadline of its
own, so `Terminates` rests on the transport for that. `Push` asks for the same
of its four goroutines, but not for `WriteRefused`: `pushHandler` returns
without reading what is on its way, and whether a write into such a stream fails
or waits is up to the transport, so `PushEnds` allows for a sender that is left
in a write. `Directory` asks for
strong fairness of a handler's steps, because a handler competes for a mutex
that others take again and again, and Go's mutex does not starve a waiter; it
also takes it that `LookupEntityKey` returns and that the end of a stream is
reported. The node's timer goes off (`Register`). `NodeNet` asks for strong
fairness of a caller, who waits for the same kind of mutex, and weak fairness of
the registration loops, with the directories and with the DHT: connecting,
writing, providing and closing end. New requests are
not fair. `Lookup` asks for weak fairness of the caller, of the workers and of
directories that do not stall, and that the ten seconds of a list pass; for
`/net/lookup`, which sets no time limit of its own, it does not ask for that.

**What the properties say.** `ImplementsStore` is refinement: under the mapping
`store <- db.data` every behaviour of the database is one of `StatementStore`,
so a batch of `Put` or `PutBatch` is all or nothing, a merge adds the first
statement of each new id and overwrites nothing, and a delete removes nothing
its query does not match, with failures and crashes at every step.
`StoredIsServed` is about a first start that is cut off between two DDL
statements: what it leaves is either refused by every later start, and then
holds nothing, or has the tables and the unique index. `InsertEnvelope` asks the
index only if it exists, and `DDL` has the order of the code, so that it is the
order that decides.
`ImplementsMerge` is refinement too, on both sides of a push: `MergeStream` and
the merge inside `Push` are both behaviours of `Merge`. The types of these two
modules are not checked by a run but proved (`TypeCorrect`, `Typed`).
`SuccessIsComplete` covers statements that were stored before the merge: a
merge repeated after a partial one fetches what was missing. `CountsReported`
includes the comment on `doMergeDataAsync` that an object is fetched at most
NumCPU times. `EventuallyListed` says that the periodic registration repairs
whatever late handlers and other nodes took out. `RestartRestores` and
`BrokenByAccident` say exactly under which accidents a change that was answered
with OK is lost, or the node cannot start again: saves that overlap, fail, or are
cut short; the next save made alone mends the file. `IdsUnique` leaves out ids
of an earlier process: within one second they are given again. `CrashByTakedown`
allows the panics the code has (a goroutine whose network is taken down between
its look at the status and its use of the host) and no others. `AnswersAgree`
compares the two implementations of a query wherever they are meant to be the
same, which `SameFilters` and `SameResults` spell out (next section);
`IndexSound` says of all other criteria on well-known ids without a negation
that SQL returns nothing the evaluator does not.

## What disagrees with its documentation

* `delete_count`: a DELETE with `wki = a OR wki = b` counts a statement that has
  both references twice ("Returns the number of statements deleted",
  `api.go:710`). With at most one well-known id the count is exact
  (`CountsStatements`).
* `gc_cancel`: when the client of `POST /data/gc` goes away while statements
  are read, the collection takes the cut stream for the whole database and may
  delete objects in use (`api.go:911`).

Other behaviour that a reader of the code may not expect; the models have it, and
the properties are stated so that they allow it and nothing beyond it:

* `QueryStream` never consults `rows.Err`: a read error ends a stream as its end
  does, and `Delete` commits a part and reports success (`db.go:174`). `StreamCut`
  of `StatementDB` is that case, and `StatementStore` lets a delete remove a part.
* A crash within `createTables` leaves a file that no later start serves until it
  is removed, unless only indices of Refs are missing (`db.go:402`).
  `StoredIsServed` is what does hold: nothing is ever stored in such a file.
* An object to which a statement published during a collection refers is
  deleted (`gc.go:29`). `SnapshotKept` is what does hold.
* The handler of an old stream removes the registration its node made on a new
  one, and the node is not listed until it registers again (`mcdir/proto.go:51`).
  `EventuallyListed` is what does hold.
* The loop of a former network may send one more registration on the network
  that came after it (`net.go:187`; `LastRound`).
* A lookup or a list from one directory that stalls does not end (`net.go:594`),
  and a list that the context cut short is returned without a sign (`net.go:708`).
  A peer without any routable address that the DHT knows wins over a directory
  that has its address (`dht.go:92`).
* A restart within the same second gives ids again (`node.go:223`).
* The compiled query and the evaluator differ in these cases: COUNT, MIN and MAX
  with a LIMIT (the evaluator applies it first); LIMIT with a compound selector (the
  evaluator ignores it); `SELECT (namespace)`, which SQL makes DISTINCT;
  `timestamp`, which SQL repeats and the evaluator does not; `counter`, which is 0
  to the evaluator, and of which MIN and MAX make it panic, for they assert an
  `int64` (`eval.go:325`); the case of letters in a namespace prefix, which LIKE ignores;
  the `source` of an envelope in a criterion; and well-known ids in all but
  the plainest criteria, where SQL asks for one row of the join that meets the whole
  criterion.

## Proofs

All theorems hold for every value of the constants that meets the named
assumptions in the modules that declare them. The assumptions are type
conditions (batches are sequences of statements, a query names finitely many
well-known ids, `None` is no process and no answer, batch sizes are positive, the
workers of a merge, the directories of a lookup and the statements of a push are
finitely many) and, in `NodeProcess`, that a
missing, a broken and a readable `config.json` are different things.

* **StatementDBProofs.** `TypeCorrect`, `StoredIsAlwaysServed`, and
  `TablesAlwaysAgree`. `StoredIsServed` speaks of every state a start can be cut
  off in, and needs two more facts (`Served`): only the goroutines of a serving
  node are in an operation, so that a commit finds the schema a start has
  accepted, and once there are rows `createTables` is past. That the accepted
  schema has the unique index, which `prepareStatements` does not ask for, is due
  to the order of the DDL statements: Refs comes after it (`SchemaPrepared`).
  `TablesAgree` alone is not inductive: a commit copies
  `tx`, so what is needed is how far the tables of the open transaction agree at
  each place of its goroutine. That is `TransactionConsistent`, together with the
  facts that exactly the holder of `wlock` is inside a transaction and that
  `tx = db` outside.
  `DBImplementsStore`: initial states map to initial states and each step to a
  step of the store or a stutter. The strengthening (`Progress`) says what
  `tx.data` is in terms of `db.data`, batch and position (for inserts: the
  statements merged so far, of which `Put` and `PutBatch` skipped none; for
  deletes: a subset of which only matching statements are missing).
  `RowsComeInOrder` rests on counters never exceeding the sequence and on the
  marks of readers never exceeding it either. `CountsAreTrue` carries the
  difference between the cardinalities of `tx.data` and `db.data` through the
  transaction (`Tally`). For a DELETE it also needs that the remaining rows name
  different statements that are still there, which is where the restriction to
  one well-known id comes in (see the finding on the delete count).
  `OnlyDuplicatesConflict`: `Merge` takes any primary-key error of `Put` for a
  duplicate, and `MergeBatch` fails on every constraint of Envelope; that no row of
  Envelope is ever refused once Statement accepted the id follows from what
  `TransactionConsistent` says of that place. With it the holder of `wlock` can
  always go on, which is the safety half of `LockReleased`.
* **NodeGCProofs.** `CollectionLosesNoKey`, from which `SnapshotIsKept` and
  `OrphansAreCollected` follow with an invariant on the walk.
* **MergeStreamProofs.** The inductive invariant has, beside the types: the
  shape of the main goroutine's locals at each place; the accounting of results
  (outstanding results are those on `resch` and those of workers that have not
  posted); the state of each worker; and three conservation laws: every key of
  an accepted statement is in the datastore, in the batch, queued, asked for, or
  an error is on its way; every accepted statement is in the database, in the
  batch, or there is an error; what was accepted and what is still to come make
  up the stream. `MergeIsComplete`, `MergeIsWhole` and `MergeLeavesNoWorker`
  follow at `pc = "done"`. `MergeCounts` would need a sum over the workers. In its
  place the invariant says that there is a ledger, a set of pairs of a worker and
  an object it fetched, in which every new object occurs, no pair twice, and whose
  parts have the size of each worker's count and of `ocount`.
  `StreamImplementsMerge` maps each step to one of `Merge` or a stutter; what it
  needs beyond the invariant is that the database is what was found and what was
  stored since, so that the count is the number of statements added also when the
  merge fails. `MergeNeverStuck`: with any number of workers and any capacity of
  `workch`, also when the queue is full and every worker has given up, the merge has
  returned or one of its goroutines can go on.
* **PushProofs.** `Typed`, `Authorized`, `Complete`, `ReportIsTrue`,
  `PushImplementsMerge`, `MergeIsUnrestricted` and `PushNeverStuck`.
  `OnlyAuthorized` needs that the receiver's merge holds nothing before the push
  was accepted and only statements of the namespaces asked for afterwards.
  `PushIsComplete` needs a conservation law (each statement of the stream is
  still to come, being written, on its way, being handed over, pending or stored,
  or the receiver has an error), that the end marker is the last message and was
  read by a receiver that stopped without an error, and that a merge posts one
  result, which is an error unless it was told to end. `ReportTrue` needs that a
  result on its way (merge, handler, message, sender) tells the number of statements
  added by a merge that has ended (`NInv`), and that every error on its way has a
  cause that stays (`EInv`), a receiver that is gone included.
  `PushImplementsMerge` says that `Push` assumes of its merge no more than `Merge`
  allows, `MergeIsUnrestricted` that it allows all of it: while a merge runs, every
  way in which `Merge` may store, fail or finish is a step of `Push`. Together with
  `StreamImplementsMerge` the safety properties of a push hold with the merge of
  `MergeStream` in it. `PushNeverStuck` needs that what each end waits for is on
  its way (`WInv`): the answer, the report once the handler has stopped, and the
  result of the merge once its channel is closed.
* **DirectoryProofs.** `NothingLeftBehind` needs, beside the types, that every
  record and every manifest of a node has a handler of that node that is still
  to clean it up, which in turn needs that a handler in the middle of a list is
  not yet past its cleaning, and which streams are unused. `StoreHoldsVerified`
  is inductive by itself.
* **NodeNetProofs.** `StatusIsTrue`, `PanicsNeedTakedown` and `OneLateRound`.
  `StatusTrue` speaks of the moments between calls only; the invariant says what
  host, DHT and contexts are at each place of the call that holds `node.mx`. That
  a panic needs a takedown follows because a goroutine was started on a network
  that had been made, and of those only the newest can be up. `LastRound` needs
  where a loop that has sent a late registration can be: past its timer.
* **LookupProofs.** `LookupIsSound`, `CollectIsSound` and `RequestNeverStuck`. A
  result in the channel
  does not say who sent it, and the caller only counts. The invariant relates
  cardinalities: workers that ended are as many as results heard and queued,
  workers that failed as many as errors heard and queued. So a caller that has heard
  them all knows that no worker runs and nothing is queued; and what the workers
  sent lies between what their directories listed all the time and what they
  listed at some time, because answers are monotone in what is listed.
  `RequestNeverStuck` follows from the same counts: a worker that has not ended
  finds room in the channel, also long after the caller has returned, and a caller
  that waits has not heard everyone, so there is a result queued or a worker at
  work.
* **NodeProcessProofs.** `OnlyAccidentsBreak`, `RestartIsFaithful` and
  `IdsAreUnique`. The save that runs alone (`alone`) is the only one there is, has
  read what is in memory, and finds the file empty when it writes; every other save
  has been overlapped. So without an accident and outside of a save the file is
  what is in memory, also after a round trip through `Marshal` and `Unmarshal`,
  which leaves out empty fields. Ids are unique because counters are; `IdsUnique`
  alone is not inductive, since it does not say that counters given out are below
  the counter of the node.

Only model-checked: the liveness properties (`LockReleased`, `GCTerminates`,
`Terminates`, `PushEnds`, `EventuallyListed`, `EventuallyForgotten`,
`RequestEnds`, `OldLoopsEnd`), which the prover cannot express with fairness. The
`NeverStuck` theorems are the part of `Terminates`, `PushEnds` and `RequestEnds`
that is a matter of safety: nobody waits for somebody who waits for him. `ENABLED`
being out of the prover's reach as well, they are stated with the guards of the
actions, written out as state predicates (`MainReady`, `WorkerReady`,
`SenderReady`, `HandlerReady`, ...). Only model-checked is also
MCQL (`QueryEngine`), whose matching, compiling and evaluating are recursive over
data, so that every claim on them needs an induction over queries or texts.

## What is not modelled

SQLite, RocksDB, libp2p, signatures and hashes are taken at their interface.
Request parsing, response formatting and logging are left out. Protocol buffers,
identities and the `mcid` tool are sequential input and output; what checks a
statement before it is imported appears as its verdict. The NAT address that a
node caches, and which of its addresses it registers, appear only as whether
there is one. The queries of `StatementDB` have namespaces and well-known ids;
all others are in `QueryEngine`, whose statements are not changed by requests.
The order of rows under ORDER BY is not compared, for the evaluator has none.
`Vacuum` takes the lock and leaves the contents of the tables alone.

## Plan

Done: all components with control flow of their own; every safety invariant and
every action property of theirs is a theorem, and so are the refinements of
`StatementStore` and of `Merge`, with the composition of `MergeStream` and `Push`
through it. Left: the types of a query's life in `QueryEngine`, its index and its
stack are tied to recursive operators; the parts of `ParseState` that do not recurse
(what a single action of the parser does to the stack) could be split off and
proved.
