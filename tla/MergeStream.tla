----------------------------- MODULE MergeStream -----------------------------
(***************************************************************************)
(* Merging a stream of statements and the objects they refer to from a     *)
(* peer (mcnode/proto.go, doMergeStream and what it runs): one goroutine   *)
(* reads and stores the statements and hands batches of object keys to     *)
(* worker goroutines, which fetch the objects from the same peer.          *)
(*                                                                         *)
(* The channels are modelled as they are: ch, the unbuffered stream of the *)
(* query, by its remaining values; workch, bounded and closed by the main  *)
(* goroutine, as a sequence; resch, on which each worker posts one result, *)
(* as the set of workers whose result is on it. Signature checks, hashes   *)
(* and the wire format are abstracted to whether they succeed. The peer    *)
(* runs dataHandler: of the keys asked for it sends those it has.          *)
(***************************************************************************)
EXTENDS Naturals, Sequences, FiniteSets

CONSTANTS
    Stmts,      \* statements
    Good,       \* those that pass checkStatement, verification and mergeStatementKeys
    Keys,       \* keys of objects
    KeysOf,     \* KeysOf[s]: the keys of a statement
    Inputs,     \* the streams a query may return, sequences of statements
    Peers,      \* the sets of objects the peer may have
    Found,      \* the statement dbs and datastores the merge may find
    Workers,    \* the worker goroutines (NumCPU of them)
    QueueCap,   \* capacity of workch (64 * NumCPU)
    KeyBatch,   \* how many keys make a batch (1024)
    StmtBatch   \* how many statements make a batch (1024)

ASSUME GoodAssumption == Good \subseteq Stmts
ASSUME KeysOfAssumption == KeysOf \in [Stmts -> SUBSET Keys]
ASSUME InputsAssumption == Inputs \subseteq Seq(Stmts)
ASSUME PeersAssumption == Peers \subseteq SUBSET Keys
ASSUME FoundAssumption == Found \subseteq [db : SUBSET Stmts, ds : SUBSET Keys]
ASSUME WorkersAssumption == IsFiniteSet(Workers) /\ Workers # {}
ASSUME BatchAssumption == {QueueCap, KeyBatch, StmtBatch} \subseteq Nat \ {0}

VARIABLES
    input,      \* the stream the query returns
    feed,       \* what of it is still to come on ch
    peer,       \* the objects the peer has
    found,      \* history: db and datastore as the merge found them
    cancelled,  \* ctx is done
    db, ds,     \* the statement db and the datastore
    pc,         \* where the main goroutine is
    cur,        \* the statement at hand while its keys are handed over
    keys,       \* keys collected for the next batch
    stmts,      \* statements collected for the next batch
    seen,       \* history: the statements accepted from the stream
    err,        \* an error was met
    count,      \* statements merged
    ocount,     \* objects merged, as far as results were received
    workers,    \* results still to be received
    work,       \* workch ...
    closed,     \* ... and whether it is closed
    resch,      \* workers whose result is on resch
    wpc,        \* where each worker is
    pend,       \* keys it has asked for and not received
    wcount,     \* objects it has merged
    werr        \* its error

envVars == <<input, peer, found>>
mainVars == <<feed, pc, cur, keys, stmts, seen, err, count, ocount, workers>>
workerVars == <<wpc, pend, wcount, werr>>
vars == <<envVars, cancelled, db, ds, mainVars, work, closed, resch, workerVars>>

Elements(seq) == {seq[i] : i \in DOMAIN seq}

-----------------------------------------------------------------------------

Init ==
    /\ input \in Inputs /\ feed = input /\ peer \in Peers
    /\ found \in Found /\ db = found.db /\ ds = found.ds
    /\ cancelled = FALSE
    /\ pc = "read" /\ cur = <<>> /\ keys = {} /\ stmts = <<>> /\ seen = {}
    /\ err = FALSE /\ count = 0 /\ ocount = 0 /\ workers = Cardinality(Workers)
    /\ work = <<>> /\ closed = FALSE /\ resch = {}
    /\ wpc = [w \in Workers |-> "wait"]
    /\ pend = [w \in Workers |-> {}] /\ wcount = [w \in Workers |-> 0]
    /\ werr = [w \in Workers |-> FALSE]

Cancel ==
    /\ ~cancelled /\ pc # "done"
    /\ cancelled' = TRUE
    /\ UNCHANGED <<envVars, db, ds, mainVars, work, closed, resch, workerVars>>

-----------------------------------------------------------------------------
(* The main goroutine. A step is a channel operation or a transaction with *)
(* the computation that follows it up to the next one.                     *)

(* Where the code after the loop goes: with an error no batch is handed    *)
(* over or merged any more.                                                *)
AfterLoop(e, ks, ss) ==
    IF e THEN "close" ELSE IF ks # {} THEN "lastflush" ELSE IF ss # <<>> THEN "lastmerge" ELSE "close"

AfterAppend(ss) == IF Len(ss) >= StmtBatch THEN "merge" ELSE "read"

(* A statement whose keys complete no batch is appended at once. *)
RecvStmt ==
    /\ pc = "read" /\ feed # <<>> /\ Head(feed) \in Good
    /\ feed' = Tail(feed)
    /\ keys' = keys \cup KeysOf[Head(feed)]
    /\ IF Cardinality(keys') >= KeyBatch
       THEN pc' = "flush" /\ cur' = <<Head(feed)>> /\ UNCHANGED <<stmts, seen>>
       ELSE /\ stmts' = Append(stmts, Head(feed)) /\ seen' = seen \cup {Head(feed)}
            /\ pc' = AfterAppend(stmts') /\ UNCHANGED cur
    /\ UNCHANGED <<envVars, cancelled, db, ds, err, count, ocount, workers, work, closed,
                   resch, workerVars>>

(* Slip: an error taken for the end of the stream. *)
RecvErrorDropped ==
    /\ pc = "read"
    /\ pc' = AfterLoop(FALSE, keys, stmts)
    /\ UNCHANGED <<envVars, cancelled, db, ds, feed, cur, keys, stmts, seen, err, count, ocount,
                   workers, work, closed, resch, workerVars>>

(* A statement that is not good taints the result set and ends the loop;   *)
(* so does a StreamError: the connection broke, or the peer answered with  *)
(* an error.                                                               *)
RecvError ==
    /\ pc = "read"
    /\ err' = TRUE /\ pc' = AfterLoop(TRUE, keys, stmts)
    /\ UNCHANGED <<envVars, cancelled, db, ds, feed, cur, keys, stmts, seen, count, ocount,
                   workers, work, closed, resch, workerVars>>

(* ch is closed at the end of the result set, and also when ctx is done:   *)
(* the goroutine that reads the peer's answer then returns without a       *)
(* StreamError.                                                            *)
RecvEnd ==
    /\ pc = "read" /\ (feed = <<>> \/ cancelled)
    /\ pc' = AfterLoop(FALSE, keys, stmts)
    /\ UNCHANGED <<envVars, cancelled, db, ds, feed, cur, keys, stmts, seen, err, count, ocount,
                   workers, work, closed, resch, workerVars>>

(* The select that hands over a batch of keys, in the loop ("flush") and   *)
(* after it ("lastflush"), where keys is not used again.                   *)
Flushing == pc \in {"flush", "lastflush"}
AfterGivingUp(e) == IF pc = "lastflush" THEN AfterLoop(e, {}, stmts) ELSE AfterLoop(e, keys, stmts)

SendKeys ==
    /\ Flushing /\ Len(work) < QueueCap
    /\ work' = Append(work, keys) /\ keys' = {}
    /\ IF pc = "flush"
       THEN /\ stmts' = stmts \o cur /\ seen' = seen \cup Elements(cur)
            /\ cur' = <<>> /\ pc' = AfterAppend(stmts')
       ELSE pc' = AfterLoop(err, {}, stmts) /\ UNCHANGED <<stmts, seen, cur>>
    /\ UNCHANGED <<envVars, cancelled, db, ds, feed, err, count, ocount, workers, closed,
                   resch, workerVars>>

(* Slip: the worker is not taken off the count. *)
EarlyResultMiscounted ==
    /\ Flushing
    /\ \E w \in resch :
          /\ resch' = resch \ {w}
          /\ ocount' = ocount + wcount[w] /\ err' = werr[w]
    /\ pc' = AfterGivingUp(err')
    /\ UNCHANGED <<envVars, cancelled, db, ds, feed, cur, keys, stmts, seen, count, workers,
                   work, closed, workerVars>>

(* The result of a worker that gave up: in the loop it breaks it, and in   *)
(* both places the batch is not sent.                                      *)
EarlyResult ==
    /\ Flushing
    /\ \E w \in resch :
          /\ resch' = resch \ {w}
          /\ ocount' = ocount + wcount[w] /\ err' = werr[w]
    /\ workers' = workers - 1
    /\ pc' = AfterGivingUp(err')
    /\ UNCHANGED <<envVars, cancelled, db, ds, feed, cur, keys, stmts, seen, count, work,
                   closed, workerVars>>

FlushCancelled ==
    /\ Flushing /\ cancelled
    /\ err' = TRUE /\ pc' = AfterGivingUp(TRUE)
    /\ UNCHANGED <<envVars, cancelled, db, ds, feed, cur, keys, stmts, seen, count, ocount,
                   workers, work, closed, resch, workerVars>>

(* node.db.MergeBatch: of the batch, what is new is added and counted. *)
Merging == pc \in {"merge", "lastmerge"}

(* Slip: the batch is counted, not what is new. *)
MergeBatchCountsAll ==
    /\ Merging
    /\ db' = db \cup Elements(stmts)
    /\ count' = count + Len(stmts)
    /\ stmts' = <<>> /\ pc' = (IF pc = "merge" THEN "read" ELSE "close")
    /\ UNCHANGED <<envVars, cancelled, ds, feed, cur, keys, seen, err, ocount, workers, work,
                   closed, resch, workerVars>>

(* Slip: the batch is not emptied. *)
MergeBatchKept ==
    /\ Merging
    /\ db' = db \cup Elements(stmts)
    /\ count' = count + Cardinality(Elements(stmts) \ db)
    /\ pc' = (IF pc = "merge" THEN "read" ELSE "close")
    /\ UNCHANGED <<envVars, cancelled, ds, feed, cur, keys, stmts, seen, err, ocount, workers,
                   work, closed, resch, workerVars>>

MergeBatch ==
    /\ Merging
    /\ db' = db \cup Elements(stmts)
    /\ count' = count + Cardinality(Elements(stmts) \ db)
    /\ stmts' = <<>> /\ pc' = (IF pc = "merge" THEN "read" ELSE "close")
    /\ UNCHANGED <<envVars, cancelled, ds, feed, cur, keys, seen, err, ocount, workers, work,
                   closed, resch, workerVars>>

(* The transaction fails and is rolled back. *)
MergeBatchFails ==
    /\ Merging
    /\ err' = TRUE /\ pc' = "close"
    /\ UNCHANGED <<envVars, cancelled, db, ds, feed, cur, keys, stmts, seen, count, ocount,
                   workers, work, closed, resch, workerVars>>

AfterResults(n) == IF n = 0 THEN "done" ELSE "collect"

CloseWork ==
    /\ pc = "close"
    /\ closed' = TRUE /\ pc' = AfterResults(workers)
    /\ UNCHANGED <<envVars, cancelled, db, ds, feed, cur, keys, stmts, seen, err, count, ocount,
                   workers, work, resch, workerVars>>

(* Slip: a return at the first error. *)
CollectFirst ==
    /\ pc = "collect"
    /\ \E w \in resch :
          /\ resch' = resch \ {w}
          /\ ocount' = ocount + wcount[w] /\ err' = (err \/ werr[w])
    /\ workers' = workers - 1 /\ pc' = (IF err' THEN "done" ELSE AfterResults(workers - 1))
    /\ UNCHANGED <<envVars, cancelled, db, ds, feed, cur, keys, stmts, seen, count, work, closed,
                   workerVars>>

(* Every worker still counted is waited for; the first error is the one    *)
(* returned.                                                               *)
Collect ==
    /\ pc = "collect"
    /\ \E w \in resch :
          /\ resch' = resch \ {w}
          /\ ocount' = ocount + wcount[w] /\ err' = (err \/ werr[w])
    /\ workers' = workers - 1 /\ pc' = AfterResults(workers - 1)
    /\ UNCHANGED <<envVars, cancelled, db, ds, feed, cur, keys, stmts, seen, count, work, closed,
                   workerVars>>

-----------------------------------------------------------------------------
(* A worker: doMergeDataAsync and doMergeDataImpl *)

(* A batch is taken and what the datastore already has is left out; the    *)
(* rest is asked for.                                                      *)
TakeBatch(w) ==
    /\ wpc[w] = "wait" /\ work # <<>>
    /\ work' = Tail(work)
    /\ pend' = [pend EXCEPT ![w] = Head(work) \ ds]
    /\ wpc' = [wpc EXCEPT ![w] = IF Head(work) \subseteq ds THEN "wait" ELSE "fetch"]
    /\ UNCHANGED <<envVars, cancelled, db, ds, mainVars, closed, resch, wcount, werr>>

(* The data stream, opened with the first batch, cannot be opened (there   *)
(* is no connection, or ctx is done), or a look into the datastore fails.  *)
TakeBatchFails(w) ==
    /\ wpc[w] = "wait" /\ work # <<>>
    /\ work' = Tail(work)
    /\ wpc' = [wpc EXCEPT ![w] = "post"] /\ werr' = [werr EXCEPT ![w] = TRUE]
    /\ UNCHANGED <<envVars, cancelled, db, ds, mainVars, closed, resch, pend, wcount>>

(* What the peer's dataHandler will send of the keys asked for: those of   *)
(* objects it has.                                                         *)
DataSent(w) == pend[w] \cap peer

ReceiveData(w) ==
    /\ wpc[w] = "fetch"
    /\ \E k \in DataSent(w) :
          /\ ds' = ds \cup {k}
          /\ pend' = [pend EXCEPT ![w] = @ \ {k}]
    /\ wcount' = [wcount EXCEPT ![w] = @ + 1]
    /\ UNCHANGED <<envVars, cancelled, db, mainVars, work, closed, resch, wpc, werr>>

(* Slip: missing objects are not noticed. *)
ReceiveEndUnchecked(w) ==
    /\ wpc[w] = "fetch" /\ DataSent(w) = {}
    /\ wpc' = [wpc EXCEPT ![w] = "wait"]
    /\ pend' = [pend EXCEPT ![w] = {}]
    /\ UNCHANGED <<envVars, cancelled, db, ds, mainVars, work, closed, resch, wcount, werr>>

(* The peer's answer ends; objects it does not have are missing. *)
ReceiveEnd(w) ==
    /\ wpc[w] = "fetch" /\ DataSent(w) = {}
    /\ wpc' = [wpc EXCEPT ![w] = IF pend[w] = {} THEN "wait" ELSE "post"]
    /\ werr' = [werr EXCEPT ![w] = pend[w] # {}]
    /\ pend' = [pend EXCEPT ![w] = {}]
    /\ UNCHANGED <<envVars, cancelled, db, ds, mainVars, work, closed, resch, wcount>>

(* The connection breaks, the data does not match its key, or the          *)
(* datastore fails.                                                        *)
FetchFails(w) ==
    /\ wpc[w] = "fetch"
    /\ wpc' = [wpc EXCEPT ![w] = "post"] /\ werr' = [werr EXCEPT ![w] = TRUE]
    /\ pend' = [pend EXCEPT ![w] = {}]
    /\ UNCHANGED <<envVars, cancelled, db, ds, mainVars, work, closed, resch, wcount>>

WorkClosed(w) ==
    /\ wpc[w] = "wait" /\ work = <<>> /\ closed
    /\ wpc' = [wpc EXCEPT ![w] = "post"]
    /\ UNCHANGED <<envVars, cancelled, db, ds, mainVars, work, closed, resch, pend, wcount, werr>>

(* resch holds as many results as there are workers. *)
PostResult(w) ==
    /\ wpc[w] = "post" /\ Cardinality(resch) < Cardinality(Workers)
    /\ wpc' = [wpc EXCEPT ![w] = "exit"] /\ resch' = resch \cup {w}
    /\ UNCHANGED <<envVars, cancelled, db, ds, mainVars, work, closed, pend, wcount, werr>>

-----------------------------------------------------------------------------

MainStep ==
    \/ RecvStmt \/ RecvEnd \/ RecvError \/ SendKeys \/ EarlyResult \/ FlushCancelled
    \/ MergeBatch \/ MergeBatchFails \/ CloseWork \/ Collect
WorkerStep(w) ==
    \/ TakeBatch(w) \/ TakeBatchFails(w) \/ ReceiveData(w) \/ ReceiveEnd(w) \/ FetchFails(w)
    \/ WorkClosed(w) \/ PostResult(w)

Finished == pc = "done" /\ UNCHANGED vars

Next == Cancel \/ MainStep \/ Finished \/ \E w \in Workers : WorkerStep(w)

Spec == Init /\ [][Next]_vars

(* A goroutine that can run is run eventually; a peer that was asked       *)
(* answers or its connection breaks (the code sets no read deadline of its *)
(* own, so this is what is asked of the transport).                        *)
FairSpec == Spec /\ WF_vars(MainStep) /\ \A w \in Workers : WF_vars(WorkerStep(w))

-----------------------------------------------------------------------------
(* Properties *)

(* Where the program's values lie, and that the channels and the statement *)
(* batch never hold more than they were made for.                          *)
TypeOK ==
    /\ input \in Inputs /\ feed \in Seq(Stmts) /\ peer \in Peers /\ found \in Found
    /\ cancelled \in BOOLEAN /\ db \subseteq Stmts /\ ds \subseteq Keys
    /\ pc \in {"read", "flush", "merge", "lastflush", "lastmerge", "close", "collect", "done"}
    /\ cur \in Seq(Stmts)
    /\ keys \subseteq Keys /\ stmts \in Seq(Stmts) /\ Len(stmts) <= StmtBatch /\ seen \subseteq Stmts
    /\ err \in BOOLEAN /\ count \in Nat /\ ocount \in Nat /\ workers \in Nat
    /\ work \in Seq(SUBSET Keys) /\ Len(work) <= QueueCap
    /\ closed \in BOOLEAN /\ resch \subseteq Workers
    /\ wpc \in [Workers -> {"wait", "fetch", "post", "exit"}]
    /\ pend \in [Workers -> SUBSET Keys]
    /\ wcount \in [Workers -> Nat] /\ werr \in [Workers -> BOOLEAN]

KeysOfAll(S) == UNION {KeysOf[s] : s \in S}

(* A merge that reports no error has stored every statement it accepted    *)
(* and every object of each of them, also of the statements that were in   *)
(* the db before: a merge repeated after a partial one completes it.       *)
SuccessIsComplete ==
    pc = "done" /\ ~err => seen \subseteq db /\ KeysOfAll(seen) \subseteq ds

(* A merge whose context was not cancelled and that reports no error has   *)
(* accepted the whole stream.                                              *)
SuccessIsWhole == pc = "done" /\ ~err /\ ~cancelled => seen = Elements(input)

(* The counters returned, with or without an error: the statements are     *)
(* counted exactly. Objects are counted once per fetch: at least once for  *)
(* each that is new, and, as the comment on doMergeDataAsync has it, at    *)
(* most NumCPU times.                                                      *)
CountsReported ==
    pc = "done" => /\ count = Cardinality(db \ found.db)
                   /\ ocount >= Cardinality(ds \ found.ds)
                   /\ ocount <= Cardinality(Workers) * Cardinality(ds \ found.ds)

(* No result is left behind and no worker is left running, so no goroutine *)
(* of the merge outlives it.                                               *)
NoWorkerLeft ==
    pc = "done" => resch = {} /\ \A w \in Workers : wpc[w] = "exit"

(* What the merge shows of itself outside: what it has taken and not       *)
(* stored, where its stream may end, and what it returns.                  *)
Taken == IF pc = "done" THEN {} ELSE Elements(stmts) \cup Elements(cur)
MayEnd == feed = <<>> \/ cancelled
Returned == IF pc = "done" THEN <<[count |-> count, err |-> err]>> ELSE <<>>

(* Whatever the workers, the batches and the context do, the merge is one  *)
(* as Merge describes it: it posts one result, without an error only at    *)
(* the end of its stream and with everything it has taken stored, with an  *)
(* error otherwise, and its count is that of what it added to the db.      *)
Outside == INSTANCE Merge WITH found <- found.db, stored <- db, pending <- Taken,
                               over <- MayEnd, results <- Returned
ImplementsMerge == Outside!Spec

(* The merge returns, whatever fails, with the queue full and with all     *)
(* workers gone.                                                           *)
Terminates == <>(pc = "done")

=============================================================================
