-------------------------- MODULE MergeStreamProofs --------------------------
(***************************************************************************)
(* Proofs about MergeStream, for any stream, any batch sizes, any capacity *)
(* of the queue and any number of workers, whatever fails.                 *)
(***************************************************************************)
EXTENDS MergeStream, FiniteSetTheorems, SequenceTheorems, TLAPS

LEMMA ElementsEmpty == Elements(<<>>) = {}
BY DEF Elements

LEMMA ElementsTail ==
    ASSUME NEW S, NEW s \in Seq(S), s # <<>>
    PROVE  Elements(s) = {Head(s)} \cup Elements(Tail(s))
<1>1. Len(s) \in Nat \ {0} /\ DOMAIN s = 1..Len(s)
  OBVIOUS
<1>2. Tail(s) \in Seq(S) /\ Len(Tail(s)) = Len(s) - 1 /\ Head(s) = s[1]
  OBVIOUS
<1>3. DOMAIN Tail(s) = 1..(Len(s) - 1)
  BY <1>1, <1>2
<1>4. \A i \in 1..(Len(s) - 1) : Tail(s)[i] = s[i + 1]
  BY <1>2, HeadTailProperties
<1>5. ASSUME NEW e PROVE e \in Elements(s) <=> e = s[1] \/ e \in Elements(Tail(s))
  <2>1. e \in Elements(s) <=> \E i \in 1..Len(s) : e = s[i]
    BY <1>1 DEF Elements
  <2>2. e \in Elements(Tail(s)) <=> \E i \in 1..(Len(s) - 1) : e = s[i + 1]
    BY <1>3, <1>4 DEF Elements
  <2>3. ASSUME NEW i \in 1..Len(s), e = s[i], e # s[1]
        PROVE  \E j \in 1..(Len(s) - 1) : e = s[j + 1]
    <3>1. i - 1 \in 1..(Len(s) - 1) /\ (i - 1) + 1 = i
      BY <1>1, <2>3
    <3> QED BY <2>3, <3>1
  <2>4. \A j \in 1..(Len(s) - 1) : j + 1 \in 1..Len(s)
    BY <1>1
  <2>5. 1 \in 1..Len(s)
    BY <1>1
  <2> QED BY <2>1, <2>2, <2>3, <2>4, <2>5
<1> QED BY <1>2, <1>5

LEMMA ElementsAppend ==
    ASSUME NEW S, NEW s \in Seq(S), NEW e \in S
    PROVE  Elements(Append(s, e)) = Elements(s) \cup {e}
<1>1. Len(s) \in Nat /\ DOMAIN s = 1..Len(s) /\ DOMAIN Append(s, e) = 1..(Len(s) + 1)
  OBVIOUS
<1>2. /\ \A i \in 1..Len(s) : Append(s, e)[i] = s[i]
      /\ Append(s, e)[Len(s) + 1] = e
  OBVIOUS
<1>3. 1..(Len(s) + 1) = (1..Len(s)) \cup {Len(s) + 1}
  BY <1>1
<1> QED BY <1>1, <1>2, <1>3 DEF Elements

LEMMA ElementsOf ==
    ASSUME NEW S, NEW s \in Seq(S)
    PROVE  Elements(s) \subseteq S
BY DEF Elements

LEMMA KeysOfAllUnion ==
    ASSUME NEW S, NEW T
    PROVE  KeysOfAll(S \cup T) = KeysOfAll(S) \cup KeysOfAll(T)
BY DEF KeysOfAll

-----------------------------------------------------------------------------

(* Workers whose result has not been received. *)
Outstanding == {w \in Workers : wpc[w] # "exit" \/ w \in resch}

(* What the place of the main goroutine says about its batches. *)
Shape ==
    /\ pc = "flush" => \E s \in Stmts : cur = <<s>>
    /\ pc # "flush" /\ ~err => cur = <<>>
    /\ pc \in {"read", "flush"} => Len(stmts) < StmtBatch
    /\ closed <=> pc \in {"collect", "done"}
    /\ err => pc \in {"close", "collect", "done"}
    /\ pc \in {"lastmerge", "close", "collect", "done"} /\ ~err => keys = {}
    /\ pc \in {"close", "collect", "done"} /\ ~err => stmts = <<>>

(* Each worker posts one result, and the results are counted right. *)
Accounting ==
    /\ workers = Cardinality(Outstanding)
    /\ \A w \in resch : wpc[w] = "exit"
    /\ pc = "done" => workers = 0

(* A worker stops without an error only when all work has been taken; its  *)
(* error, once received, is the error of the merge.                        *)
WorkerState ==
    \A w \in Workers :
        /\ wpc[w] # "fetch" => pend[w] = {}
        /\ wpc[w] \in {"wait", "fetch"} => ~werr[w]
        /\ wpc[w] \in {"post", "exit"} /\ ~werr[w] => closed /\ work = <<>>
        /\ w \notin Outstanding /\ werr[w] => err

(* As long as there is no error, received or on its way, a key of an       *)
(* accepted statement is stored, collected, queued or asked for.           *)
Queued == UNION Elements(work)
Asked == UNION {pend[w] : w \in Workers}
KeysKept ==
    \/ err
    \/ \E w \in Outstanding : werr[w]
    \/ KeysOfAll(seen) \cup KeysOfAll(Elements(cur)) \subseteq ds \cup keys \cup Queued \cup Asked

StmtsKept == ~err => seen \subseteq db \cup Elements(stmts)

StreamKept ==
    ~err => /\ seen \cup Elements(cur) \cup Elements(feed) = Elements(input)
            /\ ~cancelled /\ pc \notin {"read", "flush", "merge"} => feed = <<>>

Inv ==
    /\ TypeOK /\ Shape /\ Accounting /\ WorkerState
    /\ KeysKept /\ StmtsKept /\ StreamKept

-----------------------------------------------------------------------------

LEMMA InitInv == Init => Inv
<1> SUFFICES ASSUME Init PROVE Inv
  OBVIOUS
<1>1. TypeOK
  <2>1. found.db \subseteq Stmts /\ found.ds \subseteq Keys
    BY FoundAssumption DEF Init
  <2>2. Cardinality(Workers) \in Nat
    BY WorkersAssumption, FS_CardinalityType
  <2>3. input \in Seq(Stmts)
    BY InputsAssumption DEF Init
  <2>4. cancelled \in BOOLEAN /\ err \in BOOLEAN /\ closed \in BOOLEAN
    BY Zenon DEF Init
  <2>5. StmtBatch \in Nat /\ QueueCap \in Nat
    BY BatchAssumption
  <2>6. /\ Len(stmts) <= StmtBatch /\ Len(work) <= QueueCap
        /\ cur \in Seq(Stmts) /\ stmts \in Seq(Stmts) /\ work \in Seq(SUBSET Keys)
    BY <2>5 DEF Init
  <2>7. /\ wpc \in [Workers -> {"wait", "fetch", "post", "exit"}] /\ pend \in [Workers -> SUBSET Keys]
        /\ wcount \in [Workers -> Nat] /\ werr \in [Workers -> BOOLEAN]
    BY DEF Init
  <2> QED BY <2>1, <2>2, <2>3, <2>4, <2>6, <2>7 DEF Init, TypeOK
<1>2. Shape
  BY BatchAssumption DEF Init, Shape
<1>3. Accounting
  <2>1. Outstanding = Workers
    BY DEF Init, Outstanding
  <2> QED BY <2>1 DEF Init, Accounting
<1>4. WorkerState
  BY DEF Init, WorkerState, Outstanding
<1>5. KeysKept
  BY ElementsEmpty DEF Init, KeysKept, KeysOfAll
<1>6. StmtsKept /\ StreamKept
  BY ElementsEmpty DEF Init, StmtsKept, StreamKept
<1> QED BY <1>1, <1>2, <1>3, <1>4, <1>5, <1>6 DEF Inv

(* Steps of the main goroutine that leave the channels alone leave what    *)
(* the workers hold alone.                                                 *)
LEMMA WorkersUntouched ==
    ASSUME Inv, UNCHANGED <<work, resch, workerVars>>,
           workers' = workers, pc' = "done" => pc = "done" \/ workers = 0,
           closed => closed', err => err'
    PROVE  /\ Accounting' /\ WorkerState'
           /\ Outstanding' = Outstanding /\ Queued' = Queued /\ Asked' = Asked
<1>1. Outstanding' = Outstanding
  BY DEF workerVars, Outstanding
<1>2. Queued' = Queued /\ Asked' = Asked
  BY DEF workerVars, Queued, Asked
<1>3. Accounting'
  BY <1>1 DEF Inv, Accounting, workerVars
<1>4. WorkerState'
  BY <1>1 DEF Inv, WorkerState, workerVars
<1> QED BY <1>1, <1>2, <1>3, <1>4

LEMMA CancelInv == Inv /\ Cancel => Inv'
<1> SUFFICES ASSUME Inv, Cancel PROVE Inv'
  OBVIOUS
<1>1. Accounting' /\ WorkerState' /\ Outstanding' = Outstanding /\ Queued' = Queued /\ Asked' = Asked
  BY WorkersUntouched DEF Cancel, mainVars
<1>2. TypeOK'
  BY DEF Cancel, Inv, TypeOK, envVars, mainVars, workerVars
<1>3. Shape'
  BY DEF Cancel, Inv, Shape, mainVars
<1>4. KeysKept' /\ StmtsKept'
  BY <1>1 DEF Cancel, Inv, KeysKept, StmtsKept, mainVars, workerVars
<1>5. StreamKept'
  BY DEF Cancel, Inv, StreamKept, mainVars, envVars
<1> QED BY <1>1, <1>2, <1>3, <1>4, <1>5 DEF Inv

LEMMA RecvStmtInv == Inv /\ RecvStmt => Inv'
<1> SUFFICES ASSUME Inv, RecvStmt PROVE Inv'
  OBVIOUS
<1> DEFINE s == Head(feed)
<1>1. s \in Stmts /\ Tail(feed) \in Seq(Stmts) /\ feed \in Seq(Stmts) /\ feed # <<>>
  BY DEF RecvStmt, Inv, TypeOK
<1>2. Elements(feed) = {s} \cup Elements(feed')
  BY <1>1, ElementsTail DEF RecvStmt
<1>3. KeysOf[s] \subseteq Keys
  BY <1>1, KeysOfAssumption
<1>4. pc = "read" /\ ~err /\ err' = err /\ cur = <<>> /\ Len(stmts) < StmtBatch /\ ~closed /\ closed' = closed
  BY DEF RecvStmt, Inv, Shape
<1>5. stmts \in Seq(Stmts) /\ Append(stmts, s) \in Seq(Stmts) /\ Len(Append(stmts, s)) = Len(stmts) + 1
  BY <1>1 DEF Inv, TypeOK
<1>6. Elements(Append(stmts, s)) = Elements(stmts) \cup {s}
  BY <1>1, <1>5, ElementsAppend
<1>7. Elements(<<s>>) = {s} /\ Elements(<<>>) = {}
  <2>1. DOMAIN <<s>> = {1} /\ <<s>>[1] = s
    OBVIOUS
  <2> QED BY <2>1, ElementsEmpty DEF Elements
<1>8. KeysOfAll({s}) = KeysOf[s] /\ KeysOfAll(seen \cup {s}) = KeysOfAll(seen) \cup KeysOf[s]
  <2>1. KeysOfAll({s}) = KeysOf[s]
    BY DEF KeysOfAll
  <2> QED BY <2>1, KeysOfAllUnion
<1>9. Accounting' /\ WorkerState' /\ Outstanding' = Outstanding /\ Queued' = Queued /\ Asked' = Asked
  <2>1. pc' # "done"
    BY DEF RecvStmt, AfterAppend
  <2> QED BY <1>4, <2>1, WorkersUntouched DEF RecvStmt
<1>10. \/ /\ pc' = "flush" /\ cur' = <<s>> /\ UNCHANGED <<stmts, seen>>
       \/ /\ stmts' = Append(stmts, s) /\ seen' = seen \cup {s} /\ cur' = <<>>
          /\ pc' = AfterAppend(stmts')
  BY <1>4 DEF RecvStmt
<1>11. keys' = keys \cup KeysOf[s] /\ feed' = Tail(feed)
       /\ UNCHANGED <<envVars, cancelled, db, ds, err, count, ocount, workers, work, closed, resch, workerVars>>
  BY DEF RecvStmt
<1>12. TypeOK'
  <2>0. StmtBatch \in Nat /\ Len(stmts) \in Nat /\ seen \subseteq Stmts
    BY <1>5, BatchAssumption DEF Inv, TypeOK
  <2>1. cur' \in Seq(Stmts) /\ stmts' \in Seq(Stmts) /\ Len(stmts') <= StmtBatch /\ seen' \subseteq Stmts
    <3>1. CASE cur' = <<s>> /\ UNCHANGED <<stmts, seen>>
      BY <1>1, <1>4, <1>5, <2>0, <3>1
    <3>2. CASE stmts' = Append(stmts, s) /\ seen' = seen \cup {s} /\ cur' = <<>>
      BY <1>1, <1>4, <1>5, <2>0, <3>2
    <3> QED BY <1>10, <3>1, <3>2
  <2>2. pc' \in {"read", "flush", "merge"}
    BY <1>10 DEF AfterAppend
  <2> QED BY <1>1, <1>3, <1>11, <2>1, <2>2 DEF Inv, TypeOK, envVars, workerVars
<1>13. Shape'
  BY <1>1, <1>4, <1>5, <1>10, BatchAssumption DEF Shape, AfterAppend
<1>14. KeysKept'
  BY <1>4, <1>7, <1>8, <1>9, <1>10, <1>11, ElementsEmpty DEF Inv, KeysKept, KeysOfAll, workerVars
<1>15. StmtsKept'
  BY <1>4, <1>6, <1>10, <1>11 DEF Inv, StmtsKept
<1>16. StreamKept'
  BY <1>2, <1>4, <1>7, <1>10, <1>11 DEF Inv, StreamKept, envVars, AfterAppend
<1> QED BY <1>9, <1>12, <1>13, <1>14, <1>15, <1>16 DEF Inv

LEMMA RecvErrorInv == Inv /\ (RecvError \/ FlushCancelled \/ MergeBatchFails) => Inv'
<1> SUFFICES ASSUME Inv, RecvError \/ FlushCancelled \/ MergeBatchFails PROVE Inv'
  OBVIOUS
<1>1. err' = TRUE /\ pc' = "close" /\ pc # "done" /\ ~closed
  BY DEF RecvError, FlushCancelled, MergeBatchFails, AfterLoop, AfterGivingUp, Flushing, Merging, Inv, Shape
<1>2. UNCHANGED <<envVars, cancelled, db, ds, feed, cur, keys, stmts, seen, count, ocount, workers,
                  work, closed, resch, workerVars>>
  BY DEF RecvError, FlushCancelled, MergeBatchFails
<1>3. Accounting' /\ WorkerState'
  BY <1>1, <1>2, WorkersUntouched
<1>4. TypeOK'
  BY <1>1, <1>2 DEF Inv, TypeOK, envVars, workerVars
<1>5. Shape' /\ KeysKept' /\ StmtsKept' /\ StreamKept'
  BY <1>1, <1>2 DEF Shape, KeysKept, StmtsKept, StreamKept
<1> QED BY <1>3, <1>4, <1>5 DEF Inv

LEMMA RecvEndInv == Inv /\ RecvEnd => Inv'
<1> SUFFICES ASSUME Inv, RecvEnd PROVE Inv'
  OBVIOUS
<1>1. pc = "read" /\ ~err /\ cur = <<>> /\ ~closed /\ pc' = AfterLoop(FALSE, keys, stmts) /\ (feed = <<>> \/ cancelled)
  BY DEF RecvEnd, Inv, Shape
<1>2. UNCHANGED <<envVars, cancelled, db, ds, feed, cur, keys, stmts, seen, err, count, ocount, workers,
                  work, closed, resch, workerVars>>
  BY DEF RecvEnd
<1>3. pc' \in {"lastflush", "lastmerge", "close"} /\ (pc' # "lastflush" => keys = {}) /\ (pc' = "close" => stmts = <<>>)
  BY <1>1 DEF AfterLoop
<1>4. Accounting' /\ WorkerState' /\ Outstanding' = Outstanding /\ Queued' = Queued /\ Asked' = Asked
  BY <1>1, <1>2, <1>3, WorkersUntouched
<1>5. TypeOK'
  BY <1>1, <1>2, <1>3 DEF Inv, TypeOK, envVars, workerVars
<1>6. Shape'
  BY <1>1, <1>2, <1>3 DEF Inv, Shape
<1>7. KeysKept'
  BY <1>1, <1>2, <1>3, <1>4 DEF Inv, KeysKept, workerVars
<1>8. StmtsKept' /\ StreamKept'
  BY <1>1, <1>2, <1>3 DEF Inv, StmtsKept, StreamKept, envVars
<1> QED BY <1>4, <1>5, <1>6, <1>7, <1>8 DEF Inv

LEMMA MergeBatchInv == Inv /\ MergeBatch => Inv'
<1> SUFFICES ASSUME Inv, MergeBatch PROVE Inv'
  OBVIOUS
<1>1. /\ pc \in {"merge", "lastmerge"} /\ ~err /\ cur = <<>> /\ ~closed
      /\ pc' = (IF pc = "merge" THEN "read" ELSE "close")
      /\ db' = db \cup Elements(stmts) /\ stmts' = <<>>
  BY DEF MergeBatch, Merging, Inv, Shape
<1>2. UNCHANGED <<envVars, cancelled, ds, feed, cur, keys, seen, err, ocount, workers, work, closed,
                  resch, workerVars>>
  BY DEF MergeBatch
<1>3. stmts \in Seq(Stmts) /\ Elements(stmts) \subseteq Stmts
  BY ElementsOf DEF Inv, TypeOK
<1>4. Accounting' /\ WorkerState' /\ Outstanding' = Outstanding /\ Queued' = Queued /\ Asked' = Asked
  <2>1. pc' # "done"
    BY <1>1
  <2> QED BY <1>2, <2>1, WorkersUntouched
<1>5. count' \in Nat
  <2>1. IsFiniteSet(Elements(stmts))
    <3>1. IsFiniteSet(DOMAIN stmts)
      BY <1>3, FS_Interval
    <3>2. stmts \in Surjection(DOMAIN stmts, Elements(stmts))
      <4>1. stmts \in [DOMAIN stmts -> Elements(stmts)]
        BY <1>3 DEF Elements
      <4> QED BY <4>1 DEF Surjection, Elements
    <3> QED BY <3>1, <3>2, FS_Surjection
  <2>2. IsFiniteSet(Elements(stmts) \ db)
    BY <2>1, FS_Subset
  <2> QED BY <2>2, FS_CardinalityType DEF MergeBatch, Inv, TypeOK
<1>6. TypeOK'
  <2>1. Len(stmts') <= StmtBatch /\ stmts' \in Seq(Stmts)
    BY <1>1, BatchAssumption
  <2>2. db' \subseteq Stmts
    BY <1>1, <1>3 DEF Inv, TypeOK
  <2>3. pc' \in {"read", "close"}
    BY <1>1
  <2> QED BY <1>2, <1>5, <2>1, <2>2, <2>3 DEF Inv, TypeOK, envVars, workerVars
<1>7. Shape'
  <2>1. Len(stmts') < StmtBatch
    BY <1>1, BatchAssumption
  <2> QED BY <1>1, <1>2, <2>1 DEF Inv, Shape
<1>8. KeysKept'
  BY <1>2, <1>4 DEF Inv, KeysKept, workerVars
<1>9. StmtsKept'
  BY <1>1, <1>2 DEF Inv, StmtsKept
<1>10. StreamKept'
  BY <1>1, <1>2 DEF Inv, StreamKept, envVars
<1> QED BY <1>4, <1>6, <1>7, <1>8, <1>9, <1>10 DEF Inv

LEMMA CloseWorkInv == Inv /\ CloseWork => Inv'
<1> SUFFICES ASSUME Inv, CloseWork PROVE Inv'
  OBVIOUS
<1>1. /\ pc = "close" /\ closed' = TRUE /\ pc' = (IF workers = 0 THEN "done" ELSE "collect")
      /\ UNCHANGED <<envVars, cancelled, db, ds, feed, cur, keys, stmts, seen, err, count, ocount,
                     workers, work, resch, workerVars>>
  BY DEF CloseWork, AfterResults
<1>2. Accounting' /\ WorkerState' /\ Outstanding' = Outstanding /\ Queued' = Queued /\ Asked' = Asked
  BY <1>1, WorkersUntouched
<1>3. TypeOK'
  BY <1>1 DEF Inv, TypeOK, envVars, workerVars
<1>4. Shape'
  BY <1>1 DEF Inv, Shape
<1>5. KeysKept' /\ StmtsKept'
  BY <1>1, <1>2 DEF Inv, KeysKept, StmtsKept, workerVars
<1>6. StreamKept'
  BY <1>1 DEF Inv, StreamKept, envVars
<1> QED BY <1>2, <1>3, <1>4, <1>5, <1>6 DEF Inv

LEMMA SendKeysInv == Inv /\ SendKeys => Inv'
<1> SUFFICES ASSUME Inv, SendKeys PROVE Inv'
  OBVIOUS
<1>1. /\ pc \in {"flush", "lastflush"} /\ ~err /\ ~closed /\ Len(work) < QueueCap
      /\ work' = Append(work, keys) /\ keys' = {}
      /\ UNCHANGED <<envVars, cancelled, db, ds, feed, err, count, ocount, workers, closed, resch, workerVars>>
  BY DEF SendKeys, Flushing, Inv, Shape
<1>2. work \in Seq(SUBSET Keys) /\ keys \in SUBSET Keys /\ stmts \in Seq(Stmts) /\ seen \subseteq Stmts
  BY DEF Inv, TypeOK
<1>3. Outstanding' = Outstanding /\ Asked' = Asked
  BY <1>1 DEF Outstanding, Asked, workerVars
<1>4. Queued' = Queued \cup keys
  <2>1. Elements(work') = Elements(work) \cup {keys}
    BY <1>1, <1>2, ElementsAppend
  <2> QED BY <2>1 DEF Queued
<1>5. \/ /\ pc = "flush"
         /\ \E s \in Stmts : /\ cur = <<s>> /\ stmts' = Append(stmts, s) /\ seen' = seen \cup {s}
                             /\ Elements(cur) = {s} /\ Elements(stmts') = Elements(stmts) \cup {s}
         /\ cur' = <<>> /\ pc' = (IF Len(stmts') >= StmtBatch THEN "merge" ELSE "read")
         /\ Len(stmts) < StmtBatch
      \/ /\ pc = "lastflush" /\ pc' = (IF stmts # <<>> THEN "lastmerge" ELSE "close")
         /\ cur = <<>> /\ UNCHANGED <<stmts, seen, cur>>
  <2>1. CASE pc = "flush"
    <3>1. PICK s \in Stmts : cur = <<s>>
      BY <2>1 DEF Inv, Shape
    <3>2. DOMAIN cur = {1} /\ cur[1] = s
      BY <3>1
    <3>3. Elements(cur) = {s}
      BY <3>2 DEF Elements
    <3>4. stmts' = Append(stmts, s)
      <4>1. stmts' = stmts \o <<s>>
        BY <2>1, <3>1 DEF SendKeys
      <4> QED BY <4>1, <1>2, AppendIsConcat
    <3>5. Elements(stmts') = Elements(stmts) \cup {s}
      BY <1>2, <3>4, ElementsAppend
    <3>6. Len(stmts) < StmtBatch
      BY <2>1 DEF Inv, Shape
    <3>7. seen' = seen \cup {s} /\ cur' = <<>> /\ pc' = (IF Len(stmts') >= StmtBatch THEN "merge" ELSE "read")
      BY <2>1, <3>3 DEF SendKeys, AfterAppend
    <3> QED BY <2>1, <3>1, <3>3, <3>4, <3>5, <3>6, <3>7
  <2>2. CASE pc = "lastflush"
    BY <1>1, <2>2 DEF SendKeys, AfterLoop, Inv, Shape
  <2> QED BY <1>1, <2>1, <2>2
<1>6. TypeOK'
  <2>1. work' \in Seq(SUBSET Keys) /\ Len(work') <= QueueCap
    BY <1>1, <1>2, BatchAssumption
  <2>2. cur' \in Seq(Stmts) /\ stmts' \in Seq(Stmts) /\ Len(stmts') <= StmtBatch /\ seen' \subseteq Stmts
    <3>1. CASE pc = "flush"
      <4>1. PICK s \in Stmts : stmts' = Append(stmts, s) /\ seen' = seen \cup {s}
        BY <1>5, <3>1
      <4>2. Len(stmts') = Len(stmts) + 1 /\ Len(stmts) \in Nat /\ stmts' \in Seq(Stmts)
        BY <1>2, <4>1
      <4>3. StmtBatch \in Nat /\ Len(stmts) < StmtBatch
        BY <1>5, <3>1, BatchAssumption
      <4>4. Len(stmts') <= StmtBatch
        BY <4>2, <4>3
      <4>5. seen' \subseteq Stmts
        BY <1>2, <4>1
      <4> QED BY <1>5, <3>1, <4>2, <4>4, <4>5
    <3>2. CASE pc # "flush"
      BY <1>5, <3>2 DEF Inv, TypeOK
    <3> QED BY <3>1, <3>2
  <2>3. pc' \in {"merge", "read", "lastmerge", "close"}
    BY <1>5
  <2> QED BY <1>1, <2>1, <2>2, <2>3 DEF Inv, TypeOK, envVars, workerVars
<1>7. Shape'
  <2>1. Len(stmts') \in Nat /\ StmtBatch \in Nat
    BY <1>6, BatchAssumption DEF TypeOK
  <2> QED BY <1>1, <1>5, <2>1 DEF Shape
<1>8. Accounting' /\ WorkerState'
  <2>1. Accounting'
    BY <1>1, <1>3, <1>5 DEF Inv, Accounting, workerVars
  <2>2. WorkerState'
    BY <1>1, <1>3 DEF Inv, WorkerState, workerVars
  <2> QED BY <2>1, <2>2
<1>9. KeysKept'
  <2>1. seen' \cup Elements(cur') = seen \cup Elements(cur)
    BY <1>5, ElementsEmpty
  <2>2. KeysOfAll(seen') \cup KeysOfAll(Elements(cur')) = KeysOfAll(seen) \cup KeysOfAll(Elements(cur))
    <3>1. KeysOfAll(seen') \cup KeysOfAll(Elements(cur')) = KeysOfAll(seen' \cup Elements(cur'))
      BY KeysOfAllUnion
    <3>2. KeysOfAll(seen) \cup KeysOfAll(Elements(cur)) = KeysOfAll(seen \cup Elements(cur))
      BY KeysOfAllUnion
    <3> QED BY <2>1, <3>1, <3>2
  <2> QED BY <1>1, <1>3, <1>4, <2>2 DEF Inv, KeysKept, workerVars
<1>10. StmtsKept'
  BY <1>1, <1>5 DEF Inv, StmtsKept
<1>11. StreamKept'
  BY <1>1, <1>5, ElementsEmpty DEF Inv, StreamKept, envVars
<1> QED BY <1>6, <1>7, <1>8, <1>9, <1>10, <1>11 DEF Inv

LEMMA ResultInv == Inv /\ (EarlyResult \/ Collect) => Inv'
<1> SUFFICES ASSUME Inv, EarlyResult \/ Collect PROVE Inv'
  OBVIOUS
<1>1. PICK w \in resch :
         /\ resch' = resch \ {w} /\ ocount' = ocount + wcount[w]
         /\ \/ EarlyResult /\ err' = werr[w]
            \/ Collect /\ err' = (err \/ werr[w])
  BY DEF EarlyResult, Collect
<1>2. /\ workers' = workers - 1
      /\ UNCHANGED <<envVars, cancelled, db, ds, feed, cur, keys, stmts, seen, count, work, closed, workerVars>>
  BY DEF EarlyResult, Collect
<1>3. w \in Workers /\ wpc[w] = "exit" /\ w \in Outstanding
  BY <1>1 DEF Inv, TypeOK, Accounting, Outstanding
<1>4. EarlyResult => werr[w] /\ ~closed
  BY <1>3 DEF EarlyResult, Flushing, Inv, Shape, WorkerState
<1>5. /\ EarlyResult => err' = TRUE /\ pc' = "close" /\ pc # "done"
      /\ Collect => /\ pc = "collect" /\ closed
                    /\ pc' = (IF workers' = 0 THEN "done" ELSE "collect")
      /\ err' \in BOOLEAN /\ (err \/ werr[w] => err') /\ (err' => err \/ werr[w])
  <2>1. err \in BOOLEAN /\ werr[w] \in BOOLEAN
    BY <1>3 DEF Inv, TypeOK
  <2>2. CASE EarlyResult
    <3>1. werr[w] = TRUE /\ err' = werr[w] /\ pc \in {"flush", "lastflush"}
      <4>1. Flushing /\ pc # "collect"
        BY <2>2 DEF EarlyResult, Flushing
      <4> QED BY <1>1, <1>4, <2>1, <2>2, <4>1 DEF Collect, Flushing
    <3>2. pc' = "close"
      BY <2>2, <3>1 DEF EarlyResult, AfterGivingUp, AfterLoop
    <3> QED BY <2>2, <3>1, <3>2 DEF Collect
  <2>3. CASE Collect
    <3>1. pc = "collect" /\ ~EarlyResult /\ err' = (err \/ werr[w])
      BY <1>1, <2>3 DEF Collect, EarlyResult, Flushing
    <3>2. closed
      BY <3>1 DEF Inv, Shape
    <3>3. pc' = (IF workers' = 0 THEN "done" ELSE "collect")
      BY <2>3 DEF Collect, AfterResults
    <3> QED BY <2>1, <3>1, <3>2, <3>3
  <2> QED BY <2>2, <2>3
<1>6. Outstanding' = Outstanding \ {w}
  BY <1>1, <1>2, <1>3 DEF Outstanding, workerVars
<1>7. Accounting'
  <2>1. IsFiniteSet(Outstanding)
    BY WorkersAssumption, FS_Subset DEF Outstanding
  <2>2. Cardinality(Outstanding') = Cardinality(Outstanding) - 1
    BY <1>3, <1>6, <2>1, FS_RemoveElement
  <2>3. pc' = "done" => workers' = 0
    BY <1>5
  <2> QED BY <1>1, <1>2, <2>2, <2>3 DEF Inv, Accounting, workerVars
<1>8. TypeOK'
  <2>1. workers' \in Nat
    <3>1. IsFiniteSet(Outstanding')
      BY WorkersAssumption, FS_Subset DEF Outstanding
    <3> QED BY <1>7, <3>1, FS_CardinalityType DEF Accounting
  <2>2. ocount' \in Nat
    BY <1>1, <1>3 DEF Inv, TypeOK
  <2>3. pc' \in {"close", "collect", "done"}
    BY <1>5
  <2>4. resch' \subseteq Workers
    BY <1>1 DEF Inv, TypeOK
  <2> QED BY <1>2, <1>5, <2>1, <2>2, <2>3, <2>4 DEF Inv, TypeOK, envVars, workerVars
<1>9. Shape'
  BY <1>2, <1>4, <1>5 DEF Inv, Shape
<1>10. WorkerState'
  BY <1>2, <1>5, <1>6 DEF Inv, WorkerState, workerVars
<1>11. KeysKept'
  <2>1. Queued' = Queued /\ Asked' = Asked
    BY <1>2 DEF Queued, Asked, workerVars
  <2> QED BY <1>2, <1>5, <1>6, <2>1 DEF Inv, KeysKept, workerVars
<1>12. StmtsKept'
  BY <1>2, <1>5 DEF Inv, StmtsKept
<1>13. StreamKept'
  BY <1>2, <1>5 DEF Inv, StreamKept, envVars
<1> QED BY <1>7, <1>8, <1>9, <1>10, <1>11, <1>12, <1>13 DEF Inv

(* The steps of a worker leave the main goroutine alone. *)
LEMMA MainUntouched ==
    ASSUME Inv, UNCHANGED <<envVars, cancelled, db, mainVars, closed>>
    PROVE  Shape' /\ StmtsKept' /\ StreamKept'
BY DEF Inv, Shape, StmtsKept, StreamKept, envVars, mainVars

LEMMA TakeBatchInv ==
    ASSUME Inv, NEW w \in Workers, TakeBatch(w) \/ TakeBatchFails(w)
    PROVE  Inv'
<1>1. /\ wpc[w] = "wait" /\ work # <<>> /\ work' = Tail(work)
      /\ UNCHANGED <<envVars, cancelled, db, ds, mainVars, closed, resch, wcount>>
  BY DEF TakeBatch, TakeBatchFails
<1>2. Shape' /\ StmtsKept' /\ StreamKept'
  BY <1>1, MainUntouched
<1>3. work \in Seq(SUBSET Keys) /\ Head(work) \in SUBSET Keys
  BY <1>1 DEF Inv, TypeOK
<1>4. Queued = Head(work) \cup Queued'
  <2>1. Elements(work) = {Head(work)} \cup Elements(work')
    BY <1>1, <1>3, ElementsTail
  <2> QED BY <2>1 DEF Queued
<1>5. TypeOK'
  <2>1. work' \in Seq(SUBSET Keys) /\ Len(work') <= QueueCap
    <3>1. Len(work') = Len(work) - 1 /\ Len(work) \in Nat /\ QueueCap \in Nat /\ work' \in Seq(SUBSET Keys)
      BY <1>1, <1>3, BatchAssumption
    <3> QED BY <3>1 DEF Inv, TypeOK
  <2>2. /\ wpc' \in [Workers -> {"wait", "fetch", "post", "exit"}]
        /\ pend' \in [Workers -> SUBSET Keys] /\ werr' \in [Workers -> BOOLEAN]
    BY <1>3 DEF TakeBatch, TakeBatchFails, Inv, TypeOK
  <2> QED BY <1>1, <2>1, <2>2 DEF Inv, TypeOK, envVars, mainVars
<1>6. wpc'[w] # "exit" /\ \A v \in Workers \ {w} : wpc'[v] = wpc[v] /\ pend'[v] = pend[v] /\ werr'[v] = werr[v]
  BY DEF TakeBatch, TakeBatchFails, Inv, TypeOK
<1>7. Outstanding' = Outstanding
  BY <1>1, <1>6 DEF Outstanding
<1>8. Accounting'
  BY <1>1, <1>6, <1>7 DEF Inv, Accounting, mainVars, TypeOK
<1>9. pend[w] = {} /\ ~werr[w] /\ w \in Outstanding /\ w \notin resch
  BY <1>1 DEF Inv, WorkerState, Accounting, Outstanding, TypeOK
<1>10. \/ TakeBatch(w) /\ pend'[w] = Head(work) \ ds /\ werr' = werr
          /\ wpc'[w] = (IF Head(work) \subseteq ds THEN "wait" ELSE "fetch")
       \/ TakeBatchFails(w) /\ pend'[w] = {} /\ werr'[w] /\ wpc'[w] = "post"
  BY <1>9 DEF TakeBatch, TakeBatchFails, Inv, TypeOK
<1>11. WorkerState'
  <2> SUFFICES ASSUME NEW v \in Workers
               PROVE  /\ wpc'[v] # "fetch" => pend'[v] = {}
                      /\ wpc'[v] \in {"wait", "fetch"} => ~werr'[v]
                      /\ wpc'[v] \in {"post", "exit"} /\ ~werr'[v] => closed' /\ work' = <<>>
                      /\ v \notin Outstanding' /\ werr'[v] => err'
    BY DEF WorkerState
  <2>1. CASE v = w
    BY <1>7, <1>9, <1>10, <2>1
  <2>2. CASE v # w
    BY <1>1, <1>6, <1>7, <2>2 DEF Inv, WorkerState, mainVars
  <2> QED BY <2>1, <2>2
<1>12. KeysKept'
  <2>1. CASE TakeBatch(w)
    <3>1. werr' = werr /\ pend'[w] = Head(work) \ ds
      BY <2>1 DEF TakeBatch, Inv, TypeOK
    <3>2. Head(work) \subseteq ds \cup Asked'
      BY <3>1 DEF Asked
    <3>3. Asked \subseteq Asked'
      BY <1>6, <1>9 DEF Asked
    <3> QED BY <1>1, <1>4, <1>7, <3>1, <3>2, <3>3 DEF Inv, KeysKept, mainVars
  <2>2. CASE TakeBatchFails(w)
    <3>1. werr'[w] /\ w \in Outstanding'
      BY <1>7, <1>9, <2>2 DEF TakeBatchFails, Inv, TypeOK
    <3> QED BY <3>1 DEF KeysKept
  <2> QED BY <2>1, <2>2
<1> QED BY <1>2, <1>5, <1>8, <1>11, <1>12 DEF Inv

LEMMA ReceiveDataInv ==
    ASSUME Inv, NEW w \in Workers, ReceiveData(w)
    PROVE  Inv'
<1>1. PICK k \in pend[w] \cap peer : ds' = ds \cup {k} /\ pend' = [pend EXCEPT ![w] = @ \ {k}]
  BY DEF ReceiveData, DataSent
<1>2. /\ wpc[w] = "fetch" /\ wcount' = [wcount EXCEPT ![w] = @ + 1]
      /\ UNCHANGED <<envVars, cancelled, db, mainVars, work, closed, resch, wpc, werr>>
  BY DEF ReceiveData
<1>3. Shape' /\ StmtsKept' /\ StreamKept'
  BY <1>2, MainUntouched
<1>4. pend[w] \subseteq Keys /\ pend \in [Workers -> SUBSET Keys]
  BY DEF Inv, TypeOK
<1>5. TypeOK'
  <2>1. ds' \subseteq Keys /\ pend' \in [Workers -> SUBSET Keys] /\ wcount' \in [Workers -> Nat]
    BY <1>1, <1>2, <1>4 DEF Inv, TypeOK
  <2> QED BY <1>2, <2>1 DEF Inv, TypeOK, envVars, mainVars
<1>6. Outstanding' = Outstanding /\ Queued' = Queued
  BY <1>2 DEF Outstanding, Queued
<1>7. Accounting'
  BY <1>2, <1>6 DEF Inv, Accounting, mainVars
<1>8. WorkerState'
  BY <1>1, <1>2, <1>4, <1>6 DEF Inv, WorkerState, mainVars
<1>9. Asked \subseteq Asked' \cup {k}
  BY <1>1, <1>4 DEF Asked
<1>10. KeysKept'
  BY <1>1, <1>2, <1>6, <1>9 DEF Inv, KeysKept, mainVars
<1> QED BY <1>3, <1>5, <1>7, <1>8, <1>10 DEF Inv

LEMMA EndFetchInv ==
    ASSUME Inv, NEW w \in Workers, ReceiveEnd(w) \/ FetchFails(w)
    PROVE  Inv'
<1>1. /\ wpc[w] = "fetch" /\ pend' = [pend EXCEPT ![w] = {}]
      /\ UNCHANGED <<envVars, cancelled, db, ds, mainVars, work, closed, resch, wcount>>
  BY DEF ReceiveEnd, FetchFails
<1>2. \/ /\ pend[w] = {} /\ wpc' = [wpc EXCEPT ![w] = "wait"] /\ werr' = [werr EXCEPT ![w] = FALSE]
      \/ wpc' = [wpc EXCEPT ![w] = "post"] /\ werr' = [werr EXCEPT ![w] = TRUE]
  <2>1. CASE ReceiveEnd(w) /\ pend[w] = {}
    <3>1. (pend[w] # {}) = FALSE
      BY <2>1
    <3> QED BY <2>1, <3>1 DEF ReceiveEnd
  <2>2. CASE ReceiveEnd(w) /\ pend[w] # {}
    <3>1. (pend[w] # {}) = TRUE
      BY <2>2
    <3> QED BY <2>2, <3>1 DEF ReceiveEnd
  <2> QED BY <2>1, <2>2 DEF FetchFails
<1>3. Shape' /\ StmtsKept' /\ StreamKept'
  BY <1>1, MainUntouched
<1>4. TypeOK'
  <2>1. /\ wpc' \in [Workers -> {"wait", "fetch", "post", "exit"}]
        /\ pend' \in [Workers -> SUBSET Keys] /\ werr' \in [Workers -> BOOLEAN]
    BY <1>1, <1>2 DEF Inv, TypeOK
  <2> QED BY <1>1, <2>1 DEF Inv, TypeOK, envVars, mainVars
<1>5. /\ wpc'[w] \in {"wait", "post"} /\ pend'[w] = {} /\ (wpc'[w] = "wait" => pend[w] = {} /\ ~werr'[w])
      /\ wpc'[w] = "post" => werr'[w]
      /\ \A v \in Workers \ {w} : wpc'[v] = wpc[v] /\ pend'[v] = pend[v] /\ werr'[v] = werr[v]
  BY <1>1, <1>2 DEF Inv, TypeOK
<1>6. Outstanding' = Outstanding /\ w \in Outstanding /\ Queued' = Queued
  BY <1>1, <1>5 DEF Outstanding, Queued
<1>7. Accounting'
  BY <1>1, <1>5, <1>6 DEF Inv, Accounting, mainVars, TypeOK
<1>8. WorkerState'
  BY <1>1, <1>5, <1>6 DEF Inv, WorkerState, mainVars
<1>9. KeysKept'
  <2>1. CASE wpc'[w] = "post"
    BY <1>5, <1>6, <2>1 DEF KeysKept
  <2>2. CASE wpc'[w] = "wait"
    <3>1. Asked' = Asked
      BY <1>5, <2>2 DEF Asked
    <3>2. ~werr[w]
      BY <1>1 DEF Inv, WorkerState
    <3> QED BY <1>1, <1>5, <1>6, <2>2, <3>1, <3>2 DEF Inv, KeysKept, mainVars, Outstanding
  <2> QED BY <1>5, <2>1, <2>2
<1> QED BY <1>3, <1>4, <1>7, <1>8, <1>9 DEF Inv

LEMMA StopInv ==
    ASSUME Inv, NEW w \in Workers, WorkClosed(w) \/ PostResult(w)
    PROVE  Inv'
<1>1. UNCHANGED <<envVars, cancelled, db, ds, mainVars, work, closed, pend, wcount, werr>>
  BY DEF WorkClosed, PostResult
<1>2. \/ /\ wpc[w] = "wait" /\ wpc' = [wpc EXCEPT ![w] = "post"] /\ resch' = resch
         /\ work = <<>> /\ closed
      \/ wpc[w] = "post" /\ wpc' = [wpc EXCEPT ![w] = "exit"] /\ resch' = resch \cup {w}
  BY DEF WorkClosed, PostResult
<1>3. Shape' /\ StmtsKept' /\ StreamKept'
  BY <1>1, MainUntouched
<1>4. TypeOK'
  <2>1. wpc' \in [Workers -> {"wait", "fetch", "post", "exit"}] /\ resch' \subseteq Workers
    BY <1>2 DEF Inv, TypeOK
  <2> QED BY <1>1, <2>1 DEF Inv, TypeOK, envVars, mainVars
<1>5. wpc'[w] \in {"post", "exit"} /\ \A v \in Workers \ {w} : wpc'[v] = wpc[v]
  BY <1>2 DEF Inv, TypeOK
<1>6. Outstanding' = Outstanding /\ Queued' = Queued /\ Asked' = Asked
  <2>1. w \in Outstanding /\ w \in Outstanding'
    BY <1>2 DEF Outstanding, Inv, TypeOK
  <2>2. \A v \in Workers \ {w} : v \in resch' <=> v \in resch
    BY <1>2
  <2> QED BY <1>1, <1>5, <2>1, <2>2 DEF Outstanding, Queued, Asked
<1>7. Accounting'
  BY <1>1, <1>2, <1>5, <1>6 DEF Inv, Accounting, mainVars, TypeOK
<1>8. WorkerState'
  BY <1>1, <1>2, <1>5, <1>6 DEF Inv, WorkerState, mainVars
<1>9. KeysKept'
  BY <1>1, <1>6 DEF Inv, KeysKept, mainVars
<1> QED BY <1>3, <1>4, <1>7, <1>8, <1>9 DEF Inv

LEMMA StutterInv == Inv /\ UNCHANGED vars => Inv'
<1> SUFFICES ASSUME Inv, UNCHANGED vars PROVE Inv'
  OBVIOUS
<1>1. UNCHANGED <<input, peer, found, cancelled, db, ds, feed, pc, cur, keys, stmts, seen, err, count,
                  ocount, workers, work, closed, resch, wpc, pend, wcount, werr>>
  BY DEF vars, envVars, mainVars, workerVars
<1>2. TypeOK' /\ Shape'
  BY <1>1 DEF Inv, TypeOK, Shape
<1>3. Accounting' /\ WorkerState' /\ KeysKept'
  BY <1>1 DEF Inv, Accounting, WorkerState, KeysKept, Outstanding, Queued, Asked
<1>4. StmtsKept' /\ StreamKept'
  BY <1>1 DEF Inv, StmtsKept, StreamKept
<1> QED BY <1>2, <1>3, <1>4 DEF Inv

LEMMA NextInv == Inv /\ [Next]_vars => Inv'
<1> SUFFICES ASSUME Inv, [Next]_vars PROVE Inv'
  OBVIOUS
<1>1. CASE Cancel
  BY <1>1, CancelInv
<1>2. CASE MainStep
  BY <1>2, RecvStmtInv, RecvEndInv, RecvErrorInv, SendKeysInv, ResultInv, MergeBatchInv, CloseWorkInv
  DEF MainStep
<1>3. ASSUME NEW w \in Workers, WorkerStep(w) PROVE Inv'
  BY <1>3, TakeBatchInv, ReceiveDataInv, EndFetchInv, StopInv DEF WorkerStep
<1>4. CASE UNCHANGED vars
  BY <1>4, StutterInv
<1> QED BY <1>1, <1>2, <1>3, <1>4 DEF Next, Finished

LEMMA InvSuffices == Inv => TypeOK /\ SuccessIsComplete /\ SuccessIsWhole /\ NoWorkerLeft
<1> SUFFICES ASSUME Inv PROVE SuccessIsComplete /\ SuccessIsWhole /\ NoWorkerLeft
  BY DEF Inv
<1>1. ASSUME pc = "done" PROVE Outstanding = {}
  <2>1. IsFiniteSet(Outstanding)
    BY WorkersAssumption, FS_Subset DEF Outstanding
  <2>2. Cardinality(Outstanding) = 0
    BY <1>1 DEF Inv, Accounting
  <2> QED BY <2>1, <2>2, FS_EmptySet
<1>2. NoWorkerLeft
  BY <1>1 DEF NoWorkerLeft, Outstanding, Inv, TypeOK
<1>3. SuccessIsWhole
  BY ElementsEmpty DEF SuccessIsWhole, Inv, Shape, StreamKept
<1>4. SuccessIsComplete
  <2> SUFFICES ASSUME pc = "done", ~err
               PROVE  seen \subseteq db /\ KeysOfAll(seen) \subseteq ds
    BY DEF SuccessIsComplete
  <2>1. keys = {} /\ stmts = <<>> /\ Elements(stmts) = {}
    BY ElementsEmpty DEF Inv, Shape
  <2>2. PICK w : w \in Workers
    BY WorkersAssumption
  <2>3. \A v \in Workers : wpc[v] = "exit" /\ v \notin Outstanding /\ ~werr[v]
    BY <1>1 DEF Outstanding, Inv, WorkerState
  <2>4. work = <<>> /\ \A v \in Workers : pend[v] = {}
    BY <2>2, <2>3 DEF Inv, WorkerState
  <2>5. Queued = {} /\ Asked = {}
    BY <2>4, ElementsEmpty DEF Queued, Asked
  <2> QED BY <1>1, <2>1, <2>5 DEF Inv, StmtsKept, KeysKept
<1> QED BY <1>2, <1>3, <1>4

LEMMA InvAlways == Spec => []Inv
BY InitInv, NextInv, PTL DEF Spec

-----------------------------------------------------------------------------

(* Type correctness, with the channels and the statement batch within      *)
(* their bounds (doMergeStream never blocks on a batch it cannot hold).    *)
THEOREM TypeCorrect == Spec => []TypeOK
BY InvAlways, InvSuffices, PTL

(* When doMergeStream returns no error, every statement it accepted is in  *)
(* the db and every object of these is in the datastore, however the       *)
(* batches were divided among workers and whichever of them failed.        *)
THEOREM MergeIsComplete == Spec => []SuccessIsComplete
BY InvAlways, InvSuffices, PTL

(* When it returns no error and its context was not cancelled, it has      *)
(* accepted the whole stream of the query.                                 *)
THEOREM MergeIsWhole == Spec => []SuccessIsWhole
BY InvAlways, InvSuffices, PTL

(* When it returns, all its workers have stopped and every result has been *)
(* received: one result taken early in a select is counted once.           *)
THEOREM MergeLeavesNoWorker == Spec => []NoWorkerLeft
BY InvAlways, InvSuffices, PTL

-----------------------------------------------------------------------------
(* The counters. Which worker has fetched which object is nowhere recorded, *)
(* and has to be for a sum over workers; Ledger says that F is a record of *)
(* it that fits the state: each object that is new was fetched by some     *)
(* worker, no worker fetched one twice (it asks for what the datastore     *)
(* does not have, so not for what it has stored itself), and the counts    *)
(* received are those of the workers that are no longer outstanding.       *)
NewStmts == db \ found.db
NewObjects == ds \ found.ds
FetchesOf(F, W) == {p \in F : p[1] \in W}

Ledger(F) ==
    /\ F \subseteq Workers \X NewObjects /\ IsFiniteSet(F)
    /\ \A k \in NewObjects : \E p \in F : p[2] = k
    /\ \A p \in F : p[2] \notin pend[p[1]]
    /\ \A w \in Workers : wcount[w] = Cardinality(FetchesOf(F, {w}))
    /\ ocount = Cardinality(FetchesOf(F, Workers \ Outstanding))

StmtsCounted ==
    /\ found.db \subseteq db /\ IsFiniteSet(NewStmts)
    /\ count = Cardinality(NewStmts)

ObjectsCounted ==
    /\ found.ds \subseteq ds
    /\ \A w \in Workers : pend[w] \cap found.ds = {}
    /\ \E F \in SUBSET (Workers \X NewObjects) : Ledger(F)

Counted == StmtsCounted /\ ObjectsCounted

LEMMA ElementsFinite ==
    ASSUME NEW S, NEW s \in Seq(S)
    PROVE  IsFiniteSet(Elements(s))
<1>1. DOMAIN s = 1..Len(s) /\ Len(s) \in Nat
  OBVIOUS
<1>2. IsFiniteSet(1..Len(s))
  BY <1>1, FS_Interval
<1>3. s \in Surjection(1..Len(s), Elements(s))
  <2>1. s \in [1..Len(s) -> Elements(s)]
    BY <1>1 DEF Elements
  <2> QED BY <1>1, <2>1 DEF Surjection, Elements
<1> QED BY <1>2, <1>3, FS_Surjection

LEMMA FetchesFinite ==
    ASSUME NEW F, IsFiniteSet(F), NEW W
    PROVE  IsFiniteSet(FetchesOf(F, W)) /\ Cardinality(FetchesOf(F, W)) \in Nat
BY FS_Subset, FS_CardinalityType DEF FetchesOf

LEMMA InitCounted == Init => Counted
<1> SUFFICES ASSUME Init PROVE Counted
  OBVIOUS
<1>1. NewStmts = {} /\ NewObjects = {}
  BY DEF Init, NewStmts, NewObjects
<1>2. StmtsCounted
  BY <1>1, FS_EmptySet DEF Init, StmtsCounted
<1>3. Ledger({})
  <2>1. \A W : FetchesOf({}, W) = {}
    BY DEF FetchesOf
  <2> QED BY <1>1, <2>1, FS_EmptySet DEF Init, Ledger
<1>4. ObjectsCounted
  BY <1>3 DEF Init, ObjectsCounted
<1> QED BY <1>2, <1>4 DEF Counted

(* Of a batch, what is not in the db is added to the count. *)
LEMMA MergeBatchCounted ==
    ASSUME Inv, StmtsCounted, MergeBatch
    PROVE  StmtsCounted'
<1>1. /\ db' = db \cup Elements(stmts) /\ found' = found
      /\ count' = count + Cardinality(Elements(stmts) \ db)
  BY DEF MergeBatch, envVars
<1>2. IsFiniteSet(Elements(stmts) \ db)
  BY ElementsFinite, FS_Difference DEF Inv, TypeOK
<1>3. NewStmts' = NewStmts \cup (Elements(stmts) \ db)
  BY <1>1 DEF NewStmts, StmtsCounted
<1>4. NewStmts \cap (Elements(stmts) \ db) = {}
  BY DEF NewStmts
<1>5. /\ IsFiniteSet(NewStmts')
      /\ Cardinality(NewStmts') = Cardinality(NewStmts) + Cardinality(Elements(stmts) \ db) - 0
  BY <1>2, <1>3, <1>4, FS_Union, FS_EmptySet DEF StmtsCounted
<1>6. Cardinality(NewStmts) \in Nat /\ Cardinality(Elements(stmts) \ db) \in Nat
  BY <1>2, FS_CardinalityType DEF StmtsCounted
<1>7. found.db \subseteq db'
  BY <1>1 DEF StmtsCounted
<1> QED BY <1>1, <1>5, <1>6, <1>7 DEF StmtsCounted

LEMMA StmtsUntouched ==
    ASSUME StmtsCounted, UNCHANGED <<found, db, count>>
    PROVE  StmtsCounted'
BY DEF StmtsCounted, NewStmts

(* A worker that gives up what it asked for, or asks for more, does not    *)
(* change what it has fetched.                                             *)
LEMMA LedgerStays ==
    ASSUME ObjectsCounted, UNCHANGED <<found, ds, wcount, ocount>>, Outstanding' = Outstanding,
           \A w \in Workers : pend'[w] \cap ds \subseteq pend[w]
    PROVE  ObjectsCounted'
<1>1. PICK F \in SUBSET (Workers \X NewObjects) : Ledger(F)
  BY DEF ObjectsCounted
<1>2. NewObjects' = NewObjects
  BY DEF NewObjects
<1>3. \A p \in F : p[1] \in Workers /\ p[2] \in ds
  BY DEF NewObjects
<1>4. \A p \in F : p[2] \notin pend'[p[1]]
  BY <1>1, <1>3 DEF Ledger
<1>5. Ledger(F)'
  BY <1>1, <1>2, <1>4 DEF Ledger
<1> QED BY <1>2, <1>5 DEF ObjectsCounted

(* An object that is received was not yet fetched by this worker. *)
LEMMA ReceiveDataCounted ==
    ASSUME Inv, ObjectsCounted, NEW w \in Workers, ReceiveData(w)
    PROVE  ObjectsCounted'
<1>1. PICK k \in pend[w] \cap peer : ds' = ds \cup {k} /\ pend' = [pend EXCEPT ![w] = @ \ {k}]
  BY DEF ReceiveData, DataSent
<1>2. /\ wpc[w] = "fetch" /\ wcount' = [wcount EXCEPT ![w] = @ + 1]
      /\ UNCHANGED <<found, ocount, resch, wpc>>
  BY DEF ReceiveData, envVars, mainVars
<1>3. pend \in [Workers -> SUBSET Keys] /\ wcount \in [Workers -> Nat]
  BY DEF Inv, TypeOK
<1>4. PICK F \in SUBSET (Workers \X NewObjects) : Ledger(F)
  BY DEF ObjectsCounted
<1> DEFINE G == F \cup {<<w, k>>}
<1>5. k \notin found.ds /\ NewObjects' = NewObjects \cup {k} /\ found.ds \subseteq ds'
  BY <1>1, <1>2 DEF ObjectsCounted, NewObjects
<1>6. <<w, k>> \notin F
  BY <1>1, <1>4 DEF Ledger
<1>7. IsFiniteSet(F) /\ IsFiniteSet(G) /\ G \subseteq Workers \X NewObjects'
  <2>1. IsFiniteSet(F) /\ IsFiniteSet(G)
    BY <1>4, FS_AddElement DEF Ledger
  <2>2. Workers \X NewObjects \subseteq Workers \X NewObjects' /\ <<w, k>> \in Workers \X NewObjects'
    BY <1>5
  <2> QED BY <2>1, <2>2
<1>8. \A i \in NewObjects' : \E p \in G : p[2] = i
  <2>1. \A i \in NewObjects : \E p \in G : p[2] = i
    BY <1>4 DEF Ledger
  <2>2. <<w, k>> \in G /\ <<w, k>>[2] = k
    OBVIOUS
  <2> QED BY <1>5, <2>1, <2>2
<1>9. \A p \in G : p[2] \notin pend'[p[1]]
  <2>1. \A p \in F : p[1] \in Workers /\ p[2] \notin pend[p[1]]
    BY <1>4 DEF Ledger
  <2>2. \A v \in Workers : pend'[v] \subseteq pend[v]
    BY <1>1, <1>3
  <2>3. k \notin pend'[w]
    BY <1>1, <1>3
  <2> QED BY <2>1, <2>2, <2>3
<1>10. \A v \in Workers : wcount'[v] = Cardinality(FetchesOf(G, {v}))
  <2> SUFFICES ASSUME NEW v \in Workers PROVE wcount'[v] = Cardinality(FetchesOf(G, {v}))
    OBVIOUS
  <2>1. wcount[v] = Cardinality(FetchesOf(F, {v})) /\ IsFiniteSet(FetchesOf(F, {v}))
    BY <1>4, <1>7, FetchesFinite DEF Ledger
  <2>2. CASE v = w
    <3>1. FetchesOf(G, {v}) = FetchesOf(F, {v}) \cup {<<w, k>>} /\ <<w, k>> \notin FetchesOf(F, {v})
      BY <1>6, <2>2 DEF FetchesOf
    <3>2. Cardinality(FetchesOf(G, {v})) = Cardinality(FetchesOf(F, {v})) + 1
      BY <2>1, <3>1, FS_AddElement
    <3> QED BY <1>2, <1>3, <2>1, <2>2, <3>2
  <2>3. CASE v # w
    <3>1. FetchesOf(G, {v}) = FetchesOf(F, {v})
      BY <2>3 DEF FetchesOf
    <3> QED BY <1>2, <1>3, <2>1, <2>3, <3>1
  <2> QED BY <2>2, <2>3
<1>11. Outstanding' = Outstanding /\ w \in Outstanding
  BY <1>2 DEF Outstanding
<1>12. ocount' = Cardinality(FetchesOf(G, Workers \ Outstanding'))
  <2>1. FetchesOf(G, Workers \ Outstanding) = FetchesOf(F, Workers \ Outstanding)
    BY <1>11 DEF FetchesOf
  <2> QED BY <1>2, <1>4, <1>11, <2>1 DEF Ledger
<1> HIDE DEF G
<1>13. Ledger(G)'
  BY <1>7, <1>8, <1>9, <1>10, <1>12 DEF Ledger
<1>14. \A v \in Workers : pend'[v] \cap found.ds = {}
  BY <1>1, <1>3 DEF ObjectsCounted
<1> QED BY <1>2, <1>5, <1>7, <1>13, <1>14 DEF ObjectsCounted

(* A result adds what its worker has fetched to what was received. *)
LEMMA ResultCounted ==
    ASSUME Inv, ObjectsCounted, EarlyResult \/ Collect
    PROVE  ObjectsCounted'
<1>1. PICK w \in resch : resch' = resch \ {w} /\ ocount' = ocount + wcount[w]
  BY DEF EarlyResult, Collect
<1>2. UNCHANGED <<found, ds, wpc, pend, wcount>>
  BY DEF EarlyResult, Collect, envVars, workerVars
<1>3. w \in Workers /\ wpc[w] = "exit" /\ w \in Outstanding
  BY <1>1 DEF Inv, TypeOK, Accounting, Outstanding
<1>4. Outstanding' = Outstanding \ {w}
  BY <1>1, <1>2, <1>3 DEF Outstanding
<1>5. PICK F \in SUBSET (Workers \X NewObjects) : Ledger(F)
  BY DEF ObjectsCounted
<1>6. NewObjects' = NewObjects
  BY <1>2 DEF NewObjects
<1>7. ocount' = Cardinality(FetchesOf(F, Workers \ Outstanding'))
  <2>1. FetchesOf(F, Workers \ Outstanding') = FetchesOf(F, Workers \ Outstanding) \cup FetchesOf(F, {w})
    BY <1>3, <1>4 DEF FetchesOf
  <2>2. FetchesOf(F, Workers \ Outstanding) \cap FetchesOf(F, {w}) = {}
    BY <1>3 DEF FetchesOf
  <2>3. /\ IsFiniteSet(FetchesOf(F, Workers \ Outstanding)) /\ IsFiniteSet(FetchesOf(F, {w}))
        /\ Cardinality(FetchesOf(F, Workers \ Outstanding)) \in Nat
        /\ Cardinality(FetchesOf(F, {w})) \in Nat
    BY <1>5, FetchesFinite DEF Ledger
  <2>4. Cardinality(FetchesOf(F, Workers \ Outstanding'))
           = Cardinality(FetchesOf(F, Workers \ Outstanding)) + Cardinality(FetchesOf(F, {w})) - 0
    BY <2>1, <2>2, <2>3, FS_Union, FS_EmptySet
  <2>5. ocount = Cardinality(FetchesOf(F, Workers \ Outstanding)) /\ wcount[w] = Cardinality(FetchesOf(F, {w}))
    BY <1>3, <1>5 DEF Ledger
  <2> QED BY <1>1, <2>3, <2>4, <2>5
<1>8. Ledger(F)'
  BY <1>2, <1>5, <1>6, <1>7 DEF Ledger
<1> QED BY <1>2, <1>6, <1>8 DEF ObjectsCounted

LEMMA NextCounted == Inv /\ Counted /\ [Next]_vars => Counted'
<1> SUFFICES ASSUME Inv, Counted, [Next]_vars PROVE Counted'
  OBVIOUS
<1> USE DEF Counted
<1>1. CASE EarlyResult \/ Collect
  <2>1. UNCHANGED <<found, db, count>>
    BY <1>1 DEF EarlyResult, Collect, envVars
  <2> QED BY <1>1, <2>1, ResultCounted, StmtsUntouched
<1>2. CASE MergeBatch
  <2>1. UNCHANGED <<found, ds, wcount, ocount, pend>> /\ Outstanding' = Outstanding
    BY <1>2 DEF MergeBatch, envVars, workerVars, Outstanding
  <2> QED BY <1>2, <2>1, MergeBatchCounted, LedgerStays
<1>3. CASE \/ Cancel \/ RecvStmt \/ RecvEnd \/ RecvError \/ SendKeys \/ FlushCancelled \/ MergeBatchFails
           \/ CloseWork \/ Finished \/ UNCHANGED vars
  <2>1. UNCHANGED <<found, db, count, ds, wcount, ocount, pend, wpc, resch>>
    BY <1>3 DEF Cancel, RecvStmt, RecvEnd, RecvError, SendKeys, FlushCancelled, MergeBatchFails,
       CloseWork, Finished, vars, envVars, mainVars, workerVars
  <2>2. Outstanding' = Outstanding
    BY <2>1 DEF Outstanding
  <2> QED BY <2>1, <2>2, StmtsUntouched, LedgerStays
<1>4. ASSUME NEW w \in Workers, WorkerStep(w) PROVE Counted'
  <2>1. UNCHANGED <<found, db, count>>
    BY <1>4 DEF WorkerStep, TakeBatch, TakeBatchFails, ReceiveData, ReceiveEnd, FetchFails, WorkClosed,
       PostResult, envVars, mainVars
  <2>2. wpc \in [Workers -> {"wait", "fetch", "post", "exit"}] /\ pend \in [Workers -> SUBSET Keys]
    BY DEF Inv, TypeOK
  <2>3. CASE ReceiveData(w)
    BY <2>1, <2>3, ReceiveDataCounted, StmtsUntouched
  <2>4. CASE ~ReceiveData(w)
    <3>1. UNCHANGED <<found, ds, wcount, ocount>>
      BY <1>4, <2>4 DEF WorkerStep, TakeBatch, TakeBatchFails, ReceiveEnd, FetchFails, WorkClosed,
         PostResult, envVars, mainVars
    <3>2. \A v \in Workers : pend'[v] \cap ds \subseteq pend[v]
      <4>1. CASE TakeBatch(w)
        BY <2>2, <4>1 DEF TakeBatch
      <4>2. CASE TakeBatchFails(w) \/ WorkClosed(w) \/ PostResult(w)
        BY <4>2 DEF TakeBatchFails, WorkClosed, PostResult
      <4>3. CASE ReceiveEnd(w) \/ FetchFails(w)
        BY <2>2, <4>3 DEF ReceiveEnd, FetchFails
      <4> QED BY <1>4, <2>4, <4>1, <4>2, <4>3 DEF WorkerStep
    <3>3. Outstanding' = Outstanding
      <4>1. CASE PostResult(w)
        <5>1. /\ wpc[w] = "post" /\ wpc' = [wpc EXCEPT ![w] = "exit"] /\ resch' = resch \cup {w}
          BY <4>1 DEF PostResult
        <5> QED BY <2>2, <5>1 DEF Outstanding
      <4>2. CASE ~PostResult(w)
        <5>1. /\ resch' = resch /\ wpc[w] # "exit"
              /\ \E x \in {"wait", "fetch", "post"} : wpc' = [wpc EXCEPT ![w] = x]
          BY <1>4, <2>4, <4>2 DEF WorkerStep, TakeBatch, TakeBatchFails, ReceiveEnd, FetchFails, WorkClosed
        <5> QED BY <2>2, <5>1 DEF Outstanding
      <4> QED BY <4>1, <4>2
    <3> QED BY <2>1, <3>1, <3>2, <3>3, StmtsUntouched, LedgerStays
  <2> QED BY <2>3, <2>4
<1> QED BY <1>1, <1>2, <1>3, <1>4 DEF Next, MainStep

LEMMA CountedSuffices == Inv /\ Counted => CountsReported
<1> SUFFICES ASSUME Inv, Counted, pc = "done"
             PROVE  /\ count = Cardinality(NewStmts)
                    /\ ocount >= Cardinality(NewObjects)
                    /\ ocount <= Cardinality(Workers) * Cardinality(NewObjects)
  BY DEF CountsReported, NewStmts, NewObjects
<1>1. count = Cardinality(NewStmts)
  BY DEF Counted, StmtsCounted
<1>2. PICK F \in SUBSET (Workers \X NewObjects) : Ledger(F)
  BY DEF Counted, ObjectsCounted
<1>3. Outstanding = {}
  <2>1. IsFiniteSet(Outstanding)
    BY WorkersAssumption, FS_Subset DEF Outstanding
  <2>2. Cardinality(Outstanding) = 0
    BY DEF Inv, Accounting
  <2> QED BY <2>1, <2>2, FS_EmptySet
<1>4. FetchesOf(F, Workers \ Outstanding) = F
  BY <1>3 DEF FetchesOf
<1>5. ocount = Cardinality(F) /\ IsFiniteSet(F)
  BY <1>2, <1>4 DEF Ledger
<1>6. IsFiniteSet(NewObjects) /\ Cardinality(NewObjects) <= Cardinality(F)
  <2> DEFINE f == [p \in F |-> p[2]]
  <2>1. f \in [F -> NewObjects]
    OBVIOUS
  <2>2. \A k \in NewObjects : \E p \in F : f[p] = k
    BY <1>2 DEF Ledger
  <2>3. f \in Surjection(F, NewObjects)
    BY <2>1, <2>2 DEF Surjection
  <2> QED BY <1>5, <2>3, FS_Surjection
<1>7. Cardinality(F) <= Cardinality(Workers) * Cardinality(NewObjects)
  <2>1. /\ IsFiniteSet(Workers \X NewObjects)
        /\ Cardinality(Workers \X NewObjects) = Cardinality(Workers) * Cardinality(NewObjects)
    BY <1>6, WorkersAssumption, FS_Product
  <2>2. Cardinality(F) <= Cardinality(Workers \X NewObjects)
    BY <2>1, FS_Subset, Zenon
  <2> QED BY <2>1, <2>2
<1>8. Cardinality(F) \in Nat /\ Cardinality(NewObjects) \in Nat
  BY <1>5, <1>6, FS_CardinalityType
<1> QED BY <1>1, <1>5, <1>6, <1>7, <1>8

(* The numbers doMergeStream returns, with or without an error: statements *)
(* are counted exactly; each new object is counted, and at most once for   *)
(* each worker, whichever workers asked for it at the same time.           *)
THEOREM MergeCounts == Spec => []CountsReported
<1>1. Spec => []Counted
  BY InvAlways, InitCounted, NextCounted, PTL DEF Spec
<1> QED BY <1>1, InvAlways, CountedSuffices, PTL

-----------------------------------------------------------------------------
(* The merge seen from outside. Only taking a statement, storing a batch,  *)
(* cancelling and returning show; all other steps stutter.                 *)

LEMMA InitOutside == Init => Outside!Init
<1> SUFFICES ASSUME Init PROVE Outside!Init
  OBVIOUS
<1>1. found.db \in SUBSET Stmts /\ db = found.db
  BY FoundAssumption DEF Init
<1>2. Taken = {} /\ Returned = <<>>
  BY ElementsEmpty DEF Init, Taken, Returned
<1>3. MayEnd \in BOOLEAN
  BY DEF MayEnd
<1> QED BY <1>1, <1>2, <1>3 DEF Outside!Init

(* Merge counts with the same operator. *)
LEMMA SameCardinality == \A S : Outside!Cardinality(S) = Cardinality(S)
BY DEF Outside!Cardinality, Cardinality

LEMMA RecvStmtOutside ==
    ASSUME Inv, RecvStmt
    PROVE  \E s \in Stmts : Outside!Take(s)
<1> DEFINE s == Head(feed)
<1>1. s \in Stmts /\ stmts \in Seq(Stmts)
  BY DEF RecvStmt, Inv, TypeOK
<1>2. pc = "read" /\ pc' # "done" /\ cur = <<>>
  BY DEF RecvStmt, AfterAppend, Inv, Shape
<1>3. Elements(stmts') \cup Elements(cur') = Elements(stmts) \cup {s}
  <2>1. CASE cur' = <<s>> /\ stmts' = stmts
    <3>1. DOMAIN <<s>> = {1} /\ <<s>>[1] = s
      OBVIOUS
    <3>2. Elements(<<s>>) = {s}
      BY <3>1 DEF Elements
    <3> QED BY <2>1, <3>2
  <2>2. CASE cur' = cur /\ stmts' = Append(stmts, s)
    BY <1>1, <1>2, <2>2, ElementsAppend, ElementsEmpty
  <2> QED BY <2>1, <2>2 DEF RecvStmt
<1>4. Taken' = Taken \cup {s} /\ Returned = <<>> /\ Returned' = <<>>
  BY <1>2, <1>3, ElementsEmpty DEF Taken, Returned
<1>5. MayEnd' \in {MayEnd, TRUE}
  BY DEF RecvStmt, MayEnd
<1>6. found' = found /\ db' = db
  BY DEF RecvStmt, envVars
<1> HIDE DEF s
<1> QED BY <1>1, <1>4, <1>5, <1>6 DEF Outside!Take, Outside!Running

LEMMA CancelOutside ==
    ASSUME Inv, Cancel
    PROVE  Outside!Closed
<1>1. UNCHANGED <<found, db, pc, stmts, cur, count, err>> /\ cancelled' = TRUE
  BY DEF Cancel, envVars, mainVars
<1> QED BY <1>1 DEF Outside!Closed, MayEnd, Taken, Returned

LEMMA MergeBatchOutside ==
    ASSUME Inv, MergeBatch
    PROVE  Outside!Store
<1>1. pc # "done" /\ pc' # "done" /\ cur = <<>>
  BY DEF MergeBatch, Merging, Inv, Shape
<1>2. /\ db' = db \cup Elements(stmts) /\ stmts' = <<>>
      /\ UNCHANGED <<found, cur, feed, cancelled>>
  BY DEF MergeBatch, envVars
<1>3. Taken = Elements(stmts) /\ Taken' = {} /\ Returned = <<>> /\ Returned' = <<>>
  BY <1>1, <1>2, ElementsEmpty DEF Taken, Returned
<1>4. MayEnd' = MayEnd
  BY <1>2 DEF MayEnd
<1> QED BY <1>2, <1>3, <1>4 DEF Outside!Store, Outside!Running

(* The step on which doMergeStream returns: without an error it has stored *)
(* what it took and its stream is over.                                    *)
LEMMA ReturnOutside ==
    ASSUME Inv', StmtsCounted', pc # "done", pc' = "done", Taken = {} \/ err',
           ~err' => MayEnd, UNCHANGED <<found, db, feed, cancelled, count>>
    PROVE  Outside!Fail \/ Outside!Finish
<1>1. Taken' = {} /\ Returned = <<>> /\ MayEnd' = MayEnd
  BY DEF Taken, Returned, MayEnd
<1>2. Returned' = <<[count |-> Outside!Cardinality(db' \ found.db), err |-> err']>>
  BY SameCardinality DEF Returned, StmtsCounted, NewStmts
<1>3. CASE err' = TRUE
  BY <1>1, <1>2, <1>3 DEF Outside!Fail, Outside!Running, Outside!Posts
<1>4. CASE err' = FALSE
  <2>1. db' = db \cup Taken
    BY <1>4
  <2> QED BY <1>1, <1>2, <1>4, <2>1 DEF Outside!Finish, Outside!Running, Outside!Posts
<1>5. err' \in BOOLEAN
  BY DEF Inv, TypeOK
<1> QED BY <1>3, <1>4, <1>5

(* Closing workch when no result is outstanding, and the last result. *)
LEMMA EndOutside ==
    ASSUME Inv, Inv', StmtsCounted', CloseWork \/ Collect
    PROVE  [Outside!Next]_(Outside!vars)
<1>1. /\ pc # "done" /\ UNCHANGED <<found, db, feed, cancelled, count, stmts, cur>>
      /\ pc \in {"close", "collect"} /\ (~err' => ~err)
  <2>1. CASE CloseWork
    BY <2>1 DEF CloseWork, envVars
  <2>2. CASE Collect
    BY <2>2 DEF Collect, envVars
  <2> QED BY <2>1, <2>2
<1>2. CASE pc' = "done"
  <2>1. err \/ (stmts = <<>> /\ cur = <<>> /\ MayEnd)
    BY <1>1 DEF Inv, Shape, StreamKept, MayEnd
  <2>2. Taken = {} \/ err'
    BY <1>1, <2>1, ElementsEmpty DEF Taken
  <2>3. ~err' => MayEnd
    BY <1>1, <2>1
  <2> QED BY <1>1, <1>2, <2>2, <2>3, ReturnOutside DEF Outside!Next
<1>3. CASE pc' # "done"
  BY <1>1, <1>3 DEF Outside!vars, Taken, Returned, MayEnd
<1> QED BY <1>2, <1>3

(* Steps between two such moments. *)
LEMMA QuietOutside ==
    ASSUME pc # "done", pc' # "done", UNCHANGED <<found, db, feed, cancelled>>,
           Elements(stmts') \cup Elements(cur') = Elements(stmts) \cup Elements(cur)
    PROVE  UNCHANGED Outside!vars
BY DEF Outside!vars, Taken, Returned, MayEnd

LEMMA SendKeysOutside ==
    ASSUME Inv, SendKeys
    PROVE  UNCHANGED Outside!vars
<1>1. pc # "done" /\ UNCHANGED <<found, db, feed, cancelled>>
  BY DEF SendKeys, Flushing, envVars
<1>2. pc' # "done"
  BY DEF SendKeys, AfterAppend, AfterLoop
<1>3. Elements(stmts') \cup Elements(cur') = Elements(stmts) \cup Elements(cur)
  <2>1. CASE pc = "flush"
    <3>1. PICK s \in Stmts : cur = <<s>>
      BY <2>1 DEF Inv, Shape
    <3>2. DOMAIN cur = {1} /\ cur[1] = s
      BY <3>1
    <3>3. Elements(cur) = {s}
      BY <3>2 DEF Elements
    <3>4. stmts \in Seq(Stmts)
      BY DEF Inv, TypeOK
    <3>5. stmts' = stmts \o <<s>> /\ cur' = <<>>
      BY <2>1, <3>1 DEF SendKeys
    <3>6. stmts' = Append(stmts, s)
      BY <3>4, <3>5, AppendIsConcat
    <3>7. Elements(stmts') = Elements(stmts) \cup {s}
      BY <3>4, <3>6, ElementsAppend
    <3> QED BY <3>3, <3>5, <3>7, ElementsEmpty
  <2>2. CASE pc # "flush"
    BY <2>2 DEF SendKeys
  <2> QED BY <2>1, <2>2
<1> QED BY <1>1, <1>2, <1>3, QuietOutside

LEMMA NextOutside == Inv /\ Inv' /\ StmtsCounted' /\ [Next]_vars => [Outside!Next]_(Outside!vars)
<1> SUFFICES ASSUME Inv, Inv', StmtsCounted', [Next]_vars PROVE [Outside!Next]_(Outside!vars)
  OBVIOUS
<1>1. CASE RecvStmt
  BY <1>1, RecvStmtOutside DEF Outside!Next
<1>2. CASE Cancel
  BY <1>2, CancelOutside DEF Outside!Next
<1>3. CASE MergeBatch
  BY <1>3, MergeBatchOutside DEF Outside!Next
<1>4. CASE CloseWork \/ Collect
  BY <1>4, EndOutside
<1>5. CASE SendKeys
  BY <1>5, SendKeysOutside
<1>6. CASE RecvEnd \/ RecvError \/ EarlyResult \/ FlushCancelled \/ MergeBatchFails
  <2>1. pc # "done" /\ UNCHANGED <<found, db, feed, cancelled, stmts, cur>>
    BY <1>6 DEF RecvEnd, RecvError, EarlyResult, FlushCancelled, MergeBatchFails, Flushing, Merging, envVars
  <2>2. pc' # "done"
    BY <1>6 DEF RecvEnd, RecvError, EarlyResult, FlushCancelled, MergeBatchFails, AfterLoop, AfterGivingUp
  <2> QED BY <2>1, <2>2, QuietOutside
<1>7. CASE UNCHANGED vars \/ Finished \/ \E w \in Workers : WorkerStep(w)
  <2>1. UNCHANGED <<found, db, feed, cancelled, stmts, cur, pc, count, err>>
    BY <1>7 DEF vars, Finished, WorkerStep, TakeBatch, TakeBatchFails, ReceiveData, ReceiveEnd,
       FetchFails, WorkClosed, PostResult, envVars, mainVars
  <2> QED BY <2>1 DEF Outside!vars, Taken, Returned, MayEnd
<1> QED BY <1>1, <1>2, <1>3, <1>4, <1>5, <1>6, <1>7 DEF Next, MainStep

(* doMergeStream with its workers, its two kinds of batches and its queue  *)
(* is a merge as Merge describes it, for any number of workers and any     *)
(* sizes: who runs it has to know no more than that.                       *)
THEOREM StreamImplementsMerge == Spec => ImplementsMerge
<1>1. Spec => []Counted
  BY InvAlways, InitCounted, NextCounted, PTL DEF Spec
<1>2. Counted => StmtsCounted
  BY DEF Counted
<1> QED BY <1>1, <1>2, InvAlways, InitOutside, NextOutside, PTL DEF Spec, ImplementsMerge, Outside!Spec

-----------------------------------------------------------------------------
(* No deadlock. The main goroutine waits for room on workch or for results *)
(* on resch, the workers wait for work or for room on resch. The guards of *)
(* their steps, failures left out: a goroutine that is ready goes on       *)
(* without anything having to break. Reading the stream and an answer of   *)
(* the peer are taken to be ready: they wait for the peer alone.           *)
MainReady ==
    \/ pc \in {"read", "merge", "lastmerge", "close"}
    \/ Flushing /\ (Len(work) < QueueCap \/ resch # {} \/ cancelled)
    \/ pc = "collect" /\ resch # {}

WorkerReady(w) ==
    \/ wpc[w] = "wait" /\ (work # <<>> \/ closed)
    \/ wpc[w] = "fetch"
    \/ wpc[w] = "post" /\ Cardinality(resch) < Cardinality(Workers)

(* The merge has returned, or somebody is ready; and a result never has to *)
(* wait, for resch has room for one of each worker.                        *)
NeverStuck ==
    /\ pc = "done" \/ MainReady \/ \E w \in Workers : WorkerReady(w)
    /\ \A w \in Workers : wpc[w] = "post" => WorkerReady(w)

(* Results are collected only while there are some to come. *)
Collecting == pc = "collect" => workers # 0

LEMMA NextCollecting == Inv /\ Collecting /\ [Next]_vars => Collecting'
<1> SUFFICES ASSUME Inv, Collecting, [Next]_vars PROVE Collecting'
  OBVIOUS
<1>1. CASE CloseWork \/ Collect
  BY <1>1 DEF CloseWork, Collect, AfterResults, Collecting
<1>2. CASE \/ RecvStmt \/ RecvEnd \/ RecvError \/ SendKeys \/ EarlyResult \/ FlushCancelled
           \/ MergeBatch \/ MergeBatchFails
  <2>1. pc' # "collect"
    BY <1>2 DEF RecvStmt, RecvEnd, RecvError, SendKeys, EarlyResult, FlushCancelled, MergeBatch,
       MergeBatchFails, AfterAppend, AfterLoop, AfterGivingUp
  <2> QED BY <2>1 DEF Collecting
<1>3. CASE UNCHANGED vars \/ Cancel \/ Finished \/ \E w \in Workers : WorkerStep(w)
  <2>1. UNCHANGED <<pc, workers>>
    BY <1>3 DEF vars, Cancel, Finished, WorkerStep, TakeBatch, TakeBatchFails, ReceiveData, ReceiveEnd,
       FetchFails, WorkClosed, PostResult, mainVars
  <2> QED BY <2>1 DEF Collecting
<1> QED BY <1>1, <1>2, <1>3 DEF Next, MainStep

(* A worker that still has to post its result has room for it. *)
LEMMA RoomForResults ==
    ASSUME Inv, NEW w \in Workers, wpc[w] # "exit"
    PROVE  Cardinality(resch) < Cardinality(Workers)
<1>1. resch \subseteq Workers \ {w}
  BY DEF Inv, TypeOK, Accounting
<1>2. /\ IsFiniteSet(Workers \ {w}) /\ Cardinality(Workers \ {w}) = Cardinality(Workers) - 1
      /\ Cardinality(Workers) \in Nat
  BY WorkersAssumption, FS_RemoveElement, FS_CardinalityType
<1>3. Cardinality(resch) <= Cardinality(Workers \ {w}) /\ Cardinality(resch) \in Nat
  BY <1>1, <1>2, FS_Subset, FS_CardinalityType
<1> QED BY <1>2, <1>3

LEMMA SomeoneReady == Inv /\ Collecting => NeverStuck
<1> SUFFICES ASSUME Inv, Collecting PROVE NeverStuck
  OBVIOUS
<1>1. \A w \in Workers : wpc[w] = "post" => WorkerReady(w)
  BY RoomForResults DEF WorkerReady
<1>2. ASSUME pc # "done", ~MainReady PROVE \E w \in Workers : WorkerReady(w)
  <2>1. resch = {} /\ (Flushing \/ pc = "collect")
    BY <1>2 DEF MainReady, Flushing, Inv, TypeOK
  <2>2. PICK w \in Workers : wpc[w] # "exit"
    <3>1. CASE Flushing
      <4>1. PICK w \in Workers : TRUE
        BY WorkersAssumption
      <4>2. ~err /\ ~closed
        BY <3>1 DEF Flushing, Inv, Shape
      <4>3. wpc[w] = "exit" => w \notin Outstanding
        BY <2>1 DEF Outstanding
      <4> QED BY <4>2, <4>3 DEF Inv, WorkerState
    <3>2. CASE pc = "collect"
      <4>1. Outstanding # {}
        BY <3>2, FS_EmptySet DEF Collecting, Inv, Accounting
      <4> QED BY <2>1, <4>1 DEF Outstanding
    <3> QED BY <2>1, <3>1, <3>2
  <2>3. work # <<>> \/ closed
    <3>1. CASE Flushing
      <4>1. ~(Len(work) < QueueCap) /\ QueueCap \in Nat \ {0}
        BY <1>2, <3>1, BatchAssumption DEF MainReady
      <4>2. Len(<<>>) = 0
        OBVIOUS
      <4> QED BY <4>1, <4>2
    <3>2. CASE pc = "collect"
      BY <3>2 DEF Inv, Shape
    <3> QED BY <2>1, <3>1, <3>2
  <2>4. wpc[w] \in {"wait", "fetch", "post"}
    BY <2>2 DEF Inv, TypeOK
  <2> QED BY <1>1, <2>3, <2>4 DEF WorkerReady
<1> QED BY <1>1, <1>2 DEF NeverStuck

(* Nobody waits for ever for somebody who waits for him: with any number   *)
(* of workers and any capacity of workch, also when workch is full and     *)
(* every worker has given up, the merge has returned or can go on.         *)
THEOREM MergeNeverStuck == Spec => []NeverStuck
<1>1. Init => Collecting
  BY DEF Init, Collecting
<1> QED BY <1>1, InvAlways, NextCollecting, SomeoneReady, PTL DEF Spec

=============================================================================
