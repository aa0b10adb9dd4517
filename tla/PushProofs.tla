----------------------------- MODULE PushProofs -----------------------------
(* Proofs about module Push: where its values lie, that only statements of *)
(* allowed namespaces get into the receiver's db, that a push without an   *)
(* error is complete, that the number and the error a push reports are     *)
(* true, that its merge is one as Merge describes it, and that its         *)
(* goroutines never wait for each other.                                   *)
EXTENDS Push, FiniteSetTheorems, TLAPS

(* The value a step relies on is there: a program counter says so. *)
Filled ==
    /\ spc = "write" => cur \in Stmts
    /\ spc = "done" => sres \in Results
    /\ rpc = "offer" => held \in Stmts
    /\ rpc = "report" => mres \in Results

TInv == TypeOK /\ Filled

(* The number of statements added is a number. *)
LEMMA AddedCounted == ASSUME NEW S \in SUBSET Stmts PROVE Cardinality(S \ found) \in Int
  <1>1. IsFiniteSet(Stmts)
    BY StmtsAssumption
  <1>2. IsFiniteSet(S \ found)
    BY <1>1, FS_Subset
  <1>3. QED
    BY <1>2, FS_CardinalityType

(* The results of the model are results. *)
LEMMA ResultTyped ==
  /\ [count |-> 0, err |-> FALSE] \in Results
  /\ [count |-> 0, err |-> TRUE] \in Results
  /\ [count |-> -1, err |-> TRUE] \in Results
  /\ \A n \in Int : [count |-> n, err |-> TRUE] \in Results /\ [count |-> n, err |-> FALSE] \in Results
  BY DEF Results

LEMMA InitTyped == Init => TInv
  <1> SUFFICES ASSUME Init PROVE TInv
    OBVIOUS
  <1>1. fwd \in Seq(Stmts \cup {End}) /\ Len(fwd) <= Window
    BY WindowAssumption DEF Init
  <1>2. rdb \subseteq Stmts /\ found \in Found
    BY FoundAssumption DEF Init
  <1>3. cut \in BOOLEAN /\ trouble \in BOOLEAN /\ rerr \in BOOLEAN /\ wclosed \in BOOLEAN
    BY DEF Init
  <1>4. Filled
    BY DEF Init, Filled
  <1>5. QED
    BY <1>1, <1>2, <1>3, <1>4 DEF Init, TInv, TypeOK

(* Steps of the sender keep the values in their places. *)
LEMMA SenderTyped ==
  ASSUME TInv, SenderStep \/ WriteRefused \/ ReadReport PROVE TInv'
  <1> USE StmtsAssumption, WindowAssumption, ResultTyped
      DEF TInv, TypeOK, Filled, sendVars, linkVars, recvVars, mergeVars, Returns, Result
  <1>1. CASE QueryNamespaces
    <2>1. nss' \subseteq Namespaces
      BY <1>1 DEF QueryNamespaces, LimitedTo, NamespacesOf, Namespaces
    <2>2. CASE nss' = {}
      BY <1>1, <2>1, <2>2 DEF QueryNamespaces
    <2>3. CASE nss' # {}
      BY <1>1, <2>1, <2>3 DEF QueryNamespaces
    <2>4. QED
      BY <2>2, <2>3
  <1>2. CASE Connect
    BY <1>2 DEF Connect
  <1>3. CASE ReadReply
    <2>1. CASE reply = "accept"
      BY <1>3, <2>1 DEF ReadReply
    <2>2. CASE reply # "accept"
      BY <1>3, <2>2 DEF ReadReply
    <2>3. QED
      BY <2>1, <2>2
  <1>4. CASE OpenStream
    BY <1>4 DEF OpenStream, LimitedTo
  <1>5. CASE EarlyFailure
    BY <1>5 DEF EarlyFailure
  <1>6. CASE NextStmt
    BY <1>6 DEF NextStmt
  <1>7. CASE StreamEnds
    BY <1>7 DEF StreamEnds
  <1>8. CASE PrematureEnd
    BY <1>8 DEF PrematureEnd
  <1>9. CASE StreamPanics
    BY <1>9 DEF StreamPanics
  <1>10. CASE WriteValue
    BY <1>10 DEF WriteValue
  <1>11. CASE WriteEnd
    BY <1>11 DEF WriteEnd
  <1>12. CASE WriteFails
    BY <1>12 DEF WriteFails
  <1>13. CASE TakeResult
    BY <1>13 DEF TakeResult
  <1>14. CASE WriteRefused
    BY <1>14 DEF WriteRefused
  <1>15. CASE ReadReport
    <2>1. srch' \in Results \cup {None}
      BY <1>15 DEF ReadReport
    <2>2. QED
      BY <1>15, <2>1 DEF ReadReport
  <1>16. QED
    BY <1>1, <1>2, <1>3, <1>4, <1>5, <1>6, <1>7, <1>8, <1>9, <1>10, <1>11, <1>12, <1>13, <1>14,
       <1>15 DEF SenderStep

(* Steps of the receiver and its merge keep the values in their places. *)
LEMMA ReceiverTyped ==
  ASSUME TInv, ReceiverStep \/ MergeStep PROVE TInv'
  <1> USE StmtsAssumption, WindowAssumption, ResultTyped
      DEF TInv, TypeOK, Filled, sendVars, linkVars, recvVars, mergeVars, Result
  <1>1. CASE Accept
    BY <1>1 DEF Accept
  <1>2. CASE Reject
    BY <1>2 DEF Reject
  <1>3. CASE HandshakeFails
    BY <1>3 DEF HandshakeFails
  <1>4. CASE ReadStmt
    <2>1. Head(fwd) \in Stmts /\ Tail(fwd) \in Seq(Stmts \cup {End}) /\ Len(Tail(fwd)) <= Window
      BY <1>4 DEF ReadStmt
    <2>2. CASE NsOf[Head(fwd)] \in filter
      BY <1>4, <2>1, <2>2 DEF ReadStmt
    <2>3. CASE NsOf[Head(fwd)] \notin filter
      BY <1>4, <2>1, <2>3 DEF ReadStmt
    <2>4. QED
      BY <2>2, <2>3
  <1>5. CASE ReadEnd
    BY <1>5 DEF ReadEnd
  <1>6. CASE ReadFails
    BY <1>6 DEF ReadFails
  <1>7. CASE HandOver
    BY <1>7 DEF HandOver
  <1>8. CASE EarlyMergeResult
    BY <1>8 DEF EarlyMergeResult
  <1>9. CASE CloseMerge
    BY <1>9 DEF CloseMerge
  <1>10. CASE MergeResult
    BY <1>10 DEF MergeResult
  <1>11. CASE Report
    <2>1. mres.count \in Int /\ (rerr \/ mres.err) \in BOOLEAN
      BY <1>11 DEF Report, Results
    <2>2. report' \in Results \cup {None}
      BY <1>11, <2>1 DEF Report, Results
    <2>3. QED
      BY <1>11, <2>2 DEF Report
  <1>12. CASE MergeBatch
    BY <1>12 DEF MergeBatch
  <1>13. CASE MergeFails
    <2>1. Cardinality(rdb \ found) \in Int
      BY AddedCounted
    <2>2. rrch' \in Results
      BY <1>13, <2>1 DEF MergeFails
    <2>3. QED
      BY <1>13, <2>2 DEF MergeFails
  <1>14. CASE MergeEnds
    <2>1. rdb' \in SUBSET Stmts
      BY <1>14 DEF MergeEnds
    <2>2. Cardinality(rdb' \ found) \in Int
      BY <2>1, AddedCounted
    <2>3. rrch' \in Results
      BY <1>14, <2>2 DEF MergeEnds
    <2>4. QED
      BY <1>14, <2>1, <2>3 DEF MergeEnds
  <1>15. QED
    BY <1>1, <1>2, <1>3, <1>4, <1>5, <1>6, <1>7, <1>8, <1>9, <1>10, <1>11, <1>12, <1>13, <1>14
       DEF ReceiverStep, MergeStep

(* Steps of others keep the values in their places. *)
LEMMA OthersTyped ==
  ASSUME TInv,
         \/ Break \/ UNCHANGED vars
         \/ \E s \in Stmts : Publish(s) \/ DeleteStatement(s)
         \/ \E R \in SUBSET Rules : SetRules(R)
  PROVE  TInv'
  <1> USE DEF TInv, TypeOK, Filled, sendVars, linkVars, recvVars, mergeVars
  <1>1. CASE Break
    BY <1>1 DEF Break
  <1>2. CASE UNCHANGED vars
    BY <1>2 DEF vars
  <1>3. CASE \E s \in Stmts : Publish(s) \/ DeleteStatement(s)
    BY <1>3 DEF Publish, DeleteStatement
  <1>4. CASE \E R \in SUBSET Rules : SetRules(R)
    BY <1>4 DEF SetRules
  <1>5. QED
    BY <1>1, <1>2, <1>3, <1>4

LEMMA NextTyped == TInv /\ [Next]_vars => TInv'
  BY SenderTyped, ReceiverTyped, OthersTyped DEF Next

(* Values stay where they belong, and a stream never holds more messages   *)
(* than its window: doPush and pushHandler, for any number of statements.  *)
THEOREM Typed == Spec => []TypeOK
  <1>1. Spec => []TInv
    BY InitTyped, NextTyped, PTL DEF Spec
  <1>2. TInv => TypeOK
    BY DEF TInv
  <1>3. QED
    BY <1>1, <1>2, PTL

-----------------------------------------------------------------------------
(* Before the receiver has accepted, its merge does not exist; from then   *)
(* on every statement it holds lies in a namespace that was asked for.     *)
AInv ==
    /\ spc \in {"start", "connect"} => rpc = "idle"
    /\ rpc \in {"idle", "start"} => mpc = "none" /\ pending = {} /\ rdb = found
    /\ filter \subseteq granted
    /\ rpc = "offer" => NsOf[held] \in filter
    /\ \A s \in pending : NsOf[s] \in filter
    /\ \A s \in rdb \ found : NsOf[s] \in granted

LEMMA InitAuthorized == Init => AInv
  BY DEF Init, AInv

(* Each step keeps what the receiver holds within what was asked for. *)
LEMMA NextAuthorized == TInv /\ AInv /\ [Next]_vars => AInv'
  <1> SUFFICES ASSUME TInv, AInv, [Next]_vars PROVE AInv'
    OBVIOUS
  <1> USE DEF TInv, TypeOK, Filled, AInv, sendVars, linkVars, recvVars, mergeVars
  <1>1. CASE SenderStep \/ WriteRefused \/ ReadReport
    <2>1. UNCHANGED <<mpc, pending, rdb, found, filter, granted, held>>
      BY <1>1 DEF SenderStep, QueryNamespaces, Connect, ReadReply, OpenStream, EarlyFailure, NextStmt,
         StreamEnds, PrematureEnd, StreamPanics, WriteValue, WriteEnd, WriteFails, TakeResult,
         WriteRefused, ReadReport
    <2>2. \/ spc' \notin {"start", "connect"} \/ rpc' = "idle"
      BY <1>1 DEF SenderStep, QueryNamespaces, Connect, ReadReply, OpenStream, EarlyFailure, NextStmt,
         StreamEnds, PrematureEnd, StreamPanics, WriteValue, WriteEnd, WriteFails, TakeResult,
         WriteRefused, ReadReport, Returns
    <2>3. rpc' = rpc \/ (rpc = "idle" /\ rpc' = "start")
      BY <1>1 DEF SenderStep, QueryNamespaces, Connect, ReadReply, OpenStream, EarlyFailure, NextStmt,
         StreamEnds, PrematureEnd, StreamPanics, WriteValue, WriteEnd, WriteFails, TakeResult,
         WriteRefused, ReadReport
    <2>4. QED
      BY <2>1, <2>2, <2>3
  <1>2. CASE Accept
    <2>1. nss \subseteq {ns \in Namespaces : AuthorizeAllow(rules, ns)}
      BY <1>2 DEF Accept, Authorize
    <2>2. QED
      BY <1>2, <2>1 DEF Accept
  <1>3. CASE Reject \/ HandshakeFails
    BY <1>3 DEF Reject, HandshakeFails
  <1>4. CASE ReadStmt
    BY <1>4 DEF ReadStmt
  <1>5. CASE ReadEnd \/ ReadFails \/ CloseMerge \/ Report
    BY <1>5 DEF ReadEnd, ReadFails, CloseMerge, Report
  <1>6. CASE HandOver
    BY <1>6 DEF HandOver
  <1>7. CASE EarlyMergeResult \/ MergeResult
    BY <1>7 DEF EarlyMergeResult, MergeResult
  <1>8. CASE MergeStep
    BY <1>8 DEF MergeStep, MergeBatch, MergeFails, MergeEnds
  <1>9. CASE Break \/ UNCHANGED vars
    BY <1>9 DEF Break, vars
  <1>10. CASE \/ \E s \in Stmts : Publish(s) \/ DeleteStatement(s)
              \/ \E R \in SUBSET Rules : SetRules(R)
    BY <1>10 DEF Publish, DeleteStatement, SetRules
  <1>11. QED
    BY <1>1, <1>2, <1>3, <1>4, <1>5, <1>6, <1>7, <1>8, <1>9, <1>10 DEF Next, ReceiverStep

(* However the sender's db and the receiver's rules change during a push,  *)
(* pushHandler adds only statements of namespaces that authorize allowed.  *)
THEOREM Authorized == Spec => []OnlyAuthorized
  <1>1. Spec => []TInv
    BY InitTyped, NextTyped, PTL DEF Spec
  <1>2. Spec => []AInv
    BY <1>1, InitAuthorized, NextAuthorized, PTL DEF Spec
  <1>3. AInv => OnlyAuthorized
    BY DEF AInv, OnlyAuthorized, NamespacesOf
  <1>4. QED
    BY <1>2, <1>3, PTL

-----------------------------------------------------------------------------
(* The receiver has met an error, its own or the merge's. *)
Failed ==
    \/ rerr = TRUE
    \/ rrch # None /\ rrch.err = TRUE
    \/ mres # None /\ mres.err = TRUE

(* The end of the statements is written, and nothing is left before it. *)
AllSent == spc \in {"wait", "done"} /\ cur = None /\ (cut = TRUE \/ rows = {})

OnItsWay(s) == \E i \in 1..Len(fwd) : fwd[i] = s

(* What the place of the sender says. *)
SenderShape ==
    /\ spc \in {"start", "connect", "await", "open"} => snap = {}
    /\ spc \notin {"write", "done", "crashed"} => cur = None
    /\ spc = "end" => cut = TRUE \/ rows = {}

(* What the places of the receiver and of its merge say: one result is     *)
(* posted, and it is an error unless the merge was told to end.            *)
MergeShape ==
    /\ rrch # None => mpc = "end"
    /\ mres # None => mpc = "end" /\ rrch = None
    /\ mpc # "run" => pending = {}
    /\ wclosed = TRUE => rpc \in {"collect", "report", "done"}
    /\ rrch # None => rrch.err = TRUE \/ wclosed = TRUE

(* The end of the statements is the last message, and a receiver that      *)
(* stopped reading without an error has read it.                           *)
EndShape ==
    /\ \A i \in 1..Len(fwd) : fwd[i] = End => i = Len(fwd) /\ AllSent
    /\ rpc \in {"close", "collect", "report", "done"} /\ mpc # "none" => Failed \/ (fwd = <<>> /\ AllSent)

(* No statement of the stream is lost: it is with the sender, on its way,  *)
(* with the receiver or in its db, or there is an error.                   *)
Conserved ==
    \A s \in snap :
        \/ s \in rows \/ s = cur
        \/ OnItsWay(s)
        \/ rpc = "offer" /\ s = held
        \/ s \in pending \/ s \in rdb
        \/ Failed

(* A result without an error means that all statements have arrived. *)
Arrived == spc \in {"wait", "done"} /\ (cut = TRUE \/ snap \subseteq rdb)
Truthful ==
    /\ report # None => report.err = TRUE \/ Arrived
    /\ srch # None => srch.err = TRUE \/ Arrived
    /\ spc = "done" => sres.err = TRUE \/ cut = TRUE \/ snap \subseteq rdb

CInv == SenderShape /\ MergeShape /\ EndShape /\ Conserved /\ Truthful

LEMMA InitComplete == Init => CInv
  <1> SUFFICES ASSUME Init PROVE CInv
    OBVIOUS
  <1>1. SenderShape /\ MergeShape /\ Truthful
    BY DEF Init, SenderShape, MergeShape, Truthful
  <1>2. EndShape /\ Conserved
    BY DEF Init, EndShape, Conserved
  <1>3. QED
    BY <1>1, <1>2 DEF CInv

(* A sender's step that writes nothing loses nothing. *)
LEMMA SenderQuietComplete ==
  ASSUME TInv, AInv, CInv,
         \/ QueryNamespaces \/ Connect \/ ReadReply \/ OpenStream \/ EarlyFailure \/ NextStmt
         \/ StreamEnds \/ PrematureEnd \/ StreamPanics \/ WriteFails \/ TakeResult \/ WriteRefused
         \/ ReadReport
  PROVE  CInv'
  <1> USE StmtsAssumption
      DEF TInv, TypeOK, CInv, SenderShape, MergeShape, EndShape, Conserved, Truthful, Failed, AllSent,
          OnItsWay, Arrived, sendVars, linkVars, recvVars, mergeVars, Returns, Result
  <1>1. CASE QueryNamespaces
    BY <1>1 DEF QueryNamespaces
  <1>2. CASE Connect
    BY <1>2 DEF Connect, AInv
  <1>3. CASE ReadReply
    BY <1>3 DEF ReadReply
  <1>4. CASE OpenStream
    BY <1>4 DEF OpenStream, LimitedTo
  <1>5. CASE EarlyFailure
    BY <1>5 DEF EarlyFailure
  <1>6. CASE NextStmt
    BY <1>6 DEF NextStmt
  <1>7. CASE StreamEnds
    BY <1>7 DEF StreamEnds
  <1>8. CASE PrematureEnd
    BY <1>8 DEF PrematureEnd
  <1>9. CASE StreamPanics
    BY <1>9 DEF StreamPanics
  <1>10. CASE WriteFails
    BY <1>10 DEF WriteFails
  <1>11. CASE TakeResult
    BY <1>11 DEF TakeResult
  <1>12. CASE WriteRefused
    BY <1>12 DEF WriteRefused
  <1>13. CASE ReadReport
    BY <1>13 DEF ReadReport
  <1>14. QED
    BY <1>1, <1>2, <1>3, <1>4, <1>5, <1>6, <1>7, <1>8, <1>9, <1>10, <1>11, <1>12, <1>13

(* A receiver's step that reads no message, and a step of its merge, lose  *)
(* nothing.                                                                *)
LEMMA ReceiverQuietComplete ==
  ASSUME TInv, AInv, CInv,
         \/ Accept \/ Reject \/ HandshakeFails \/ ReadFails \/ HandOver \/ EarlyMergeResult
         \/ CloseMerge \/ MergeResult \/ Report \/ MergeStep
  PROVE  CInv'
  <1> USE StmtsAssumption
      DEF TInv, TypeOK, CInv, SenderShape, MergeShape, EndShape, Conserved, Truthful, Failed, AllSent,
          OnItsWay, Arrived, sendVars, linkVars, recvVars, mergeVars, Result
  <1>1. CASE Accept
    BY <1>1 DEF Accept, AInv
  <1>2. CASE Reject
    BY <1>2 DEF Reject, AInv
  <1>3. CASE HandshakeFails
    BY <1>3 DEF HandshakeFails, AInv
  <1>4. CASE ReadFails
    BY <1>4 DEF ReadFails
  <1>5. CASE HandOver
    BY <1>5 DEF HandOver
  <1>6. CASE EarlyMergeResult
    BY <1>6 DEF EarlyMergeResult
  <1>7. CASE CloseMerge
    BY <1>7 DEF CloseMerge
  <1>8. CASE MergeResult
    BY <1>8 DEF MergeResult
  <1>9. CASE Report
    <2>1. mres # None /\ mres \in Results
      BY <1>9 DEF Report, Filled
    <2>2. CASE Failed
      <3>1. report' # None => report'.err = TRUE
        BY <1>9, <2>1, <2>2 DEF Report, Results
      <3>2. QED
        BY <1>9, <3>1 DEF Report
    <2>3. CASE ~Failed
      <3>1. Arrived
        BY <1>9, <2>1, <2>3 DEF Report
      <3>2. QED
        BY <1>9, <3>1 DEF Report
    <2>4. QED
      BY <2>2, <2>3
  <1>10. CASE MergeBatch
    BY <1>10 DEF MergeBatch
  <1>11. CASE MergeFails
    <2>1. rrch' # None /\ rrch'.err = TRUE
      BY <1>11, AddedCounted, ResultTyped DEF MergeFails
    <2>2. QED
      BY <1>11, <2>1 DEF MergeFails
  <1>12. CASE MergeEnds
    BY <1>12 DEF MergeEnds
  <1>13. QED
    BY <1>1, <1>2, <1>3, <1>4, <1>5, <1>6, <1>7, <1>8, <1>9, <1>10, <1>11, <1>12 DEF MergeStep

(* A statement that is written is on its way; nothing is overtaken. *)
LEMMA WriteComplete == ASSUME TInv, CInv, WriteValue \/ WriteEnd PROVE CInv'
  <1> USE DEF TInv, TypeOK, CInv, sendVars, linkVars, recvVars, mergeVars
  <1>1. fwd \in Seq(Stmts \cup {End}) /\ Len(fwd) \in Nat
    OBVIOUS
  <1>2. \A i \in 1..Len(fwd) : fwd[i] # End
    BY DEF WriteValue, WriteEnd, EndShape, AllSent
  <1>3. PICK m \in Stmts \cup {End} : /\ fwd' = Append(fwd, m)
                                      /\ WriteValue => m = cur
                                      /\ WriteEnd => m = End
    BY DEF WriteValue, WriteEnd, Filled
  <1>4. /\ Len(fwd') = Len(fwd) + 1 /\ fwd'[Len(fwd) + 1] = m
        /\ \A i \in 1..Len(fwd) : fwd'[i] = fwd[i]
    BY <1>1, <1>3
  <1>5. UNCHANGED <<snap, rows, rpc, held, pending, rdb, rerr, rrch, mres, mpc, cut, report, srch, sres>>
    BY DEF WriteValue, WriteEnd
  <1>6. \A s : OnItsWay(s) => OnItsWay(s)'
    BY <1>1, <1>4 DEF OnItsWay
  <1>7. OnItsWay(m)'
    BY <1>1, <1>4 DEF OnItsWay
  <1>8. SenderShape' /\ MergeShape'
    BY <1>5 DEF WriteValue, WriteEnd, SenderShape, MergeShape
  <1>9. Failed' <=> Failed
    BY <1>5 DEF Failed
  <1>10. EndShape'
    <2>1. rpc \in {"close", "collect", "report", "done"} /\ mpc # "none" => Failed
      BY DEF EndShape, AllSent, WriteValue, WriteEnd
    <2>2. ASSUME NEW i \in 1..Len(fwd'), fwd'[i] = End PROVE i = Len(fwd') /\ AllSent'
      <3>1. i = Len(fwd) + 1 /\ m = End
        BY <1>1, <1>2, <1>4, <2>2
      <3>2. WriteEnd
        BY <1>3, <3>1, StmtsAssumption DEF WriteValue, Filled
      <3>3. QED
        BY <1>4, <1>5, <3>1, <3>2 DEF WriteEnd, AllSent, SenderShape
    <2>3. QED
      BY <1>5, <1>9, <2>1, <2>2 DEF EndShape
  <1>11. Conserved'
    <2>1. ASSUME NEW s \in snap PROVE s = cur => OnItsWay(s)' \/ s = cur'
      BY <1>3, <1>7 DEF WriteValue, WriteEnd
    <2>2. QED
      BY <1>5, <1>6, <1>9, <2>1 DEF Conserved
  <1>12. Truthful'
    BY <1>5 DEF WriteValue, WriteEnd, Truthful, Arrived
  <1>13. QED
    BY <1>8, <1>10, <1>11, <1>12

(* A statement that is read is handed over or ends the push with an error; *)
(* the end is read after all statements.                                   *)
LEMMA ReadComplete == ASSUME TInv, CInv, ReadStmt \/ ReadEnd PROVE CInv'
  <1> USE DEF TInv, TypeOK, CInv, sendVars, linkVars, recvVars, mergeVars
  <1>1. fwd \in Seq(Stmts \cup {End}) /\ fwd # <<>> /\ fwd' = Tail(fwd) /\ Head(fwd) = fwd[1]
    BY DEF ReadStmt, ReadEnd
  <1>2. /\ Len(fwd) \in Nat \ {0} /\ Len(fwd') = Len(fwd) - 1
        /\ \A i \in 1..Len(fwd') : fwd'[i] = fwd[i + 1]
    BY <1>1
  <1>3. UNCHANGED <<spc, snap, rows, cur, pending, rdb, rrch, mres, mpc, cut, report, srch, sres, wclosed>>
    BY DEF ReadStmt, ReadEnd
  <1>4. \A s : OnItsWay(s) => s = Head(fwd) \/ OnItsWay(s)'
    <2>1. ASSUME NEW s, NEW i \in 1..Len(fwd), fwd[i] = s, s # Head(fwd) PROVE OnItsWay(s)'
      <3>1. i # 1 /\ i - 1 \in 1..Len(fwd') /\ (i - 1) + 1 = i
        BY <1>1, <1>2, <2>1
      <3>2. QED
        BY <1>2, <2>1, <3>1 DEF OnItsWay
    <2>2. QED
      BY <2>1 DEF OnItsWay
  <1>5. SenderShape' /\ MergeShape' /\ Truthful'
    BY <1>3 DEF ReadStmt, ReadEnd, SenderShape, MergeShape, Truthful, Arrived
  <1>6. Failed => Failed'
    BY <1>3 DEF Failed, ReadStmt, ReadEnd
  <1>7. EndShape'
    <2>1. \A i \in 1..Len(fwd') : fwd'[i] = End => i = Len(fwd') /\ AllSent'
      BY <1>2, <1>3 DEF EndShape, AllSent
    <2>2. CASE ReadStmt
      BY <1>3, <2>1, <2>2 DEF ReadStmt, EndShape, Failed
    <2>3. CASE ReadEnd
      <3>0. fwd[1] = End /\ 1 \in 1..Len(fwd)
        BY <1>1, <1>2, <2>3 DEF ReadEnd
      <3>1. Len(fwd) = 1 /\ AllSent
        BY <3>0 DEF EndShape
      <3>2. fwd' = <<>>
        BY <1>1, <1>2, <3>1
      <3>3. QED
        BY <1>3, <2>1, <3>1, <3>2 DEF EndShape, AllSent
    <2>4. QED
      BY <2>2, <2>3
  <1>8. Conserved'
    <2>1. CASE ReadStmt
      BY <1>3, <1>4, <1>6, <2>1 DEF ReadStmt, Conserved, Failed
    <2>2. CASE ReadEnd
      BY <1>3, <1>4, <1>6, <2>2, StmtsAssumption DEF ReadEnd, Conserved
    <2>3. QED
      BY <2>1, <2>2
  <1>9. QED
    BY <1>5, <1>7, <1>8

(* Steps of others lose nothing. *)
LEMMA OthersComplete ==
  ASSUME CInv,
         \/ Break \/ UNCHANGED vars
         \/ \E s \in Stmts : Publish(s) \/ DeleteStatement(s)
         \/ \E R \in SUBSET Rules : SetRules(R)
  PROVE  CInv'
  BY DEF CInv, SenderShape, MergeShape, EndShape, Conserved, Truthful, Failed, AllSent, OnItsWay,
         Arrived, sendVars, linkVars, recvVars, mergeVars, vars, Break, Publish, DeleteStatement,
         SetRules

LEMMA NextComplete == TInv /\ AInv /\ CInv /\ [Next]_vars => CInv'
  BY SenderQuietComplete, ReceiverQuietComplete, WriteComplete, ReadComplete, OthersComplete
     DEF Next, SenderStep, ReceiverStep

(* The three invariants so far, each of which needs the ones before it. *)
LEMMA BaseAlways == Spec => []TInv /\ []AInv /\ []CInv
  <1>1. Spec => []TInv
    BY InitTyped, NextTyped, PTL DEF Spec
  <1>2. Spec => []AInv
    BY <1>1, InitAuthorized, NextAuthorized, PTL DEF Spec
  <1>3. Spec => []CInv
    BY <1>1, <1>2, InitComplete, NextComplete, PTL DEF Spec
  <1>4. QED
    BY <1>1, <1>2, <1>3, PTL

(* A push that doPush reports without an error has put every statement of  *)
(* its stream into the receiver's db, unless the stream itself was cut     *)
(* short, whatever fails and in whatever order the two ends run.           *)
THEOREM Complete == Spec => []PushIsComplete
  <1>1. TInv /\ CInv => PushIsComplete
    BY DEF TInv, Filled, Results, CInv, Truthful, PushIsComplete
  <1>2. QED
    BY <1>1, BaseAlways, PTL

-----------------------------------------------------------------------------
(* The number that is reported. A result posted by the merge, on its way   *)
(* from hand to hand, holds the number of statements added, which no       *)
(* longer changes; and a push that fails before its stream is opened has   *)
(* brought nothing to the receiver.                                        *)
NothingSent == fwd = <<>> /\ rpc # "offer" /\ pending = {} /\ rdb = found

Told(r) == r # None /\ r.count >= 0 => mpc = "end" /\ r.count = Cardinality(rdb \ found)

NInv ==
    /\ spc \in {"start", "connect", "await", "open"} => NothingSent
    /\ Told(rrch) /\ Told(mres) /\ Told(report) /\ Told(srch)
    /\ spc = "done" => Told(sres) \/ (NothingSent /\ sres.count = 0)

LEMMA InitTold == Init => NInv
  BY DEF Init, NInv, NothingSent, Told

LEMMA ResultFields ==
  ASSUME NEW n \in Int, NEW e \in BOOLEAN
  PROVE  Result(n, e).count = n /\ Result(n, e).err = e /\ Result(n, e) \in Results
  BY DEF Result, Results

(* A sender's step changes none of what a result is about. *)
LEMMA SenderTold ==
  ASSUME TInv, AInv, CInv, NInv, SenderStep \/ WriteRefused \/ ReadReport PROVE NInv'
  <1>1. UNCHANGED <<mpc, rdb, found, rrch, mres, report, pending>>
    BY DEF SenderStep, QueryNamespaces, Connect, ReadReply, OpenStream, EarlyFailure, NextStmt,
       StreamEnds, PrematureEnd, StreamPanics, WriteValue, WriteEnd, WriteFails, TakeResult,
       WriteRefused, ReadReport, sendVars, linkVars, recvVars, mergeVars
  <1>2. \A r : Told(r)' <=> Told(r)
    BY <1>1 DEF Told
  <1>3. Told(rrch)' /\ Told(mres)' /\ Told(report)'
    BY <1>1, <1>2 DEF NInv
  <1>4. /\ Result(0, TRUE).count = 0 /\ Result(0, FALSE).count = 0
        /\ ~(Result(-1, TRUE).count >= 0)
    BY DEF Result
  <1>4a. Told(Result(-1, TRUE))'
    BY <1>4 DEF Told
  <1> USE DEF NInv, NothingSent, Returns, sendVars, linkVars, recvVars, mergeVars
  <1>5. CASE QueryNamespaces
    BY <1>1, <1>2, <1>3, <1>4, <1>5 DEF QueryNamespaces
  <1>6. CASE Connect
    BY <1>1, <1>2, <1>3, <1>6 DEF Connect
  <1>7. CASE ReadReply
    BY <1>1, <1>2, <1>3, <1>4, <1>7 DEF ReadReply
  <1>8. CASE OpenStream \/ NextStmt \/ StreamEnds \/ StreamPanics \/ WriteValue \/ WriteEnd
    BY <1>1, <1>2, <1>3, <1>8 DEF OpenStream, NextStmt, StreamEnds, StreamPanics, WriteValue, WriteEnd
  <1>9. CASE EarlyFailure
    BY <1>1, <1>2, <1>3, <1>4, <1>9 DEF EarlyFailure
  <1>10. CASE PrematureEnd \/ TakeResult
    BY <1>1, <1>2, <1>3, <1>10 DEF PrematureEnd, TakeResult
  <1>11. CASE WriteFails \/ WriteRefused
    <2>1. Told(sres)'
      BY <1>4a, <1>11 DEF WriteFails, WriteRefused
    <2>2. QED
      BY <1>1, <1>2, <1>3, <1>11, <2>1 DEF WriteFails, WriteRefused
  <1>12. CASE ReadReport
    <2>1. Told(srch)'
      <3>1. CASE srch' = report
        BY <1>2, <3>1
      <3>2. CASE srch' = Result(-1, TRUE)
        BY <1>4a, <3>2
      <3>3. QED
        BY <1>12, <3>1, <3>2 DEF ReadReport
    <2>2. QED
      BY <1>1, <1>2, <1>3, <1>12, <2>1 DEF ReadReport
  <1>13. QED
    BY <1>5, <1>6, <1>7, <1>8, <1>9, <1>10, <1>11, <1>12 DEF SenderStep

(* A result is posted when the merge has ended, and nothing is added to    *)
(* the receiver's db after that.                                           *)
LEMMA ReceiverTold ==
  ASSUME TInv, AInv, CInv, NInv, ReceiverStep \/ MergeStep PROVE NInv'
  <1> USE DEF NInv, NothingSent, sendVars, linkVars, recvVars, mergeVars
  <1>1. UNCHANGED <<spc, srch, sres, found>>
    BY DEF ReceiverStep, Accept, Reject, HandshakeFails, ReadStmt, ReadEnd, ReadFails, HandOver,
       EarlyMergeResult, CloseMerge, MergeResult, Report, MergeStep, MergeBatch, MergeFails, MergeEnds
  <1>2. CASE Accept
    <2>1. mpc # "end" /\ mpc' = "run" /\ rdb' = rdb
      BY <1>2 DEF Accept, AInv
    <2>2. \A r : Told(r) => Told(r)'
      BY <1>1, <2>1 DEF Told
    <2>3. QED
      BY <1>1, <1>2, <2>2 DEF Accept
  <1>3. CASE Reject \/ HandshakeFails \/ ReadStmt \/ ReadEnd \/ ReadFails \/ HandOver \/ CloseMerge
    <2>1. UNCHANGED <<mpc, rdb, rrch, mres, report>>
      BY <1>3 DEF Reject, HandshakeFails, ReadStmt, ReadEnd, ReadFails, HandOver, CloseMerge
    <2>2. \A r : Told(r)' <=> Told(r)
      BY <1>1, <2>1 DEF Told
    <2>3. NothingSent => NothingSent'
      BY <1>1, <1>3 DEF Reject, HandshakeFails, ReadStmt, ReadEnd, ReadFails, HandOver, CloseMerge
    <2>4. QED
      BY <1>1, <2>1, <2>2, <2>3
  <1>4. CASE EarlyMergeResult \/ MergeResult
    <2>1. UNCHANGED <<mpc, rdb, report>> /\ mres' = rrch /\ rrch' = None
      BY <1>4 DEF EarlyMergeResult, MergeResult
    <2>2. \A r : Told(r)' <=> Told(r)
      BY <1>1, <2>1 DEF Told
    <2>3. NothingSent => NothingSent'
      BY <1>1, <1>4 DEF EarlyMergeResult, MergeResult
    <2>4. Told(None)
      BY DEF Told
    <2>5. QED
      BY <1>1, <2>1, <2>2, <2>3, <2>4
  <1>5. CASE Report
    <2>1. UNCHANGED <<mpc, rdb, rrch, mres>>
      BY <1>5 DEF Report
    <2>2. \A r : Told(r)' <=> Told(r)
      BY <1>1, <2>1 DEF Told
    <2>3. mres # None /\ mres \in Results
      BY <1>5, StmtsAssumption DEF Report, TInv, Filled
    <2>4. Told(report)'
      <3>1. report' = None \/ report'.count = mres.count
        BY <1>5, <2>3, ResultFields DEF Report, Result
      <3>2. QED
        BY <1>1, <2>1, <2>3, <3>1 DEF Told
    <2>5. NothingSent => NothingSent'
      BY <1>1, <1>5 DEF Report
    <2>6. QED
      BY <1>1, <2>1, <2>2, <2>4, <2>5
  <1>6. CASE MergeBatch
    <2>1. mpc = "run" /\ mpc' = "run" /\ ~NothingSent
      BY <1>6 DEF MergeBatch
    <2>2. \A r : Told(r) => Told(r)'
      BY <2>1 DEF Told
    <2>3. QED
      BY <1>1, <1>6, <2>1, <2>2 DEF MergeBatch
  <1>7. CASE MergeFails \/ MergeEnds
    <2>1. /\ mpc = "run" /\ mpc' = "end" /\ pending' = {}
          /\ UNCHANGED <<fwd, rpc, mres, report>>
          /\ NothingSent => rdb' = rdb
      BY <1>7 DEF MergeFails, MergeEnds
    <2>2. \A r : Told(r) => r = None \/ ~(r.count >= 0)
      BY <2>1 DEF Told
    <2>3. \A r : Told(r) => Told(r)'
      BY <2>2 DEF Told
    <2>4. rdb' \in SUBSET Stmts
      BY <1>7 DEF MergeFails, MergeEnds, TInv, TypeOK
    <2>5. Cardinality(rdb' \ found) \in Int
      BY <2>4, AddedCounted
    <2>6. rrch'.count = Cardinality(rdb' \ found)
      BY <1>7, <2>5, ResultFields DEF MergeFails, MergeEnds
    <2>7. Told(rrch)'
      BY <1>1, <2>1, <2>6 DEF Told
    <2>8. NothingSent => NothingSent'
      BY <1>1, <2>1
    <2>9. QED
      BY <1>1, <2>1, <2>3, <2>7, <2>8
  <1>8. QED
    BY <1>2, <1>3, <1>4, <1>5, <1>6, <1>7 DEF ReceiverStep, MergeStep

LEMMA OthersTold ==
  ASSUME NInv,
         \/ Break \/ UNCHANGED vars
         \/ \E s \in Stmts : Publish(s) \/ DeleteStatement(s)
         \/ \E R \in SUBSET Rules : SetRules(R)
  PROVE  NInv'
  <1>1. UNCHANGED <<spc, srch, sres, fwd, report, rpc, mres, mpc, pending, found, rdb, rrch>>
    BY DEF sendVars, linkVars, recvVars, mergeVars, vars, Break, Publish, DeleteStatement, SetRules
  <1>2. \A r : Told(r)' <=> Told(r)
    BY <1>1 DEF Told
  <1>3. QED
    BY <1>1, <1>2 DEF NInv, NothingSent

LEMMA NextTold == TInv /\ AInv /\ CInv /\ NInv /\ [Next]_vars => NInv'
  BY SenderTold, ReceiverTold, OthersTold DEF Next

LEMMA ToldSuffices == TInv /\ NInv => CountTold
  <1> SUFFICES ASSUME TInv, NInv, spc = "done", sres.count >= 0
               PROVE  sres.count = Cardinality(rdb \ found)
    BY DEF CountTold
  <1>1. sres # None
    BY StmtsAssumption DEF TInv, Filled
  <1>2. CASE Told(sres)
    BY <1>1, <1>2 DEF Told
  <1>3. CASE NothingSent /\ sres.count = 0
    <2>1. rdb \ found = {}
      BY <1>3 DEF NothingSent
    <2>2. QED
      BY <1>3, <2>1, FS_EmptySet
  <1>4. QED
    BY <1>2, <1>3 DEF NInv

-----------------------------------------------------------------------------
(* The error that is reported. *)
Cause == trouble = TRUE \/ reply = "reject" \/ ~(NamespacesOf(snap) \subseteq nss)

(* What is said about the receiver's errors comes from its messages: they  *)
(* are statements of the sender's stream, and the namespaces asked for are *)
(* the ones it filters by.                                                 *)
Asked ==
    /\ rpc \in {"idle", "start"} => reply = None
    /\ rpc \in {"read", "offer", "close", "collect", "report"} => mpc # "none"
    /\ mpc # "none" => filter = nss
    /\ rows \subseteq snap /\ cur \in snap \cup {None}
    /\ \A i \in 1..Len(fwd) : fwd[i] \in snap \cup {End}

Blamed(r) == r # None /\ r.err = TRUE => Cause

(* Every error has a cause, and a sender that is gone without one was told *)
(* so by the receiver, which is gone as well.                              *)
Caused ==
    /\ link = "down" => trouble = TRUE
    /\ spc = "crashed" => trouble = TRUE
    /\ rpc = "done" /\ mpc = "none" => Cause
    /\ rerr = TRUE => Cause
    /\ Blamed(rrch) /\ Blamed(mres) /\ Blamed(report) /\ Blamed(srch)
    /\ report # None => rpc = "done"
    /\ srch # None => srch.err = TRUE \/ rpc = "done"
    /\ spc = "done" => Blamed(sres) /\ (sres.err = TRUE \/ rpc \in {"idle", "done"})

EInv == Asked /\ Caused

LEMMA InitCaused == Init => EInv
  <1> SUFFICES ASSUME Init PROVE EInv
    OBVIOUS
  <1>1. Asked
    BY DEF Init, Asked
  <1>2. Caused
    BY DEF Init, Caused, Blamed
  <1>3. QED
    BY <1>1, <1>2 DEF EInv

(* A cause stays: the request is answered once, and the stream opened once. *)
LEMMA CauseStays == ASSUME TInv, AInv, CInv, EInv, [Next]_vars PROVE Cause => Cause'
  <1> USE DEF TInv, TypeOK, sendVars, linkVars, recvVars, mergeVars
  <1>1. trouble = TRUE => trouble' = TRUE
    BY DEF vars, Next, SenderStep, QueryNamespaces, Connect, ReadReply, OpenStream, EarlyFailure,
       NextStmt, StreamEnds, PrematureEnd, StreamPanics, WriteValue, WriteEnd, WriteFails, TakeResult,
       WriteRefused, ReadReport, ReceiverStep, Accept, Reject, HandshakeFails, ReadStmt, ReadEnd,
       ReadFails, HandOver, EarlyMergeResult, CloseMerge, MergeResult, Report, MergeStep, MergeBatch,
       MergeFails, MergeEnds, Break, Publish, DeleteStatement, SetRules
  <1>2. reply = "reject" => reply' = "reject"
    BY NoneAssumption
       DEF EInv, Asked, vars, Next, SenderStep, QueryNamespaces, Connect, ReadReply, OpenStream,
       EarlyFailure, NextStmt, StreamEnds, PrematureEnd, StreamPanics, WriteValue, WriteEnd,
       WriteFails, TakeResult, WriteRefused, ReadReport, ReceiverStep, Accept, Reject, HandshakeFails,
       ReadStmt, ReadEnd, ReadFails, HandOver, EarlyMergeResult, CloseMerge, MergeResult, Report,
       MergeStep, MergeBatch, MergeFails, MergeEnds, Break, Publish, DeleteStatement, SetRules
  <1>3. UNCHANGED <<snap, nss>> \/ spc \in {"start", "open"}
    BY DEF vars, Next, SenderStep, QueryNamespaces, Connect, ReadReply, OpenStream, EarlyFailure,
       NextStmt, StreamEnds, PrematureEnd, StreamPanics, WriteValue, WriteEnd, WriteFails, TakeResult,
       WriteRefused, ReadReport, ReceiverStep, Accept, Reject, HandshakeFails, ReadStmt, ReadEnd,
       ReadFails, HandOver, EarlyMergeResult, CloseMerge, MergeResult, Report, MergeStep, MergeBatch,
       MergeFails, MergeEnds, Break, Publish, DeleteStatement, SetRules
  <1>4. spc \in {"start", "open"} => snap = {}
    BY DEF CInv, SenderShape
  <1>5. QED
    BY <1>1, <1>2, <1>3, <1>4 DEF Cause, NamespacesOf

(* The receiver filters what the sender asked for, and reads what it sent. *)
LEMMA NextAsked == ASSUME TInv, AInv, CInv, EInv, [Next]_vars PROVE Asked'
  <1> USE DEF EInv, Asked, TInv, TypeOK, sendVars, linkVars, recvVars, mergeVars
  <1>1. CASE QueryNamespaces
    <2>1. rpc = "idle" /\ mpc = "none"
      BY <1>1 DEF QueryNamespaces, AInv
    <2>2. QED
      BY <1>1, <2>1 DEF QueryNamespaces
  <1>2. CASE Connect
    BY <1>2 DEF Connect, AInv
  <1>3. CASE OpenStream
    <2>1. cur = None /\ snap = {} /\ rows' = snap'
      BY <1>3 DEF OpenStream, CInv, SenderShape
    <2>2. QED
      BY <1>3, <2>1 DEF OpenStream
  <1>4. CASE NextStmt
    BY <1>4 DEF NextStmt
  <1>5. CASE \/ ReadReply \/ EarlyFailure \/ StreamEnds \/ PrematureEnd \/ StreamPanics \/ WriteFails
             \/ TakeResult \/ WriteRefused \/ ReadReport \/ UNCHANGED vars \/ Break
    BY <1>5 DEF ReadReply, EarlyFailure, StreamEnds, PrematureEnd, StreamPanics, WriteFails,
       TakeResult, WriteRefused, ReadReport, Break, vars
  <1>6. CASE WriteValue \/ WriteEnd
    <2>1. PICK m \in snap \cup {End} : fwd' = Append(fwd, m)
      BY <1>6, StmtsAssumption DEF WriteValue, WriteEnd, Filled
    <2>2. UNCHANGED <<snap, rows, rpc, reply, mpc, filter, nss>> /\ cur' \in {cur, None}
      BY <1>6 DEF WriteValue, WriteEnd
    <2>3. \A i \in 1..Len(fwd') : fwd'[i] \in snap \cup {End}
      <3>1. Len(fwd) \in Nat /\ Len(fwd') = Len(fwd) + 1 /\ fwd'[Len(fwd) + 1] = m
        BY <2>1
      <3>2. \A i \in 1..Len(fwd) : fwd'[i] = fwd[i]
        BY <2>1
      <3>3. \A i \in 1..Len(fwd') : i \in 1..Len(fwd) \/ i = Len(fwd) + 1
        BY <3>1
      <3>4. QED
        BY <3>1, <3>2, <3>3
    <2>4. QED
      BY <2>2, <2>3
  <1>7. CASE ReadStmt \/ ReadEnd
    <2>1. fwd # <<>> /\ fwd' = Tail(fwd) /\ UNCHANGED <<snap, rows, cur, reply, mpc, filter, nss>>
      BY <1>7 DEF ReadStmt, ReadEnd
    <2>2. \A i \in 1..Len(fwd') : fwd'[i] \in snap \cup {End}
      <3>1. Len(fwd) \in Nat \ {0} /\ Len(fwd') = Len(fwd) - 1
        BY <2>1
      <3>2. \A i \in 1..Len(fwd') : fwd'[i] = fwd[i + 1]
        BY <2>1
      <3>3. \A i \in 1..Len(fwd') : i + 1 \in 1..Len(fwd)
        BY <3>1
      <3>4. QED
        BY <2>1, <3>2, <3>3
    <2>3. QED
      BY <1>7, <2>1, <2>2 DEF ReadStmt, ReadEnd
  <1>8. CASE Accept \/ Reject \/ HandshakeFails
    BY <1>8 DEF Accept, Reject, HandshakeFails, AInv
  <1>9. CASE ReadFails \/ HandOver \/ EarlyMergeResult \/ CloseMerge \/ MergeResult \/ Report
    BY <1>9 DEF ReadFails, HandOver, EarlyMergeResult, CloseMerge, MergeResult, Report
  <1>10. CASE MergeStep
    BY <1>10 DEF MergeStep, MergeBatch, MergeFails, MergeEnds
  <1>11. CASE \/ \E s \in Stmts : Publish(s) \/ DeleteStatement(s)
              \/ \E R \in SUBSET Rules : SetRules(R)
    BY <1>11 DEF Publish, DeleteStatement, SetRules
  <1>12. QED
    BY <1>1, <1>2, <1>3, <1>4, <1>5, <1>6, <1>7, <1>8, <1>9, <1>10, <1>11
       DEF Next, SenderStep, ReceiverStep

(* doPush returns an error of its own, the receiver's, or that of a broken *)
(* connection; a receiver that is gone while doPush writes has met one.    *)
LEMMA SenderCaused ==
  ASSUME TInv, AInv, CInv, EInv, SenderStep \/ WriteRefused \/ ReadReport PROVE Caused'
  <1>1. Cause => Cause'
    BY CauseStays DEF Next
  <1>2. \A r : Blamed(r) => Blamed(r)'
    BY <1>1 DEF Blamed
  <1>3. UNCHANGED <<mpc, rrch, mres, report, rerr>>
    BY DEF SenderStep, QueryNamespaces, Connect, ReadReply, OpenStream, EarlyFailure, NextStmt,
       StreamEnds, PrematureEnd, StreamPanics, WriteValue, WriteEnd, WriteFails, TakeResult,
       WriteRefused, ReadReport, sendVars, linkVars, recvVars, mergeVars
  <1>4. Blamed(rrch)' /\ Blamed(mres)' /\ Blamed(report)'
    BY <1>2, <1>3 DEF EInv, Caused
  <1>5. /\ Result(0, TRUE).err = TRUE /\ Result(-1, TRUE).err = TRUE /\ Result(0, FALSE).err = FALSE
    BY DEF Result
  <1>6. ASSUME Cause' PROVE \A r : Blamed(r)'
    BY <1>6 DEF Blamed
  <1> USE DEF EInv, Caused, Returns, sendVars, linkVars, recvVars, mergeVars
  <1>7. CASE QueryNamespaces
    <2>1. rpc = "idle" /\ UNCHANGED <<rpc, srch, link, trouble>>
      BY <1>7 DEF QueryNamespaces, AInv
    <2>2. spc' = "done" => sres' = Result(0, FALSE)
      BY <1>7 DEF QueryNamespaces
    <2>3. spc' # "crashed"
      BY <1>7 DEF QueryNamespaces
    <2>4. spc' = "done" => Blamed(sres)'
      BY <1>5, <2>2 DEF Blamed
    <2>5. Blamed(srch)'
      BY <1>2, <2>1
    <2>6. QED
      BY <1>1, <1>3, <1>4, <2>1, <2>3, <2>4, <2>5
  <1>8. CASE Connect
    <2>1. rpc = "idle" /\ rpc' = "start" /\ link' = "up" /\ spc' = "await" /\ srch' = srch
      BY <1>8 DEF Connect, AInv
    <2>2. report = None /\ (srch # None => srch.err = TRUE)
      BY <2>1
    <2>3. QED
      BY <1>1, <1>2, <1>3, <1>4, <2>1, <2>2
  <1>9. CASE ReadReply
    <2>1. UNCHANGED <<rpc, srch, link, trouble, reply, snap, nss>>
      BY <1>9 DEF ReadReply
    <2>2. spc' = "done" => reply = "reject" /\ sres' = Result(0, TRUE)
      BY <1>9 DEF ReadReply, TInv, TypeOK
    <2>3. spc' # "crashed"
      BY <1>9 DEF ReadReply
    <2>4. spc' = "done" => Cause'
      BY <2>1, <2>2 DEF Cause
    <2>5. QED
      BY <1>1, <1>2, <1>3, <1>4, <1>5, <1>6, <2>1, <2>2, <2>3, <2>4
  <1>10. CASE EarlyFailure \/ WriteFails
    <2>1. /\ UNCHANGED <<rpc, srch, link>> /\ trouble' = TRUE /\ spc' = "done"
          /\ sres'.err = TRUE
      BY <1>5, <1>10 DEF EarlyFailure, WriteFails
    <2>2. Cause'
      BY <2>1 DEF Cause
    <2>3. QED
      BY <1>3, <1>6, <2>1, <2>2
  <1>11. CASE OpenStream \/ NextStmt \/ StreamEnds \/ StreamPanics \/ WriteValue \/ WriteEnd
    <2>1. /\ UNCHANGED <<rpc, srch, link>> /\ spc' # "done" /\ (spc' = "crashed" => trouble' = TRUE)
          /\ (trouble = TRUE => trouble' = TRUE)
      BY <1>11 DEF OpenStream, NextStmt, StreamEnds, StreamPanics, WriteValue, WriteEnd
    <2>2. QED
      BY <1>1, <1>2, <1>3, <1>4, <2>1
  <1>12. CASE PrematureEnd \/ TakeResult
    <2>1. /\ UNCHANGED <<rpc, srch, link, trouble>> /\ spc' = "done" /\ sres' = srch /\ srch # None
      BY <1>12 DEF PrematureEnd, TakeResult
    <2>2. QED
      BY <1>1, <1>2, <1>3, <1>4, <2>1
  <1>13. CASE WriteRefused
    <2>1. /\ spc \in {"write", "end"} /\ rpc = "done" /\ UNCHANGED <<rpc, srch, link, trouble>>
          /\ spc' = "done" /\ sres'.err = TRUE
      BY <1>5, <1>13 DEF WriteRefused
    <2>2. Cause
      <3>1. CASE mpc = "none"
        BY <2>1, <3>1
      <3>2. CASE mpc # "none"
        <4>1. Failed
          BY <2>1, <3>2 DEF CInv, EndShape, AllSent
        <4>2. QED
          BY <4>1 DEF Failed, Blamed
      <3>3. QED
        BY <3>1, <3>2
    <2>3. QED
      BY <1>1, <1>3, <1>6, <2>1, <2>2
  <1>14. CASE ReadReport
    <2>1. UNCHANGED <<rpc, spc, sres, link, trouble>>
      BY <1>14 DEF ReadReport
    <2>2. \/ srch' = report /\ report # None
          \/ srch' = Result(-1, TRUE) /\ link = "down"
      BY <1>14 DEF ReadReport
    <2>3. CASE srch' = report /\ report # None
      BY <1>1, <1>2, <1>3, <1>4, <2>1, <2>3
    <2>4. CASE srch' = Result(-1, TRUE) /\ link = "down"
      <3>1. Cause'
        BY <2>1, <2>4 DEF Cause
      <3>2. QED
        BY <1>3, <1>5, <1>6, <2>1, <2>4, <3>1
    <2>5. QED
      BY <2>2, <2>3, <2>4
  <1>15. QED
    BY <1>7, <1>8, <1>9, <1>10, <1>11, <1>12, <1>13, <1>14 DEF SenderStep

(* pushHandler fails when a statement lies outside of what was asked for,  *)
(* when the connection is broken, or when the sender has gone for a cause. *)
LEMMA ReceiverCaused ==
  ASSUME TInv, AInv, CInv, EInv, ReceiverStep \/ MergeStep PROVE Caused'
  <1>1. Cause => Cause'
    BY CauseStays DEF Next
  <1>2. \A r : Blamed(r) => Blamed(r)'
    BY <1>1 DEF Blamed
  <1>3. ASSUME Cause' PROVE \A r : Blamed(r)'
    BY <1>3 DEF Blamed
  <1> USE DEF EInv, Caused, sendVars, linkVars, recvVars, mergeVars
  <1>4. UNCHANGED <<spc, srch, sres, link>> /\ (trouble = TRUE => trouble' = TRUE)
    BY DEF ReceiverStep, Accept, Reject, HandshakeFails, ReadStmt, ReadEnd, ReadFails, HandOver,
       EarlyMergeResult, CloseMerge, MergeResult, Report, MergeStep, MergeBatch, MergeFails, MergeEnds
  <1>5. Blamed(srch)' /\ (spc' = "done" => Blamed(sres)')
    BY <1>2, <1>4
  <1>6. rpc # "done" => report = None /\ (srch # None => srch.err = TRUE)
    OBVIOUS
  <1>7. CASE Accept
    <2>1. /\ rpc = "start" /\ rpc' = "read" /\ mpc' = "run"
          /\ UNCHANGED <<rrch, mres, report, rerr>>
      BY <1>7 DEF Accept
    <2>2. QED
      BY <1>1, <1>2, <1>4, <1>5, <1>6, <2>1
  <1>8. CASE Reject \/ HandshakeFails
    <2>1. /\ rpc = "start" /\ rpc' = "done" /\ UNCHANGED <<rrch, mres, report, rerr>>
          /\ (reply' = "reject" \/ trouble' = TRUE)
      BY <1>4, <1>8 DEF Reject, HandshakeFails
    <2>2. Cause'
      BY <2>1 DEF Cause
    <2>3. QED
      BY <1>3, <1>4, <2>1, <2>2
  <1>9. CASE ReadStmt \/ ReadEnd \/ ReadFails
    <2>1. /\ rpc = "read" /\ rpc' \in {"offer", "close"}
          /\ UNCHANGED <<rrch, mres, report>>
      BY <1>9 DEF ReadStmt, ReadEnd, ReadFails
    <2>2. rerr' = TRUE => Cause'
      <3>1. CASE rerr' = rerr
        BY <1>1, <3>1
      <3>2. CASE ReadStmt /\ NsOf[Head(fwd)] \notin filter
        <4>1. Head(fwd) \in snap
          <5>1. fwd \in Seq(Stmts \cup {End}) /\ fwd # <<>> /\ Head(fwd) # End
            BY <3>2 DEF ReadStmt, TInv, TypeOK
          <5>2. Head(fwd) = fwd[1] /\ 1 \in 1..Len(fwd)
            BY <5>1
          <5>3. QED
            BY <5>1, <5>2 DEF Asked
        <4>2. filter = nss
          BY <2>1 DEF Asked
        <4>3. Cause
          BY <3>2, <4>1, <4>2 DEF Cause, NamespacesOf
        <4>4. QED
          BY <1>1, <4>3
      <3>3. CASE ReadFails
        <4>1. CASE link = "down"
          BY <1>1, <4>1 DEF Cause
        <4>2. CASE SenderGone
          <5>1. CASE spc = "crashed"
            BY <1>1, <5>1 DEF Cause
          <5>2. CASE spc = "done"
            <6>1. sres \in Results /\ sres # None
              BY <5>2, StmtsAssumption DEF TInv, Filled
            <6>2. sres.err = TRUE
              BY <2>1, <5>2
            <6>3. QED
              BY <1>1, <5>2, <6>1, <6>2 DEF Blamed
          <5>3. QED
            BY <4>2, <5>1, <5>2 DEF SenderGone
        <4>3. QED
          BY <3>3, <4>1, <4>2 DEF ReadFails
      <3>4. QED
        BY <1>9, <3>1, <3>2, <3>3 DEF ReadStmt, ReadEnd
    <2>3. QED
      BY <1>2, <1>4, <1>5, <1>6, <2>1, <2>2
  <1>10. CASE HandOver \/ CloseMerge
    <2>1. /\ rpc \notin {"idle", "done"} /\ rpc' \in {"read", "collect", "report"}
          /\ UNCHANGED <<rrch, mres, report, rerr>>
      BY <1>10 DEF HandOver, CloseMerge
    <2>2. QED
      BY <1>1, <1>2, <1>4, <1>5, <1>6, <2>1
  <1>11. CASE EarlyMergeResult \/ MergeResult
    <2>1. /\ rpc \notin {"idle", "done"} /\ rpc' \in {"close", "report"}
          /\ UNCHANGED <<report, rerr>> /\ mres' = rrch /\ rrch' = None
      BY <1>11 DEF EarlyMergeResult, MergeResult
    <2>2. Blamed(rrch)' /\ Blamed(mres)'
      <3>1. Blamed(None)
        BY DEF Blamed
      <3>2. QED
        BY <1>2, <2>1, <3>1
    <2>3. QED
      BY <1>1, <1>2, <1>4, <1>5, <1>6, <2>1, <2>2
  <1>12. CASE Report
    <2>1. /\ rpc = "report" /\ rpc' = "done" /\ UNCHANGED <<rrch, mres, rerr, mpc>>
          /\ report' = None \/ report' = Result(mres.count, rerr \/ mres.err)
      BY <1>12 DEF Report
    <2>2. mpc # "none" /\ mres \in Results /\ mres # None
      BY <2>1, StmtsAssumption DEF Asked, TInv, Filled
    <2>3. Blamed(report)'
      <3>1. report' # None /\ report'.err = TRUE => rerr = TRUE \/ mres.err = TRUE
        BY <2>1, <2>2 DEF Result, Results, TInv, TypeOK
      <3>2. report' # None /\ report'.err = TRUE => Cause'
        BY <1>1, <2>2, <3>1 DEF Blamed
      <3>3. QED
        BY <3>2 DEF Blamed
    <2>4. QED
      BY <1>1, <1>2, <1>4, <1>5, <2>1, <2>2, <2>3
  <1>13. CASE MergeBatch
    <2>1. UNCHANGED <<mpc, rpc, rrch, mres, report, rerr>>
      BY <1>13 DEF MergeBatch
    <2>2. QED
      BY <1>1, <1>2, <1>4, <1>5, <2>1
  <1>14. CASE MergeFails
    <2>1. UNCHANGED <<rpc, mres, report, rerr>> /\ mpc' # "none" /\ trouble' = TRUE
      BY <1>14 DEF MergeFails
    <2>2. Cause'
      BY <2>1 DEF Cause
    <2>3. QED
      BY <1>3, <1>4, <2>1, <2>2
  <1>15. CASE MergeEnds
    <2>1. UNCHANGED <<rpc, mres, report, rerr>> /\ mpc' # "none" /\ rrch'.err = FALSE
      BY <1>15 DEF MergeEnds, Result
    <2>2. Blamed(rrch)'
      BY <2>1 DEF Blamed
    <2>3. QED
      BY <1>1, <1>2, <1>4, <1>5, <2>1, <2>2
  <1>16. QED
    BY <1>7, <1>8, <1>9, <1>10, <1>11, <1>12, <1>13, <1>14, <1>15 DEF ReceiverStep, MergeStep

LEMMA OthersCaused ==
  ASSUME TInv, AInv, CInv, EInv,
         \/ Break \/ UNCHANGED vars
         \/ \E s \in Stmts : Publish(s) \/ DeleteStatement(s)
         \/ \E R \in SUBSET Rules : SetRules(R)
  PROVE  Caused'
  <1>1. Cause => Cause'
    BY CauseStays DEF Next
  <1>2. \A r : Blamed(r) => Blamed(r)'
    BY <1>1 DEF Blamed
  <1>3. /\ UNCHANGED <<spc, srch, sres, report, rpc, mres, mpc, rrch, rerr>>
        /\ (link' = link /\ trouble' = trouble) \/ trouble' = TRUE
    BY DEF sendVars, linkVars, recvVars, mergeVars, vars, Break, Publish, DeleteStatement, SetRules
  <1>4. QED
    BY <1>1, <1>2, <1>3 DEF EInv, Caused

LEMMA NextCaused == TInv /\ AInv /\ CInv /\ EInv /\ [Next]_vars => EInv'
  <1> SUFFICES ASSUME TInv, AInv, CInv, EInv, [Next]_vars PROVE EInv'
    OBVIOUS
  <1>1. Asked'
    BY NextAsked
  <1>2. Caused'
    BY SenderCaused, ReceiverCaused, OthersCaused DEF Next
  <1>3. QED
    BY <1>1, <1>2 DEF EInv

LEMMA CausedSuffices == TInv /\ EInv => ErrorsHaveCause
  <1> SUFFICES ASSUME TInv, EInv, spc = "done", sres.err
               PROVE  trouble \/ reply = "reject" \/ ~(NamespacesOf(snap) \subseteq nss)
    BY DEF ErrorsHaveCause
  <1>1. sres \in Results /\ sres # None
    BY StmtsAssumption DEF TInv, Filled
  <1>2. sres.err = TRUE
    BY <1>1 DEF Results
  <1>3. QED
    BY <1>1, <1>2 DEF EInv, Caused, Blamed, Cause

(* What doPush returns to POST /push is true whatever fails and however    *)
(* the two ends run: the number is the number of statements the receiver's *)
(* merge has added, for good, and an error has a failure, a refusal or a   *)
(* statement outside of the namespaces asked for behind it.                *)
THEOREM ReportIsTrue == Spec => []ReportTrue
  <1>1. Spec => []NInv
    BY BaseAlways, InitTold, NextTold, PTL DEF Spec
  <1>2. Spec => []EInv
    BY BaseAlways, InitCaused, NextCaused, PTL DEF Spec
  <1>3. TInv /\ NInv /\ EInv => ReportTrue
    BY ToldSuffices, CausedSuffices DEF ReportTrue
  <1>4. QED
    BY <1>1, <1>2, <1>3, BaseAlways, PTL

-----------------------------------------------------------------------------
(* The merge inside of a push and the merge that Merge describes *)

(* Merge counts with the same operator. *)
LEMMA SameCardinality == \A S : Merging!Cardinality(S) = Cardinality(S)
  BY DEF Merging!Cardinality, Cardinality

LEMMA InitMerging == Init => Merging!Init
  <1> SUFFICES ASSUME Init PROVE Merging!Init
    OBVIOUS
  <1>1. found \in SUBSET Stmts /\ rdb = found /\ pending = {} /\ wclosed \in BOOLEAN
    BY FoundAssumption DEF Init
  <1>2. Posted = <<>>
    BY DEF Init, Posted
  <1>3. QED
    BY <1>1, <1>2 DEF Merging!Init

(* What the merge is seen to have posted does not change when other        *)
(* goroutines run.                                                         *)
LEMMA QuietMerging ==
  ASSUME UNCHANGED <<found, rdb, pending, wclosed>>,
         \/ UNCHANGED <<mpc, rrch, mres>>
         \/ mpc # "end" /\ mpc' # "end"
  PROVE  UNCHANGED Merging!vars
  BY DEF Merging!vars, Posted

(* A result received by the handler is the one that was posted. *)
LEMMA ReceivedMerging ==
  ASSUME TInv, CInv, EarlyMergeResult \/ MergeResult PROVE UNCHANGED Merging!vars
  <1>1. rrch # None /\ rrch' = None /\ mres' = rrch /\ UNCHANGED <<wclosed, mpc, pending, found, rdb>>
    BY DEF EarlyMergeResult, MergeResult
  <1>2. mpc = "end"
    BY <1>1 DEF CInv, MergeShape
  <1>3. QED
    BY <1>1, <1>2 DEF Merging!vars, Posted

(* A result that is posted is seen. *)
LEMMA PostsMerging ==
  ASSUME TInv, mpc = "run", mpc' = "end", rdb' \subseteq Stmts, found' = found, NEW e \in BOOLEAN,
         rrch' = Result(Cardinality(rdb' \ found), e)
  PROVE  Merging!Running /\ Merging!Posts(e)
  <1>1. Cardinality(rdb' \ found) \in Int
    BY AddedCounted
  <1>2. rrch' \in Results
    BY <1>1 DEF Result, Results
  <1>3. rrch' # None
    BY <1>2, StmtsAssumption
  <1>4. Posted = <<>> /\ Posted' = <<rrch'>>
    BY <1>3 DEF Posted
  <1>5. QED
    BY <1>4, SameCardinality DEF Merging!Running, Merging!Posts, Result

LEMMA MergeMerging ==
  ASSUME TInv, MergeStep PROVE Merging!Store \/ Merging!Fail \/ Merging!Finish
  <1>1. rdb \subseteq Stmts /\ pending \subseteq Stmts
    BY DEF TInv, TypeOK
  <1>2. CASE MergeBatch
    <2>1. /\ mpc = "run" /\ rdb' = rdb \cup pending /\ pending' = {}
          /\ UNCHANGED <<found, wclosed, mpc>>
      BY <1>2 DEF MergeBatch, recvVars
    <2>2. Posted = <<>> /\ Posted' = <<>>
      BY <2>1 DEF Posted
    <2>3. QED
      BY <2>1, <2>2 DEF Merging!Store, Merging!Running
  <1>3. CASE MergeFails
    <2>1. /\ mpc = "run" /\ mpc' = "end" /\ pending' = {} /\ UNCHANGED <<found, rdb, wclosed>>
          /\ rrch' = Result(Cardinality(rdb' \ found), TRUE)
      BY <1>3 DEF MergeFails, recvVars
    <2>2. Merging!Running /\ Merging!Posts(TRUE)
      BY <1>1, <2>1, PostsMerging
    <2>3. QED
      BY <2>1, <2>2 DEF Merging!Fail
  <1>4. CASE MergeEnds
    <2>1. /\ mpc = "run" /\ mpc' = "end" /\ wclosed /\ rdb' = rdb \cup pending /\ pending' = {}
          /\ UNCHANGED <<found, wclosed>> /\ rrch' = Result(Cardinality(rdb' \ found), FALSE)
      BY <1>4 DEF MergeEnds, recvVars
    <2>2. Merging!Running /\ Merging!Posts(FALSE)
      BY <1>1, <2>1, PostsMerging
    <2>3. QED
      BY <2>1, <2>2 DEF Merging!Finish
  <1>5. QED
    BY <1>2, <1>3, <1>4 DEF MergeStep

LEMMA NextMerging == TInv /\ AInv /\ CInv /\ [Next]_vars => [Merging!Next]_(Merging!vars)
  <1> SUFFICES ASSUME TInv, AInv, CInv, [Next]_vars PROVE [Merging!Next]_(Merging!vars)
    OBVIOUS
  <1>1. CASE SenderStep \/ WriteRefused \/ ReadReport
    <2>1. UNCHANGED <<found, rdb, pending, wclosed, mpc, rrch, mres>>
      <3> USE DEF mergeVars, recvVars
      <3>1. CASE Connect
        BY <3>1 DEF Connect
      <3>2. CASE ~Connect
        BY <1>1, <3>2 DEF SenderStep, WriteRefused, ReadReport, QueryNamespaces, ReadReply, OpenStream,
           EarlyFailure, NextStmt, StreamEnds, PrematureEnd, StreamPanics, WriteValue, WriteEnd,
           WriteFails, TakeResult
      <3>3. QED
        BY <3>1, <3>2
    <2>2. QED
      BY <2>1, QuietMerging
  <1>2. CASE Break \/ (\E s \in Stmts : Publish(s) \/ DeleteStatement(s))
             \/ (\E R \in SUBSET Rules : SetRules(R)) \/ UNCHANGED vars
    <2>1. UNCHANGED <<found, rdb, pending, wclosed, mpc, rrch, mres>>
      BY <1>2 DEF Break, Publish, DeleteStatement, SetRules, vars, mergeVars, recvVars
    <2>2. QED
      BY <2>1, QuietMerging
  <1>3. CASE Reject \/ HandshakeFails \/ ReadStmt \/ ReadEnd \/ ReadFails \/ Report
    <2>1. UNCHANGED <<found, rdb, pending, wclosed, mpc, rrch, mres>>
      BY <1>3 DEF Reject, HandshakeFails, ReadStmt, ReadEnd, ReadFails, Report, mergeVars
    <2>2. QED
      BY <2>1, QuietMerging
  <1>4. CASE Accept
    <2>1. /\ rpc = "start" /\ mpc' = "run"
          /\ UNCHANGED <<found, rdb, pending, wclosed>>
      BY <1>4 DEF Accept
    <2>2. mpc # "end"
      BY <2>1 DEF AInv
    <2>3. QED
      BY <2>1, <2>2, QuietMerging
  <1>5. CASE HandOver
    <2>1. /\ held \in Stmts /\ mpc = "run" /\ pending' = pending \cup {held}
          /\ UNCHANGED <<found, rdb, wclosed, mpc>>
      BY <1>5 DEF HandOver, TInv, Filled
    <2>2. Posted = <<>> /\ Posted' = <<>>
      BY <2>1 DEF Posted
    <2>3. Merging!Take(held)
      BY <2>1, <2>2 DEF Merging!Take, Merging!Running
    <2>4. QED
      BY <2>1, <2>3 DEF Merging!Next
  <1>6. CASE EarlyMergeResult \/ MergeResult
    BY <1>6, ReceivedMerging
  <1>7. CASE CloseMerge
    <2>1. wclosed' = TRUE /\ UNCHANGED <<found, rdb, pending, mpc, rrch, mres>>
      BY <1>7 DEF CloseMerge, mergeVars
    <2>2. Posted' = Posted
      BY <2>1 DEF Posted
    <2>3. QED
      BY <2>1, <2>2 DEF Merging!Next, Merging!Closed
  <1>8. CASE MergeStep
    BY <1>8, MergeMerging DEF Merging!Next
  <1>9. QED
    BY <1>1, <1>2, <1>3, <1>4, <1>5, <1>6, <1>7, <1>8 DEF Next, ReceiverStep

(* The receiver's merge takes, stores, closes and ends as Merge describes  *)
(* it, with its one result received once, wherever pushHandler is then.    *)
THEOREM PushImplementsMerge == Spec => ImplementsMerge
  BY BaseAlways, InitMerging, NextMerging, PTL DEF Spec, ImplementsMerge, Merging!Spec

(* A step of the merge's goroutine alone, as Merge sees it: when it posts  *)
(* a result it ends, and an error of its own is trouble.                   *)
MergeAlone ==
    /\ mpc = "run" /\ UNCHANGED <<sdb, sendVars, linkVars, rules, recvVars, found>>
    /\ \/ mpc' = "run" /\ UNCHANGED <<rrch, trouble>>
       \/ mpc' = "end" /\ rrch' # None /\ trouble' = (trouble \/ rrch'.err)

(* The converse: in every state a push can reach, whatever Merge lets a    *)
(* running merge do, storing, failing or finishing, the model of the push  *)
(* lets its merge do. So nothing that is proved of a push rests on a merge *)
(* that does less than doMergeStream may do.                               *)
THEOREM MergeIsUnrestricted ==
  ASSUME TInv, CInv, MergeAlone, Merging!Store \/ Merging!Fail \/ Merging!Finish
  PROVE  MergeStep \/ UNCHANGED vars
  <1>1. /\ mpc = "run" /\ UNCHANGED <<sdb, sendVars, linkVars, rules, recvVars, found>>
        /\ UNCHANGED <<wclosed, mres>> /\ trouble \in BOOLEAN
    BY DEF MergeAlone, recvVars, TInv, TypeOK
  <1>2. Posted = <<>> /\ mres' = None /\ rrch = None
    BY <1>1 DEF Posted, CInv, MergeShape
  <1>3. CASE Merging!Store
    <2>1. rdb' = rdb \cup pending /\ pending' = {} /\ Posted' = <<>>
      BY <1>2, <1>3 DEF Merging!Store, Merging!Running
    <2>2. mpc' = "run" /\ UNCHANGED <<rrch, trouble>>
      BY <2>1 DEF MergeAlone, Posted
    <2>3. CASE pending = {}
      BY <1>1, <2>1, <2>2, <2>3 DEF vars, mergeVars
    <2>4. CASE pending # {}
      BY <1>1, <2>1, <2>2, <2>4 DEF MergeStep, MergeBatch
    <2>5. QED
      BY <2>3, <2>4
  <1>4. ASSUME NEW e \in BOOLEAN, Merging!Posts(e)
        PROVE  /\ mpc' = "end" /\ rrch' = Result(Cardinality(rdb' \ found), e)
               /\ trouble' = (trouble \/ e)
    <2>1. Posted' = <<Result(Cardinality(rdb' \ found), e)>>
      BY <1>4, SameCardinality DEF Merging!Posts, Result
    <2>2. mpc' = "end" /\ rrch' # None /\ trouble' = (trouble \/ rrch'.err)
      BY <2>1 DEF MergeAlone, Posted
    <2>3. Posted' = <<rrch'>>
      BY <2>2 DEF Posted
    <2>4. rrch' = Result(Cardinality(rdb' \ found), e)
      BY <2>1, <2>3
    <2>5. QED
      BY <2>2, <2>4 DEF Result
  <1>5. CASE Merging!Fail
    <2>1. pending' = {} /\ rdb' = rdb /\ Merging!Posts(TRUE)
      BY <1>5 DEF Merging!Fail
    <2>2. mpc' = "end" /\ rrch' = Result(Cardinality(rdb \ found), TRUE) /\ trouble' = TRUE
      BY <1>4, <2>1
    <2>3. QED
      BY <1>1, <2>1, <2>2 DEF MergeStep, MergeFails
  <1>6. CASE Merging!Finish
    <2>1. wclosed /\ pending' = {} /\ rdb' = rdb \cup pending /\ Merging!Posts(FALSE)
      BY <1>6 DEF Merging!Finish
    <2>2. mpc' = "end" /\ rrch' = Result(Cardinality(rdb' \ found), FALSE) /\ trouble' = trouble
      BY <1>1, <1>4, <2>1
    <2>3. QED
      BY <1>1, <2>1, <2>2 DEF MergeStep, MergeEnds
  <1>7. QED
    BY <1>3, <1>5, <1>6

-----------------------------------------------------------------------------
(* No deadlock. The guards of the steps of the four goroutines, without    *)
(* the failures they may meet on their own; a link that is down is one     *)
(* they notice.                                                            *)
SenderReady ==
    \/ spc \in {"start", "connect", "open", "send"}
    \/ spc = "await" /\ (reply # None \/ link = "down")
    \/ spc \in {"write", "end"} /\ (link = "down" \/ (link = "up" /\ Len(fwd) < Window))
    \/ spc = "wait" /\ srch # None

ReaderReady ==
    spc \in {"send", "write", "end", "wait"} /\ srch = None /\ (report # None \/ link = "down")

HandlerReady ==
    \/ rpc \in {"start", "close", "report"}
    \/ rpc = "read" /\ (fwd # <<>> \/ link = "down" \/ SenderGone)
    \/ rpc = "offer" /\ (mpc = "run" \/ rrch # None)
    \/ rpc = "collect" /\ rrch # None

MergeReady == mpc = "run" /\ (pending # {} \/ wclosed = TRUE)

(* A push is over, or one of its goroutines can go on. *)
NeverStuck == PushOver \/ SenderReady \/ ReaderReady \/ HandlerReady \/ MergeReady

(* What the sender waits for is on its way: the answer, or the report once *)
(* the end of the statements has been read.                                *)
Sending == {"open", "send", "write", "end", "wait"}
AnswerComes ==
    /\ rpc = "idle" => spc \in {"start", "connect", "done"}
    /\ rpc \in {"idle", "start"} => reply = None
    /\ spc \in Sending => reply = "accept"
    /\ spc \in Sending \cup {"await"} => link # "none"
    /\ spc = "await" /\ link = "up" /\ reply = None => rpc = "start"
    /\ rpc = "done" /\ reply = "accept" /\ link = "up" => report # None
    /\ spc = "wait" /\ rpc \in {"read", "offer"} => \E i \in 1..Len(fwd) : fwd[i] = End

(* What the handler waits for is on its way: the result of the merge. *)
ResultComes ==
    /\ rpc \in {"read", "offer", "close", "collect"} => mpc # "none"
    /\ rpc \in {"read", "offer", "collect"} => mres = None
    /\ rpc = "collect" => wclosed = TRUE
    /\ mpc = "end" /\ mres = None => rrch # None
    /\ mpc = "run" => rpc \in {"read", "offer", "close", "collect"}

WInv == AnswerComes /\ ResultComes

LEMMA InitWaits == Init => WInv
  BY DEF Init, WInv, AnswerComes, ResultComes, Sending

(* Steps of the sender and its reading goroutine. *)
LEMMA SenderWaits ==
  ASSUME TInv, AInv, WInv, SenderStep \/ WriteRefused \/ ReadReport PROVE WInv'
  <1>1. CASE Connect
    <2>1. /\ spc = "connect" /\ spc' = "await" /\ link' = "up" /\ rpc' = "start"
          /\ UNCHANGED <<reply, mpc>>
      BY <1>1 DEF Connect, mergeVars
    <2>2. rpc = "idle" /\ mpc = "none" /\ reply = None
      BY <2>1 DEF AInv, WInv, AnswerComes
    <2>3. AnswerComes'
      BY <2>1, <2>2, NoneAssumption DEF AnswerComes, Sending
    <2>4. ResultComes'
      BY <2>1, <2>2 DEF ResultComes
    <2>5. QED
      BY <2>3, <2>4 DEF WInv
  <1>2. CASE ~Connect
    <2>1. UNCHANGED <<link, reply, report, rpc, mres, wclosed, mpc, rrch>>
      BY <1>2 DEF SenderStep, WriteRefused, ReadReport, QueryNamespaces, ReadReply, OpenStream,
         EarlyFailure, NextStmt, StreamEnds, PrematureEnd, StreamPanics, WriteValue, WriteEnd,
         WriteFails, TakeResult, linkVars, recvVars, mergeVars
    <2>2. ResultComes'
      BY <2>1 DEF WInv, ResultComes
    <2>3. CASE QueryNamespaces
      <3>1. spc = "start" /\ spc' \in {"done", "connect"}
        BY <2>3 DEF QueryNamespaces, Returns
      <3>2. rpc = "idle"
        BY <3>1 DEF AInv
      <3>3. QED
        BY <2>1, <2>2, <3>1, <3>2 DEF WInv, AnswerComes, Sending
    <2>4. CASE ReadReply
      <3>1. spc = "await" /\ (spc' = "done" \/ (spc' = "open" /\ reply = "accept"))
        BY <2>4 DEF ReadReply, Returns
      <3>2. QED
        BY <2>1, <2>2, <3>1 DEF WInv, AnswerComes, Sending
    <2>5. CASE OpenStream \/ NextStmt \/ StreamEnds \/ WriteValue \/ ReadReport
      <3>1. spc \in Sending /\ spc' \in Sending /\ (spc' = "wait" => spc = "wait" /\ fwd' = fwd)
        BY <2>5 DEF OpenStream, NextStmt, StreamEnds, WriteValue, ReadReport, linkVars, Sending
      <3>2. spc' \notin {"start", "connect", "await"}
        BY <3>1 DEF Sending
      <3>3. rpc # "idle"
        BY <3>1 DEF WInv, AnswerComes, Sending
      <3>4. QED
        BY <2>1, <2>2, <3>1, <3>2, <3>3 DEF WInv, AnswerComes, Sending
    <2>6. CASE WriteEnd
      <3>1. spc = "end" /\ spc' = "wait" /\ fwd' = Append(fwd, End)
        BY <2>6 DEF WriteEnd
      <3>2. PICK n \in Nat : n = Len(fwd) /\ Len(fwd') = n + 1 /\ fwd'[n + 1] = End
        BY <3>1 DEF TInv, TypeOK
      <3>3. \E i \in 1..Len(fwd') : fwd'[i] = End
        BY <3>2
      <3>4. rpc # "idle"
        BY <3>1 DEF WInv, AnswerComes
      <3>5. QED
        BY <2>1, <2>2, <3>1, <3>3, <3>4 DEF WInv, AnswerComes, Sending
    <2>7. CASE EarlyFailure \/ PrematureEnd \/ StreamPanics \/ WriteFails \/ TakeResult \/ WriteRefused
      <3>1. spc' = "done" \/ (spc' = "crashed" /\ spc = "send")
        BY <2>7 DEF EarlyFailure, PrematureEnd, StreamPanics, WriteFails, TakeResult, WriteRefused, Returns
      <3>2. QED
        BY <2>1, <2>2, <3>1 DEF WInv, AnswerComes, Sending
    <2>8. QED
      BY <1>2, <2>3, <2>4, <2>5, <2>6, <2>7 DEF SenderStep
  <1>3. QED
    BY <1>1, <1>2

(* Steps of the handler and of the merge: what the handler waits for. *)
LEMMA ReceiverResultComes ==
  ASSUME TInv, AInv, CInv, WInv, ReceiverStep \/ MergeStep PROVE ResultComes'
  <1> USE DEF WInv, ResultComes
  <1>1. CASE Accept
    <2>1. mpc = "none" /\ mres = None /\ mpc' = "run" /\ rpc' = "read" /\ mres' = mres
      BY <1>1 DEF Accept, AInv, CInv, MergeShape
    <2>2. QED
      BY <2>1
  <1>2. CASE Reject \/ HandshakeFails
    <2>1. rpc' = "done" /\ rpc = "start" /\ UNCHANGED <<mpc, mres, rrch>>
      BY <1>2 DEF Reject, HandshakeFails, mergeVars
    <2>2. QED
      BY <2>1
  <1>3. CASE ReadStmt \/ ReadEnd \/ ReadFails \/ HandOver
    <2>1. /\ rpc \in {"read", "offer"} /\ rpc' \in {"read", "offer", "close"}
          /\ UNCHANGED <<mpc, mres, rrch>>
      BY <1>3 DEF ReadStmt, ReadEnd, ReadFails, HandOver, mergeVars
    <2>2. QED
      BY <2>1
  <1>4. CASE EarlyMergeResult \/ MergeResult
    <2>1. rrch # None /\ mres' = rrch /\ rpc' \in {"close", "report"} /\ mpc' = mpc
      BY <1>4 DEF EarlyMergeResult, MergeResult
    <2>2. mpc = "end"
      BY <2>1 DEF CInv, MergeShape
    <2>3. QED
      BY <2>1, <2>2
  <1>5. CASE CloseMerge
    <2>1. /\ rpc = "close" /\ wclosed' = TRUE /\ UNCHANGED <<mpc, mres, rrch>>
          /\ rpc' = IF mres = None THEN "collect" ELSE "report"
      BY <1>5 DEF CloseMerge, mergeVars
    <2>2. mpc # "none"
      BY <2>1
    <2>3. CASE mres = None
      BY <2>1, <2>2, <2>3
    <2>4. CASE mres # None
      BY <2>1, <2>4 DEF CInv, MergeShape
    <2>5. QED
      BY <2>3, <2>4
  <1>6. CASE Report
    <2>1. rpc = "report" /\ rpc' = "done" /\ UNCHANGED <<mpc, mres, rrch>>
      BY <1>6 DEF Report, mergeVars
    <2>2. QED
      BY <2>1
  <1>7. CASE MergeBatch
    <2>1. UNCHANGED <<rpc, mpc, mres, rrch, wclosed>>
      BY <1>7 DEF MergeBatch, recvVars
    <2>2. QED
      BY <2>1
  <1>8. CASE MergeFails \/ MergeEnds
    <2>1. /\ mpc = "run" /\ mpc' = "end" /\ UNCHANGED <<rpc, mres, wclosed, found>>
          /\ rdb' \in SUBSET Stmts
          /\ \E e \in BOOLEAN : rrch' = Result(Cardinality(rdb' \ found), e)
      BY <1>8 DEF MergeFails, MergeEnds, recvVars, TInv, TypeOK
    <2>2. Cardinality(rdb' \ found) \in Int
      BY <2>1, AddedCounted
    <2>3. rrch' \in Results
      BY <2>1, <2>2 DEF Result, Results
    <2>4. rrch' # None
      BY <2>3, StmtsAssumption
    <2>5. QED
      BY <2>1, <2>4
  <1>9. QED
    BY <1>1, <1>2, <1>3, <1>4, <1>5, <1>6, <1>7, <1>8 DEF ReceiverStep, MergeStep

(* And what the sender waits for. *)
LEMMA ReceiverAnswerComes ==
  ASSUME TInv, AInv, WInv, ReceiverStep \/ MergeStep PROVE AnswerComes'
  <1> USE DEF WInv, AnswerComes, Sending
  <1>1. CASE Accept
    <2>1. rpc = "start" /\ rpc' = "read" /\ reply' = "accept" /\ UNCHANGED <<spc, link>>
      BY <1>1 DEF Accept, sendVars
    <2>2. spc \notin Sending
      BY <2>1, NoneAssumption
    <2>3. QED
      BY <2>1, <2>2, NoneAssumption
  <1>2. CASE Reject \/ HandshakeFails
    <2>1. /\ rpc = "start" /\ rpc' = "done" /\ UNCHANGED <<spc, link>>
          /\ reply' = "reject" \/ (reply' = reply /\ link = "down")
      BY <1>2 DEF Reject, HandshakeFails, sendVars, linkVars
    <2>2. spc \notin Sending /\ reply = None
      BY <2>1, NoneAssumption
    <2>3. QED
      BY <2>1, <2>2, NoneAssumption
  <1>3. CASE ReadStmt
    <2>1. /\ rpc = "read" /\ rpc' \in {"offer", "close"} /\ UNCHANGED <<spc, link, reply, report>>
          /\ fwd # <<>> /\ Head(fwd) # End /\ fwd' = Tail(fwd)
      BY <1>3 DEF ReadStmt, sendVars
    <2>2. ASSUME spc = "wait" PROVE \E i \in 1..Len(fwd') : fwd'[i] = End
      <3>1. PICK i \in 1..Len(fwd) : fwd[i] = End
        BY <2>1, <2>2
      <3>2. PICK n \in Nat \ {0} : /\ n = Len(fwd) /\ Head(fwd) = fwd[1] /\ Len(fwd') = n - 1
                                  /\ \A j \in 1..(n - 1) : fwd'[j] = fwd[j + 1]
        BY <2>1 DEF TInv, TypeOK
      <3>3. i # 1
        BY <2>1, <3>1, <3>2
      <3>4. i - 1 \in 1..(n - 1) /\ (i - 1) + 1 = i
        BY <3>1, <3>2, <3>3
      <3>5. QED
        BY <3>1, <3>2, <3>4
    <2>3. QED
      BY <2>1, <2>2
  <1>4. CASE ReadEnd \/ ReadFails \/ EarlyMergeResult \/ CloseMerge \/ MergeResult
    <2>1. /\ rpc' \in {"close", "collect", "report"}
          /\ UNCHANGED <<spc, link, reply, report>>
      BY <1>4 DEF ReadEnd, ReadFails, EarlyMergeResult, CloseMerge, MergeResult, sendVars, linkVars
    <2>2. rpc \notin {"idle", "start"}
      BY <1>4 DEF ReadEnd, ReadFails, EarlyMergeResult, CloseMerge, MergeResult
    <2>3. QED
      BY <2>1, <2>2
  <1>5. CASE HandOver
    <2>1. rpc = "offer" /\ rpc' = "read" /\ UNCHANGED <<spc, link, reply, report, fwd>>
      BY <1>5 DEF HandOver, sendVars, linkVars
    <2>2. QED
      BY <2>1
  <1>6. CASE Report
    <2>1. /\ rpc = "report" /\ rpc' = "done" /\ UNCHANGED <<spc, link, reply, fwd>>
          /\ link = "up" => report' = Result(mres.count, rerr \/ mres.err)
      BY <1>6 DEF Report, sendVars
    <2>2. Result(mres.count, rerr \/ mres.err) \in Results
      BY <2>1 DEF TInv, TypeOK, Filled, Result, Results
    <2>3. link = "up" => report' # None
      BY <2>1, <2>2, StmtsAssumption
    <2>4. QED
      BY <2>1, <2>3
  <1>7. CASE MergeStep
    <2>1. UNCHANGED <<spc, link, reply, report, fwd, rpc>>
      BY <1>7 DEF MergeStep, MergeBatch, MergeFails, MergeEnds, sendVars, linkVars, recvVars
    <2>2. QED
      BY <2>1
  <1>8. QED
    BY <1>1, <1>2, <1>3, <1>4, <1>5, <1>6, <1>7 DEF ReceiverStep

LEMMA OthersWait ==
  ASSUME WInv,
         \/ Break \/ UNCHANGED vars
         \/ \E s \in Stmts : Publish(s) \/ DeleteStatement(s)
         \/ \E R \in SUBSET Rules : SetRules(R)
  PROVE  WInv'
  <1>1. /\ UNCHANGED <<spc, reply, report, fwd, rpc, mres, wclosed, mpc, rrch>>
        /\ link' = link \/ link' = "down"
    BY DEF Break, Publish, DeleteStatement, SetRules, vars, sendVars, linkVars, recvVars, mergeVars
  <1>2. QED
    BY <1>1 DEF WInv, AnswerComes, ResultComes, Sending

LEMMA NextWaits == TInv /\ AInv /\ CInv /\ WInv /\ [Next]_vars => WInv'
  BY SenderWaits, ReceiverResultComes, ReceiverAnswerComes, OthersWait DEF Next, WInv

LEMMA SomeoneReady == TInv /\ AInv /\ WInv => NeverStuck
  <1> SUFFICES ASSUME TInv, AInv, WInv, ~HandlerReady, ~MergeReady, ~SenderReady, ~ReaderReady
               PROVE  PushOver
    BY DEF NeverStuck
  <1>1. rpc \notin {"offer", "collect", "start", "close", "report"}
    <2>1. mpc \in {"none", "run", "end"}
      BY DEF TInv, TypeOK
    <2>2. rpc # "offer"
      BY <2>1 DEF HandlerReady, WInv, ResultComes
    <2>3. rpc # "collect"
      BY <2>1 DEF HandlerReady, MergeReady, WInv, ResultComes
    <2>4. QED
      BY <2>2, <2>3 DEF HandlerReady
  <1>2. rpc \in {"idle", "read", "done"}
    BY <1>1 DEF TInv, TypeOK
  <1>3. spc \in {"await", "write", "end", "wait", "done", "crashed"}
    BY DEF SenderReady, TInv, TypeOK
  <1>4. link \in {"none", "up", "down"} /\ reply \in {"accept", "reject", None}
    BY DEF TInv, TypeOK
  <1>5. spc # "await"
    <2>1. SUFFICES ASSUME spc = "await" PROVE FALSE
      OBVIOUS
    <2>2. reply = None /\ link = "up"
      BY <1>4, <2>1 DEF SenderReady, WInv, AnswerComes
    <2>3. rpc = "start"
      BY <2>1, <2>2 DEF WInv, AnswerComes
    <2>4. QED
      BY <1>2, <2>3
  <1>6. CASE spc \in {"write", "end"}
    <2>1. link = "up" /\ ~(Len(fwd) < Window)
      BY <1>4, <1>6 DEF SenderReady, WInv, AnswerComes, Sending
    <2>2. fwd # <<>>
      <3>1. Len(<<>>) = 0 /\ Window \in Nat \ {0}
        BY WindowAssumption
      <3>2. QED
        BY <2>1, <3>1
    <2>3. rpc # "read"
      BY <2>2 DEF HandlerReady
    <2>4. rpc # "idle"
      BY <1>6 DEF WInv, AnswerComes
    <2>5. rpc = "done" /\ mpc # "run"
      BY <1>2, <2>3, <2>4 DEF WInv, ResultComes
    <2>6. QED
      BY <1>6, <2>5 DEF PushOver
  <1>7. spc # "wait"
    <2>1. SUFFICES ASSUME spc = "wait" PROVE FALSE
      OBVIOUS
    <2>2. srch = None /\ link = "up" /\ report = None /\ reply = "accept"
      BY <1>4, <2>1 DEF SenderReady, ReaderReady, WInv, AnswerComes, Sending
    <2>3. rpc # "done" /\ rpc # "idle"
      BY <2>1, <2>2 DEF WInv, AnswerComes
    <2>4. rpc # "read"
      <3>1. SUFFICES ASSUME rpc = "read" PROVE FALSE
        OBVIOUS
      <3>2. fwd = <<>>
        BY <3>1 DEF HandlerReady
      <3>3. PICK i \in 1..Len(fwd) : fwd[i] = End
        BY <2>1, <3>1 DEF WInv, AnswerComes
      <3>4. Len(fwd) = 0
        BY <3>2
      <3>5. QED
        BY <3>3, <3>4
    <2>5. QED
      BY <1>2, <2>3, <2>4
  <1>8. CASE spc \in {"done", "crashed"}
    <2>1. SenderGone
      BY <1>8 DEF SenderGone
    <2>2. rpc \in {"idle", "done"}
      BY <1>2, <2>1 DEF HandlerReady
    <2>3. mpc # "run"
      BY <2>2 DEF WInv, ResultComes
    <2>4. QED
      BY <2>1, <2>2, <2>3 DEF PushOver
  <1>9. QED
    BY <1>3, <1>5, <1>6, <1>7, <1>8

(* The two peers never wait for each other: whatever the window of the     *)
(* stream, whoever stopped first and wherever the merge failed, a push is  *)
(* over or one of its goroutines can go on.                                *)
THEOREM PushNeverStuck == Spec => []NeverStuck
  <1>1. Spec => []WInv
    BY BaseAlways, InitWaits, NextWaits, PTL DEF Spec
  <1>2. QED
    BY <1>1, BaseAlways, SomeoneReady, PTL

=============================================================================
