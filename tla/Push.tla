-------------------------------- MODULE Push --------------------------------
(***************************************************************************)
(* Pushing statements to a peer (mcnode/proto.go): doPush at the sender,   *)
(* with the goroutine that waits for the final report, and pushHandler at  *)
(* the receiver, with the merge it starts and its authorization            *)
(* (mcnode/node.go, PeerAuth).                                             *)
(*                                                                         *)
(* The sender asks for the namespaces of the statements first, and opens   *)
(* the stream of statements only when the receiver has accepted these      *)
(* namespaces: its db may have changed in between. The merge is modelled   *)
(* by what module MergeStream shows of it: it takes statements from a      *)
(* channel, stores batches of them, and posts one result, early when it    *)
(* fails. Every statement matches the query; LIMIT keeps some of them,     *)
(* in no particular order. The stream between the peers holds at most      *)
(* Window messages before a write blocks.                                  *)
(***************************************************************************)
EXTENDS Integers, Sequences, FiniteSets

CONSTANTS
    Stmts,      \* statements
    NsOf,       \* NsOf[s]: the namespace of a statement
    Rules,      \* authorization rules
    Covers,     \* Covers[r]: the namespaces a rule allows
    Limits,     \* LIMIT clauses of queries; 0 is none
    Window,     \* how many messages fit into the stream
    Found,      \* the statement dbs the receiver may have before
    None        \* no message, no result

Namespaces == {NsOf[s] : s \in Stmts}
End == <<>>     \* the message that ends the statements
Results == [count : Int, err : BOOLEAN]

ASSUME NsOfAssumption == DOMAIN NsOf = Stmts
ASSUME CoversAssumption == Covers \in [Rules -> SUBSET Namespaces]
ASSUME LimitsAssumption == Limits \subseteq Nat
ASSUME WindowAssumption == Window \in Nat \ {0}
ASSUME FoundAssumption == Found \subseteq SUBSET Stmts
ASSUME NoneAssumption == None \notin {"accept", "reject"}
ASSUME StmtsAssumption == IsFiniteSet(Stmts) /\ None \notin Stmts \cup Results /\ End \notin Stmts

VARIABLES
    \* the sender
    sdb,        \* its statement db
    limit,      \* the LIMIT of the query that selects what to push
    spc,        \* where doPush is
    nss,        \* the namespaces it asks for
    snap,       \* the statements of its stream ...
    rows,       \* ... and those still to come
    cur,        \* the statement being written
    srch,       \* the result its reading goroutine has posted
    sres,       \* what doPush returns
    cut,        \* history: its stream ended before its time
    \* between them
    link,       \* "none", "up" or "down"
    fwd,        \* statements and End on their way
    reply,      \* the answer to the request: "accept" or "reject"
    report,     \* the final report
    trouble,    \* history: something failed
    \* the receiver
    rules,      \* its rules for the sender
    granted,    \* history: what they allowed when the push was accepted
    rpc,        \* where pushHandler is
    filter,     \* the namespaces that were asked for
    held,       \* the statement being handed to the merge
    rerr,       \* an error of pushHandler
    mres,       \* the result of the merge, when it was received
    wclosed,    \* wch is closed
    \* its merge
    mpc,        \* "none", "run" or "end"
    pending,    \* statements taken and not yet stored
    found,      \* history: the statement db before
    rdb,        \* the statement db
    rrch        \* the result the merge has posted

sendVars == <<limit, spc, nss, snap, rows, cur, srch, sres, cut>>
linkVars == <<link, fwd, reply, report>>
recvVars == <<granted, rpc, filter, held, rerr, mres, wclosed>>
mergeVars == <<mpc, pending, found, rdb, rrch>>
vars == <<sdb, sendVars, linkVars, trouble, rules, recvVars, mergeVars>>

Result(n, e) == [count |-> n, err |-> e]
NamespacesOf(S) == {NsOf[s] : s \in S}

(* What LIMIT keeps of a set of rows. *)
LimitedTo(S) ==
    {L \in SUBSET S : IF limit = 0 \/ Cardinality(S) <= limit THEN L = S ELSE Cardinality(L) = limit}

SenderGone == spc \in {"done", "crashed"}

Init ==
    /\ sdb \in SUBSET Stmts /\ limit \in Limits /\ spc = "start" /\ nss = {}
    /\ snap = {} /\ rows = {} /\ cur = None /\ srch = None /\ sres = None /\ cut = FALSE
    /\ link = "none" /\ fwd = <<>> /\ reply = None /\ report = None /\ trouble = FALSE
    /\ rules \in SUBSET Rules /\ granted = {} /\ rpc = "idle" /\ filter = {} /\ held = None
    /\ rerr = FALSE /\ mres = None /\ wclosed = FALSE
    /\ mpc = "none" /\ pending = {} /\ found \in Found /\ rdb = found /\ rrch = None

-----------------------------------------------------------------------------
(* Around the push. The db and the rules go on changing after they were    *)
(* read for the last time; such a change reaches nobody and is left out.   *)

ReadsDb == spc \in {"start", "connect", "await", "open"}
ReadsRules == rpc \in {"idle", "start"}

Publish(s) ==
    /\ ReadsDb /\ sdb' = sdb \cup {s}
    /\ UNCHANGED <<sendVars, linkVars, trouble, rules, recvVars, mergeVars>>

DeleteStatement(s) ==
    /\ ReadsDb /\ sdb' = sdb \ {s}
    /\ UNCHANGED <<sendVars, linkVars, trouble, rules, recvVars, mergeVars>>

SetRules(R) ==
    /\ ReadsRules /\ rules' = R
    /\ UNCHANGED <<sdb, sendVars, linkVars, trouble, recvVars, mergeVars>>

Break ==
    /\ link = "up" /\ link' = "down" /\ trouble' = TRUE
    /\ UNCHANGED <<sdb, sendVars, fwd, reply, report, rules, recvVars, mergeVars>>

-----------------------------------------------------------------------------
(* The sender: doPush *)

Returns(r) == spc' = "done" /\ sres' = r

(* SELECT DISTINCT namespace with the query's criteria and its LIMIT;      *)
(* without a namespace there is nothing to push. Query takes a read that   *)
(* fails for the end of the rows.                                          *)
QueryNamespaces ==
    /\ spc = "start"
    /\ \E N \in LimitedTo(NamespacesOf(sdb)) : nss' \in SUBSET N
    /\ IF nss' = {} THEN Returns(Result(0, FALSE)) ELSE spc' = "connect" /\ UNCHANGED sres
    /\ UNCHANGED <<sdb, limit, snap, rows, cur, srch, cut, linkVars, trouble, rules, recvVars,
                   mergeVars>>

(* The connection is made and the request written. *)
Connect ==
    /\ spc = "connect" /\ spc' = "await"
    /\ link' = "up" /\ rpc' = "start"
    /\ UNCHANGED <<sdb, limit, nss, snap, rows, cur, srch, sres, cut, fwd, reply, report,
                   trouble, rules, granted, filter, held, rerr, mres, wclosed, mergeVars>>

ReadReply ==
    /\ spc = "await" /\ reply # None
    /\ IF reply = "accept" THEN spc' = "open" /\ UNCHANGED sres ELSE Returns(Result(0, TRUE))
    /\ UNCHANGED <<sdb, limit, nss, snap, rows, cur, srch, cut, linkVars, trouble, rules,
                   recvVars, mergeVars>>

OpenStream ==
    /\ spc = "open" /\ spc' = "send"
    /\ snap' \in LimitedTo(sdb) /\ rows' = snap'
    /\ UNCHANGED <<sdb, limit, nss, cur, srch, sres, cut, linkVars, trouble, rules, recvVars,
                   mergeVars>>

(* A query or the connection fails, or the answer does not come: nothing   *)
(* has been sent.                                                          *)
EarlyFailure ==
    /\ spc \in {"start", "connect", "open"} \/ (spc = "await" /\ link = "down")
    /\ trouble' = TRUE /\ Returns(Result(0, TRUE))
    /\ UNCHANGED <<sdb, limit, nss, snap, rows, cur, srch, cut, linkVars, rules, recvVars,
                   mergeVars>>

(* The select: the next statement, the end of the stream, a premature      *)
(* result, or the end of the context.                                      *)
NextStmt ==
    /\ spc = "send" /\ spc' = "write"
    /\ \E s \in rows : cur' = s /\ rows' = rows \ {s}
    /\ UNCHANGED <<sdb, limit, nss, snap, srch, sres, cut, linkVars, trouble, rules, recvVars,
                   mergeVars>>

(* The stream is closed, at its end, when reading fails, or when the       *)
(* context is done.                                                        *)
StreamEnds ==
    /\ spc = "send" /\ spc' = "end"
    /\ cut' = (rows # {})
    /\ UNCHANGED <<sdb, limit, nss, snap, rows, cur, srch, sres, linkVars, trouble, rules,
                   recvVars, mergeVars>>

PrematureEnd ==
    /\ spc = "send" /\ srch # None
    /\ Returns(srch)
    /\ UNCHANGED <<sdb, limit, nss, snap, rows, cur, srch, cut, linkVars, trouble, rules,
                   recvVars, mergeVars>>

(* A row that cannot be decoded comes as a StreamError, on which the type  *)
(* assertion of the loop panics: the stream is closed without an end and   *)
(* the request is not answered.                                            *)
StreamPanics ==
    /\ spc = "send" /\ rows # {} /\ spc' = "crashed" /\ trouble' = TRUE
    /\ UNCHANGED <<sdb, limit, nss, snap, rows, cur, srch, sres, cut, linkVars, rules, recvVars,
                   mergeVars>>

WriteValue ==
    /\ spc = "write" /\ link = "up" /\ Len(fwd) < Window
    /\ fwd' = Append(fwd, cur) /\ cur' = None /\ spc' = "send"
    /\ UNCHANGED <<sdb, limit, nss, snap, rows, srch, sres, cut, link, reply, report, trouble,
                   rules, recvVars, mergeVars>>

WriteEnd ==
    /\ spc = "end" /\ link = "up" /\ Len(fwd) < Window
    /\ fwd' = Append(fwd, End) /\ spc' = "wait"
    /\ UNCHANGED <<sdb, limit, nss, snap, rows, cur, srch, sres, cut, link, reply, report,
                   trouble, rules, recvVars, mergeVars>>

(* Slip: a broken write reported as a push of nothing. *)
WriteFailsAsNothing ==
    /\ spc \in {"write", "end"} /\ link = "down"
    /\ Returns(Result(0, TRUE))
    /\ UNCHANGED <<sdb, limit, nss, snap, rows, cur, srch, cut, linkVars, trouble, rules, recvVars,
                   mergeVars>>

(* A write into a broken connection: how much was merged is not known. *)
WriteFails ==
    /\ spc \in {"write", "end"} /\ link = "down"
    /\ Returns(Result(-1, TRUE))
    /\ UNCHANGED <<sdb, limit, nss, snap, rows, cur, srch, cut, linkVars, trouble, rules, recvVars,
                   mergeVars>>

(* A write after pushHandler has returned may fail as well; whether it     *)
(* does or waits for room is up to the stream.                             *)
WriteRefused ==
    /\ spc \in {"write", "end"} /\ link = "up" /\ rpc = "done"
    /\ Returns(Result(-1, TRUE))
    /\ UNCHANGED <<sdb, limit, nss, snap, rows, cur, srch, cut, linkVars, trouble, rules, recvVars,
                   mergeVars>>

TakeResult ==
    /\ spc = "wait" /\ srch # None
    /\ Returns(srch)
    /\ UNCHANGED <<sdb, limit, nss, snap, rows, cur, srch, cut, linkVars, trouble, rules,
                   recvVars, mergeVars>>

(* The goroutine that waits for the report. *)
ReadReport ==
    /\ spc \in {"send", "write", "end", "wait"} /\ srch = None
    /\ \/ report # None /\ srch' = report
       \/ link = "down" /\ srch' = Result(-1, TRUE)
    /\ UNCHANGED <<sdb, limit, spc, nss, snap, rows, cur, sres, cut, linkVars, trouble, rules,
                   recvVars, mergeVars>>

-----------------------------------------------------------------------------
(* The receiver: pushHandler *)

AuthorizeAllow(R, ns) == \E r \in R : ns \in Covers[r]
Authorize(R, N) == N # {} /\ R # {} /\ \A ns \in N : AuthorizeAllow(R, ns)

Accept ==
    /\ rpc = "start" /\ Authorize(rules, nss)
    /\ reply' = "accept" /\ filter' = nss
    /\ granted' = {ns \in Namespaces : AuthorizeAllow(rules, ns)}
    /\ rpc' = "read" /\ mpc' = "run"
    /\ UNCHANGED <<sdb, sendVars, link, fwd, report, trouble, rules, held, rerr, mres,
                   wclosed, pending, found, rdb, rrch>>

Reject ==
    /\ rpc = "start" /\ ~Authorize(rules, nss)
    /\ reply' = "reject" /\ rpc' = "done"
    /\ UNCHANGED <<sdb, sendVars, link, fwd, report, trouble, rules, granted, filter,
                   held, rerr, mres, wclosed, mergeVars>>

(* The request does not come, or the answer cannot be written. *)
HandshakeFails ==
    /\ rpc = "start" /\ link = "down"
    /\ rpc' = "done"
    /\ UNCHANGED <<sdb, sendVars, linkVars, trouble, rules, granted, filter, held, rerr,
                   mres, wclosed, mergeVars>>

(* Slip: the namespace of a statement is not looked at. *)
ReadStmtUnfiltered ==
    /\ rpc = "read" /\ fwd # <<>> /\ Head(fwd) # End
    /\ fwd' = Tail(fwd)
    /\ rpc' = "offer" /\ held' = Head(fwd)
    /\ UNCHANGED <<sdb, sendVars, link, reply, report, trouble, rules, granted, filter,
                   rerr, mres, wclosed, mergeVars>>

(* A statement of a namespace that was not asked for ends the push. *)
ReadStmt ==
    /\ rpc = "read" /\ fwd # <<>> /\ Head(fwd) # End
    /\ fwd' = Tail(fwd)
    /\ IF NsOf[Head(fwd)] \in filter
       THEN rpc' = "offer" /\ held' = Head(fwd) /\ UNCHANGED rerr
       ELSE rpc' = "close" /\ rerr' = TRUE /\ UNCHANGED held
    /\ UNCHANGED <<sdb, sendVars, link, reply, report, trouble, rules, granted, filter,
                   mres, wclosed, mergeVars>>

ReadEnd ==
    /\ rpc = "read" /\ fwd # <<>> /\ Head(fwd) = End
    /\ fwd' = Tail(fwd) /\ rpc' = "close"
    /\ UNCHANGED <<sdb, sendVars, link, reply, report, trouble, rules, granted, filter,
                   held, rerr, mres, wclosed, mergeVars>>

ReadFails ==
    /\ rpc = "read" /\ (link = "down" \/ (fwd = <<>> /\ SenderGone))
    /\ rpc' = "close" /\ rerr' = TRUE
    /\ UNCHANGED <<sdb, sendVars, linkVars, trouble, rules, granted, filter, held, mres,
                   wclosed, mergeVars>>

(* wch <- val.Stmt, with the merge at the other end. *)
HandOver ==
    /\ rpc = "offer" /\ mpc = "run"
    /\ pending' = pending \cup {held} /\ held' = None /\ rpc' = "read"
    /\ UNCHANGED <<sdb, sendVars, linkVars, trouble, rules, granted, filter, rerr, mres,
                   wclosed, mpc, found, rdb, rrch>>

(* Slip: the early result received and not remembered. *)
EarlyMergeResultLost ==
    /\ rpc = "offer" /\ rrch # None
    /\ rrch' = None /\ rpc' = "close"
    /\ UNCHANGED <<sdb, sendVars, linkVars, trouble, rules, granted, filter, held, rerr,
                   mres, wclosed, mpc, pending, found, rdb>>

(* The other case of the select: the result of a merge that failed. *)
EarlyMergeResult ==
    /\ rpc = "offer" /\ rrch # None
    /\ mres' = rrch /\ rrch' = None /\ rpc' = "close"
    /\ UNCHANGED <<sdb, sendVars, linkVars, trouble, rules, granted, filter, held, rerr,
                   wclosed, mpc, pending, found, rdb>>

CloseMerge ==
    /\ rpc = "close" /\ wclosed' = TRUE
    /\ rpc' = IF mres = None THEN "collect" ELSE "report"
    /\ UNCHANGED <<sdb, sendVars, linkVars, trouble, rules, granted, filter, held, rerr,
                   mres, mergeVars>>

MergeResult ==
    /\ rpc = "collect" /\ rrch # None
    /\ mres' = rrch /\ rrch' = None /\ rpc' = "report"
    /\ UNCHANGED <<sdb, sendVars, linkVars, trouble, rules, granted, filter, held, rerr,
                   wclosed, mpc, pending, found, rdb>>

(* Slip: a report without the error of the merge. *)
ReportMergeIgnored ==
    /\ rpc = "report" /\ rpc' = "done"
    /\ report' = IF link = "up" THEN Result(mres.count, rerr) ELSE None
    /\ UNCHANGED <<sdb, sendVars, link, fwd, reply, trouble, rules, granted, filter, held,
                   rerr, mres, wclosed, mergeVars>>

Report ==
    /\ rpc = "report" /\ rpc' = "done"
    /\ report' = IF link = "up" THEN Result(mres.count, rerr \/ mres.err) ELSE None
    /\ UNCHANGED <<sdb, sendVars, link, fwd, reply, trouble, rules, granted, filter, held,
                   rerr, mres, wclosed, mergeVars>>

-----------------------------------------------------------------------------
(* The receiver's merge, doMergeStream on wch *)

(* A batch of statements is stored. *)
MergeBatch ==
    /\ mpc = "run" /\ pending # {}
    /\ rdb' = rdb \cup pending /\ pending' = {}
    /\ UNCHANGED <<sdb, sendVars, linkVars, trouble, rules, recvVars, mpc, found, rrch>>

(* A bad statement, a failed batch, a missing object: what is not yet      *)
(* stored is dropped.                                                      *)
MergeFails ==
    /\ mpc = "run" /\ mpc' = "end" /\ trouble' = TRUE
    /\ pending' = {} /\ rrch' = Result(Cardinality(rdb \ found), TRUE)
    /\ UNCHANGED <<sdb, sendVars, linkVars, rules, recvVars, found, rdb>>

(* Slip: what is left after the last full batch is forgotten. *)
MergeEndsEarly ==
    /\ mpc = "run" /\ wclosed /\ mpc' = "end"
    /\ pending' = {} /\ rrch' = Result(Cardinality(rdb \ found), FALSE)
    /\ UNCHANGED <<sdb, sendVars, linkVars, trouble, rules, recvVars, found, rdb>>

MergeEnds ==
    /\ mpc = "run" /\ wclosed /\ mpc' = "end"
    /\ rdb' = rdb \cup pending /\ pending' = {}
    /\ rrch' = Result(Cardinality(rdb' \ found), FALSE)
    /\ UNCHANGED <<sdb, sendVars, linkVars, trouble, rules, recvVars, found>>

-----------------------------------------------------------------------------

SenderStep ==
    \/ QueryNamespaces \/ Connect \/ ReadReply \/ OpenStream \/ EarlyFailure \/ NextStmt
    \/ StreamEnds \/ PrematureEnd \/ StreamPanics \/ WriteValue \/ WriteEnd \/ WriteFails
    \/ TakeResult
ReceiverStep ==
    \/ Accept \/ Reject \/ HandshakeFails \/ ReadStmt \/ ReadEnd \/ ReadFails \/ HandOver
    \/ EarlyMergeResult \/ CloseMerge \/ MergeResult \/ Report
MergeStep == MergeBatch \/ MergeFails \/ MergeEnds

Next ==
    \/ SenderStep \/ WriteRefused \/ ReadReport \/ ReceiverStep \/ MergeStep \/ Break
    \/ \E s \in Stmts : Publish(s) \/ DeleteStatement(s)
    \/ \E R \in SUBSET Rules : SetRules(R)

Spec == Init /\ [][Next]_vars

(* A goroutine that can run is run eventually. *)
FairSpec ==
    Spec /\ WF_vars(SenderStep) /\ WF_vars(ReadReport) /\ WF_vars(ReceiverStep) /\ WF_vars(MergeStep)
-----------------------------------------------------------------------------
(* Properties *)

(* Where the values lie; the stream between the peers never holds more     *)
(* than its window.                                                        *)
TypeOK ==
    /\ sdb \subseteq Stmts /\ limit \in Limits
    /\ spc \in {"start", "connect", "await", "open", "send", "write", "end", "wait", "done", "crashed"}
    /\ nss \subseteq Namespaces /\ snap \subseteq Stmts /\ rows \subseteq Stmts
    /\ cur \in Stmts \cup {None} /\ srch \in Results \cup {None} /\ sres \in Results \cup {None}
    /\ cut \in BOOLEAN /\ trouble \in BOOLEAN
    /\ link \in {"none", "up", "down"} /\ fwd \in Seq(Stmts \cup {End}) /\ Len(fwd) <= Window
    /\ reply \in {"accept", "reject", None} /\ report \in Results \cup {None}
    /\ rules \subseteq Rules /\ granted \subseteq Namespaces /\ filter \subseteq Namespaces
    /\ rpc \in {"idle", "start", "read", "offer", "close", "collect", "report", "done"}
    /\ held \in Stmts \cup {None} /\ rerr \in BOOLEAN /\ mres \in Results \cup {None}
    /\ wclosed \in BOOLEAN /\ mpc \in {"none", "run", "end"}
    /\ pending \subseteq Stmts /\ found \in Found /\ rdb \subseteq Stmts
    /\ rrch \in Results \cup {None}

(* What a push adds to the receiver's db lies in namespaces the receiver's *)
(* rules allowed the sender when the push was accepted, although the       *)
(* sender's db changes between the request and the statements.             *)
OnlyAuthorized == NamespacesOf(rdb \ found) \subseteq granted

(* A push that reports no error has put every statement of its stream into *)
(* the receiver's db, unless the stream was cut short.                     *)
PushIsComplete == spc = "done" /\ ~sres.err /\ ~cut => snap \subseteq rdb

(* The number a push reports, with or without an error, is the number of   *)
(* statements it added; where that is not known, -1 is reported.           *)
CountTold == spc = "done" /\ sres.count >= 0 => sres.count = Cardinality(rdb \ found)

(* An error has a cause: a failure, a refusal, or a statement whose        *)
(* namespace was not yet there when the namespaces were asked for, or was  *)
(* kept out by the LIMIT.                                                  *)
ErrorsHaveCause ==
    spc = "done" /\ sres.err =>
        trouble \/ reply = "reject" \/ ~(NamespacesOf(snap) \subseteq nss)

(* What doPush returns to POST /push is true in both of its parts. *)
ReportTrue == CountTold /\ ErrorsHaveCause

(* The receiver's merge as its handler sees it, its result also once the   *)
(* handler has received it.                                                *)
Posted == IF mpc = "end" THEN <<IF rrch = None THEN mres ELSE rrch>> ELSE <<>>

(* The merge inside of a push takes, stores and ends as Merge describes    *)
(* it, and as MergeStream implements it: its stream is closed once, its    *)
(* one result is received once and not changed, whether the handler is     *)
(* handing over a statement, reading the next one or waiting for it.       *)
Merging == INSTANCE Merge WITH stored <- rdb, over <- wclosed, results <- Posted
ImplementsMerge == Merging!Spec

(* Where a push ends: the receiver and its merge have come to an end, and  *)
(* so has the sender unless it is left in a write. pushHandler returns     *)
(* without reading what is still on its way, and whether a write into such *)
(* a stream fails is not up to this code.                                  *)
PushOver ==
    /\ rpc \in {"idle", "done"} /\ mpc # "run"
    /\ SenderGone \/ (spc \in {"write", "end"} /\ rpc = "done")

(* A push ends: nobody waits for a result that does not come. *)
PushEnds == <>[]PushOver

=============================================================================
