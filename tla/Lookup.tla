-------------------------------- MODULE Lookup --------------------------------
(***************************************************************************)
(* The questions a node asks of its directories (mcnode/net.go): where a   *)
(* peer is (doLookup, which asks the DHT too), and which peers, namespaces *)
(* or manifests the directories list (doDirCollect). Each question is put  *)
(* to every directory by a worker of its own; the caller takes the results *)
(* from a channel until it has an answer, has heard all workers, or its    *)
(* context is done. On the other side are the handlers of mcdir/proto.go,  *)
(* which read the tables of dir.go and mfs.go.                             *)
(*                                                                         *)
(* A behaviour is one request; requests share nothing. The tables change   *)
(* meanwhile, as nodes register and leave (module Directory): a directory  *)
(* is the set of peers registered with it. No read of a stream has a       *)
(* deadline: a directory that stalls holds up the worker that asks it.     *)
(***************************************************************************)
EXTENDS Naturals, Sequences, FiniteSets

CONSTANTS
    Dirs,           \* the directories a node may be configured with
    Peers,          \* the peers that may be registered
    Self, Wanted,   \* the node itself; the peer that is looked up
    NamesOf,        \* NamesOf[p]: the namespaces p publishes
    ManifestsOf,    \* ManifestsOf[p]: the manifests stored with p as their source
    EntityOf,       \* EntityOf[m]: the entity of a manifest
    Questions,      \* the questions that may be asked
    Names,          \* patterns: namespaces, entities, "*", prefixes
    Covers,         \* Covers[n]: the namespaces or entities that match a pattern
    All,            \* the pattern "*"
    DHT,            \* the worker that asks the DHT
    MaxChanges      \* bound: changes of the directories' tables

ASSUME DHTAssumption == DHT \notin Dirs
ASSUME WantedAssumption == {Self, Wanted} \subseteq Peers
ASSUME FiniteAssumption == IsFiniteSet(Dirs) /\ MaxChanges \in Nat

ASSUME QuestionsAssumption ==
    Questions \subseteq
        [kind : {"lookup", "listns"}] \cup [kind : {"list"}, ns : Names, all : BOOLEAN]
            \cup [kind : {"listmf"}, entity : Names]

VARIABLES
    q,              \* the question
    dirs,           \* node.dir, as the request read it
    online,         \* whether the network is up
    stalled,        \* the directories that do not answer
    listed,         \* listed[d]: the peers registered with d
    changes,
    pc,             \* the caller: "start", "wait" or "returned"
    ctx,            \* the caller's context: "live" or "done"
    wpc,            \* wpc[x]: where the worker that asks x is
    reply,          \* reply[d]: the answer of d on its way
    ch,             \* the channel of results
    heard,          \* how many results the caller has taken
    errcount, vals, \* its count of errors and its set of values
    res,            \* what it returned
    \* history: peers registered with d at some time and all the time,
    \* the workers that failed, and whether the context ended the request
    ever, always, failed, cut

dirVars == <<listed, changes, ever, always>>
callVars == <<pc, heard, errcount, vals, res, cut>>
vars == <<q, dirs, online, stalled, ctx, wpc, reply, ch, failed, dirVars, callVars>>

IsLookup == q.kind = "lookup"
Workers == IF IsLookup THEN dirs \cup {DHT} ELSE dirs

(* Slip: a channel with room for one result. *)
RoomForOne == 1

(* doLookupImpl and doDirCollect make room for the result of every worker. *)
Capacity == Cardinality(Workers)

-----------------------------------------------------------------------------
(* The directories: lookupPeer, listPeers, listNamespaces and, for         *)
(* manifests, ManifestStoreImpl.Lookup.                                    *)

ListPeers(S, ns) == {p \in S : ns = All \/ NamesOf[p] \cap Covers[ns] # {}}
ListNamespaces(S) == UNION {NamesOf[p] : p \in S}
LookupManifests(S, entity) ==
    {m \in UNION {ManifestsOf[p] : p \in S} : entity = All \/ EntityOf[m] \in Covers[entity]}

Answer(ask, S) ==
    CASE ask.kind = "lookup" -> S \cap {Wanted}
      [] ask.kind = "list" -> ListPeers(S, ask.ns)
      [] ask.kind = "listns" -> ListNamespaces(S)
      [] ask.kind = "listmf" -> LookupManifests(S, ask.entity)

(* A handler reads the request, then the table, and writes its answer. *)
HandleQuestion(d) ==
    /\ wpc[d] = "asked" /\ d \notin stalled
    /\ reply' = [reply EXCEPT ![d] = Answer(q, listed[d])]
    /\ wpc' = [wpc EXCEPT ![d] = "answered"]
    /\ UNCHANGED <<q, dirs, online, stalled, ctx, ch, failed, dirVars, callVars>>

Change(d, p) ==
    /\ pc # "returned" /\ changes < MaxChanges /\ changes' = changes + 1
    /\ listed' = [listed EXCEPT ![d] = IF p \in @ THEN @ \ {p} ELSE @ \cup {p}]
    /\ ever' = [ever EXCEPT ![d] = @ \cup {p}] /\ always' = [always EXCEPT ![d] = @ \ {p}]
    /\ UNCHANGED <<q, dirs, online, stalled, ctx, wpc, reply, ch, failed, callVars>>

-----------------------------------------------------------------------------
(* The workers *)

(* A worker that has a result sends it, which waits while there is no room, *)
(* and ends.                                                               *)
Send(x, r) ==
    /\ Len(ch) < Capacity
    /\ ch' = Append(ch, r) /\ wpc' = [wpc EXCEPT ![x] = "end"]
    /\ failed' = IF r.is = "error" THEN failed \cup {x} ELSE failed

(* doDirConnect and the write of the request. *)
AskDirectory(d) ==
    /\ wpc[d] = "connect" /\ online
    /\ wpc' = [wpc EXCEPT ![d] = "asked"]
    /\ UNCHANGED <<q, dirs, online, stalled, ctx, reply, ch, failed, dirVars, callVars>>

(* The node is offline, the connection fails or takes longer than the      *)
(* context allows, or the stream breaks.                                   *)
DirectoryFails(d) ==
    /\ d # DHT /\ wpc[d] \in {"connect", "asked", "answered"}
    /\ wpc[d] = "asked" => d \notin stalled
    /\ Send(d, [is |-> "error"])
    /\ UNCHANGED <<q, dirs, online, stalled, ctx, reply, dirVars, callVars>>

(* The answer to a lookup may be that the peer is not known. *)
ReadAnswer(d) ==
    /\ wpc[d] = "answered"
    /\ Send(d, CASE ~IsLookup -> [is |-> "values", vals |-> reply[d]]
                 [] IsLookup /\ reply[d] = {} -> [is |-> "unknown"]
                 [] IsLookup /\ reply[d] # {} -> [is |-> "found"])
    /\ UNCHANGED <<q, dirs, online, stalled, ctx, reply, dirVars, callVars>>

(* DHTImpl.Lookup ends within 30 seconds. A peer all of whose addresses    *)
(* are filtered out is found, without an address.                          *)
DHTLookup ==
    /\ wpc[DHT] = "connect"
    /\ \E what \in {"found", "bare", "unknown", "error"} :
          (online \/ what = "error") /\ Send(DHT, [is |-> what])
    /\ UNCHANGED <<q, dirs, online, stalled, ctx, reply, dirVars, callVars>>

-----------------------------------------------------------------------------
(* The caller *)

Return(r) == pc' = "returned" /\ res' = r

(* httpDirListImpl leaves the node itself out of a list of peers. *)
Shown(V) == IF q.kind = "list" /\ ~q.all THEN V \ {Self} ELSE V

Start ==
    /\ pc = "start"
    /\ CASE IsLookup /\ ~online -> Return([is |-> "offline"]) /\ UNCHANGED wpc
         [] ~IsLookup /\ dirs = {} -> Return([is |-> "nodirectory"]) /\ UNCHANGED wpc
         [] OTHER -> /\ pc' = "wait" /\ UNCHANGED res
                     /\ wpc' = [x \in DOMAIN wpc |-> IF x \in Workers THEN "connect" ELSE "none"]
    /\ UNCHANGED <<q, dirs, online, stalled, ctx, reply, ch, failed, dirVars, heard, errcount, vals, cut>>

(* After the loop of doLookupImpl. *)
LookupResult(errors) ==
    IF errors < Cardinality(Workers) THEN [is |-> "unknown"] ELSE [is |-> "error"]

(* Slip: an error of one directory taken for an error of the request. *)
CollectAnyError(errors, V, ctxerr) ==
    IF V = {} /\ errors > 0 THEN [is |-> "error"]
    ELSE IF V = {} /\ ctxerr THEN [is |-> "ctx"]
    ELSE [is |-> "values", vals |-> Shown(V)]

(* After the loop of doDirCollect: an error only if there are no values. *)
CollectResult(errors, V, ctxerr) ==
    IF V = {} /\ errors = Cardinality(Workers) THEN [is |-> "error"]
    ELSE IF V = {} /\ ctxerr THEN [is |-> "ctx"]
    ELSE [is |-> "values", vals |-> Shown(V)]

(* Slip: a lookup that ends with the first answer, whatever it is. *)
TakeFirstOfLookup ==
    /\ IsLookup /\ pc = "wait" /\ ch # <<>>
    /\ ch' = Tail(ch) /\ heard' = heard + 1
    /\ errcount' = IF Head(ch).is = "error" THEN errcount + 1 ELSE errcount
    /\ CASE Head(ch).is \in {"found", "bare", "unknown"} -> Return(Head(ch))
         [] heard' = Cardinality(Workers) -> Return(LookupResult(errcount'))
         [] OTHER -> UNCHANGED <<pc, res>>
    /\ UNCHANGED <<q, dirs, online, stalled, ctx, wpc, reply, failed, dirVars, vals, cut>>

(* The loop of doLookupImpl: the first worker that found the peer wins. *)
TakeOfLookup ==
    /\ IsLookup /\ pc = "wait" /\ ch # <<>>
    /\ ch' = Tail(ch) /\ heard' = heard + 1
    /\ errcount' = IF Head(ch).is = "error" THEN errcount + 1 ELSE errcount
    /\ CASE Head(ch).is \in {"found", "bare"} -> Return(Head(ch))
         [] heard' = Cardinality(Workers) /\ Head(ch).is \in {"unknown", "error"} ->
               Return(LookupResult(errcount'))
         [] OTHER -> UNCHANGED <<pc, res>>
    /\ UNCHANGED <<q, dirs, online, stalled, ctx, wpc, reply, failed, dirVars, vals, cut>>

(* The loop of doDirCollect. A single directory is asked in the caller's   *)
(* own goroutine, and its result returned as it is.                        *)
TakeOfCollect ==
    /\ ~IsLookup /\ pc = "wait" /\ ch # <<>>
    /\ ch' = Tail(ch) /\ heard' = heard + 1
    /\ errcount' = IF Head(ch).is = "error" THEN errcount + 1 ELSE errcount
    /\ vals' = IF Head(ch).is = "values" THEN vals \cup Head(ch).vals ELSE vals
    /\ IF heard' = Cardinality(Workers)
       THEN Return(CollectResult(errcount', vals', FALSE))
       ELSE UNCHANGED <<pc, res>>
    /\ UNCHANGED <<q, dirs, online, stalled, ctx, wpc, reply, failed, dirVars, cut>>

(* The client goes away, or the ten seconds of a list are over. *)
Expire ==
    /\ ctx = "live" /\ pc # "returned"
    /\ ctx' = "done"
    /\ UNCHANGED <<q, dirs, online, stalled, wpc, reply, ch, failed, dirVars, callVars>>

(* The select takes ctx.Done, even if a result is there; the one goroutine *)
(* of a single directory has no such select.                               *)
Cancelled ==
    /\ pc = "wait" /\ ctx = "done"
    /\ IsLookup \/ Cardinality(dirs) # 1
    /\ Return(IF IsLookup THEN LookupResult(errcount) ELSE CollectResult(errcount, vals, TRUE))
    /\ cut' = TRUE
    /\ UNCHANGED <<q, dirs, online, stalled, ctx, wpc, reply, ch, failed, dirVars, heard, errcount, vals>>

-----------------------------------------------------------------------------

Init ==
    /\ q \in Questions /\ dirs \in SUBSET Dirs /\ online \in BOOLEAN /\ stalled \in SUBSET dirs
    /\ listed \in [Dirs -> SUBSET Peers] /\ changes = 0
    /\ ever = listed /\ always = listed
    /\ pc = "start" /\ ctx = "live" /\ heard = 0 /\ errcount = 0 /\ vals = {}
    /\ res = [is |-> "none"]
    /\ wpc = [x \in Dirs \cup {DHT} |-> "none"] /\ reply = [d \in Dirs |-> {}]
    /\ ch = <<>> /\ failed = {} /\ cut = FALSE

WorkerStep(d) == AskDirectory(d) \/ DirectoryFails(d) \/ ReadAnswer(d)
Take == TakeOfLookup \/ TakeOfCollect

Next ==
    \/ Start \/ Take \/ Cancelled \/ Expire \/ DHTLookup
    \/ \E d \in Dirs : HandleQuestion(d) \/ WorkerStep(d) \/ \E p \in Peers : Change(d, p)

Spec == Init /\ [][Next]_vars

(* Goroutines that can run are run; connecting and the DHT have time       *)
(* limits; a directory that does not stall answers; a list, unlike a       *)
(* lookup over /net/lookup, is given ten seconds.                          *)
FairSpec ==
    /\ Spec
    /\ WF_vars(Start) /\ WF_vars(Take) /\ WF_vars(Cancelled)
    /\ WF_vars(DHTLookup) /\ WF_vars(~IsLookup /\ Expire)
    /\ \A d \in Dirs : WF_vars(HandleQuestion(d)) /\ WF_vars(WorkerStep(d))

-----------------------------------------------------------------------------
(* Properties *)

(* What a lookup returns is what it heard: a peer it found was registered  *)
(* with a directory, at some time since the request began, or is known to  *)
(* the DHT; it does not miss a peer that was registered all the time with  *)
(* a directory that answered, unless its context ended; it blames its      *)
(* means only when all of them failed.                                     *)
LookupSound ==
    IsLookup /\ pc = "returned" /\ res.is # "offline" =>
        /\ res.is = "found" =>
              (\E d \in dirs : Wanted \in ever[d]) \/ (wpc[DHT] = "end" /\ DHT \notin failed)
        /\ res.is = "unknown" /\ ~cut =>
              /\ \E x \in Workers : x \notin failed
              /\ \A d \in dirs \ failed : Wanted \notin always[d]
        /\ res.is = "error" => failed = Workers

(* A list that is returned without an error holds what every directory     *)
(* that answered lists, and nothing that none has listed since the request *)
(* began. If the context ended it, some of that may be missing, and the    *)
(* caller is not told. It fails only if every directory failed, or without *)
(* a value when the context ended.                                         *)
CollectSound ==
    ~IsLookup /\ pc = "returned" /\ dirs # {} =>
        /\ res.is = "values" =>
              /\ res.vals \subseteq Shown(Answer(q, UNION {ever[d] : d \in dirs}))
              /\ ~cut => \A d \in dirs \ failed : Shown(Answer(q, always[d])) \subseteq res.vals
        /\ res.is = "error" => failed = dirs
        /\ res.is = "ctx" => cut

(* The request is answered: always if no directory stalls, and a list from *)
(* several directories even then. And no worker stays behind for want of a *)
(* caller that takes its result: but for those that ask a stalled          *)
(* directory all end.                                                      *)
RequestEnds ==
    /\ (stalled = {} \/ (~IsLookup /\ Cardinality(dirs) # 1)) ~> pc = "returned"
    /\ <>[](\A x \in (Dirs \cup {DHT}) \ stalled : wpc[x] \in {"none", "end"})

=============================================================================
