------------------------------- MODULE NodeGC -------------------------------
(***************************************************************************)
(* Garbage collection of the datastore (mcnode/gc.go) beside the           *)
(* operations that change the statement db and the datastore meanwhile.    *)
(*                                                                         *)
(* doGC streams every statement of the db, collects the keys of the        *)
(* objects they refer to in a temporary table (refs), then walks a         *)
(* snapshot of the datastore and deletes each key that is not in refs. It  *)
(* reads the node's status once and holds no lock, and the HTTP API serves *)
(* publish and put requests in every status.                               *)
(*                                                                         *)
(* A statement is modelled by the parts of its body, in order: the keys of *)
(* each simple statement in it, or a part of a type addKeys does not know. *)
(* SQLite and RocksDB are external; both iterate over a snapshot.          *)
(***************************************************************************)
EXTENDS Naturals, Sequences, FiniteSets

CONSTANTS
    Keys,       \* keys of data objects
    Stmts,      \* statements: sequences of parts [known, keys]
    Batch,      \* how many keys are collected before they are written to refs
    Faults,     \* what may go wrong: "cancel" (the request's context), "read" (an I/O error)
    Clients     \* whether other requests are served during a collection

Parts == [known : BOOLEAN, keys : SUBSET Keys]

ASSUME StmtsAssumption == Stmts \subseteq Seq(Parts)
ASSUME BatchAssumption == Batch \in Nat \ {0}
ASSUME FaultsAssumption == Faults \subseteq {"cancel", "read"}
ASSUME ClientsAssumption == Clients \in BOOLEAN

VARIABLES
    stmts,      \* the statement db
    objs,       \* the datastore
    status,     \* the node's status
    gc,         \* where doGC is: "idle", "open", "stream", "iter", "delete"
    cancelled,  \* the context of the request is done
    snap,       \* the statements of the stream's snapshot ...
    rows,       \* ... and those still to come
    keys,       \* collected keys not yet in refs
    refs,       \* the temporary table of referenced keys
    walk,       \* the keys of the datastore's snapshot ...
    iter,       \* ... and those still to come
    cut,        \* history: what ended before its time, of "stream" and "walk"
    fresh       \* history: keys put since the walk began

gcVars == <<gc, cancelled, snap, rows, keys, refs, walk, iter, cut>>
vars == <<stmts, objs, status, gcVars, fresh>>

-----------------------------------------------------------------------------
(* Keys of a statement *)

(* The objects a statement refers to. *)
ObjectsOf(s) == UNION {s[i].keys : i \in DOMAIN s}
Referenced(S) == UNION {ObjectsOf(s) : s \in S}
WellFormed(s) == \A i \in DOMAIN s : s[i].known

(* The keys addKeys collects: it returns at the first part it does not     *)
(* know, and Merge ignores that it did.                                    *)
AddKeys(s) == UNION {s[i].keys : i \in {j \in DOMAIN s : \A h \in 1..j : s[h].known}}
Collected(S) == UNION {AddKeys(s) : s \in S}

-----------------------------------------------------------------------------
(* Other requests *)

Quiet == gc = "idle" \/ Clients

PutData(k) ==
    /\ Quiet
    /\ objs' = objs \cup {k}
    /\ fresh' = IF gc = "delete" THEN fresh \cup {k} ELSE {}
    /\ UNCHANGED <<stmts, status, gcVars>>

(* A publish, an import, or a batch of a merge or push. *)
Publish(s) ==
    /\ Quiet
    /\ stmts' = stmts \cup {s}
    /\ UNCHANGED <<objs, status, gcVars, fresh>>

DeleteStatement(s) ==
    /\ Quiet
    /\ stmts' = stmts \ {s}
    /\ UNCHANGED <<objs, status, gcVars, fresh>>

GoOnline == Quiet /\ status = "offline" /\ status' = "online" /\ UNCHANGED <<stmts, objs, gcVars, fresh>>
GoOffline == Quiet /\ status = "online" /\ status' = "offline" /\ UNCHANGED <<stmts, objs, gcVars, fresh>>

-----------------------------------------------------------------------------
(* doGC *)

GCStart ==
    /\ gc = "idle" /\ status = "offline"
    /\ gc' = "open"
    /\ UNCHANGED <<stmts, objs, status, cancelled, snap, rows, keys, refs, walk, iter, cut, fresh>>

(* The client of the request goes away. *)
Cancel ==
    /\ gc # "idle" /\ "cancel" \in Faults /\ ~cancelled
    /\ cancelled' = TRUE
    /\ UNCHANGED <<stmts, objs, status, gc, snap, rows, keys, refs, walk, iter, cut, fresh>>

(* SELECT * FROM *: the snapshot is that of the first row read. *)
StreamOpen ==
    /\ gc = "open"
    /\ gc' = "stream" /\ snap' = stmts /\ rows' = stmts
    /\ UNCHANGED <<stmts, objs, status, cancelled, keys, refs, walk, iter, cut, fresh>>

StreamRow ==
    /\ gc = "stream"
    /\ \E s \in rows :
          /\ rows' = rows \ {s}
          /\ LET found == keys \cup AddKeys(s)
                 full == Cardinality(found) >= Batch
             IN  /\ keys' = IF full THEN {} ELSE found
                 /\ refs' = IF full THEN refs \cup found ELSE refs
    /\ UNCHANGED <<stmts, objs, status, gc, cancelled, snap, walk, iter, cut, fresh>>

(* QueryStream's goroutine closes the channel when the context is done and *)
(* when reading fails; Merge takes both for the end of the rows. Once the  *)
(* context is done the select may still pick the send.                     *)
StreamCut ==
    /\ gc = "stream" /\ rows # {}
    /\ cancelled \/ "read" \in Faults
    /\ rows' = {} /\ cut' = cut \cup {"stream"}
    /\ UNCHANGED <<stmts, objs, status, gc, cancelled, snap, keys, refs, walk, iter, fresh>>

(* Slip: the last, short batch dropped. *)
StreamEndUnflushed ==
    /\ gc = "stream" /\ rows = {}
    /\ gc' = "iter" /\ keys' = {}
    /\ UNCHANGED <<stmts, objs, status, cancelled, snap, rows, refs, walk, iter, cut, fresh>>

StreamEnd ==
    /\ gc = "stream" /\ rows = {}
    /\ gc' = "iter" /\ refs' = refs \cup keys /\ keys' = {}
    /\ UNCHANGED <<stmts, objs, status, cancelled, snap, rows, walk, iter, cut, fresh>>

(* IterKeys *)
IterOpen ==
    /\ gc = "iter"
    /\ gc' = "delete" /\ walk' = objs /\ iter' = objs /\ fresh' = {}
    /\ UNCHANGED <<stmts, objs, status, cancelled, snap, rows, keys, refs, cut>>

(* Slip: a loop that ends at the first key it keeps. *)
GCKeyBreak(k) ==
    /\ gc = "delete" /\ k \in iter
    /\ iter' = IF k \in refs THEN {} ELSE iter \ {k}
    /\ objs' = IF k \in refs THEN objs ELSE objs \ {k}
    /\ fresh' = IF k \in refs THEN fresh ELSE fresh \ {k}
    /\ UNCHANGED <<stmts, status, gc, cancelled, snap, rows, keys, refs, walk, cut>>

(* Slip: a loop that asks for the same key again. *)
GCKeyStuck(k) ==
    /\ gc = "delete" /\ k \in iter
    /\ iter' = IF k \in refs THEN iter ELSE iter \ {k}
    /\ objs' = IF k \in refs THEN objs ELSE objs \ {k}
    /\ fresh' = IF k \in refs THEN fresh ELSE fresh \ {k}
    /\ UNCHANGED <<stmts, status, gc, cancelled, snap, rows, keys, refs, walk, cut>>

GCKey(k) ==
    /\ gc = "delete" /\ k \in iter
    /\ iter' = iter \ {k}
    /\ objs' = IF k \in refs THEN objs ELSE objs \ {k}
    /\ fresh' = IF k \in refs THEN fresh ELSE fresh \ {k}
    /\ UNCHANGED <<stmts, status, gc, cancelled, snap, rows, keys, refs, walk, cut>>

(* The iterator's goroutine closes the channel when the context is done;   *)
(* an iterator that fails is invalid, as it is at its end.                 *)
IterCut ==
    /\ gc = "delete" /\ iter # {}
    /\ cancelled \/ "read" \in Faults
    /\ iter' = {} /\ cut' = cut \cup {"walk"}
    /\ UNCHANGED <<stmts, objs, status, gc, cancelled, snap, rows, keys, refs, walk, fresh>>

(* The request returns: the temporary table and all local state go. *)
Return ==
    /\ gc' = "idle" /\ cancelled' = FALSE
    /\ snap' = {} /\ rows' = {} /\ keys' = {} /\ refs' = {}
    /\ walk' = {} /\ iter' = {} /\ cut' = {} /\ fresh' = {}
    /\ UNCHANGED <<stmts, objs, status>>

GCEnd == gc = "delete" /\ iter = {} /\ Return

(* An error of the temporary table, of the stream or of the datastore.     *)
GCFails == gc # "idle" /\ Return

-----------------------------------------------------------------------------

Init ==
    /\ stmts \in SUBSET Stmts /\ objs \in SUBSET Keys
    /\ status \in {"offline", "online"}
    /\ gc = "idle" /\ cancelled = FALSE
    /\ snap = {} /\ rows = {} /\ keys = {} /\ refs = {}
    /\ walk = {} /\ iter = {} /\ cut = {} /\ fresh = {}

GCStep ==
    \/ StreamOpen \/ StreamRow \/ StreamEnd \/ IterOpen
    \/ \E k \in Keys : GCKey(k)
    \/ GCEnd

Next ==
    \/ GCStart \/ GCStep \/ Cancel \/ StreamCut \/ IterCut \/ GCFails
    \/ \E k \in Keys : PutData(k)
    \/ \E s \in Stmts : Publish(s) \/ DeleteStatement(s)
    \/ GoOnline \/ GoOffline

Spec == Init /\ [][Next]_vars

(* The goroutine of a request that can run is run eventually. *)
FairSpec == Spec /\ WF_vars(GCStep)

-----------------------------------------------------------------------------
(* Properties *)

(* Where the values lie; what is still to come of the stream and of the    *)
(* walk is part of the snapshot each of them began with.                   *)
TypeOK ==
    /\ stmts \subseteq Stmts /\ objs \subseteq Keys
    /\ status \in {"offline", "online"}
    /\ gc \in {"idle", "open", "stream", "iter", "delete"} /\ cancelled \in BOOLEAN
    /\ snap \subseteq Stmts /\ rows \subseteq snap
    /\ keys \subseteq Keys /\ refs \subseteq Keys
    /\ walk \subseteq Keys /\ iter \subseteq walk
    /\ cut \subseteq {"stream", "walk"} /\ fresh \subseteq Keys

(* Unless its stream was cut short, a collection deletes no object of a    *)
(* well-formed statement that was in the db when its stream began,         *)
(* whatever is published, put, deleted or switched meanwhile.              *)
SnapshotKept ==
    [][\A k \in Keys :
          k \in objs \ objs' /\ "stream" \notin cut =>
             \A s \in snap : WellFormed(s) => k \notin ObjectsOf(s)]_vars

(* The keys of the rows read are never lost on their way to refs: they are *)
(* in it, or in the batch that will be; when the walk begins, refs holds   *)
(* the keys of the whole snapshot.                                         *)
KeysCollected ==
    /\ gc \in {"stream", "iter", "delete"} /\ "stream" \notin cut =>
          Collected(snap \ rows) = refs \cup keys
    /\ gc \in {"iter", "delete"} => rows = {} /\ keys = {}

(* When a collection that nothing cut short ends, every object it found    *)
(* when its walk began is referenced, gone, or was put again since.        *)
OrphansCollected ==
    [][GCEnd /\ cut = {} => \A k \in walk \cap objs : k \in Referenced(snap) \cup fresh]_vars

(* A collection ends, however many requests keep adding statements and     *)
(* objects: both loops run over a snapshot.                                *)
GCTerminates == gc # "idle" ~> gc = "idle"

(* "deletes objects unreferenced by any statement" (README): no object     *)
(* goes that a statement of the db refers to at that moment.               *)
DeletesOnlyUnreferenced == [][(objs \ objs') \cap Referenced(stmts) = {}]_vars

=============================================================================
