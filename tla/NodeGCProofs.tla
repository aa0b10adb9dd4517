---------------------------- MODULE NodeGCProofs ----------------------------
(***************************************************************************)
(* Proofs about NodeGC, for any statements, objects, batch size and mix of *)
(* concurrent requests and faults.                                         *)
(***************************************************************************)
EXTENDS NodeGC, TLAPS

LEMMA AddKeysBound ==
    \A s \in Stmts : /\ AddKeys(s) \subseteq ObjectsOf(s)
                     /\ WellFormed(s) => AddKeys(s) = ObjectsOf(s)
                     /\ ObjectsOf(s) \subseteq Keys
<1> SUFFICES ASSUME NEW s \in Stmts
             PROVE  /\ AddKeys(s) \subseteq ObjectsOf(s)
                    /\ WellFormed(s) => AddKeys(s) = ObjectsOf(s)
                    /\ ObjectsOf(s) \subseteq Keys
  OBVIOUS
<1>1. s \in Seq(Parts)
  BY StmtsAssumption, Zenon
<1>2. DOMAIN s = 1..Len(s) /\ Len(s) \in Nat
  BY <1>1
<1>3. \A i \in DOMAIN s : s[i].keys \subseteq Keys
  <2>1. \A i \in DOMAIN s : s[i] \in Parts
    BY <1>1, <1>2
  <2> QED BY <2>1 DEF Parts
<1>4. AddKeys(s) \subseteq ObjectsOf(s)
  BY DEF AddKeys, ObjectsOf
<1>5. ASSUME WellFormed(s)
      PROVE  {j \in DOMAIN s : \A h \in 1..j : s[h].known} = DOMAIN s
  BY <1>2, <1>5 DEF WellFormed
<1>6. WellFormed(s) => AddKeys(s) = ObjectsOf(s)
  BY <1>5 DEF AddKeys, ObjectsOf
<1>7. ObjectsOf(s) \subseteq Keys
  BY <1>3 DEF ObjectsOf
<1> QED BY <1>4, <1>6, <1>7

LEMMA CollectedMore ==
    ASSUME NEW S, NEW s
    PROVE  Collected(S \cup {s}) = Collected(S) \cup AddKeys(s)
<1>1. ASSUME NEW T, NEW k
      PROVE  k \in Collected(T) <=> \E x \in T : k \in AddKeys(x)
  BY DEF Collected
<1> QED BY <1>1

(* What the walk has still to decide: an object of its snapshot that is    *)
(* neither to come, nor referenced, nor put again, is gone.                *)
WalkDecides ==
    gc = "delete" /\ "walk" \notin cut => walk \cap objs \subseteq iter \cup refs \cup fresh

(* refs never exceeds what the snapshot refers to. *)
RefsBounded ==
    /\ refs \cup keys \subseteq Referenced(snap)
    /\ gc \in {"idle", "open"} => rows = {} /\ keys = {} /\ refs = {}

Inv == TypeOK /\ KeysCollected /\ WalkDecides /\ RefsBounded

LEMMA InitInv == Init => Inv
<1> SUFFICES ASSUME Init PROVE Inv
  OBVIOUS
<1>1. cancelled \in BOOLEAN
  BY Zenon DEF Init
<1>2. TypeOK
  BY <1>1 DEF Init, TypeOK
<1> QED BY <1>2 DEF Init, Inv, KeysCollected, WalkDecides, RefsBounded

LEMMA NextInv == Inv /\ [Next]_vars => Inv'
<1> SUFFICES ASSUME Inv, [Next]_vars PROVE Inv'
  OBVIOUS
<1> USE DEF Inv
<1>1. ASSUME NEW k \in Keys, PutData(k) PROVE Inv'
  BY <1>1 DEF PutData, gcVars, TypeOK, KeysCollected, WalkDecides, RefsBounded
<1>2. ASSUME NEW s \in Stmts, Publish(s) \/ DeleteStatement(s) PROVE Inv'
  BY <1>2 DEF Publish, DeleteStatement, gcVars, TypeOK, KeysCollected, WalkDecides, RefsBounded
<1>3. CASE GoOnline \/ GoOffline
  BY <1>3 DEF GoOnline, GoOffline, gcVars, TypeOK, KeysCollected, WalkDecides, RefsBounded
<1>4. CASE GCStart
  BY <1>4 DEF GCStart, TypeOK, KeysCollected, WalkDecides, RefsBounded
<1>5. CASE Cancel
  BY <1>5 DEF Cancel, TypeOK, KeysCollected, WalkDecides, RefsBounded
<1>6. CASE StreamOpen
  <2>1. TypeOK'
    BY <1>6 DEF StreamOpen, TypeOK
  <2>2. KeysCollected'
    <3>1. snap' \ rows' = {} /\ refs' \cup keys' = {} /\ gc' = "stream"
      BY <1>6 DEF StreamOpen, RefsBounded
    <3>2. Collected({}) = {}
      BY DEF Collected
    <3> QED BY <3>1, <3>2 DEF KeysCollected
  <2> QED BY <1>6, <2>1, <2>2 DEF StreamOpen, WalkDecides, RefsBounded
<1>7. CASE StreamRow
  <2>1. PICK s \in rows :
           /\ rows' = rows \ {s}
           /\ keys' = IF Cardinality(keys \cup AddKeys(s)) >= Batch THEN {} ELSE keys \cup AddKeys(s)
           /\ refs' = IF Cardinality(keys \cup AddKeys(s)) >= Batch
                      THEN refs \cup (keys \cup AddKeys(s)) ELSE refs
    BY <1>7 DEF StreamRow
  <2>2. s \in Stmts /\ s \in snap
    BY DEF TypeOK
  <2>3. AddKeys(s) \subseteq ObjectsOf(s) /\ ObjectsOf(s) \subseteq Keys
    BY <2>2, AddKeysBound
  <2>4. refs' \cup keys' = refs \cup keys \cup AddKeys(s)
    BY <2>1
  <2>5. UNCHANGED <<stmts, objs, status, gc, cancelled, snap, walk, iter, cut, fresh>>
    BY <1>7 DEF StreamRow
  <2>6. TypeOK'
    BY <2>1, <2>3, <2>5 DEF TypeOK
  <2>7. KeysCollected'
    <3>1. snap' \ rows' = (snap \ rows) \cup {s}
      BY <2>1, <2>2, <2>5
    <3>2. Collected(snap' \ rows') = Collected(snap \ rows) \cup AddKeys(s)
      BY <3>1, CollectedMore
    <3> QED BY <1>7, <2>4, <2>5, <3>2 DEF StreamRow, KeysCollected
  <2>8. RefsBounded'
    <3>1. AddKeys(s) \subseteq Referenced(snap)
      BY <2>2, <2>3 DEF Referenced
    <3> QED BY <1>7, <2>4, <2>5, <3>1 DEF StreamRow, RefsBounded
  <2> QED BY <1>7, <2>5, <2>6, <2>7, <2>8 DEF StreamRow, WalkDecides
<1>8. CASE StreamCut
  BY <1>8 DEF StreamCut, TypeOK, KeysCollected, WalkDecides, RefsBounded
<1>9. CASE StreamEnd
  <2>1. refs' \cup keys' = refs \cup keys
    BY <1>9 DEF StreamEnd
  <2> QED BY <1>9, <2>1 DEF StreamEnd, TypeOK, KeysCollected, WalkDecides, RefsBounded
<1>10. CASE IterOpen
  BY <1>10 DEF IterOpen, TypeOK, KeysCollected, WalkDecides, RefsBounded
<1>11. ASSUME NEW k \in Keys, GCKey(k) PROVE Inv'
  BY <1>11 DEF GCKey, TypeOK, KeysCollected, WalkDecides, RefsBounded
<1>12. CASE IterCut
  BY <1>12 DEF IterCut, TypeOK, KeysCollected, WalkDecides, RefsBounded
<1>13. CASE Return
  <2>1. cancelled' \in BOOLEAN
    BY <1>13, Zenon DEF Return
  <2> QED BY <1>13, <2>1 DEF Return, TypeOK, KeysCollected, WalkDecides, RefsBounded
<1>14. CASE UNCHANGED vars
  BY <1>14 DEF vars, gcVars, TypeOK, KeysCollected, WalkDecides, RefsBounded
<1> QED
  BY <1>1, <1>2, <1>3, <1>4, <1>5, <1>6, <1>7, <1>8, <1>9, <1>10, <1>11, <1>12, <1>13, <1>14
     DEF Next, GCStep, GCEnd, GCFails

(* The batches of GCDB.Merge lose no key: while rows are read refs and the *)
(* batch at hand hold the keys of the rows so far.                         *)
THEOREM CollectionLosesNoKey == Spec => []KeysCollected
<1>1. Inv => KeysCollected
  BY DEF Inv
<1> QED BY <1>1, InitInv, NextInv, PTL DEF Spec

(* A collection whose stream was not cut keeps every object of the         *)
(* statements its stream began with, under any concurrent requests.        *)
THEOREM SnapshotIsKept == Spec => SnapshotKept
<1> DEFINE Kept == \A k \in Keys :
                      k \in objs \ objs' /\ "stream" \notin cut =>
                         \A s \in snap : WellFormed(s) => k \notin ObjectsOf(s)
<1>1. Inv /\ [Next]_vars => [Kept]_vars
  <2> SUFFICES ASSUME Inv, Next,
                      NEW k \in Keys, k \in objs \ objs', "stream" \notin cut,
                      NEW s \in snap, WellFormed(s)
               PROVE  k \notin ObjectsOf(s)
    OBVIOUS
  <2>1. GCKey(k) /\ k \notin refs
    BY DEF Next, GCStart, GCStep, Cancel, StreamCut, IterCut, GCFails, PutData, Publish,
           DeleteStatement, GoOnline, GoOffline, StreamOpen, StreamRow, StreamEnd, IterOpen,
           GCKey, GCEnd, Return
  <2>2. AddKeys(s) \subseteq refs
    <3>1. s \in snap \ rows /\ keys = {} /\ Collected(snap \ rows) = refs \cup keys
      BY <2>1 DEF GCKey, Inv, KeysCollected
    <3> QED BY <3>1 DEF Collected
  <2>3. AddKeys(s) = ObjectsOf(s)
    BY AddKeysBound DEF Inv, TypeOK
  <2> QED BY <2>1, <2>2, <2>3
<1> QED BY <1>1, InitInv, NextInv, PTL DEF Spec, SnapshotKept

(* A collection that nothing cut short leaves, of the objects it found, no *)
(* orphan but those that were put again.                                   *)
THEOREM OrphansAreCollected == Spec => OrphansCollected
<1> DEFINE NoOrphan == GCEnd /\ cut = {} => \A k \in walk \cap objs : k \in Referenced(snap) \cup fresh
<1>1. Inv /\ [Next]_vars => [NoOrphan]_vars
  BY DEF Inv, WalkDecides, RefsBounded, GCEnd
<1> QED BY <1>1, InitInv, NextInv, PTL DEF Spec, OrphansCollected

=============================================================================
