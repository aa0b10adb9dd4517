--------------------------- MODULE DirectoryProofs ---------------------------
(***************************************************************************)
(* Proofs about Directory, for any number of nodes, connections, restarts  *)
(* and registrations.                                                      *)
(***************************************************************************)
EXTENDS Directory, TLAPS

(* Of a node that is listed, some handler has yet to unregister it; of the *)
(* source of a manifest, some handler has yet to remove its manifests.     *)
PeersHeld ==
    \A p \in Peers : peers[p] # None =>
        \E s \in Streams : Owner(s) = p /\ hpc[s] \in {"read", "put", "lookup", "unregister"}
ManifestsHeld ==
    \A m \in Manifests : mf[m] # None =>
        \E s \in Streams : /\ Owner(s) = mf[m]
                           /\ hpc[s] \in {"read", "put", "lookup", "unregister", "remove"}

(* A handler that puts manifests has one to put. *)
Putting == \A s \in Streams : hpc[s] \in {"put", "lookup"} => todo[s] # <<>>

(* Streams are used in their order. *)
Unused == \A p \in Peers, i \in Nat : i > conn[p] /\ <<p, i>> \in Streams => hpc[<<p, i>>] = "none"
Opened == \A p \in Peers : npc[p] = "open" => Current(p) \in Streams

Inv == TypeOK /\ PeersHeld /\ ManifestsHeld /\ Putting /\ Unused /\ Opened /\ OnlyVerified

LEMMA StreamsFacts ==
    /\ \A s \in Streams : Owner(s) \in Peers /\ s # None
    /\ \A p \in Peers, i \in Nat : i + 1 <= MaxConns[p] => <<p, i + 1>> \in Streams
    /\ \A p \in Peers : MaxConns[p] \in Nat
<1>1. \A p \in Peers : MaxConns[p] \in Nat
  BY BoundsAssumption
<1>2. \A p \in Peers, i \in Nat : i + 1 <= MaxConns[p] => <<p, i + 1>> \in Streams
  BY <1>1 DEF Streams
<1>3. \A s \in Streams : Owner(s) \in Peers
  BY DEF Streams, Owner
<1> QED BY <1>1, <1>2, <1>3, NoneAssumption

LEMMA InitInv == Init => Inv
<1> SUFFICES ASSUME Init PROVE Inv
  OBVIOUS
<1>1. TypeOK
  BY BoundsAssumption DEF Init, TypeOK
<1>2. PeersHeld /\ ManifestsHeld /\ Putting /\ Unused /\ Opened /\ OnlyVerified
  BY DEF Init, PeersHeld, ManifestsHeld, Putting, Unused, Opened, OnlyVerified
<1> QED BY <1>1, <1>2 DEF Inv

LEMMA ConnectInv ==
    ASSUME Inv, NEW p \in Peers, Connect(p)
    PROVE  Inv'
<1> DEFINE n == <<p, conn[p] + 1>>
<1>1. n \in Streams /\ conn[p] \in Nat /\ hpc[n] = "none"
  <2>1. conn[p] \in Nat /\ conn[p] + 1 <= MaxConns[p]
    BY StreamsFacts DEF Connect, Inv, TypeOK
  <2>2. n \in Streams
    BY <2>1, StreamsFacts
  <2>3. conn[p] + 1 > conn[p] /\ conn[p] + 1 \in Nat
    BY <2>1
  <2> QED BY <2>1, <2>2, <2>3 DEF Inv, Unused
<1>2. hpc'[n] = "start" /\ \A s \in Streams : s # n => hpc'[s] = hpc[s]
  BY <1>1 DEF Connect, Inv, TypeOK
<1>3. /\ npc' = [npc EXCEPT ![p] = "open"] /\ conn' = [conn EXCEPT ![p] = conn[p] + 1]
      /\ UNCHANGED <<reg, changes, inbox, eof, todo, peers, mf, keys, lock, restarts>>
  BY DEF Connect
<1>4. TypeOK'
  <2>1. hpc' \in [Streams -> {"none", "start", "read", "put", "lookup", "unregister", "remove", "done"}]
    BY <1>1 DEF Connect, Inv, TypeOK
  <2>2. npc' \in [Peers -> {"off", "connect", "open"}] /\ conn' \in [Peers -> Nat]
    BY <1>1, <1>3 DEF Inv, TypeOK
  <2>3. lock' # None => hpc'[lock'] = "put"
    BY <1>1, <1>2, <1>3 DEF Inv, TypeOK
  <2> QED BY <1>3, <2>1, <2>2, <2>3 DEF Inv, TypeOK
<1>5. PeersHeld' /\ ManifestsHeld' /\ Putting' /\ OnlyVerified'
  BY <1>1, <1>2, <1>3 DEF Inv, PeersHeld, ManifestsHeld, Putting, OnlyVerified
<1>6. Unused'
  <2> SUFFICES ASSUME NEW q \in Peers, NEW i \in Nat, i > conn'[q], <<q, i>> \in Streams
               PROVE  hpc'[<<q, i>>] = "none"
    BY DEF Unused
  <2>1. conn[q] \in Nat /\ conn'[q] = (IF q = p THEN conn[p] + 1 ELSE conn[q])
    BY <1>3 DEF Inv, TypeOK
  <2>2. i > conn[q] /\ <<q, i>> # n
    BY <1>1, <2>1
  <2> QED BY <1>2, <2>2 DEF Inv, Unused
<1>7. Opened'
  BY <1>1, <1>3 DEF Inv, Opened, Current, TypeOK
<1> QED BY <1>4, <1>5, <1>6, <1>7 DEF Inv

(* The other steps of a node leave the directory alone. *)
LEMMA NodeStepInv ==
    ASSUME Inv, NEW p \in Peers, NodeStep(p)
    PROVE  Inv'
<1>1. CASE Connect(p)
  BY <1>1, ConnectInv
<1>2. CASE ~Connect(p)
  <2>1. UNCHANGED <<dirVars, conn>>
    BY <1>2 DEF NodeStep, GoPublic, Register, RegisterFails, GoOffline, Change, Break, nodeVars
  <2>2. /\ npc' \in [Peers -> {"off", "connect", "open"}]
        /\ \A q \in Peers : npc'[q] = "open" => npc[q] = "open"
    <3>1. \/ npc' = npc
          \/ npc' = [npc EXCEPT ![p] = "connect"] \/ npc' = [npc EXCEPT ![p] = "off"]
      BY <1>2 DEF NodeStep, GoPublic, Register, RegisterFails, GoOffline, Change, Break, nodeVars
    <3> QED BY <3>1 DEF Inv, TypeOK
  <2>3. reg' \in [Peers -> Regs] /\ changes' \in 0..MaxChanges
    <3>1. CASE Change(p)
      <4>1. PICK r \in RegsOf[p] : reg' = [reg EXCEPT ![p] = r]
        BY <3>1 DEF Change
      <4>2. r \in Regs
        BY RegsOfAssumption
      <4>3. changes' = changes + 1 /\ changes < MaxChanges /\ changes \in 0..MaxChanges /\ MaxChanges \in Nat
        BY <3>1, BoundsAssumption DEF Change, Inv, TypeOK
      <4> QED BY <4>1, <4>2, <4>3 DEF Inv, TypeOK
    <3>2. CASE ~Change(p)
      <4>1. UNCHANGED <<reg, changes>>
        BY <1>2, <3>2 DEF NodeStep, GoPublic, Register, RegisterFails, GoOffline, Break, nodeVars
      <4> QED BY <4>1 DEF Inv, TypeOK
    <3> QED BY <3>1, <3>2
  <2>4. inbox' \in [Streams -> Seq(Regs)]
    <3>1. reg[p] \in Regs /\ inbox \in [Streams -> Seq(Regs)]
      BY DEF Inv, TypeOK
    <3>2. <<>> \in Seq(Regs) /\ <<reg[p]>> \in Seq(Regs)
      BY <3>1
    <3>3. \/ inbox' = inbox
          \/ inbox' = [inbox EXCEPT ![Current(p)] = <<>>]
          \/ inbox' = [inbox EXCEPT ![Current(p)] = <<reg[p]>>]
      BY <1>2 DEF NodeStep, GoPublic, Register, RegisterFails, GoOffline, Change, Break
    <3> QED BY <3>1, <3>2, <3>3
  <2>5. eof' \subseteq Streams
    BY <1>2 DEF NodeStep, GoPublic, Register, RegisterFails, GoOffline, Change, Break, Inv, TypeOK, Opened
  <2>6. TypeOK'
    BY <2>1, <2>2, <2>3, <2>5, <2>4 DEF Inv, TypeOK, dirVars
  <2>7. PeersHeld' /\ ManifestsHeld' /\ Putting' /\ Unused' /\ OnlyVerified'
    BY <2>1 DEF Inv, dirVars, PeersHeld, ManifestsHeld, Putting, Unused, OnlyVerified
  <2>8. Opened'
    BY <2>1, <2>2 DEF Inv, Opened, Current, dirVars
  <2> QED BY <2>6, <2>7, <2>8 DEF Inv
<1> QED BY <1>1, <1>2

(* A handler that runs is not at an unused stream, and stays at work. *)
LEMMA HandlerMoves ==
    ASSUME Inv, NEW s \in Streams, hpc[s] # "none", NEW x, hpc' = [hpc EXCEPT ![s] = x],
           UNCHANGED <<npc, conn>>
    PROVE  /\ Unused' /\ Opened'
           /\ hpc'[s] = x /\ \A t \in Streams \ {s} : hpc'[t] = hpc[t]
<1>1. hpc'[s] = x /\ \A t \in Streams \ {s} : hpc'[t] = hpc[t]
  BY DEF Inv, TypeOK
<1>2. Unused' /\ Opened'
  BY <1>1 DEF Inv, Unused, Opened, Current
<1> QED BY <1>1, <1>2

LEMMA HandleRegisterInv ==
    ASSUME Inv, NEW s \in Streams, HandleRegister(s)
    PROVE  Inv'
<1> DEFINE r == Head(inbox[s])
<1>1. inbox[s] \in Seq(Regs) /\ inbox[s] # <<>> /\ r \in Regs /\ Tail(inbox[s]) \in Seq(Regs)
  BY DEF HandleRegister, Inv, TypeOK
<1>2. ManifestsOf[r] \in Seq(Manifests) /\ Owner(s) \in Peers
  BY <1>1, ManifestsOfAssumption, StreamsFacts
<1>3. hpc[s] \in {"start", "read"} /\ inbox' = [inbox EXCEPT ![s] = Tail(inbox[s])]
      /\ UNCHANGED <<nodeVars, eof, mf, keys, lock, restarts>>
  BY DEF HandleRegister
<1>4. PICK x \in {"unregister", "put", "read"} :
         /\ hpc' = [hpc EXCEPT ![s] = x]
         /\ \/ x = "unregister" /\ UNCHANGED <<peers, todo>>
            \/ /\ peers' = [peers EXCEPT ![Owner(s)] = r] /\ todo' = [todo EXCEPT ![s] = ManifestsOf[r]]
               /\ x = (IF ManifestsOf[r] # <<>> THEN "put" ELSE "read")
  BY DEF HandleRegister
<1>5. Unused' /\ Opened' /\ hpc'[s] = x /\ \A t \in Streams \ {s} : hpc'[t] = hpc[t]
  BY <1>3, <1>4, HandlerMoves DEF nodeVars
<1>6. TypeOK'
  <2>1. hpc' \in [Streams -> {"none", "start", "read", "put", "lookup", "unregister", "remove", "done"}]
    BY <1>4 DEF Inv, TypeOK
  <2>2. inbox' \in [Streams -> Seq(Regs)]
    BY <1>1, <1>3 DEF Inv, TypeOK
  <2>3. peers' \in [Peers -> Regs \cup {None}]
    BY <1>1, <1>2, <1>4 DEF Inv, TypeOK
  <2>5. todo \in [Streams -> Seq(Manifests)] /\ ManifestsOf[r] \in Seq(Manifests)
    BY <1>1, ManifestsOfAssumption DEF Inv, TypeOK
  <2>6. todo' \in [Streams -> Seq(Manifests)]
    BY <1>4, <2>5
  <2>4. lock' # None => hpc'[lock'] = "put"
    BY <1>3, <1>5 DEF Inv, TypeOK
  <2> QED BY <1>3, <2>1, <2>2, <2>3, <2>4, <2>6 DEF Inv, TypeOK, nodeVars
<1>7. PeersHeld'
  <2> SUFFICES ASSUME NEW p \in Peers, peers'[p] # None
               PROVE  \E t \in Streams : Owner(t) = p /\ hpc'[t] \in {"read", "put", "lookup", "unregister"}
    BY DEF PeersHeld
  <2>1. CASE p = Owner(s)
    BY <1>4, <1>5, <2>1
  <2>2. CASE p # Owner(s)
    <3>1. peers[p] # None
      BY <1>4, <2>2 DEF Inv, TypeOK
    <3> QED BY <1>5, <2>2, <3>1 DEF Inv, PeersHeld
  <2> QED BY <2>1, <2>2
<1>8. ManifestsHeld' /\ OnlyVerified'
  BY <1>3, <1>4, <1>5 DEF Inv, ManifestsHeld, OnlyVerified
<1>9. Putting'
  BY <1>3, <1>4, <1>5 DEF Inv, Putting, TypeOK
<1> QED BY <1>5, <1>6, <1>7, <1>8, <1>9 DEF Inv

(* Putting one manifest, with its key known or just looked up. *)
LEMMA PutInv ==
    ASSUME Inv, NEW s \in Streams, PutManifest(s) \/ LookupKey(s) \/ LookupKeyFails(s)
    PROVE  Inv'
<1> DEFINE m == Head(todo[s])
           x == IF Len(todo[s]) > 1 THEN "put" ELSE "read"
<1>1. hpc[s] \in {"put", "lookup"} /\ lock \in {None, s}
      /\ UNCHANGED <<nodeVars, inbox, eof, peers, restarts>>
  BY DEF PutManifest, LookupKey, LookupKeyFails
<1>2. todo[s] \in Seq(Manifests) /\ todo[s] # <<>> /\ m \in Manifests /\ Tail(todo[s]) \in Seq(Manifests)
  BY <1>1 DEF Inv, TypeOK, Putting
<1>3. Owner(s) \in Peers /\ KeyOf[m] \in KeyIds /\ s # None
  BY <1>2, StreamsFacts DEF KeyIds
<1>4. NextManifest(s)
  BY DEF PutManifest, LookupKey, LookupKeyFails
<1>5. hpc' = [hpc EXCEPT ![s] = x] /\ todo' = [todo EXCEPT ![s] = Tail(todo[s])]
      /\ lock' = (IF Len(todo[s]) > 1 THEN s ELSE None)
  BY <1>4 DEF NextManifest
<1>6. Unused' /\ Opened' /\ hpc'[s] = x /\ \A t \in Streams \ {s} : hpc'[t] = hpc[t]
  BY <1>1, <1>5, HandlerMoves DEF nodeVars
<1>7. /\ keys \subseteq keys' /\ keys' \subseteq KeyIds
      /\ \/ mf' = mf
         \/ m \in Verified /\ KeyOf[m] \in keys' /\ mf' = [mf EXCEPT ![m] = Owner(s)]
  BY <1>3 DEF PutManifest, LookupKey, LookupKeyFails, StoreManifest, Inv, TypeOK
<1>8. TypeOK'
  <2>1. hpc' \in [Streams -> {"none", "start", "read", "put", "lookup", "unregister", "remove", "done"}]
    BY <1>5 DEF Inv, TypeOK
  <2>2. todo' \in [Streams -> Seq(Manifests)]
    BY <1>2, <1>5 DEF Inv, TypeOK
  <2>3. mf' \in [Manifests -> Peers \cup {None}]
    BY <1>2, <1>3, <1>7 DEF Inv, TypeOK
  <2>4. lock' \in Streams \cup {None} /\ (lock' # None => hpc'[lock'] = "put")
    BY <1>5, <1>6
  <2> QED BY <1>1, <1>7, <2>1, <2>2, <2>3, <2>4 DEF Inv, TypeOK, nodeVars
<1>9. PeersHeld'
  BY <1>1, <1>6 DEF Inv, PeersHeld
<1>10. ManifestsHeld'
  <2> SUFFICES ASSUME NEW k \in Manifests, mf'[k] # None
               PROVE  \E t \in Streams : /\ Owner(t) = mf'[k]
                                         /\ hpc'[t] \in {"read", "put", "lookup", "unregister", "remove"}
    BY DEF ManifestsHeld
  <2>1. CASE mf'[k] = Owner(s)
    BY <1>6, <2>1
  <2>2. CASE mf'[k] # Owner(s)
    <3>1. mf'[k] = mf[k]
      BY <1>2, <1>7, <2>2 DEF Inv, TypeOK
    <3> QED BY <1>6, <2>2, <3>1 DEF Inv, ManifestsHeld
  <2> QED BY <2>1, <2>2
<1>11. Putting'
  <2>1. Len(todo[s]) > 1 => Tail(todo[s]) # <<>>
    <3> DEFINE q == todo[s]
    <3>1. q \in Seq(Manifests) /\ q # <<>>
      BY <1>2
    <3> HIDE DEF q
    <3>2. Len(Tail(q)) = Len(q) - 1 /\ Len(q) \in Nat /\ Len(<<>>) = 0
      BY <3>1
    <3>3. Len(q) > 1 => Tail(q) # <<>>
      BY <3>2
    <3> QED BY <3>3 DEF q
  <2> QED BY <1>5, <1>6, <2>1 DEF Inv, Putting, TypeOK
<1>12. OnlyVerified'
  BY <1>2, <1>7 DEF Inv, OnlyVerified, TypeOK
<1> QED BY <1>6, <1>8, <1>9, <1>10, <1>11, <1>12 DEF Inv

LEMMA OtherHandlerInv ==
    ASSUME Inv, NEW s \in Streams, ReadEnd(s) \/ StartLookup(s) \/ UnregisterPeer(s) \/ RemoveManifests(s)
    PROVE  Inv'
<1>1. /\ hpc[s] # "none" /\ hpc[s] # "done"
      /\ UNCHANGED <<nodeVars, inbox, todo, keys, restarts>>
  BY DEF ReadEnd, StartLookup, UnregisterPeer, RemoveManifests
<1>2. PICK x \in {"unregister", "lookup", "remove", "done"} :
         /\ hpc' = [hpc EXCEPT ![s] = x]
         /\ x = "unregister" => hpc[s] \in {"start", "read"} /\ UNCHANGED <<peers, mf, lock>>
         /\ x = "lookup" => hpc[s] = "put" /\ lock' = None /\ UNCHANGED <<peers, mf>>
         /\ x = "remove" => /\ hpc[s] = "unregister" /\ peers' = [peers EXCEPT ![Owner(s)] = None]
                            /\ UNCHANGED <<mf, lock>>
         /\ x = "done" => /\ hpc[s] = "remove" /\ UNCHANGED <<peers, lock>>
                          /\ mf' = [m \in Manifests |-> IF mf[m] = Owner(s) THEN None ELSE mf[m]]
  BY DEF ReadEnd, StartLookup, UnregisterPeer, RemoveManifests
<1>3. Unused' /\ Opened' /\ hpc'[s] = x /\ \A t \in Streams \ {s} : hpc'[t] = hpc[t]
  BY <1>1, <1>2, HandlerMoves DEF nodeVars
<1>4. Owner(s) \in Peers /\ s # None
  BY StreamsFacts
<1>5. TypeOK'
  <2>1. hpc' \in [Streams -> {"none", "start", "read", "put", "lookup", "unregister", "remove", "done"}]
    BY <1>2 DEF Inv, TypeOK
  <2>2. eof' \subseteq Streams
    BY DEF ReadEnd, StartLookup, UnregisterPeer, RemoveManifests, Inv, TypeOK
  <2>3. peers' \in [Peers -> Regs \cup {None}] /\ mf' \in [Manifests -> Peers \cup {None}]
    BY <1>2, <1>4 DEF Inv, TypeOK
  <2>4. lock' \in Streams \cup {None} /\ (lock' # None => hpc'[lock'] = "put")
    BY <1>2, <1>3 DEF Inv, TypeOK
  <2> QED BY <1>1, <2>1, <2>2, <2>3, <2>4 DEF Inv, TypeOK, nodeVars
<1>6. PeersHeld'
  <2> SUFFICES ASSUME NEW p \in Peers, peers'[p] # None
               PROVE  \E t \in Streams : Owner(t) = p /\ hpc'[t] \in {"read", "put", "lookup", "unregister"}
    BY DEF PeersHeld
  <2>1. peers[p] # None /\ (x \in {"remove", "done"} => p # Owner(s) \/ x = "done")
    BY <1>2, <1>4 DEF Inv, TypeOK
  <2>2. PICK t \in Streams : Owner(t) = p /\ hpc[t] \in {"read", "put", "lookup", "unregister"}
    BY <2>1 DEF Inv, PeersHeld
  <2>3. CASE t # s
    BY <1>3, <2>2, <2>3
  <2>4. CASE t = s
    BY <1>2, <1>3, <2>1, <2>2, <2>4
  <2> QED BY <2>3, <2>4
<1>7. ManifestsHeld'
  <2> SUFFICES ASSUME NEW m \in Manifests, mf'[m] # None
               PROVE  \E t \in Streams : /\ Owner(t) = mf'[m]
                                         /\ hpc'[t] \in {"read", "put", "lookup", "unregister", "remove"}
    BY DEF ManifestsHeld
  <2>1. mf'[m] = mf[m] /\ (x = "done" => mf[m] # Owner(s))
    BY <1>2
  <2>2. PICK t \in Streams : Owner(t) = mf[m] /\ hpc[t] \in {"read", "put", "lookup", "unregister", "remove"}
    BY <2>1 DEF Inv, ManifestsHeld
  <2>3. CASE t # s
    BY <1>3, <2>1, <2>2, <2>3
  <2>4. CASE t = s
    BY <1>2, <1>3, <2>1, <2>2, <2>4
  <2> QED BY <2>3, <2>4
<1>8. Putting'
  BY <1>1, <1>2, <1>3 DEF Inv, Putting
<1>9. OnlyVerified'
  BY <1>1, <1>2 DEF Inv, OnlyVerified
<1> QED BY <1>3, <1>5, <1>6, <1>7, <1>8, <1>9 DEF Inv

LEMMA RestartInv == Inv /\ Restart => Inv'
<1> SUFFICES ASSUME Inv, Restart PROVE Inv'
  OBVIOUS
<1>1. TypeOK'
  BY BoundsAssumption DEF Restart, Inv, TypeOK, nodeVars
<1>2. PeersHeld' /\ ManifestsHeld' /\ Putting' /\ OnlyVerified'
  BY DEF Restart, PeersHeld, ManifestsHeld, Putting, OnlyVerified
<1>3. Unused' /\ Opened'
  BY DEF Restart, nodeVars, Inv, Unused, Opened, Current
<1> QED BY <1>1, <1>2, <1>3 DEF Inv

LEMMA NextInv == Inv /\ [Next]_vars => Inv'
<1> SUFFICES ASSUME Inv, [Next]_vars PROVE Inv'
  OBVIOUS
<1>1. ASSUME NEW p \in Peers, NodeStep(p) PROVE Inv'
  BY <1>1, NodeStepInv
<1>2. ASSUME NEW s \in Streams, HandlerStep(s) PROVE Inv'
  BY <1>2, HandleRegisterInv, PutInv, OtherHandlerInv DEF HandlerStep
<1>3. CASE Restart
  BY <1>3, RestartInv
<1>4. CASE UNCHANGED vars
  BY <1>4 DEF vars, nodeVars, dirVars, Inv, TypeOK, PeersHeld, ManifestsHeld, Putting, Unused, Opened,
              Current, OnlyVerified
<1> QED BY <1>1, <1>2, <1>3, <1>4 DEF Next

LEMMA InvSuffices == Inv => TypeOK /\ NoGhosts /\ OnlyVerified
<1> SUFFICES ASSUME Inv PROVE NoGhosts
  BY DEF Inv
<1> QED BY NoneAssumption DEF Inv, NoGhosts, PeersHeld, ManifestsHeld, Idle

LEMMA InvAlways == Spec => []Inv
BY InitInv, NextInv, PTL DEF Spec

-----------------------------------------------------------------------------

(* Type correctness of the directory; the lock of the manifest store is    *)
(* held only by a handler in the middle of a list.                         *)
THEOREM TypeCorrect == Spec => []TypeOK
BY InvAlways, InvSuffices, PTL

(* registerHandler leaves nothing behind: when all handlers of a node are  *)
(* done, neither its record nor a manifest from it is in the directory,    *)
(* for any interleaving of handlers, key lookups and restarts.             *)
THEOREM NothingLeftBehind == Spec => []NoGhosts
BY InvAlways, InvSuffices, PTL

(* The manifest store holds verified manifests only. *)
THEOREM StoreHoldsVerified == Spec => []OnlyVerified
BY InvAlways, InvSuffices, PTL

=============================================================================
