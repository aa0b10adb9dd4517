------------------------------ MODULE Directory ------------------------------
(***************************************************************************)
(* Registration with the directory: the directory's registration handlers, *)
(* its peer table and its manifest store (mcdir/dir.go, proto.go, mfs.go), *)
(* and the loop in which a public node registers and keeps registering     *)
(* (mcnode/net.go, registerPeer and registerPeerImpl).                     *)
(*                                                                         *)
(* Each connection of a node is a stream of its own, with a handler of its *)
(* own in the directory: a handler that has not noticed the end of its     *)
(* stream runs beside the handler of the node's next one. A registration   *)
(* (addresses, namespaces and a list of manifests) is an element of Regs.  *)
(* The lock of the peer table is held for one access at a time and is not  *)
(* modelled; the lock of the manifest store is, because putManifest lets   *)
(* go of it while it looks a key up.                                       *)
(***************************************************************************)
EXTENDS Naturals, Sequences

CONSTANTS
    Peers,          \* nodes
    Regs,           \* the registrations a node may send
    BadRegs,        \* those registerHandler rejects: no, bad or bogus peer info
    RegsOf,         \* RegsOf[p]: the registrations node p may send
    Manifests,      \* manifests, by their hash
    ManifestsOf,    \* ManifestsOf[r]: the list of manifests in a registration
    KeyOf,          \* KeyOf[m]: entity and key id of a manifest
    Verified,       \* the manifests whose signature verifies
    None,           \* no peer, no registration, nobody
    MaxConns,       \* bound: MaxConns[p], the connections node p makes
    MaxChanges,     \* bound: changes of a node's registration
    MaxRestarts     \* bound: restarts of the directory

Streams == UNION {{p} \X (1..MaxConns[p]) : p \in Peers}
KeyIds == {KeyOf[m] : m \in Manifests}

ASSUME BadRegsAssumption == BadRegs \subseteq Regs
ASSUME RegsOfAssumption == RegsOf \in [Peers -> SUBSET Regs]
ASSUME ManifestsOfAssumption == ManifestsOf \in [Regs -> Seq(Manifests)]
ASSUME KeyOfAssumption == DOMAIN KeyOf = Manifests
ASSUME VerifiedAssumption == Verified \subseteq Manifests
ASSUME NoneAssumption == None \notin Peers \cup Regs \cup Streams
ASSUME BoundsAssumption == MaxConns \in [Peers -> Nat] /\ {MaxChanges, MaxRestarts} \subseteq Nat

VARIABLES
    \* the nodes
    npc,            \* npc[p]: "off", "connect" or "open"
    conn,           \* conn[p]: how many connections p has made
    reg,            \* reg[p]: what p registers
    changes,        \* changes of any reg so far
    \* the streams
    inbox,          \* inbox[s]: registrations sent and not yet read
    eof,            \* the streams that have ended
    \* the directory
    hpc,            \* hpc[s]: where the handler of s is
    todo,           \* todo[s]: the manifests it has still to put
    peers,          \* peers[p]: the record of p, or None
    mf,             \* mf[m]: the source of a stored manifest, or None
    keys,           \* the entity keys known
    lock,           \* the handler that holds the lock of the manifest store
    restarts        \* restarts so far

nodeVars == <<npc, conn, reg, changes>>
dirVars == <<hpc, todo, peers, mf, keys, lock, restarts>>
vars == <<nodeVars, inbox, eof, dirVars>>

Current(p) == <<p, conn[p]>>
Owner(s) == s[1]

-----------------------------------------------------------------------------

Init ==
    /\ npc = [p \in Peers |-> "off"] /\ conn = [p \in Peers |-> 0]
    /\ reg \in [Peers -> Regs] /\ (\A p \in Peers : reg[p] \in RegsOf[p])
    /\ changes = 0
    /\ inbox = [s \in Streams |-> <<>>] /\ eof = {}
    /\ hpc = [s \in Streams |-> "none"] /\ todo = [s \in Streams |-> <<>>]
    /\ peers = [p \in Peers |-> None] /\ mf = [m \in Manifests |-> None] /\ keys = {}
    /\ lock = None /\ restarts = 0

-----------------------------------------------------------------------------
(* A node *)

GoPublic(p) ==
    /\ npc[p] = "off"
    /\ npc' = [npc EXCEPT ![p] = "connect"]
    /\ UNCHANGED <<conn, reg, changes, inbox, eof, dirVars>>

Connect(p) ==
    /\ npc[p] = "connect" /\ conn[p] < MaxConns[p]
    /\ npc' = [npc EXCEPT ![p] = "open"] /\ conn' = [conn EXCEPT ![p] = @ + 1]
    /\ hpc' = [hpc EXCEPT ![<<p, conn[p] + 1>>] = "start"]
    /\ UNCHANGED <<reg, changes, inbox, eof, todo, peers, mf, keys, lock, restarts>>

(* Every five minutes; a round without a public address sends nothing. One *)
(* registration is in flight at a time.                                    *)
Register(p) ==
    /\ npc[p] = "open"
    /\ Current(p) \notin eof /\ inbox[Current(p)] = <<>>
    /\ inbox' = [inbox EXCEPT ![Current(p)] = <<reg[p]>>]
    /\ UNCHANGED <<nodeVars, eof, dirVars>>

(* The write fails: the stream is closed and, later, registerPeer tries    *)
(* again.                                                                  *)
RegisterFails(p) ==
    /\ npc[p] = "open" /\ Current(p) \in eof
    /\ npc' = [npc EXCEPT ![p] = "connect"]
    /\ UNCHANGED <<conn, reg, changes, inbox, eof, dirVars>>

(* The network context is cancelled and the host closed. *)
GoOffline(p) ==
    /\ npc[p] # "off"
    /\ npc' = [npc EXCEPT ![p] = "off"]
    /\ eof' = IF npc[p] = "open" THEN eof \cup {Current(p)} ELSE eof
    /\ UNCHANGED <<conn, reg, changes, inbox, dirVars>>

(* The node's addresses, namespaces or manifests change. *)
Change(p) ==
    /\ changes < MaxChanges
    /\ \E r \in RegsOf[p] : r # reg[p] /\ reg' = [reg EXCEPT ![p] = r]
    /\ changes' = changes + 1
    /\ UNCHANGED <<npc, conn, inbox, eof, dirVars>>

(* The connection breaks, perhaps with a registration in flight. *)
Break(p) ==
    /\ npc[p] = "open" /\ Current(p) \notin eof
    /\ eof' = eof \cup {Current(p)}
    /\ inbox' \in {inbox, [inbox EXCEPT ![Current(p)] = <<>>]}
    /\ UNCHANGED <<nodeVars, dirVars>>

-----------------------------------------------------------------------------
(* The directory: registerHandler of a stream. It reads in "start" before   *)
(* the first registration, and in "read" after one.                        *)

(* Slip: only the first registration of a stream is handled. *)
HandleFirstRegister(s) ==
    /\ hpc[s] \in {"start", "read"} /\ inbox[s] # <<>>
    /\ inbox' = [inbox EXCEPT ![s] = Tail(@)]
    /\ LET r == Head(inbox[s]) IN
       IF r \in BadRegs
       THEN hpc' = [hpc EXCEPT ![s] = "unregister"] /\ UNCHANGED <<peers, todo>>
       ELSE /\ peers' = IF hpc[s] = "start" THEN [peers EXCEPT ![Owner(s)] = r] ELSE peers
            /\ todo' = [todo EXCEPT ![s] = ManifestsOf[r]]
            /\ hpc' = [hpc EXCEPT ![s] = IF ManifestsOf[r] # <<>> THEN "put" ELSE "read"]
    /\ UNCHANGED <<nodeVars, eof, mf, keys, lock, restarts>>

HandleRegister(s) ==
    /\ hpc[s] \in {"start", "read"} /\ inbox[s] # <<>>
    /\ inbox' = [inbox EXCEPT ![s] = Tail(@)]
    /\ LET r == Head(inbox[s]) IN
       IF r \in BadRegs
       THEN hpc' = [hpc EXCEPT ![s] = "unregister"] /\ UNCHANGED <<peers, todo>>
       ELSE /\ peers' = [peers EXCEPT ![Owner(s)] = r]
            /\ todo' = [todo EXCEPT ![s] = ManifestsOf[r]]
            /\ hpc' = [hpc EXCEPT ![s] = IF ManifestsOf[r] # <<>> THEN "put" ELSE "read"]
    /\ UNCHANGED <<nodeVars, eof, mf, keys, lock, restarts>>

(* Slip: the end of the stream taken for a message that is late. *)
ReadEndRetried(s) ==
    /\ hpc[s] \in {"start", "read"} /\ inbox[s] = <<>> /\ s \in eof
    /\ UNCHANGED vars

ReadEnd(s) ==
    /\ hpc[s] \in {"start", "read"} /\ inbox[s] = <<>> /\ s \in eof
    /\ hpc' = [hpc EXCEPT ![s] = "unregister"]
    /\ UNCHANGED <<nodeVars, inbox, eof, todo, peers, mf, keys, lock, restarts>>

(* The lock is let go of with the last manifest of the list. *)
NextManifest(s) ==
    /\ todo' = [todo EXCEPT ![s] = Tail(@)]
    /\ hpc' = [hpc EXCEPT ![s] = IF Len(todo[s]) > 1 THEN "put" ELSE "read"]
    /\ lock' = IF Len(todo[s]) > 1 THEN s ELSE None

StoreManifest(s, m) ==
    mf' = IF m \in Verified THEN [mf EXCEPT ![m] = Owner(s)] ELSE mf

(* One manifest of the list, with the lock: it is known, or its key is. *)
PutManifest(s) ==
    /\ hpc[s] = "put" /\ lock \in {None, s}
    /\ LET m == Head(todo[s]) IN
       IF mf[m] # None
       THEN NextManifest(s) /\ UNCHANGED mf
       ELSE KeyOf[m] \in keys /\ NextManifest(s) /\ StoreManifest(s, m)
    /\ UNCHANGED <<nodeVars, inbox, eof, peers, keys, restarts>>

(* Slip: the lock kept during the lookup. *)
StartLookupLocked(s) ==
    /\ hpc[s] = "put" /\ lock \in {None, s}
    /\ mf[Head(todo[s])] = None /\ KeyOf[Head(todo[s])] \notin keys
    /\ hpc' = [hpc EXCEPT ![s] = "lookup"] /\ lock' = s
    /\ UNCHANGED <<nodeVars, inbox, eof, todo, peers, mf, keys, restarts>>

(* The key has to be looked up, for which the lock is let go of. *)
StartLookup(s) ==
    /\ hpc[s] = "put" /\ lock \in {None, s}
    /\ mf[Head(todo[s])] = None /\ KeyOf[Head(todo[s])] \notin keys
    /\ hpc' = [hpc EXCEPT ![s] = "lookup"] /\ lock' = None
    /\ UNCHANGED <<nodeVars, inbox, eof, todo, peers, mf, keys, restarts>>

(* The lock is taken again. Whether the manifest has been stored meanwhile *)
(* is not looked at.                                                       *)
LookupKey(s) ==
    /\ hpc[s] = "lookup" /\ lock = None
    /\ keys' = keys \cup {KeyOf[Head(todo[s])]}
    /\ StoreManifest(s, Head(todo[s])) /\ NextManifest(s)
    /\ UNCHANGED <<nodeVars, inbox, eof, peers, restarts>>

LookupKeyFails(s) ==
    /\ hpc[s] = "lookup" /\ lock = None
    /\ NextManifest(s)
    /\ UNCHANGED <<nodeVars, inbox, eof, peers, mf, keys, restarts>>

(* Slip: the manifests left in place. *)
UnregisterOnly(s) ==
    /\ hpc[s] = "unregister"
    /\ peers' = [peers EXCEPT ![Owner(s)] = None]
    /\ hpc' = [hpc EXCEPT ![s] = "done"]
    /\ UNCHANGED <<nodeVars, inbox, eof, todo, mf, keys, lock, restarts>>

UnregisterPeer(s) ==
    /\ hpc[s] = "unregister"
    /\ peers' = [peers EXCEPT ![Owner(s)] = None]
    /\ hpc' = [hpc EXCEPT ![s] = "remove"]
    /\ UNCHANGED <<nodeVars, inbox, eof, todo, mf, keys, lock, restarts>>

RemoveManifests(s) ==
    /\ hpc[s] = "remove" /\ lock = None
    /\ mf' = [m \in Manifests |-> IF mf[m] = Owner(s) THEN None ELSE mf[m]]
    /\ hpc' = [hpc EXCEPT ![s] = "done"] /\ eof' = eof \cup {s}
    /\ UNCHANGED <<nodeVars, inbox, todo, peers, keys, lock, restarts>>

(* The directory keeps nothing: after a restart all is to be sent again. *)
Restart ==
    /\ restarts < MaxRestarts /\ restarts' = restarts + 1
    /\ eof' = {s \in Streams : hpc[s] # "none"}
    /\ inbox' = [s \in Streams |-> <<>>] /\ todo' = [s \in Streams |-> <<>>]
    /\ hpc' = [s \in Streams |-> IF hpc[s] = "none" THEN "none" ELSE "done"]
    /\ peers' = [p \in Peers |-> None] /\ mf' = [m \in Manifests |-> None]
    /\ keys' = {} /\ lock' = None
    /\ UNCHANGED nodeVars

-----------------------------------------------------------------------------

HandlerStep(s) ==
    \/ HandleRegister(s) \/ ReadEnd(s) \/ PutManifest(s) \/ StartLookup(s)
    \/ LookupKey(s) \/ LookupKeyFails(s) \/ UnregisterPeer(s) \/ RemoveManifests(s)
NodeStep(p) ==
    \/ GoPublic(p) \/ Connect(p) \/ Register(p) \/ RegisterFails(p)
    \/ GoOffline(p) \/ Change(p) \/ Break(p)

Next ==
    \/ \E p \in Peers : NodeStep(p)
    \/ \E s \in Streams : HandlerStep(s)
    \/ Restart

Spec == Init /\ [][Next]_vars

(* A handler that can run is run, which asks of LookupEntityKey that it    *)
(* returns and of the transport that it reports the end of a stream; a     *)
(* handler that keeps asking for the lock of the manifest store gets it    *)
(* (hence strong fairness); the node's timer goes off.                     *)
FairSpec ==
    /\ Spec
    /\ \A p \in Peers : WF_vars(Register(p))
    /\ \A s \in Streams : SF_vars(HandlerStep(s))

-----------------------------------------------------------------------------
(* Properties *)

(* Where the values of nodes, streams and directory lie; the holder of the *)
(* lock of the manifest store is in the middle of a list.                  *)
TypeOK ==
    /\ npc \in [Peers -> {"off", "connect", "open"}] /\ conn \in [Peers -> Nat]
    /\ reg \in [Peers -> Regs] /\ changes \in 0..MaxChanges
    /\ inbox \in [Streams -> Seq(Regs)] /\ eof \subseteq Streams
    /\ hpc \in [Streams -> {"none", "start", "read", "put", "lookup", "unregister", "remove", "done"}]
    /\ todo \in [Streams -> Seq(Manifests)]
    /\ peers \in [Peers -> Regs \cup {None}] /\ mf \in [Manifests -> Peers \cup {None}]
    /\ keys \subseteq KeyIds /\ restarts \in 0..MaxRestarts
    /\ lock \in Streams \cup {None} /\ (lock # None => hpc[lock] = "put")

Idle(s) == hpc[s] \in {"none", "done"}

(* Once all handlers of a node are done, the directory neither lists it    *)
(* nor serves a manifest that came from it: not even one whose key lookup  *)
(* ran while another of the node's handlers was cleaning up.               *)
NoGhosts ==
    \A p \in Peers :
        (\A s \in Streams : Owner(s) = p => Idle(s)) =>
            peers[p] = None /\ \A m \in Manifests : mf[m] # p

(* A stored manifest was verified, with a key that was looked up. *)
OnlyVerified == \A m \in Manifests : mf[m] # None => m \in Verified /\ KeyOf[m] \in keys

(* What p registers is in the directory: its record, and its manifests as  *)
(* far as their keys are known.                                            *)
Listed(p) ==
    /\ peers[p] = reg[p]
    /\ \A i \in DOMAIN ManifestsOf[reg[p]] :
          LET m == ManifestsOf[reg[p]][i] IN
          m \in Verified /\ KeyOf[m] \in keys => mf[m] # None

(* p stays connected, with a registration to make that is accepted, and    *)
(* the handlers of its former streams have finished.                       *)
Settled(p) ==
    /\ npc[p] = "open" /\ reg[p] \in Regs \ BadRegs /\ Current(p) \notin eof
    /\ hpc[Current(p)] \in {"start", "read", "put", "lookup"}
    /\ \A s \in Streams : Owner(s) = p /\ s # Current(p) => Idle(s)

(* A node that stays connected is in the end listed for good with what it  *)
(* registers now, whatever former handlers of its own, or other nodes that *)
(* sent the same manifests, took out of the directory.                     *)
EventuallyListed == \A p \in Peers : <>[]Settled(p) => <>[]Listed(p)

(* A node that went offline is in the end forgotten. *)
EventuallyForgotten ==
    \A p \in Peers : [](npc[p] = "off" => <>(peers[p] = None \/ npc[p] # "off"))

=============================================================================
