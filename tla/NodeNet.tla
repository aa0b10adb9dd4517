-------------------------------- MODULE NodeNet --------------------------------
(***************************************************************************)
(* The life cycle of a node's network (mcnode/net.go): goOffline, goOnline *)
(* and goPublic, called by requests to /status/{state}, and the goroutines *)
(* that live on a network: registerPeer for each directory, registerPeerDHT *)
(* and the workers of lookups.                                             *)
(*                                                                         *)
(* The calls hold node.mx; the goroutines read status, host, dht and       *)
(* netCtx without it. A network is a number, the networks are numbered as  *)
(* they are made, and 0 is nil. A goroutine that uses a nil host or dht    *)
(* panics, and the process with it: nothing recovers from it there.        *)
(***************************************************************************)
EXTENDS Naturals

CONSTANTS
    Callers,        \* requests to change the status, at a time
    Dirs,           \* the directories that may be configured
    None,           \* nobody
    MaxNets         \* bound: networks that are made

ASSUME NoneAssumption == None \notin Callers
ASSUME BoundsAssumption == MaxNets \in Nat

VARIABLES
    status,         \* node.status
    net,            \* node.netCtx
    host, dht,      \* node.host and node.dht
    cancelled,      \* the networks whose context is cancelled
    closed,         \* the networks whose host is closed
    mx,             \* the caller that holds node.mx
    dir,            \* node.dir
    cpc,            \* cpc[c]: where a caller is
    rpc,            \* rpc[l]: where the registerPeer of network and directory l is
    stream,         \* stream[l]: the network of its stream
    late,           \* history: late[l], the registrations it sent after its end was ordered
    dpc,            \* dpc[g]: where the registerPeerDHT of network g is
    worker,         \* a worker of a lookup: the network it found up, or 0
    crash           \* history: the network whose goroutine panicked, or 0

Nets == 1..MaxNets
Loops == Nets \X Dirs

netVars == <<status, net, host, dht, cancelled, closed>>
loopVars == <<rpc, stream, late>>
vars == <<netVars, mx, dir, cpc, loopVars, dpc, worker, crash>>

Init ==
    /\ status = "offline" /\ net = 0 /\ host = 0 /\ dht = 0
    /\ cancelled = {} /\ closed = {}
    /\ mx = None /\ dir = {} /\ cpc = [c \in Callers |-> "idle"]
    /\ rpc = [l \in Loops |-> "none"] /\ stream = [l \in Loops |-> 0] /\ late = [l \in Loops |-> 0]
    /\ dpc = [g \in Nets |-> "none"] /\ worker = 0 /\ crash = 0

-----------------------------------------------------------------------------
(* The calls. One that does not find the status it is for only returns.    *)

Goto(c, to) == cpc' = [cpc EXCEPT ![c] = to]
Unlock(c) == mx' = None /\ Goto(c, "idle")

(* httpConfigDirSet. *)
ConfigDir(D) ==
    /\ dir # D /\ dir' = D
    /\ UNCHANGED <<netVars, mx, cpc, loopVars, dpc, worker, crash>>

(* goPublic looks for a directory before it takes the lock. *)
Request(c, call) ==
    /\ cpc[c] = "idle" /\ (call = "public" => dir # {})
    /\ Goto(c, call)
    /\ UNCHANGED <<netVars, mx, dir, loopVars, dpc, worker, crash>>

Lock(c, call, to) == cpc[c] = call /\ mx = None /\ mx' = c /\ Goto(c, to)

Nothing(c) ==
    /\ mx = None
    /\ \/ cpc[c] = "offline" /\ status = "offline"
       \/ cpc[c] = "online" /\ status # "offline"
       \/ cpc[c] = "public" /\ status = "public"
    /\ Goto(c, "idle")
    /\ UNCHANGED <<netVars, mx, dir, loopVars, dpc, worker, crash>>

(* Slip: the DHT closed and the context forgotten. *)
OfflineUncancelled(c) ==
    /\ Lock(c, "offline", "close") /\ status # "offline"
    /\ dht' = 0
    /\ UNCHANGED <<status, net, host, cancelled, closed, dir, loopVars, dpc, worker, crash>>

(* goOffline cancels the context, *)
Offline(c) ==
    /\ Lock(c, "offline", "close") /\ status # "offline"
    /\ cancelled' = cancelled \cup {net}
    /\ UNCHANGED <<status, net, host, dht, closed, dir, loopVars, dpc, worker, crash>>

(* closes the DHT and the host, one after the other and in any time, *)
CloseDHT(c) ==
    /\ cpc[c] = "close" /\ Goto(c, "closehost")
    /\ dht' = 0
    /\ UNCHANGED <<status, net, host, cancelled, closed, mx, dir, loopVars, dpc, worker, crash>>

CloseHost(c) ==
    /\ cpc[c] = "closehost" /\ Goto(c, "down")
    /\ closed' = closed \cup {host} /\ host' = 0
    /\ UNCHANGED <<status, net, dht, cancelled, mx, dir, loopVars, dpc, worker, crash>>

(* and is then offline. *)
Down(c) ==
    /\ cpc[c] = "down" /\ Unlock(c)
    /\ status' = "offline"
    /\ UNCHANGED <<net, host, dht, cancelled, closed, dir, loopVars, dpc, worker, crash>>

(* _goOnline: a new network, or an error that leaves everything as it is.  *)
(* goPublic then sleeps for five seconds.                                  *)
NewNet(c) ==
    /\ \/ Lock(c, "online", "up")
       \/ Lock(c, "public", "sleep")
    /\ status = "offline" /\ net < MaxNets
    /\ net' = net + 1 /\ host' = net + 1 /\ dht' = net + 1
    /\ UNCHANGED <<status, cancelled, closed, dir, loopVars, dpc, worker, crash>>

(* Slip: the status left as online after an error. *)
NewNetFailsOnline(c) ==
    /\ cpc[c] \in {"online", "public"} /\ mx = None /\ status = "offline"
    /\ Goto(c, "idle") /\ status' = "online"
    /\ UNCHANGED <<net, host, dht, cancelled, closed, mx, dir, loopVars, dpc, worker, crash>>

NewNetFails(c) ==
    /\ cpc[c] \in {"online", "public"} /\ mx = None /\ status = "offline"
    /\ Goto(c, "idle")
    /\ UNCHANGED <<netVars, mx, dir, loopVars, dpc, worker, crash>>

Up(c) ==
    /\ cpc[c] = "up" /\ Unlock(c)
    /\ status' = "online"
    /\ UNCHANGED <<net, host, dht, cancelled, closed, dir, loopVars, dpc, worker, crash>>

(* goPublic starts a goroutine for each directory, as configured by now,   *)
(* and one for the DHT,                                                    *)
StartLoops(c) ==
    /\ \/ cpc[c] = "sleep" /\ Goto(c, "visible") /\ UNCHANGED mx
       \/ Lock(c, "public", "visible") /\ status = "online"
    /\ rpc' = [l \in Loops |-> IF l[1] = net /\ l[2] \in dir THEN "connect" ELSE rpc[l]]
    /\ dpc' = [dpc EXCEPT ![net] = "provide"]
    /\ UNCHANGED <<netVars, dir, stream, late, worker, crash>>

(* and is public only then. *)
Visible(c) ==
    /\ cpc[c] = "visible" /\ Unlock(c)
    /\ status' = "public"
    /\ UNCHANGED <<net, host, dht, cancelled, closed, dir, loopVars, dpc, worker, crash>>

-----------------------------------------------------------------------------
(* registerPeer of network l[1] and directory l[2]. It uses the node's     *)
(* host and netCtx of the moment, which need not be those of its network.  *)

Move(l, to) == rpc' = [rpc EXCEPT ![l] = to]
Ended(l) == l[1] \in cancelled
Panic(g) == crash' = g

(* doDirConnect: the status is asked first, *)
DirConnect(l) ==
    /\ rpc[l] = "connect"
    /\ Move(l, IF status = "offline" THEN "retry" ELSE "dial")
    /\ UNCHANGED <<netVars, mx, dir, cpc, stream, late, dpc, worker, crash>>

(* then the host connects, with the context of the current network, and    *)
(* opens a stream, or fails to.                                            *)
Dial(l) ==
    /\ rpc[l] = "dial"
    /\ IF host = 0 THEN Panic(l[1]) /\ UNCHANGED <<rpc, stream>>
       ELSE /\ UNCHANGED crash
            /\ \/ Move(l, "retry") /\ UNCHANGED stream
               \/ /\ net \notin cancelled /\ Move(l, "addrs")
                  /\ stream' = [stream EXCEPT ![l] = host]
    /\ UNCHANGED <<netVars, mx, dir, cpc, late, dpc, worker>>

(* publicAddrs: no address if the node is offline, else what the host and  *)
(* the NAT configuration say, which may be nothing.                        *)
PublicAddrs(l) ==
    /\ rpc[l] = "addrs"
    /\ Move(l, IF status = "offline" THEN "wait" ELSE "host")
    /\ UNCHANGED <<netVars, mx, dir, cpc, stream, late, dpc, worker, crash>>

(* The registration is written, if there is an address to be registered    *)
(* and the stream is still open.                                           *)
Register(l) ==
    /\ rpc[l] = "host"
    /\ IF host = 0 THEN Panic(l[1]) /\ UNCHANGED loopVars
       ELSE /\ UNCHANGED crash
            /\ \/ Move(l, "wait") /\ UNCHANGED <<stream, late>>
               \/ Move(l, "retry") /\ UNCHANGED late /\ stream' = [stream EXCEPT ![l] = 0]
               \/ /\ stream[l] \notin closed /\ Move(l, "wait") /\ UNCHANGED stream
                  /\ late' = IF Ended(l) THEN [late EXCEPT ![l] = @ + 1] ELSE late
    /\ UNCHANGED <<netVars, mx, dir, cpc, dpc, worker>>

(* Slip: the timer is waited for, and not the context. *)
TimerOnly(l) ==
    /\ rpc[l] \in {"wait", "retry"}
    /\ Move(l, IF rpc[l] = "wait" THEN "addrs" ELSE "connect")
    /\ UNCHANGED <<netVars, mx, dir, cpc, stream, late, dpc, worker, crash>>

(* The five minutes are over: of a loop that writes, or that tries again.  *)
Timer(l) ==
    /\ rpc[l] \in {"wait", "retry"} /\ ~Ended(l)
    /\ Move(l, IF rpc[l] = "wait" THEN "addrs" ELSE "connect")
    /\ UNCHANGED <<netVars, mx, dir, cpc, stream, late, dpc, worker, crash>>

(* Slip: a loop that tries again does not look at its context. *)
LoopEndsConnected(l) ==
    /\ rpc[l] = "wait" /\ Ended(l)
    /\ Move(l, "end") /\ stream' = [stream EXCEPT ![l] = 0]
    /\ UNCHANGED <<netVars, mx, dir, cpc, late, dpc, worker, crash>>

(* Its context is done. *)
LoopEnds(l) ==
    /\ rpc[l] \in {"wait", "retry"} /\ Ended(l)
    /\ Move(l, "end") /\ stream' = [stream EXCEPT ![l] = 0]
    /\ UNCHANGED <<netVars, mx, dir, cpc, late, dpc, worker, crash>>

(* registerPeerDHT of network g: every hour. *)
Provide(g) ==
    /\ dpc[g] = "provide"
    /\ IF dht = 0 THEN Panic(g) /\ UNCHANGED dpc
       ELSE dpc' = [dpc EXCEPT ![g] = "wait"] /\ UNCHANGED crash
    /\ UNCHANGED <<netVars, mx, dir, cpc, loopVars, worker>>

ProvideWait(g) ==
    /\ dpc[g] = "wait"
    /\ dpc' = [dpc EXCEPT ![g] = IF g \in cancelled THEN "end" ELSE "provide"]
    /\ UNCHANGED <<netVars, mx, dir, cpc, loopVars, worker, crash>>

(* A worker of doLookupImpl or doDirCollect: doDirConnect asks for the     *)
(* status, and uses the host later.                                        *)
StartWorker ==
    /\ worker = 0 /\ status # "offline"
    /\ worker' = net
    /\ UNCHANGED <<netVars, mx, dir, cpc, loopVars, dpc, crash>>

UseHost ==
    /\ worker # 0
    /\ IF host = 0 THEN Panic(worker) /\ UNCHANGED worker ELSE worker' = 0 /\ UNCHANGED crash
    /\ UNCHANGED <<netVars, mx, dir, cpc, loopVars, dpc>>

-----------------------------------------------------------------------------

CallStep(c) ==
    \/ Nothing(c) \/ Offline(c) \/ CloseDHT(c) \/ CloseHost(c) \/ Down(c)
    \/ NewNet(c) \/ NewNetFails(c) \/ Up(c) \/ StartLoops(c) \/ Visible(c)
LoopStep(l) ==
    DirConnect(l) \/ Dial(l) \/ PublicAddrs(l) \/ Register(l) \/ Timer(l) \/ LoopEnds(l)
ProvideStep(g) == Provide(g) \/ ProvideWait(g)

Next ==
    /\ crash = 0
    /\ \/ \E D \in SUBSET Dirs : ConfigDir(D)
       \/ \E c \in Callers, call \in {"offline", "online", "public"} : Request(c, call)
       \/ \E c \in Callers : CallStep(c)
       \/ \E l \in Loops : LoopStep(l)
       \/ \E g \in Nets : ProvideStep(g)
       \/ StartWorker \/ UseHost

Spec == Init /\ [][Next]_vars

(* A goroutine that can run is run, and one that keeps asking for node.mx  *)
(* gets it: closing the network, the five seconds of goPublic, connecting, *)
(* writing and providing all end.                                          *)
FairSpec ==
    /\ Spec
    /\ \A c \in Callers : SF_vars(crash = 0 /\ CallStep(c))
    /\ \A l \in Loops : WF_vars(crash = 0 /\ LoopStep(l))
    /\ \A g \in Nets : WF_vars(crash = 0 /\ ProvideStep(g))

-----------------------------------------------------------------------------
(* Properties *)

(* When nobody is in the middle of a call, the status tells the truth: the *)
(* node is offline and has no network, or it has one that is up. Every     *)
(* network before it is down and its context cancelled, so that no         *)
(* goroutine of it goes on.                                                *)
StatusTrue ==
    /\ mx = None =>
          IF status = "offline"
          THEN host = 0 /\ dht = 0 /\ 1..net \subseteq cancelled \cap closed
          ELSE /\ net > 0 /\ host = net /\ dht = net
               /\ cancelled = 1..(net - 1) /\ closed = cancelled
    /\ \A c \in Callers : mx = c => cpc[c] # "idle"

(* A goroutine panics only when its own network has been taken down under  *)
(* it, never on a network that is up, coming up or public.                 *)
CrashByTakedown == crash # 0 => crash \in cancelled

(* A goroutine that registers with a directory sends at most the round it  *)
(* is in after its network was taken down, perhaps on the network that     *)
(* came after it,                                                          *)
LastRound == \A l \in Loops : late[l] <= 1

(* and then ends, and so does registerPeerDHT: the registrations of a      *)
(* public node come from one goroutine for each directory and one for the  *)
(* DHT, though all of them work with the host and the DHT of the moment.   *)
OldLoopsEnd ==
    []<>(\/ crash # 0
         \/ /\ \A l \in Loops : Ended(l) => rpc[l] \in {"none", "end"}
            /\ \A g \in cancelled : dpc[g] \in {"none", "end"})

=============================================================================
