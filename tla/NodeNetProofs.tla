---------------------------- MODULE NodeNetProofs ----------------------------
(***************************************************************************)
(* Proofs about NodeNet, for any callers, directories and number of        *)
(* networks.                                                               *)
(*                                                                         *)
(* StatusTrue speaks of the moments between calls. The invariant behind it *)
(* says what the network is at each place of the call that holds node.mx   *)
(* (Networks), and that exactly that call is inside (Holds). A goroutine   *)
(* was started on a network that had been made (Started), so that where a  *)
(* panic is possible, host or dht being nil, its network is cancelled. One *)
(* that has sent a late registration is past the timer (Late).             *)
(***************************************************************************)
EXTENDS NodeNet, TLAPS

Outside == {"idle", "offline", "online", "public"}
Closing == {"close", "closehost", "down"}
Opening == {"up", "sleep", "visible"}
LoopPlaces == {"none", "connect", "dial", "addrs", "host", "wait", "retry", "end"}

Types ==
    /\ status \in {"offline", "online", "public"}
    /\ net \in 0..MaxNets /\ host \in {0, net} /\ dht \in {0, net}
    /\ cancelled \in SUBSET Nets /\ closed \in SUBSET Nets
    /\ mx \in Callers \cup {None} /\ dir \in SUBSET Dirs
    /\ cpc \in [Callers -> Outside \cup Closing \cup Opening]
    /\ rpc \in [Loops -> LoopPlaces]
    /\ stream \in [Loops -> 0..MaxNets] /\ late \in [Loops -> Nat]
    /\ dpc \in [Nets -> {"none", "provide", "wait", "end"}]
    /\ worker \in 0..MaxNets /\ crash \in 0..MaxNets

(* Exactly the call that has the lock is in the middle of its work. *)
Holds == \A c \in Callers : mx = c <=> cpc[c] \in Closing \cup Opening

(* The network in use is up, and those before it are down; or all are down. *)
OneUp == net > 0 /\ host = net /\ dht = net /\ cancelled = 1..(net - 1) /\ closed = cancelled
AllDown == host = 0 /\ dht = 0 /\ cancelled = 1..net /\ closed = cancelled

Networks ==
    /\ mx = None => IF status = "offline" THEN AllDown ELSE OneUp
    /\ \A c \in Callers :
          /\ cpc[c] \in Opening => OneUp
          /\ cpc[c] \in {"close", "closehost"} =>
                /\ net > 0 /\ host = net /\ dht = (IF cpc[c] = "close" THEN net ELSE 0)
                /\ cancelled = 1..net /\ closed = 1..(net - 1)
          /\ cpc[c] = "down" => AllDown

(* Goroutines live on networks that were made. *)
Started ==
    /\ \A l \in Loops : rpc[l] # "none" => l[1] <= net
    /\ \A g \in Nets : dpc[g] # "none" => g <= net
    /\ worker <= net

(* A loop that has sent a registration after its end was ordered sends no other. *)
Late ==
    \A l \in Loops :
        /\ late[l] \in {0, 1}
        /\ late[l] = 1 => l[1] \in cancelled /\ rpc[l] \in {"wait", "end"}

IInv == Types /\ Holds /\ Networks /\ Started /\ Late /\ CrashByTakedown

-----------------------------------------------------------------------------

LEMMA InitInvariant == Init => IInv
<1> SUFFICES ASSUME Init PROVE IInv
  OBVIOUS
<1> USE BoundsAssumption, NoneAssumption DEF Init
<1>1. Types
  BY DEF Types, Outside, LoopPlaces
<1>2. Holds /\ Networks
  BY DEF Holds, Networks, AllDown, Outside, Closing, Opening
<1>3. Started /\ Late /\ CrashByTakedown
  BY DEF Started, Late, CrashByTakedown, Nets
<1> QED
  BY <1>1, <1>2, <1>3 DEF IInv

(* What the goroutines do leaves the network, the lock and the calls alone. *)
LEMMA NetworkUntouched ==
    ASSUME IInv, UNCHANGED <<netVars, mx, cpc>>
    PROVE  /\ Holds' /\ Networks'
           /\ crash' = crash => CrashByTakedown'
BY DEF IInv, netVars, Holds, Networks, OneUp, AllDown, CrashByTakedown

(* Where the host or the DHT is nil, every network that was made has been cancelled. *)
LEMMA NilIsCancelled ==
    ASSUME IInv, host = 0 \/ dht = 0
    PROVE  1..net \subseteq cancelled
BY BoundsAssumption DEF IInv, Types, Holds, Networks, OneUp, AllDown, Closing, Opening

-----------------------------------------------------------------------------
(* The calls *)

LEMMA CallsPreserve ==
    ASSUME IInv, crash = 0, NEW c \in Callers, CallStep(c)
    PROVE  IInv'
<1> USE BoundsAssumption, NoneAssumption
<1> USE DEF IInv, Types, Holds, Networks, OneUp, AllDown, Outside, Closing, Opening,
            Started, Late, CrashByTakedown, Nets, netVars, loopVars, Goto, Lock, Unlock
<1>1. CASE Nothing(c)
  BY <1>1 DEF Nothing
<1>2. CASE Offline(c)
  <2>1. net \in Nets /\ Types'
    BY <1>2 DEF Offline
  <2>2. Holds' /\ Networks'
    BY <1>2 DEF Offline
  <2> QED
    BY <1>2, <2>1, <2>2 DEF Offline
<1>3. CASE CloseDHT(c)
  BY <1>3 DEF CloseDHT
<1>4. CASE CloseHost(c)
  <2>1. Types'
    BY <1>4 DEF CloseHost
  <2>2. Holds' /\ Networks'
    BY <1>4 DEF CloseHost
  <2> QED
    BY <1>4, <2>1, <2>2 DEF CloseHost
<1>5. CASE Down(c)
  BY <1>5 DEF Down
<1>6. CASE NewNet(c)
  <2>1. PICK to \in {"up", "sleep"} : cpc' = [cpc EXCEPT ![c] = to]
    BY <1>6 DEF NewNet
  <2>2. /\ mx = None /\ mx' = c /\ AllDown /\ net < MaxNets
        /\ net' = net + 1 /\ host' = net' /\ dht' = net'
        /\ UNCHANGED <<status, cancelled, closed, dir, rpc, stream, late, dpc, worker, crash>>
    BY <1>6 DEF NewNet
  <2>3. Types'
    BY <2>1, <2>2
  <2>4. Holds'
    BY <2>1, <2>2
  <2>5. OneUp' /\ Networks'
    BY <2>1, <2>2
  <2>6. Started'
    BY <2>2 DEF Loops
  <2>7. Late' /\ CrashByTakedown'
    BY <2>2
  <2> QED
    BY <2>3, <2>4, <2>5, <2>6, <2>7
<1>7. CASE NewNetFails(c)
  BY <1>7 DEF NewNetFails
<1>8. CASE Up(c)
  BY <1>8 DEF Up
<1>9. CASE StartLoops(c)
  <2>1. OneUp
    BY <1>9 DEF StartLoops
  <2>2. Types'
    BY <1>9 DEF StartLoops, LoopPlaces
  <2>3. Holds' /\ Networks'
    BY <1>9 DEF StartLoops
  <2>4. Started'
    BY <1>9 DEF StartLoops, Loops
  <2>5. Late' /\ CrashByTakedown'
    BY <1>9, <2>1 DEF StartLoops, Loops
  <2> QED
    BY <2>2, <2>3, <2>4, <2>5
<1>10. CASE Visible(c)
  BY <1>10 DEF Visible
<1> QED
  BY <1>1, <1>2, <1>3, <1>4, <1>5, <1>6, <1>7, <1>8, <1>9, <1>10 DEF CallStep

LEMMA RequestsPreserve ==
    ASSUME IInv,
           \/ \E D \in SUBSET Dirs : ConfigDir(D)
           \/ \E c \in Callers, call \in {"offline", "online", "public"} : Request(c, call)
    PROVE  IInv'
<1> USE DEF IInv, Types, Holds, Networks, OneUp, AllDown, Outside, Closing, Opening,
            Started, Late, CrashByTakedown, netVars, loopVars, Goto
<1>1. CASE \E D \in SUBSET Dirs : ConfigDir(D)
  BY <1>1 DEF ConfigDir
<1>2. ASSUME NEW c \in Callers, NEW call \in {"offline", "online", "public"}, Request(c, call)
      PROVE  IInv'
  BY <1>2 DEF Request
<1> QED
  BY <1>1, <1>2

-----------------------------------------------------------------------------
(* The goroutines *)

LEMMA LoopsPreserve ==
    ASSUME IInv, crash = 0, NEW l \in Loops, LoopStep(l)
    PROVE  IInv'
<1> USE BoundsAssumption
<1> USE DEF LoopStep, Move, Ended, Panic, netVars, loopVars
<1>1. l[1] \in Nets
  BY DEF Loops
<1>2. Types'
  <2>1. crash' \in 0..MaxNets
    BY <1>1 DEF IInv, Types, Nets, DirConnect, Dial, PublicAddrs, Register, Timer, LoopEnds
  <2>2. rpc' \in [Loops -> LoopPlaces] /\ late' \in [Loops -> Nat]
    BY DEF IInv, Types, LoopPlaces, DirConnect, Dial, PublicAddrs, Register, Timer, LoopEnds
  <2>3. stream' \in [Loops -> 0..MaxNets]
    BY DEF IInv, Types, DirConnect, Dial, PublicAddrs, Register, Timer, LoopEnds
  <2> QED
    BY <2>1, <2>2, <2>3
      DEF IInv, Types, DirConnect, Dial, PublicAddrs, Register, Timer, LoopEnds
<1>3. Holds' /\ Networks'
  BY NetworkUntouched DEF DirConnect, Dial, PublicAddrs, Register, Timer, LoopEnds
<1>4. Started'
  BY DEF IInv, Types, Started, DirConnect, Dial, PublicAddrs, Register, Timer, LoopEnds
<1>5. Late'
  BY DEF IInv, Types, Late, DirConnect, Dial, PublicAddrs, Register, Timer, LoopEnds
<1>6. CrashByTakedown'
  <2>1. CASE crash' = crash
    BY <2>1, NetworkUntouched DEF DirConnect, Dial, PublicAddrs, Register, Timer, LoopEnds
  <2>2. CASE crash' # crash
    <3>1. host = 0 /\ rpc[l] # "none" /\ crash' = l[1] /\ cancelled' = cancelled
      BY <2>2 DEF DirConnect, Dial, PublicAddrs, Register, Timer, LoopEnds
    <3>2. l[1] \in 1..net
      BY <1>1, <3>1 DEF IInv, Types, Started, Nets
    <3> QED
      BY <3>1, <3>2, NilIsCancelled DEF CrashByTakedown
  <2> QED
    BY <2>1, <2>2
<1> QED
  BY <1>2, <1>3, <1>4, <1>5, <1>6 DEF IInv

LEMMA ProvidePreserves ==
    ASSUME IInv, crash = 0, NEW g \in Nets, ProvideStep(g)
    PROVE  IInv'
<1> USE BoundsAssumption
<1> USE DEF ProvideStep, Provide, ProvideWait, Panic, netVars, loopVars
<1>1. Types'
  <2>1. crash' \in 0..MaxNets
    BY DEF IInv, Types, Nets
  <2>2. dpc' \in [Nets -> {"none", "provide", "wait", "end"}]
    BY DEF IInv, Types
  <2> QED
    BY <2>1, <2>2 DEF IInv, Types
<1>2. Started' /\ Late'
  BY DEF IInv, Types, Started, Late, Nets
<1>3. Holds' /\ Networks'
  BY NetworkUntouched
<1>4. CrashByTakedown'
  <2>1. CASE crash' = crash
    BY <2>1, NetworkUntouched
  <2>2. CASE crash' # crash
    <3>1. dht = 0 /\ g \in 1..net /\ crash' = g /\ cancelled' = cancelled
      BY <2>2 DEF IInv, Types, Started, Nets
    <3> QED
      BY <3>1, NilIsCancelled DEF CrashByTakedown
  <2> QED
    BY <2>1, <2>2
<1> QED
  BY <1>1, <1>2, <1>3, <1>4 DEF IInv

LEMMA WorkersPreserve ==
    ASSUME IInv, crash = 0, StartWorker \/ UseHost
    PROVE  IInv'
<1> USE BoundsAssumption
<1> USE DEF StartWorker, UseHost, Panic, netVars, loopVars
<1>1. Types'
  BY DEF IInv, Types, Nets
<1>2. Started' /\ Late'
  BY DEF IInv, Types, Started, Late, Nets
<1>3. Holds' /\ Networks'
  BY NetworkUntouched
<1>4. CrashByTakedown'
  <2>1. CASE crash' = crash
    BY <2>1, NetworkUntouched
  <2>2. CASE crash' # crash
    <3>1. host = 0 /\ worker \in 1..net /\ crash' = worker /\ cancelled' = cancelled
      BY <2>2 DEF IInv, Types, Started
    <3> QED
      BY <3>1, NilIsCancelled DEF CrashByTakedown
  <2> QED
    BY <2>1, <2>2
<1> QED
  BY <1>1, <1>2, <1>3, <1>4 DEF IInv

-----------------------------------------------------------------------------

(* The inductive invariant holds: at every step of goOffline, goOnline,    *)
(* goPublic and of the goroutines they leave behind (net.go).              *)
THEOREM Invariant == Spec => []IInv
<1>1. IInv /\ [Next]_vars => IInv'
  <2> SUFFICES ASSUME IInv, [Next]_vars PROVE IInv'
    OBVIOUS
  <2>1. CASE Next
    BY <2>1, CallsPreserve, RequestsPreserve, LoopsPreserve, ProvidePreserves, WorkersPreserve
      DEF Next
  <2>2. CASE UNCHANGED vars
    BY <2>2 DEF vars, netVars, loopVars, IInv, Types, Holds, Networks, OneUp, AllDown,
                Started, Late, CrashByTakedown
  <2> QED
    BY <2>1, <2>2
<1> QED
  BY <1>1, InitInvariant, PTL DEF Spec

(* Between calls the status tells what the network is, and every network   *)
(* before the one in use is closed and its context cancelled (net.go,      *)
(* goOffline, goOnline and goPublic).                                      *)
THEOREM StatusIsTrue == Spec => []StatusTrue
<1>1. IInv => StatusTrue
  BY BoundsAssumption, NoneAssumption
    DEF IInv, Types, Holds, Networks, OneUp, AllDown, Outside, Closing, Opening, StatusTrue
<1> QED
  BY <1>1, Invariant, PTL

(* A goroutine that finds host or dht nil runs on a network whose context  *)
(* has been cancelled (net.go, registerPeer, registerPeerDHT, doDirConnect). *)
THEOREM PanicsNeedTakedown == Spec => []CrashByTakedown
BY Invariant, PTL DEF IInv

(* registerPeer sends at most one registration after goOffline has         *)
(* cancelled its context.                                                  *)
THEOREM OneLateRound == Spec => []LastRound
<1>1. IInv => LastRound
  BY DEF IInv, Late, LastRound
<1> QED
  BY <1>1, Invariant, PTL

=============================================================================
