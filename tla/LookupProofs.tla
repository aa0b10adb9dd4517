----------------------------- MODULE LookupProofs -----------------------------
(***************************************************************************)
(* Proofs about Lookup, for any directories, peers and questions.          *)
(*                                                                         *)
(* A result does not say which worker sent it. What the caller may         *)
(* conclude rests on two counts (Accounts): the workers that have ended    *)
(* are as many as the results heard and those in the channel, and those    *)
(* that failed are as many as the errors heard and those in the channel.   *)
(* So when it has heard as many results as there are workers, all of them  *)
(* have ended and the channel is empty. What a worker found out is then    *)
(* known to the caller, and lies between what its directory listed all the *)
(* time and what it listed at some time (Replies, LookupHeard,             *)
(* CollectHeard).                                                          *)
(***************************************************************************)
EXTENDS Lookup, FiniteSetTheorems, SequenceTheorems, TLAPS

Items == Peers \cup (UNION {NamesOf[p] : p \in Peers}) \cup (UNION {ManifestsOf[p] : p \in Peers})
Plain == {"found", "bare", "unknown", "error"}
Result == [is : Plain] \cup [is : {"values"}, vals : SUBSET Items]
WorkerPlaces == {"none", "connect", "asked", "answered", "end"}

Types ==
    /\ q \in Questions /\ dirs \subseteq Dirs
    /\ listed \in [Dirs -> SUBSET Peers] /\ ever \in [Dirs -> SUBSET Peers]
    /\ always \in [Dirs -> SUBSET Peers]
    /\ pc \in {"start", "wait", "returned"}
    /\ wpc \in [Dirs \cup {DHT} -> WorkerPlaces] /\ reply \in [Dirs -> SUBSET Items]
    /\ ch \in Seq(Result) /\ heard \in Nat /\ errcount \in Nat /\ vals \subseteq Items
    /\ cut \in BOOLEAN

Ended == {x \in Workers : wpc[x] = "end"}
Results == {ch[i] : i \in 1..Len(ch)}

(* The positions of errors in the channel, counted from the first result ever sent. *)
Errors == {n \in (heard + 1)..(heard + Len(ch)) : ch[n - heard].is = "error"}

(* Only the workers of the request run, and none before it has started. *)
Placed ==
    /\ \A x \in Dirs \cup {DHT} : pc = "start" \/ x \notin Workers => wpc[x] = "none"
    /\ failed \subseteq Ended

Accounts ==
    /\ Cardinality(Ended) = heard + Len(ch)
    /\ Cardinality(failed) = errcount + Cardinality(Errors)

Tables == \A d \in Dirs : always[d] \subseteq listed[d] /\ listed[d] \subseteq ever[d]

Replies ==
    \A d \in Dirs :
        wpc[d] = "answered" => /\ Answer(q, always[d]) \subseteq reply[d]
                               /\ reply[d] \subseteq Answer(q, ever[d])

WasThere ==
    (\E d \in dirs : Wanted \in ever[d]) \/ (wpc[DHT] = "end" /\ DHT \notin failed)

Answered == {d \in dirs : wpc[d] = "end" /\ d \notin failed}

(* All peers that some directory listed. *)
Seen == UNION {ever[d] : d \in dirs}

LookupHeard ==
    IsLookup =>
        /\ \A r \in Results : r.is \in Plain /\ (r.is = "found" => WasThere)
        /\ pc # "returned" =>
              \A d \in Answered : Wanted \notin always[d] \/ \E r \in Results : r.is = "found"

CollectHeard ==
    ~IsLookup =>
        /\ \A r \in Results : r.is \in {"values", "error"}
        /\ vals \subseteq Answer(q, Seen)
        /\ \A r \in Results : r.is = "values" => r.vals \subseteq Answer(q, Seen)
        /\ \A d \in Answered : \A v \in Answer(q, always[d]) :
              v \in vals \/ \E r \in Results : r.is = "values" /\ v \in r.vals

(* An answer that is not a peer and was not cut short has all workers in it. *)
Whole == pc = "returned" /\ ~cut /\ res.is \in {"unknown", "values"} => Ended = Workers

IInv ==
    /\ Types /\ Placed /\ Accounts /\ Tables /\ Replies /\ LookupHeard /\ CollectHeard
    /\ Whole /\ LookupSound /\ CollectSound

-----------------------------------------------------------------------------
(* Answers *)

LEMMA Kinds ==
    ASSUME NEW ask \in Questions
    PROVE  ask.kind \in {"lookup", "list", "listns", "listmf"}
BY QuestionsAssumption

(* A directory that lists more peers answers more. *)
LEMMA AnswerMonotone ==
    ASSUME NEW ask \in Questions, NEW S, NEW T, S \subseteq T
    PROVE  Answer(ask, S) \subseteq Answer(ask, T)
<1>1. CASE ask.kind = "lookup"
  BY <1>1 DEF Answer
<1>2. CASE ask.kind = "list"
  BY <1>2 DEF Answer, ListPeers
<1>3. CASE ask.kind = "listns"
  BY <1>3 DEF Answer, ListNamespaces
<1>4. CASE ask.kind = "listmf"
  BY <1>4 DEF Answer, LookupManifests
<1> QED
  BY <1>1, <1>2, <1>3, <1>4, Kinds

LEMMA AnswerTyped ==
    ASSUME NEW ask \in Questions, NEW S, S \subseteq Peers
    PROVE  Answer(ask, S) \subseteq Items
<1>1. CASE ask.kind = "lookup" \/ ask.kind = "list"
  BY <1>1 DEF Answer, ListPeers, Items
<1>2. CASE ask.kind = "listns"
  BY <1>2 DEF Answer, ListNamespaces, Items
<1>3. CASE ask.kind = "listmf"
  BY <1>3 DEF Answer, LookupManifests, Items
<1> QED
  BY <1>1, <1>2, <1>3, Kinds

LEMMA LookupAnswer ==
    ASSUME IsLookup, NEW S
    PROVE  (Answer(q, S) = {} <=> Wanted \notin S) /\ Answer(q, S) \subseteq {Wanted}
BY DEF IsLookup, Answer

-----------------------------------------------------------------------------
(* The channel *)

(* A result that is sent. *)
LEMMA ChannelSend ==
    ASSUME Types, NEW r \in Result, ch' = Append(ch, r), heard' = heard
    PROVE  /\ ch' \in Seq(Result) /\ Len(ch') = Len(ch) + 1 /\ Len(ch) \in Nat
           /\ Results' = Results \cup {r}
           /\ heard + Len(ch) + 1 \notin Errors
           /\ Errors' = IF r.is = "error" THEN Errors \cup {heard + Len(ch) + 1} ELSE Errors
<1>1. PICK n \in Nat : n = Len(ch)
  BY DEF Types
<1>2. /\ ch \in Seq(Result) /\ ch' \in Seq(Result) /\ Len(ch') = n + 1
      /\ \A i \in 1..n : ch'[i] = ch[i]
      /\ ch'[n + 1] = r
  BY <1>1 DEF Types
<1>3. heard \in Nat
  BY DEF Types
<1>4. Results' = Results \cup {r}
  <2>1. 1..(n + 1) = 1..n \cup {n + 1}
    OBVIOUS
  <2> QED
    BY <1>1, <1>2, <2>1 DEF Results
<1>5. \A k : k \in Errors <=> k \in (heard + 1)..(heard + n) /\ ch[k - heard].is = "error"
  BY <1>1 DEF Errors
<1>6. \A k : k \in Errors' <=> k \in (heard + 1)..(heard + n + 1) /\ ch'[k - heard].is = "error"
  <2>1. heard' + Len(ch') = heard + n + 1 /\ heard' = heard
    BY <1>2, <1>3
  <2> QED
    BY <2>1 DEF Errors
<1>7. heard + n + 1 \notin Errors
  BY <1>3, <1>5
<1>8. \A k : k \in Errors' <=> k \in Errors \/ (k = heard + n + 1 /\ r.is = "error")
  <2>1. ASSUME NEW k \in (heard + 1)..(heard + n)
        PROVE  k - heard \in 1..n /\ ch'[k - heard] = ch[k - heard] /\ k # heard + n + 1
    <3>1. k - heard \in 1..n /\ k # heard + n + 1
      BY <1>3
    <3> QED
      BY <1>2, <3>1
  <2>2. \A k : k \in (heard + 1)..(heard + n + 1) <=> k \in (heard + 1)..(heard + n) \/ k = heard + n + 1
    BY <1>3
  <2>3. (heard + n + 1) - heard = n + 1
    BY <1>3
  <2> QED
    BY <1>2, <1>5, <1>6, <2>1, <2>2, <2>3
<1> QED
  BY <1>1, <1>2, <1>4, <1>7, <1>8

(* A result that is taken. *)
LEMMA ChannelTake ==
    ASSUME Types, ch # <<>>, ch' = Tail(ch), heard' = heard + 1
    PROVE  /\ ch' \in Seq(Result) /\ Len(ch) = Len(ch') + 1 /\ Len(ch') \in Nat
           /\ Head(ch) \in Results /\ Head(ch) \in Result
           /\ Results' \subseteq Results /\ Results \subseteq Results' \cup {Head(ch)}
           /\ Errors' = Errors \ {heard + 1}
           /\ heard + 1 \in Errors <=> Head(ch).is = "error"
<1>1. ch \in Seq(Result) /\ heard \in Nat
  BY DEF Types
<1>2. PICK n \in Nat : Len(ch) = n + 1
  <2>1. Len(ch) \in Nat \ {0}
    BY <1>1, EmptySeq, Zenon
  <2>2. \A m \in Nat \ {0} : m - 1 \in Nat /\ m = (m - 1) + 1
    OBVIOUS
  <2> QED
    BY <2>1, <2>2
<1>3. /\ ch' \in Seq(Result) /\ Len(ch') = n
      /\ \A i \in 1..n : ch'[i] = ch[i + 1]
      /\ Head(ch) = ch[1] /\ Head(ch) \in Result
  BY <1>1, <1>2
<1>4. Results = {ch[i] : i \in 1..(n + 1)} /\ Results' = {ch'[i] : i \in 1..n}
  BY <1>2, <1>3 DEF Results
<1>5. Head(ch) \in Results /\ Results' \subseteq Results
  BY <1>3, <1>4
<1>6. Results \subseteq Results' \cup {Head(ch)}
  <2> SUFFICES ASSUME NEW i \in 1..(n + 1) PROVE ch[i] \in Results' \cup {Head(ch)}
    BY <1>4
  <2>1. CASE i = 1
    BY <1>3, <2>1
  <2>2. CASE i # 1
    <3>1. i - 1 \in 1..n /\ (i - 1) + 1 = i
      BY <2>2
    <3>2. ch'[i - 1] = ch[i]
      BY <1>3, <3>1
    <3> QED
      BY <1>4, <3>1, <3>2
  <2> QED
    BY <2>1, <2>2
<1>7. \A k : k \in Errors <=> k \in (heard + 1)..(heard + n + 1) /\ ch[k - heard].is = "error"
  BY <1>1, <1>2 DEF Errors
<1>8. \A k : k \in Errors' <=> k \in (heard + 2)..(heard + n + 1) /\ ch'[k - (heard + 1)].is = "error"
  <2>1. (heard + 1) + 1 = heard + 2 /\ (heard + 1) + n = heard + n + 1
    BY <1>1
  <2> QED
    BY <1>3, <2>1 DEF Errors
<1>9. \A k : k \in Errors' <=> k \in Errors /\ k # heard + 1
  <2>1. ASSUME NEW k \in (heard + 2)..(heard + n + 1)
        PROVE  ch'[k - (heard + 1)] = ch[k - heard]
    <3>1. k - (heard + 1) \in 1..n /\ (k - (heard + 1)) + 1 = k - heard
      BY <1>1
    <3> QED
      BY <1>3, <3>1
  <2>2. \A k : k \in (heard + 2)..(heard + n + 1) <=> k \in (heard + 1)..(heard + n + 1) /\ k # heard + 1
    BY <1>1
  <2> QED
    BY <1>7, <1>8, <2>1, <2>2
<1>10. heard + 1 \in Errors <=> Head(ch).is = "error"
  <2>1. heard + 1 \in (heard + 1)..(heard + n + 1) /\ (heard + 1) - heard = 1
    BY <1>1
  <2> QED
    BY <1>3, <1>7, <2>1
<1> QED
  BY <1>2, <1>3, <1>5, <1>6, <1>9, <1>10

-----------------------------------------------------------------------------
(* The accounts *)

LEMMA Finiteness ==
    ASSUME Types, Placed
    PROVE  /\ IsFiniteSet(Workers) /\ Cardinality(Workers) \in Nat
           /\ IsFiniteSet(Ended) /\ Cardinality(Ended) \in Nat
           /\ IsFiniteSet(failed) /\ Cardinality(failed) \in Nat
           /\ IsFiniteSet(Errors) /\ Cardinality(Errors) \in Nat
           /\ Ended \subseteq Workers /\ failed \subseteq Workers
<1>1. IsFiniteSet(dirs)
  BY FiniteAssumption, FS_Subset DEF Types
<1>2. IsFiniteSet(Workers)
  BY <1>1, FS_AddElement DEF Workers
<1>3. Ended \subseteq Workers /\ failed \subseteq Workers
  BY DEF Ended, Placed
<1>4. IsFiniteSet(Ended) /\ IsFiniteSet(failed)
  BY <1>2, <1>3, FS_Subset
<1>5. IsFiniteSet(Errors)
  <2>1. heard + 1 \in Int /\ heard + Len(ch) \in Int
    BY DEF Types
  <2>2. IsFiniteSet((heard + 1)..(heard + Len(ch)))
    BY <2>1, FS_Interval
  <2>3. Errors \subseteq (heard + 1)..(heard + Len(ch))
    BY DEF Errors
  <2> QED
    BY <2>2, <2>3, FS_Subset
<1> QED
  BY <1>2, <1>3, <1>4, <1>5, FS_CardinalityType

(* A caller that has heard as many results as there are workers has heard all. *)
LEMMA AllHeard ==
    Types /\ Placed /\ Accounts /\ heard = Cardinality(Workers) =>
        Ended = Workers /\ Results = {} /\ Cardinality(failed) = errcount
<1> SUFFICES ASSUME Types, Placed, Accounts, heard = Cardinality(Workers)
             PROVE  Ended = Workers /\ Results = {} /\ Cardinality(failed) = errcount
  OBVIOUS
<1>1. Len(ch) \in Nat
  BY DEF Types
<1>2. Cardinality(Ended) <= Cardinality(Workers)
  BY Finiteness, FS_Subset
<1>3. Cardinality(Ended) = Cardinality(Workers) /\ Len(ch) = 0
  BY <1>1, <1>2, Finiteness DEF Accounts
<1>4. Ended = Workers
  BY <1>3, Finiteness, FS_Subset
<1>5. Results = {}
  BY <1>3 DEF Results
<1>6. Errors = {}
  BY <1>3 DEF Errors, Types
<1> QED
  BY <1>4, <1>5, <1>6, FS_EmptySet DEF Accounts, Types

(* A caller that has heard as many errors as there are workers is told that all failed, *)
LEMMA AllFailed ==
    ASSUME Types, Placed, Accounts, errcount >= Cardinality(Workers)
    PROVE  failed = Workers
<1>1. Cardinality(failed) >= Cardinality(Workers)
  BY Finiteness DEF Accounts, Types
<1>2. Cardinality(failed) <= Cardinality(Workers)
  BY Finiteness, FS_Subset
<1>3. Cardinality(failed) = Cardinality(Workers)
  BY <1>1, <1>2, Finiteness
<1> QED
  BY <1>3, Finiteness, FS_Subset

(* and one that has heard fewer has not. *)
LEMMA SomeAnswered ==
    ASSUME Types, Placed, Cardinality(failed) < Cardinality(Workers)
    PROVE  \E x \in Workers : x \notin failed
<1>1. failed # Workers
  BY Finiteness
<1> QED
  BY <1>1, Finiteness

-----------------------------------------------------------------------------
(* The workers *)

(* What worker x may send: something it can stand for. *)
Honest(x, r) ==
    IF IsLookup
    THEN /\ r.is \in Plain
         /\ r.is = "found" /\ x # DHT => Wanted \in ever[x]
         /\ r.is \in {"bare", "unknown"} /\ x # DHT => Wanted \notin always[x]
    ELSE /\ r.is \in {"values", "error"}
         /\ r.is = "values" => /\ Answer(q, always[x]) \subseteq r.vals
                               /\ r.vals \subseteq Answer(q, ever[x])

LEMMA SendPreserves ==
    ASSUME IInv, NEW x \in Dirs \cup {DHT}, wpc[x] \notin {"none", "end"},
           NEW r \in Result, Honest(x, r), Send(x, r),
           UNCHANGED <<q, dirs, online, stalled, ctx, reply, dirVars, callVars>>
    PROVE  IInv'
<1> USE DEF IInv, dirVars, callVars
<1>1. x \in Workers /\ x \notin Ended /\ x \notin failed /\ pc # "start"
  BY DEF Placed, Ended
<1>2. IsLookup' = IsLookup /\ Workers' = Workers /\ Seen' = Seen
  BY DEF IsLookup, Workers, Seen
<1>3. /\ ch' = Append(ch, r) /\ wpc' = [wpc EXCEPT ![x] = "end"]
      /\ failed' = IF r.is = "error" THEN failed \cup {x} ELSE failed
  BY DEF Send
<1>4. /\ wpc \in [Dirs \cup {DHT} -> WorkerPlaces]
      /\ \A y \in Dirs \cup {DHT} : wpc'[y] = IF y = x THEN "end" ELSE wpc[y]
  BY <1>3 DEF Types
<1>5. Workers \subseteq Dirs \cup {DHT}
  BY DEF Workers, Types
<1>6. Ended' = Ended \cup {x}
  BY <1>1, <1>2, <1>4, <1>5 DEF Ended
<1>7. Types'
  <2>1. wpc' \in [Dirs \cup {DHT} -> WorkerPlaces]
    BY <1>3, <1>4 DEF WorkerPlaces
  <2> QED
    BY <1>3, <2>1, ChannelSend DEF Types
<1>8. Placed'
  BY <1>1, <1>2, <1>3, <1>4, <1>6 DEF Placed
<1>9. Accounts'
  <2>1. Cardinality(Ended') = Cardinality(Ended) + 1
    BY <1>1, <1>6, Finiteness, FS_AddElement
  <2>2. Cardinality(Ended)' = (heard + Len(ch))'
    BY <1>3, <2>1, ChannelSend DEF Accounts, Types
  <2>3. CASE r.is = "error"
    <3>1. Cardinality(failed') = Cardinality(failed) + 1
      BY <1>1, <1>3, <2>3, Finiteness, FS_AddElement
    <3>2. Cardinality(Errors') = Cardinality(Errors) + 1
      <4>1. /\ Errors' = Errors \cup {heard + Len(ch) + 1}
            /\ heard + Len(ch) + 1 \notin Errors
        BY <1>3, <2>3, ChannelSend
      <4> QED
        BY <4>1, Finiteness, FS_AddElement
    <3> QED
      BY <2>2, <3>1, <3>2, Finiteness DEF Accounts, Types
  <2>4. CASE r.is # "error"
    BY <1>3, <2>2, <2>4, ChannelSend DEF Accounts
  <2> QED
    BY <2>3, <2>4
<1>10. Tables' /\ Replies'
  BY <1>4 DEF Tables, Replies
<1>11. Results' = Results \cup {r}
  BY <1>3, ChannelSend
<1>12. Answered' \subseteq Answered \cup {x} /\ (r.is = "error" => x \notin Answered')
  BY <1>3, <1>4 DEF Answered, Types
<1>13. WasThere => WasThere'
  BY <1>1, <1>3, <1>4 DEF WasThere
<1>14. LookupHeard'
  <2> SUFFICES ASSUME IsLookup PROVE LookupHeard'
    BY <1>2 DEF LookupHeard
  <2>1. r.is = "found" => WasThere'
    <3>1. CASE x = DHT
      BY <1>1, <1>3, <1>4, <3>1 DEF WasThere
    <3>2. CASE x # DHT
      BY <1>1, <3>2 DEF Honest, WasThere, Workers
    <3> QED
      BY <3>1, <3>2
  <2>2. \A y \in Results' : y.is \in Plain /\ (y.is = "found" => WasThere')
    BY <1>11, <1>13, <2>1 DEF LookupHeard, Honest
  <2>3. ASSUME pc # "returned", NEW d \in Answered'
        PROVE  Wanted \notin always[d] \/ \E y \in Results' : y.is = "found"
    <3>1. CASE d \in Answered
      BY <1>11, <2>3, <3>1 DEF LookupHeard
    <3>2. CASE d = x
      <4>1. d # DHT
        BY DHTAssumption DEF Answered, Types
      <4> QED
        BY <1>11, <1>12, <3>2, <4>1 DEF Honest, Plain
    <3> QED
      BY <1>12, <3>1, <3>2
  <2> QED
    BY <2>2, <2>3 DEF LookupHeard
<1>15. CollectHeard'
  <2> SUFFICES ASSUME ~IsLookup PROVE CollectHeard'
    BY <1>2 DEF CollectHeard
  <2>1. x \in dirs
    BY <1>1 DEF Workers
  <2>2. r.is = "values" => r.vals \subseteq Answer(q, Seen)
    <3>1. ever[x] \subseteq Seen
      BY <2>1 DEF Seen
    <3> QED
      BY <3>1, AnswerMonotone DEF Honest, Types
  <2>3. \A y \in Results' : /\ y.is \in {"values", "error"}
                            /\ y.is = "values" => y.vals \subseteq Answer(q, Seen)
    BY <1>11, <2>2 DEF CollectHeard, Honest
  <2>4. ASSUME NEW d \in Answered', NEW v \in Answer(q, always[d])
        PROVE  v \in vals \/ \E y \in Results' : y.is = "values" /\ v \in y.vals
    <3>1. CASE d \in Answered
      BY <1>11, <3>1 DEF CollectHeard
    <3>2. CASE d = x
      BY <1>11, <1>12, <3>2 DEF Honest
    <3> QED
      BY <1>12, <3>1, <3>2
  <2> QED
    BY <1>2, <2>3, <2>4 DEF CollectHeard
<1>16. ~(pc = "returned" /\ ~cut /\ res.is \in {"unknown", "values"}) /\ failed # Workers
  BY <1>1 DEF Whole
<1>17. Whole'
  BY <1>16 DEF Whole
<1>18. LookupSound'
  BY <1>2, <1>13, <1>16 DEF LookupSound, WasThere
<1>19. CollectSound'
  <2>1. ~IsLookup => Workers = dirs
    BY DEF Workers
  <2> QED
    BY <1>2, <1>16, <2>1 DEF CollectSound, Shown
<1> QED
  BY <1>7, <1>8, <1>9, <1>10, <1>14, <1>15, <1>17, <1>18, <1>19

LEMMA ErrorIsHonest ==
    ASSUME NEW x
    PROVE  [is |-> "error"] \in Result /\ Honest(x, [is |-> "error"])
BY DEF Result, Plain, Honest

LEMMA DirectoryFailsPreserves ==
    ASSUME IInv, NEW d \in Dirs, DirectoryFails(d)
    PROVE  IInv'
BY SendPreserves, ErrorIsHonest DEF DirectoryFails

LEMMA ReadAnswerPreserves ==
    ASSUME IInv, NEW d \in Dirs, ReadAnswer(d)
    PROVE  IInv'
<1> DEFINE r == CASE ~IsLookup -> [is |-> "values", vals |-> reply[d]]
                  [] IsLookup /\ reply[d] = {} -> [is |-> "unknown"]
                  [] IsLookup /\ reply[d] # {} -> [is |-> "found"]
<1>1. /\ wpc[d] = "answered" /\ Send(d, r)
      /\ UNCHANGED <<q, dirs, online, stalled, ctx, reply, dirVars, callVars>>
  BY DEF ReadAnswer
<1>2. /\ Answer(q, always[d]) \subseteq reply[d]
      /\ reply[d] \subseteq Answer(q, ever[d])
  BY <1>1 DEF IInv, Replies
<1>3. reply[d] \in SUBSET Items
  BY DEF IInv, Types
<1>4. d # DHT
  BY DHTAssumption
<1>5. r \in Result /\ Honest(d, r)
  <2>1. CASE ~IsLookup
    BY <1>2, <1>3, <2>1 DEF Result, Honest
  <2>2. CASE IsLookup /\ reply[d] = {}
    <3>1. Wanted \notin always[d]
      BY <1>2, <2>2, LookupAnswer
    <3>2. r = [is |-> "unknown"]
      BY <2>2
    <3> QED
      BY <2>2, <3>1, <3>2 DEF Result, Plain, Honest
  <2>3. CASE IsLookup /\ reply[d] # {}
    <3>1. Wanted \in ever[d]
      BY <1>2, <2>3, LookupAnswer
    <3>2. r = [is |-> "found"]
      BY <2>3
    <3> QED
      BY <2>3, <3>1, <3>2 DEF Result, Plain, Honest
  <2> QED
    BY <2>1, <2>2, <2>3
<1> HIDE DEF r
<1> QED
  BY <1>1, <1>5, SendPreserves

LEMMA DHTLookupPreserves ==
    ASSUME IInv, DHTLookup
    PROVE  IInv'
<1>1. PICK what \in {"found", "bare", "unknown", "error"} : Send(DHT, [is |-> what])
  BY DEF DHTLookup
<1>2. /\ wpc[DHT] = "connect"
      /\ UNCHANGED <<q, dirs, online, stalled, ctx, reply, dirVars, callVars>>
  BY DEF DHTLookup
<1>3. DHT \in Workers
  BY <1>2 DEF IInv, Placed
<1>4. IsLookup
  BY <1>3, DHTAssumption DEF IInv, Types, Workers
<1>5. [is |-> what] \in Result /\ Honest(DHT, [is |-> what])
  BY <1>4 DEF Result, Plain, Honest
<1> QED
  BY <1>1, <1>2, <1>5, SendPreserves

(* A worker that waits for its answer, or gets it, changes nothing else. *)
LEMMA MovePreserves ==
    ASSUME IInv, NEW d \in Dirs, wpc[d] \in {"connect", "asked"},
           NEW place \in {"asked", "answered"}, wpc' = [wpc EXCEPT ![d] = place],
           reply' \in [Dirs -> SUBSET Items], Replies',
           UNCHANGED <<q, dirs, online, stalled, ctx, ch, failed, dirVars, callVars>>
    PROVE  IInv'
<1> USE DEF IInv, dirVars, callVars
<1>1. /\ wpc \in [Dirs \cup {DHT} -> WorkerPlaces] /\ d # DHT
      /\ \A y \in Dirs \cup {DHT} : wpc'[y] = IF y = d THEN place ELSE wpc[y]
  BY DHTAssumption DEF Types
<1>2. IsLookup' = IsLookup /\ Workers' = Workers /\ Seen' = Seen /\ Results' = Results
  BY DEF IsLookup, Workers, Seen, Results
<1>3. Workers \subseteq Dirs \cup {DHT} /\ dirs \subseteq Dirs
  BY DEF Workers, Types
<1>4. Ended' = Ended /\ Answered' = Answered /\ (WasThere' <=> WasThere)
  BY <1>1, <1>2, <1>3 DEF Ended, Answered, WasThere
<1>5. Types'
  <2>1. wpc' \in [Dirs \cup {DHT} -> WorkerPlaces]
    BY <1>1 DEF WorkerPlaces
  <2> QED
    BY <2>1 DEF Types
<1>6. Placed'
  BY <1>1, <1>2, <1>4 DEF Placed
<1>7. Accounts' /\ Tables'
  BY <1>4 DEF Accounts, Tables, Errors
<1>8. LookupHeard'
  BY <1>2, <1>4 DEF LookupHeard
<1>9. CollectHeard'
  BY <1>2, <1>4 DEF CollectHeard
<1>10. Whole'
  BY <1>2, <1>4 DEF Whole
<1>11. LookupSound'
  BY <1>2, <1>4 DEF LookupSound, WasThere
<1>12. CollectSound'
  BY <1>2 DEF CollectSound, Shown
<1> QED
  BY <1>5, <1>6, <1>7, <1>8, <1>9, <1>10, <1>11, <1>12

LEMMA AskDirectoryPreserves ==
    ASSUME IInv, NEW d \in Dirs, AskDirectory(d)
    PROVE  IInv'
<1>1. /\ wpc[d] = "connect" /\ wpc' = [wpc EXCEPT ![d] = "asked"]
      /\ UNCHANGED <<q, dirs, online, stalled, ctx, reply, ch, failed, dirVars, callVars>>
  BY DEF AskDirectory
<1>2. wpc \in [Dirs \cup {DHT} -> WorkerPlaces] /\ reply' \in [Dirs -> SUBSET Items]
  BY <1>1 DEF IInv, Types
<1>3. Replies'
  BY <1>1, <1>2 DEF IInv, Replies, dirVars
<1> QED
  BY <1>1, <1>2, <1>3, MovePreserves

(* A handler answers with the table of the moment it reads it. *)
LEMMA HandleQuestionPreserves ==
    ASSUME IInv, NEW d \in Dirs, HandleQuestion(d)
    PROVE  IInv'
<1>1. /\ wpc[d] = "asked" /\ wpc' = [wpc EXCEPT ![d] = "answered"]
      /\ reply' = [reply EXCEPT ![d] = Answer(q, listed[d])]
      /\ UNCHANGED <<q, dirs, online, stalled, ctx, ch, failed, dirVars, callVars>>
  BY DEF HandleQuestion
<1>2. /\ wpc \in [Dirs \cup {DHT} -> WorkerPlaces] /\ reply \in [Dirs -> SUBSET Items]
      /\ q \in Questions /\ listed[d] \subseteq Peers
      /\ always[d] \subseteq listed[d] /\ listed[d] \subseteq ever[d]
  BY DEF IInv, Types, Tables
<1>3. /\ Answer(q, listed[d]) \in SUBSET Items
      /\ Answer(q, always[d]) \subseteq Answer(q, listed[d])
      /\ Answer(q, listed[d]) \subseteq Answer(q, ever[d])
  BY <1>2, AnswerTyped, AnswerMonotone
<1>4. reply' \in [Dirs -> SUBSET Items]
  BY <1>1, <1>2, <1>3
<1>5. Replies'
  <2> SUFFICES ASSUME NEW e \in Dirs, wpc'[e] = "answered"
               PROVE  /\ Answer(q, always[e]) \subseteq reply'[e]
                      /\ reply'[e] \subseteq Answer(q, ever[e])
    BY <1>1 DEF Replies, dirVars
  <2>1. CASE e = d
    BY <1>1, <1>2, <1>3, <2>1
  <2>2. CASE e # d
    BY <1>1, <1>2, <2>2 DEF IInv, Replies
  <2> QED
    BY <2>1, <2>2
<1> QED
  BY <1>1, <1>4, <1>5, MovePreserves

-----------------------------------------------------------------------------
(* The tables *)

LEMMA ChangePreserves ==
    ASSUME IInv, NEW d \in Dirs, NEW p \in Peers, Change(d, p)
    PROVE  IInv'
<1> USE DEF IInv, callVars
<1>1. /\ pc # "returned"
      /\ listed' = [listed EXCEPT ![d] = IF p \in @ THEN @ \ {p} ELSE @ \cup {p}]
      /\ ever' = [ever EXCEPT ![d] = @ \cup {p}] /\ always' = [always EXCEPT ![d] = @ \ {p}]
      /\ UNCHANGED <<q, dirs, online, stalled, ctx, wpc, reply, ch, failed, callVars>>
  BY DEF Change
<1>2. /\ listed \in [Dirs -> SUBSET Peers] /\ ever \in [Dirs -> SUBSET Peers]
      /\ always \in [Dirs -> SUBSET Peers] /\ q \in Questions /\ dirs \subseteq Dirs
  BY DEF Types
<1>3. \A e \in Dirs : always'[e] \subseteq always[e] /\ ever[e] \subseteq ever'[e]
  BY <1>1, <1>2
<1>4. Types'
  <2>1. /\ listed' \in [Dirs -> SUBSET Peers] /\ ever' \in [Dirs -> SUBSET Peers]
        /\ always' \in [Dirs -> SUBSET Peers]
    BY <1>1, <1>2
  <2> QED
    BY <1>1, <2>1 DEF Types
<1>5. IsLookup' = IsLookup /\ Workers' = Workers /\ Results' = Results
  BY <1>1 DEF IsLookup, Workers, Results
<1>6. Ended' = Ended /\ Answered' = Answered
  BY <1>1, <1>5 DEF Ended, Answered
<1>7. Placed' /\ Accounts'
  BY <1>1, <1>5, <1>6 DEF Placed, Accounts, Errors
<1>8. Tables'
  BY <1>1, <1>2 DEF Tables
<1>9. \A e \in Dirs : /\ Answer(q, always'[e]) \subseteq Answer(q, always[e])
                      /\ Answer(q, ever[e]) \subseteq Answer(q, ever'[e])
  BY <1>2, <1>3, AnswerMonotone
<1>10. Replies'
  BY <1>1, <1>9 DEF Replies
<1>11. Seen \subseteq Seen'
  BY <1>1, <1>2, <1>3 DEF Seen
<1>12. Answer(q, Seen) \subseteq Answer(q, Seen')
  BY <1>2, <1>11, AnswerMonotone
<1>13. LookupHeard'
  <2>1. WasThere => WasThere'
    BY <1>1, <1>2, <1>3 DEF WasThere
  <2> QED
    BY <1>1, <1>2, <1>3, <1>5, <1>6, <2>1 DEF LookupHeard, Answered
<1>14. CollectHeard'
  <2> SUFFICES ASSUME ~IsLookup PROVE CollectHeard'
    BY <1>5 DEF CollectHeard
  <2>1. \A e \in Answered : Answer(q, always'[e]) \subseteq Answer(q, always[e])
    BY <1>2, <1>9 DEF Answered
  <2> QED
    BY <1>1, <1>5, <1>6, <1>12, <2>1 DEF CollectHeard
<1>15. Whole' /\ LookupSound' /\ CollectSound'
  BY <1>1 DEF Whole, LookupSound, CollectSound
<1> QED
  BY <1>4, <1>7, <1>8, <1>10, <1>13, <1>14, <1>15

-----------------------------------------------------------------------------
(* The caller *)

(* Nothing that the workers and the directories know changes. *)
Quiet == UNCHANGED <<q, dirs, wpc, reply, ch, failed, dirVars, heard, errcount, vals>>

LEMMA QuietKeeps ==
    ASSUME Types, Quiet
    PROVE  /\ IsLookup' = IsLookup /\ Workers' = Workers /\ Ended' = Ended
           /\ Results' = Results /\ Errors' = Errors /\ Answered' = Answered
           /\ Seen' = Seen /\ (WasThere' <=> WasThere)
BY DEF Quiet, dirVars, IsLookup, Workers, Ended, Results, Errors, Answered, Seen, WasThere

LEMMA QuietPreserves ==
    ASSUME IInv, Quiet, pc' \in {"start", "wait", "returned"}, cut' \in BOOLEAN,
           pc' = "start" => pc = "start", pc = "returned" => pc' = "returned"
    PROVE  Types' /\ Placed' /\ Accounts' /\ Tables' /\ Replies' /\ LookupHeard' /\ CollectHeard'
<1> USE DEF IInv
<1>1. Types'
  BY DEF Types, Quiet, dirVars
<1>2. Placed' /\ Accounts'
  BY QuietKeeps DEF Placed, Accounts, Quiet
<1>3. Tables' /\ Replies'
  BY DEF Tables, Replies, Quiet, dirVars
<1>4. LookupHeard'
  BY QuietKeeps DEF LookupHeard, Quiet, dirVars
<1>5. CollectHeard'
  BY QuietKeeps DEF CollectHeard, Quiet, dirVars
<1> QED
  BY <1>1, <1>2, <1>3, <1>4, <1>5

LEMMA StutterPreserves ==
    ASSUME IInv, Quiet, UNCHANGED <<pc, res, cut>>
    PROVE  IInv'
<1> USE DEF IInv
<1>1. Types' /\ Placed' /\ Accounts' /\ Tables' /\ Replies' /\ LookupHeard' /\ CollectHeard'
  BY QuietPreserves DEF Types
<1>2. Whole'
  BY QuietKeeps DEF Whole
<1>3. LookupSound'
  BY QuietKeeps DEF LookupSound, Quiet, dirVars
<1>4. CollectSound'
  BY QuietKeeps DEF CollectSound, Quiet, dirVars, Shown
<1> QED
  BY <1>1, <1>2, <1>3, <1>4

LEMMA StartPreserves ==
    ASSUME IInv, Start
    PROVE  IInv'
<1> USE DEF IInv
<1>1. /\ pc = "start"
      /\ UNCHANGED <<q, dirs, reply, ch, failed, dirVars, heard, errcount, vals, cut>>
  BY DEF Start
<1>2. CASE wpc' = wpc
  <2>1. Quiet /\ pc' = "returned" /\ (IsLookup => res'.is = "offline")
        /\ (~IsLookup => res'.is = "nodirectory" /\ dirs = {})
    <3>1. CASE IsLookup /\ ~online
      BY <1>1, <1>2, <3>1 DEF Start, Return, Quiet
    <3>2. CASE ~IsLookup /\ dirs = {}
      BY <1>1, <1>2, <3>2 DEF Start, Return, Quiet
    <3>3. CASE ~(IsLookup /\ ~online) /\ ~(~IsLookup /\ dirs = {})
      <4>1. /\ wpc' = [x \in DOMAIN wpc |-> IF x \in Workers THEN "connect" ELSE "none"]
        BY <3>3 DEF Start
      <4>2. PICK w : w \in Workers /\ w \in DOMAIN wpc
        BY <3>3 DEF Workers, Types
      <4>3. wpc'[w] = "connect"
        BY <4>1, <4>2
      <4>4. wpc[w] = "none"
        BY <1>1, <4>2 DEF Placed, Types
      <4> QED
        BY <1>2, <4>3, <4>4
    <3> QED
      BY <3>1, <3>2, <3>3
  <2>2. Types' /\ Placed' /\ Accounts' /\ Tables' /\ Replies' /\ LookupHeard' /\ CollectHeard'
    BY <1>1, <2>1, QuietPreserves DEF Types
  <2>3. Whole' /\ LookupSound' /\ CollectSound'
    BY <2>1, QuietKeeps DEF Whole, LookupSound, CollectSound, Quiet
  <2> QED
    BY <2>2, <2>3
<1>3. CASE wpc' # wpc
  <2>1. /\ pc' = "wait"
        /\ wpc' = [x \in DOMAIN wpc |-> IF x \in Workers THEN "connect" ELSE "none"]
    BY <1>3 DEF Start
  <2>2. IsLookup' = IsLookup /\ Workers' = Workers /\ Results' = Results /\ Errors' = Errors
        /\ Seen' = Seen
    BY <1>1 DEF IsLookup, Workers, Results, Errors, Seen, dirVars
  <2>3. /\ Workers \subseteq Dirs \cup {DHT} /\ dirs \subseteq Dirs
        /\ DOMAIN wpc = Dirs \cup {DHT}
    BY DEF Workers, Types
  <2>4. /\ wpc' \in [Dirs \cup {DHT} -> {"connect", "none"}]
        /\ \A x \in Dirs \cup {DHT} : x \notin Workers => wpc'[x] = "none"
    BY <2>1, <2>3
  <2>5. Ended = {} /\ Ended' = {} /\ Answered' = {}
    BY <1>1, <2>2, <2>3, <2>4 DEF Ended, Answered, Placed
  <2>6. failed = {} /\ Results = {}
    <3>1. failed = {}
      BY <2>5 DEF Placed
    <3>2. heard + Len(ch) = 0
      BY <2>5, FS_EmptySet DEF Accounts
    <3>3. Len(ch) = 0
      BY <3>2 DEF Types
    <3> QED
      BY <3>1, <3>3 DEF Results
  <2>7. Types'
    <3>1. wpc' \in [Dirs \cup {DHT} -> WorkerPlaces]
      BY <2>4 DEF WorkerPlaces
    <3> QED
      BY <1>1, <2>1, <3>1 DEF Types, dirVars
  <2>8. Placed' /\ Accounts'
    BY <1>1, <2>1, <2>2, <2>4, <2>5, <2>6 DEF Placed, Accounts
  <2>9. Tables' /\ Replies'
    BY <1>1, <2>4 DEF Tables, Replies, dirVars
  <2>10. LookupHeard' /\ CollectHeard'
    BY <1>1, <2>2, <2>5, <2>6 DEF LookupHeard, CollectHeard
  <2>11. Whole' /\ LookupSound' /\ CollectSound'
    BY <2>1 DEF Whole, LookupSound, CollectSound
  <2> QED
    BY <2>7, <2>8, <2>9, <2>10, <2>11
<1> QED
  BY <1>2, <1>3

LEMMA ExpirePreserves ==
    ASSUME IInv, Expire
    PROVE  IInv'
BY StutterPreserves DEF Expire, Quiet, callVars

(* A caller that gives up says so, or returns what it has. *)
LEMMA CancelledPreserves ==
    ASSUME IInv, Cancelled
    PROVE  IInv'
<1> USE DEF IInv
<1>1. pc = "wait" /\ pc' = "returned" /\ cut' = TRUE /\ Quiet
  BY DEF Cancelled, Return, Quiet
<1>2. Types' /\ Placed' /\ Accounts' /\ Tables' /\ Replies' /\ LookupHeard' /\ CollectHeard'
  BY <1>1, QuietPreserves
<1>3. Cardinality(Workers) \in Nat /\ errcount \in Nat
  BY Finiteness DEF Types
<1>4. Whole'
  BY <1>1 DEF Whole
<1>5. LookupSound'
  <2> SUFFICES ASSUME IsLookup PROVE LookupSound'
    BY <1>1, QuietKeeps DEF LookupSound
  <2>1. res' = IF errcount < Cardinality(Workers) THEN [is |-> "unknown"] ELSE [is |-> "error"]
    BY DEF Cancelled, Return, LookupResult
  <2>2. res'.is = "unknown" \/ (res'.is = "error" /\ errcount >= Cardinality(Workers))
    BY <1>3, <2>1
  <2>3. res'.is = "error" => failed = Workers
    BY <2>2, AllFailed
  <2> QED
    BY <1>1, <2>2, <2>3, QuietKeeps DEF LookupSound, Quiet
<1>6. CollectSound'
  <2> SUFFICES ASSUME ~IsLookup PROVE CollectSound'
    BY <1>1, QuietKeeps DEF CollectSound
  <2>1. res' = IF vals = {} /\ errcount = Cardinality(Workers) THEN [is |-> "error"]
               ELSE IF vals = {} THEN [is |-> "ctx"]
               ELSE [is |-> "values", vals |-> Shown(vals)]
    BY DEF Cancelled, Return, CollectResult
  <2>2. Workers = dirs
    BY DEF Workers
  <2>3. res'.is = "error" => failed = dirs
    <3>1. res'.is = "error" => errcount >= Cardinality(Workers)
      BY <1>3, <2>1
    <3> QED
      BY <2>2, <3>1, AllFailed
  <2>4. res'.is = "values" => res'.vals \subseteq Shown(Answer(q, Seen))
    <3>1. vals \subseteq Answer(q, Seen)
      BY DEF CollectHeard
    <3> QED
      BY <2>1, <3>1 DEF Shown
  <2> QED
    BY <1>1, <2>3, <2>4 DEF CollectSound, Quiet, dirVars, Shown, Seen
<1> QED
  BY <1>2, <1>4, <1>5, <1>6

(* The caller takes a result. *)
Taken ==
    /\ pc = "wait" /\ ch # <<>> /\ ch' = Tail(ch) /\ heard' = heard + 1
    /\ errcount' = IF Head(ch).is = "error" THEN errcount + 1 ELSE errcount
    /\ pc' \in {"wait", "returned"} /\ vals' \subseteq Items
    /\ UNCHANGED <<q, dirs, wpc, reply, failed, dirVars, cut>>

LEMMA TakenKeeps ==
    ASSUME Types, Taken
    PROVE  /\ IsLookup' = IsLookup /\ Workers' = Workers /\ Ended' = Ended
           /\ Answered' = Answered /\ Seen' = Seen /\ (WasThere' <=> WasThere)
BY DEF Taken, dirVars, IsLookup, Workers, Ended, Answered, Seen, WasThere

LEMMA TakenPreserves ==
    ASSUME IInv, Taken
    PROVE  Types' /\ Placed' /\ Accounts' /\ Tables' /\ Replies'
<1> USE DEF IInv
<1>1. /\ ch' \in Seq(Result) /\ Len(ch) = Len(ch') + 1 /\ Len(ch') \in Nat
      /\ Errors' = Errors \ {heard + 1}
      /\ heard + 1 \in Errors <=> Head(ch).is = "error"
  BY ChannelTake DEF Taken
<1>2. heard \in Nat /\ errcount \in Nat
  BY DEF Types
<1>3. heard' \in Nat /\ errcount' \in Nat
  BY <1>2 DEF Taken
<1>4. Types'
  BY <1>1, <1>3 DEF Types, Taken, dirVars
<1>5. Placed'
  BY TakenKeeps DEF Placed, Taken
<1>6. Cardinality(Ended)' = (heard + Len(ch))'
  BY <1>1, <1>2, TakenKeeps DEF Accounts, Taken
<1>7. Cardinality(failed)' = (errcount + Cardinality(Errors))'
  <2>1. Cardinality(Errors') = IF heard + 1 \in Errors THEN Cardinality(Errors) - 1
                               ELSE Cardinality(Errors)
    BY <1>1, Finiteness, FS_RemoveElement
  <2> QED
    BY <1>1, <1>2, <2>1, Finiteness DEF Accounts, Taken
<1>8. Tables' /\ Replies'
  BY DEF Tables, Replies, Taken, dirVars
<1> QED
  BY <1>4, <1>5, <1>6, <1>7, <1>8 DEF Accounts

(* When the last result is taken, the accounts are closed. *)
LEMMA LastTaken ==
    ASSUME IInv, Taken, heard' = Cardinality(Workers)
    PROVE  /\ Ended = Workers /\ Results' = {} /\ errcount' \in Nat
           /\ Cardinality(failed) = errcount'
<1>1. Types' /\ Placed' /\ Accounts'
  BY TakenPreserves
<1>2. (heard = Cardinality(Workers))'
  BY TakenKeeps DEF IInv
<1>3. (Ended = Workers /\ Results = {} /\ Cardinality(failed) = errcount)'
  BY <1>1, <1>2, AllHeard, PTL
<1> QED
  BY <1>1, <1>3, TakenKeeps DEF IInv, Types, Taken

LEMMA TakeOfLookupPreserves ==
    ASSUME IInv, TakeOfLookup
    PROVE  IInv'
<1> USE DEF IInv
<1>1. IsLookup /\ Taken
  BY DEF TakeOfLookup, Taken, Return, Types
<1>2. Types' /\ Placed' /\ Accounts' /\ Tables' /\ Replies'
  BY <1>1, TakenPreserves
<1>3. /\ Head(ch) \in Results /\ Results' \subseteq Results
      /\ Results \subseteq Results' \cup {Head(ch)}
  BY <1>1, ChannelTake DEF Taken
<1>4. Head(ch).is \in Plain /\ (Head(ch).is = "found" => WasThere)
  BY <1>1, <1>3 DEF LookupHeard
<1>5. /\ Head(ch).is \in {"found", "bare"} => pc' = "returned" /\ res' = Head(ch)
      /\ Head(ch).is \in {"unknown", "error"} /\ heard' = Cardinality(Workers) =>
            pc' = "returned" /\ res' = LookupResult(errcount')
      /\ Head(ch).is \in {"unknown", "error"} /\ heard' # Cardinality(Workers) =>
            pc' = pc /\ res' = res
  BY DEF TakeOfLookup, Return
<1>6. LookupHeard'
  <2>1. pc' # "returned" => Head(ch).is # "found"
    BY <1>5
  <2> QED
    BY <1>1, <1>3, <2>1, TakenKeeps DEF LookupHeard, Taken, dirVars
<1>7. CollectHeard' /\ CollectSound'
  BY <1>1, TakenKeeps DEF CollectHeard, CollectSound
<1>8. CASE Head(ch).is \in {"found", "bare"}
  <2>1. Whole'
    BY <1>5, <1>8 DEF Whole
  <2>2. LookupSound'
    <3>1. (res'.is = "found" => WasThere') /\ res'.is \in {"found", "bare"}
      BY <1>1, <1>4, <1>5, <1>8, TakenKeeps
    <3> QED
      BY <3>1 DEF LookupSound, WasThere
  <2> QED
    BY <1>2, <1>6, <1>7, <2>1, <2>2
<1>9. CASE Head(ch).is \in {"unknown", "error"} /\ heard' = Cardinality(Workers)
  <2>1. Ended = Workers /\ Results' = {} /\ errcount' \in Nat /\ Cardinality(failed) = errcount'
    BY <1>1, <1>9, LastTaken
  <2>2. Whole'
    BY <1>1, <2>1, TakenKeeps DEF Whole
  <2>3. res' = IF errcount' < Cardinality(Workers) THEN [is |-> "unknown"] ELSE [is |-> "error"]
    BY <1>5, <1>9, TakenKeeps DEF LookupResult
  <2>4. Cardinality(Workers) \in Nat
    BY Finiteness
  <2>5. CASE errcount' < Cardinality(Workers)
    <3>1. \E x \in Workers : x \notin failed
      BY <2>1, <2>5, SomeAnswered
    <3>2. \A d \in dirs \ failed : Wanted \notin always[d]
      <4>1. \A d \in dirs \ failed : d \in Answered
        BY <1>1, <2>1 DEF Answered, Ended, Workers
      <4>2. Results \subseteq {Head(ch)} /\ Head(ch).is # "found"
        BY <1>3, <1>9, <2>1
      <4>3. pc = "wait"
        BY <1>1 DEF Taken
      <4> QED
        BY <1>1, <4>1, <4>2, <4>3 DEF LookupHeard
    <3>3. res'.is = "unknown"
      BY <2>3, <2>5
    <3>4. LookupSound'
      BY <1>1, <3>1, <3>2, <3>3, TakenKeeps DEF LookupSound, Taken, dirVars
    <3> QED
      BY <1>2, <1>6, <1>7, <2>2, <3>4
  <2>6. CASE ~(errcount' < Cardinality(Workers))
    <3>1. Cardinality(failed) = Cardinality(Workers)
      <4>1. Cardinality(failed) <= Cardinality(Workers)
        BY Finiteness, FS_Subset
      <4> QED
        BY <2>1, <2>4, <2>6, <4>1
    <3>2. failed = Workers
      BY <3>1, Finiteness, FS_Subset
    <3>3. res'.is = "error"
      BY <2>3, <2>6
    <3>4. LookupSound'
      BY <1>1, <3>2, <3>3, TakenKeeps DEF LookupSound, Taken
    <3> QED
      BY <1>2, <1>6, <1>7, <2>2, <3>4
  <2> QED
    BY <2>5, <2>6
<1>10. CASE Head(ch).is \in {"unknown", "error"} /\ heard' # Cardinality(Workers)
  <2>1. pc' # "returned"
    BY <1>1, <1>5, <1>10 DEF Taken
  <2>2. Whole' /\ LookupSound'
    BY <2>1 DEF Whole, LookupSound
  <2> QED
    BY <1>2, <1>6, <1>7, <2>2
<1> QED
  BY <1>4, <1>8, <1>9, <1>10 DEF Plain

LEMMA TakeOfCollectPreserves ==
    ASSUME IInv, TakeOfCollect
    PROVE  IInv'
<1> USE DEF IInv
<1>1. /\ Head(ch) \in Results /\ Results' \subseteq Results /\ Head(ch) \in Result
      /\ Results \subseteq Results' \cup {Head(ch)}
  BY ChannelTake DEF TakeOfCollect
<1>2. /\ ~IsLookup
      /\ vals' = IF Head(ch).is = "values" THEN vals \cup Head(ch).vals ELSE vals
  BY DEF TakeOfCollect
<1>3. vals' \subseteq Items
  BY <1>1, <1>2 DEF Result, Plain, Types
<1>4. Taken
  BY <1>3 DEF TakeOfCollect, Taken, Return
<1>5. Types' /\ Placed' /\ Accounts' /\ Tables' /\ Replies'
  BY <1>4, TakenPreserves
<1>6. vals' \subseteq Answer(q, Seen)
  BY <1>1, <1>2 DEF CollectHeard
<1>7. ASSUME NEW d \in Answered, NEW v \in Answer(q, always[d])
      PROVE  v \in vals' \/ \E r \in Results' : r.is = "values" /\ v \in r.vals
  <2>1. CASE v \in vals
    BY <1>2, <2>1
  <2>2. CASE \E r \in Results : r.is = "values" /\ v \in r.vals
    BY <1>1, <1>2, <2>2
  <2> QED
    BY <1>2, <2>1, <2>2 DEF CollectHeard
<1>8. CollectHeard'
  <2>1. \A r \in Results' : /\ r.is \in {"values", "error"}
                            /\ r.is = "values" => r.vals \subseteq Answer(q, Seen)
    BY <1>1, <1>2 DEF CollectHeard
  <2> QED
    BY <1>4, <1>6, <1>7, <2>1, TakenKeeps DEF CollectHeard, Taken, dirVars
<1>9. LookupHeard' /\ LookupSound'
  BY <1>2, <1>4, TakenKeeps DEF LookupHeard, LookupSound
<1>10. CASE heard' = Cardinality(Workers)
  <2>1. /\ Ended = Workers /\ Results' = {} /\ errcount' \in Nat
        /\ Cardinality(failed) = errcount' /\ Workers = dirs
    BY <1>2, <1>4, <1>10, LastTaken DEF Workers
  <2>2. Whole'
    BY <1>4, <2>1, TakenKeeps DEF Whole
  <2>3. res' = IF vals' = {} /\ errcount' = Cardinality(Workers) THEN [is |-> "error"]
               ELSE [is |-> "values", vals |-> Shown(vals')]
    BY <1>4, <1>10, TakenKeeps DEF TakeOfCollect, Return, CollectResult
  <2>4. res'.is = "error" => failed = dirs
    <3>1. res'.is = "error" => Cardinality(failed) = Cardinality(Workers)
      BY <2>1, <2>3
    <3> QED
      BY <2>1, <3>1, Finiteness, FS_Subset
  <2>5. res'.is = "values" =>
          /\ res'.vals \subseteq Shown(Answer(q, Seen))
          /\ \A d \in dirs \ failed : Shown(Answer(q, always[d])) \subseteq res'.vals
    <3>1. \A d \in dirs \ failed : d \in Answered
      BY <2>1 DEF Answered, Ended
    <3>2. \A d \in dirs \ failed : Answer(q, always[d]) \subseteq vals'
      BY <1>7, <2>1, <3>1
    <3> QED
      BY <1>6, <2>3, <3>2 DEF Shown
  <2>6. res'.is # "ctx"
    BY <2>3
  <2>7. CollectSound'
    BY <1>4, <2>4, <2>5, <2>6 DEF CollectSound, Taken, dirVars, Shown, Seen
  <2> QED
    BY <1>5, <1>8, <1>9, <2>2, <2>7
<1>11. CASE heard' # Cardinality(Workers)
  <2>1. pc' # "returned"
    BY <1>4, <1>11, TakenKeeps DEF TakeOfCollect, Taken
  <2>2. Whole' /\ CollectSound'
    BY <2>1 DEF Whole, CollectSound
  <2> QED
    BY <1>5, <1>8, <1>9, <2>2
<1> QED
  BY <1>10, <1>11

-----------------------------------------------------------------------------
(* Theorems *)

LEMMA InitInvariant == Init => IInv
<1> SUFFICES ASSUME Init PROVE IInv
  OBVIOUS
<1>1. Types
  <2>1. wpc \in [Dirs \cup {DHT} -> WorkerPlaces] /\ reply \in [Dirs -> SUBSET Items]
    BY DEF Init, WorkerPlaces
  <2>2. ch \in Seq(Result)
    BY DEF Init
  <2> QED
    BY <2>1, <2>2 DEF Init, Types
<1>2. Workers \subseteq Dirs \cup {DHT} /\ dirs \subseteq Dirs
  BY <1>1 DEF Types, Workers
<1>3. \A x \in Dirs \cup {DHT} : wpc[x] = "none"
  BY DEF Init
<1>4. Ended = {} /\ Answered = {}
  BY <1>2, <1>3 DEF Ended, Answered
<1>5. Len(ch) = 0 /\ Results = {} /\ Errors = {}
  <2>1. Len(ch) = 0
    BY DEF Init
  <2> QED
    BY <2>1 DEF Init, Results, Errors
<1>6. Placed /\ Accounts
  BY <1>3, <1>4, <1>5, FS_EmptySet DEF Init, Placed, Accounts
<1>7. Tables /\ Replies
  BY <1>3 DEF Init, Tables, Replies
<1>8. LookupHeard /\ CollectHeard
  BY <1>4, <1>5 DEF Init, LookupHeard, CollectHeard
<1>9. Whole /\ LookupSound /\ CollectSound
  BY DEF Init, Whole, LookupSound, CollectSound
<1> QED
  BY <1>1, <1>6, <1>7, <1>8, <1>9 DEF IInv

LEMMA NextInvariant == IInv /\ [Next]_vars => IInv'
<1> SUFFICES ASSUME IInv, [Next]_vars PROVE IInv'
  OBVIOUS
<1>1. CASE Start
  BY <1>1, StartPreserves
<1>2. CASE Take
  BY <1>2, TakeOfLookupPreserves, TakeOfCollectPreserves DEF Take
<1>3. CASE Cancelled
  BY <1>3, CancelledPreserves
<1>4. CASE Expire
  BY <1>4, ExpirePreserves
<1>5. CASE DHTLookup
  BY <1>5, DHTLookupPreserves
<1>6. ASSUME NEW d \in Dirs, HandleQuestion(d) PROVE IInv'
  BY <1>6, HandleQuestionPreserves
<1>7. ASSUME NEW d \in Dirs, WorkerStep(d) PROVE IInv'
  BY <1>7, AskDirectoryPreserves, DirectoryFailsPreserves, ReadAnswerPreserves DEF WorkerStep
<1>8. ASSUME NEW d \in Dirs, NEW p \in Peers, Change(d, p) PROVE IInv'
  BY <1>8, ChangePreserves
<1>9. CASE UNCHANGED vars
  BY <1>9, StutterPreserves DEF vars, callVars, Quiet
<1> QED
  BY <1>1, <1>2, <1>3, <1>4, <1>5, <1>6, <1>7, <1>8, <1>9 DEF Next

(* What the loops of doLookupImpl and doDirCollect know of their workers    *)
(* while results are on their way holds in every state of a request.       *)
THEOREM Invariant == Spec => []IInv
BY InitInvariant, NextInvariant, PTL DEF Spec

(* doLookup answers with what it heard: it finds no peer that no directory *)
(* listed and the DHT does not know, misses none that a directory which    *)
(* answered listed all the time, and fails only when all its means failed. *)
THEOREM LookupIsSound == Spec => []LookupSound
BY Invariant, PTL DEF IInv

(* doDirCollect returns all that the directories which answered list, and  *)
(* nothing that none of them has listed, unless its context ended.         *)
THEOREM CollectIsSound == Spec => []CollectSound
BY Invariant, PTL DEF IInv

-----------------------------------------------------------------------------
(***************************************************************************)
(* Nobody waits for nothing. While the caller waits it has not heard all   *)
(* of its workers, every one of which runs or has ended; so by the         *)
(* accounts there is a result in the channel or a worker that will send    *)
(* one.                                                                    *)
(***************************************************************************)

Busy(x) == wpc[x] \in {"connect", "asked", "answered"}

Waiting ==
    pc = "wait" => heard < Cardinality(Workers) /\ \A x \in Workers : wpc[x] # "none"

(* A worker that has a result finds room for it in the channel, also when  *)
(* the caller is long gone; and a caller that waits has a result to take   *)
(* or a worker at work for it.                                             *)
NeverStuck ==
    /\ \A x \in Workers : Busy(x) => Len(ch) < Capacity
    /\ pc = "wait" => ch # <<>> \/ \E x \in Workers : Busy(x)

LEMMA InitWaiting == Init => Waiting
BY DEF Init, Waiting

LEMMA StartWaiting ==
    ASSUME IInv, Start
    PROVE  Waiting'
<1> USE DEF IInv
<1>1. UNCHANGED <<q, dirs, heard>> /\ Workers' = Workers /\ pc = "start"
  BY DEF Start, Workers, IsLookup
<1>2. Workers \subseteq Dirs \cup {DHT} /\ DOMAIN wpc = Dirs \cup {DHT}
  BY DEF Types, Workers
<1>3. heard = 0
  <2>1. Ended = {}
    BY <1>1, <1>2 DEF Placed, Ended
  <2>2. heard + Len(ch) = 0
    BY <2>1, FS_EmptySet DEF Accounts
  <2> QED
    BY <2>2 DEF Types
<1>4. ASSUME pc' = "wait"
      PROVE  heard' < Cardinality(Workers') /\ \A x \in Workers' : wpc'[x] # "none"
  <2>1. /\ ~(IsLookup /\ ~online) /\ ~(~IsLookup /\ dirs = {})
        /\ wpc' = [x \in DOMAIN wpc |-> IF x \in Workers THEN "connect" ELSE "none"]
    BY <1>4 DEF Start, Return
  <2>2. Workers # {}
    BY <2>1 DEF Workers
  <2>3. Cardinality(Workers) # 0 /\ Cardinality(Workers) \in Nat
    BY <2>2, Finiteness, FS_EmptySet
  <2>4. \A x \in Workers' : wpc'[x] # "none"
    BY <1>1, <1>2, <2>1
  <2> QED
    BY <1>1, <1>3, <2>3, <2>4
<1> QED
  BY <1>4 DEF Waiting

LEMMA TakeWaiting ==
    ASSUME IInv, Waiting, Take
    PROVE  Waiting'
<1> USE DEF IInv
<1>1. /\ pc = "wait" /\ ch # <<>> /\ heard' = heard + 1
      /\ UNCHANGED <<q, dirs, wpc>> /\ Workers' = Workers
  BY DEF Take, TakeOfLookup, TakeOfCollect, Workers, IsLookup
<1>2. heard' # Cardinality(Workers) \/ pc' = "returned"
  <2>1. CASE TakeOfLookup
    <3>1. Head(ch) \in Results
      BY <1>1, <2>1, ChannelTake DEF TakeOfLookup
    <3>2. Head(ch).is \in Plain
      BY <2>1, <3>1 DEF TakeOfLookup, LookupHeard
    <3> QED
      BY <2>1, <3>2 DEF TakeOfLookup, Return, Plain
  <2>2. CASE TakeOfCollect
    BY <2>2 DEF TakeOfCollect, Return
  <2> QED
    BY <2>1, <2>2 DEF Take
<1>3. heard \in Nat /\ Cardinality(Workers) \in Nat
  BY Finiteness DEF Types
<1>4. heard' # Cardinality(Workers) => heard' < Cardinality(Workers)
  BY <1>1, <1>3 DEF Waiting
<1> QED
  BY <1>1, <1>2, <1>4 DEF Waiting

(* Every other step leaves the count alone, and no worker stops without a  *)
(* result.                                                                 *)
LEMMA OthersWaiting ==
    ASSUME Types, Waiting, UNCHANGED <<q, dirs, heard>>, pc' = pc \/ pc' = "returned",
           \/ UNCHANGED wpc
           \/ \E x \in Dirs \cup {DHT}, l \in {"asked", "answered", "end"} :
                 wpc' = [wpc EXCEPT ![x] = l]
    PROVE  Waiting'
<1>1. Workers' = Workers
  BY DEF Workers, IsLookup
<1>2. DOMAIN wpc = Dirs \cup {DHT}
  BY DEF Types
<1>3. Workers \subseteq Dirs \cup {DHT}
  BY DEF Types, Workers
<1>4. \A y \in Workers : wpc[y] # "none" => wpc'[y] # "none"
  BY <1>2, <1>3
<1> QED
  BY <1>1, <1>4 DEF Waiting

LEMMA NextWaiting == IInv /\ Waiting /\ [Next]_vars => Waiting'
<1> SUFFICES ASSUME IInv, Waiting, [Next]_vars PROVE Waiting'
  OBVIOUS
<1>0. Types
  BY DEF IInv
<1>1. CASE Start
  BY <1>1, StartWaiting
<1>2. CASE Take
  BY <1>2, TakeWaiting
<1>3. CASE Cancelled
  BY <1>0, <1>3, OthersWaiting DEF Cancelled, Return
<1>4. CASE Expire
  BY <1>0, <1>4, OthersWaiting DEF Expire, callVars
<1>5. CASE DHTLookup
  <2>1. wpc' = [wpc EXCEPT ![DHT] = "end"] /\ UNCHANGED <<q, dirs, heard, pc>>
    BY <1>5 DEF DHTLookup, Send, callVars
  <2> QED
    BY <1>0, <2>1, OthersWaiting
<1>6. ASSUME NEW d \in Dirs, HandleQuestion(d) PROVE Waiting'
  <2>1. wpc' = [wpc EXCEPT ![d] = "answered"] /\ UNCHANGED <<q, dirs, heard, pc>>
    BY <1>6 DEF HandleQuestion, callVars
  <2> QED
    BY <1>0, <2>1, OthersWaiting
<1>7. ASSUME NEW d \in Dirs, WorkerStep(d) PROVE Waiting'
  <2>1. /\ \E l \in {"asked", "answered", "end"} : wpc' = [wpc EXCEPT ![d] = l]
        /\ UNCHANGED <<q, dirs, heard, pc>>
    BY <1>7 DEF WorkerStep, AskDirectory, DirectoryFails, ReadAnswer, Send, callVars
  <2> QED
    BY <1>0, <2>1, OthersWaiting
<1>8. ASSUME NEW d \in Dirs, NEW p \in Peers, Change(d, p) PROVE Waiting'
  BY <1>0, <1>8, OthersWaiting DEF Change, callVars
<1>9. CASE UNCHANGED vars
  BY <1>0, <1>9, OthersWaiting DEF vars, callVars
<1> QED
  BY <1>1, <1>2, <1>3, <1>4, <1>5, <1>6, <1>7, <1>8, <1>9 DEF Next

LEMMA WaitingNeverStuck == IInv /\ Waiting => NeverStuck
<1> SUFFICES ASSUME IInv, Waiting PROVE NeverStuck
  OBVIOUS
<1> USE DEF IInv
<1>1. PICK n \in Nat : n = Len(ch)
  BY DEF Types
<1>2. heard \in Nat /\ Cardinality(Workers) \in Nat /\ Cardinality(Ended) \in Nat
  BY Finiteness DEF Types
<1>3. ASSUME NEW x \in Workers, Busy(x)
      PROVE  Len(ch) < Capacity
  <2>1. Ended # Workers
    BY <1>3 DEF Ended, Busy
  <2>2. Cardinality(Ended) <= Cardinality(Workers) /\ Cardinality(Ended) # Cardinality(Workers)
    BY <2>1, Finiteness, FS_Subset
  <2>3. heard + n < Cardinality(Workers)
    BY <1>1, <1>2, <2>2 DEF Accounts
  <2> QED
    BY <1>1, <1>2, <2>3 DEF Capacity
<1>4. ASSUME pc = "wait", ch = <<>>
      PROVE  \E x \in Workers : Busy(x)
  <2>1. Len(ch) = 0
    BY <1>4
  <2>2. Cardinality(Ended) < Cardinality(Workers)
    BY <1>2, <1>4, <2>1 DEF Accounts, Waiting
  <2>3. Ended # Workers
    BY <1>2, <2>2
  <2>4. PICK x \in Workers : wpc[x] # "end"
    BY <2>3 DEF Ended
  <2>5. wpc[x] \in WorkerPlaces /\ wpc[x] # "none"
    BY <1>4 DEF Types, Workers, Waiting
  <2> QED
    BY <2>4, <2>5 DEF WorkerPlaces, Busy
<1> QED
  BY <1>3, <1>4 DEF NeverStuck

(* No send of a worker of doLookup or doDirCollect ever blocks, whether    *)
(* the caller still listens or has returned with the first answer, and     *)
(* neither of their loops waits for a result that no worker is left to     *)
(* send: a request that does not end is one whose directory stalls.        *)
THEOREM RequestNeverStuck == Spec => []NeverStuck
BY InitInvariant, NextInvariant, InitWaiting, NextWaiting, WaitingNeverStuck, PTL DEF Spec

=============================================================================
