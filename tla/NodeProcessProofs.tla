-------------------------- MODULE NodeProcessProofs --------------------------
(***************************************************************************)
(* Proofs about NodeProcess, for any requests, values and bounds.          *)
(*                                                                         *)
(* The configuration. The save that is made alone (alone) is the only one  *)
(* there is, has read the fields as they are in memory, and finds the file *)
(* empty when it writes; any other save has been overlapped (Saves). So    *)
(* the file holds what is in memory when nobody saves and no accident is   *)
(* recorded (FileIsMemory), and what cannot be loaded is explained by one. *)
(*                                                                         *)
(* The ids. Their counters tell the statements of a process apart, and are *)
(* below the counter of the node (Counters).                               *)
(***************************************************************************)
EXTENDS NodeProcess, Integers, TLAPS

Places == {"idle", "read", "truncate", "write", "clock", "make", "put"}
Doubts == {"unsaved", "cut", "overlap"}
Id == Nat \X Nat

Types ==
    /\ up \in {"down", "up", "failed"} /\ life \in Nat /\ clock \in Nat /\ requests \in Nat
    /\ mem \in Config /\ file \in [text : Text \cup {NoFile, Broken}, size : Nat]
    /\ rpc \in [Reqs -> Places] /\ snap \in [Reqs -> Seq(Values)]
    /\ ids \in [Reqs -> Seq(Id)] /\ left \in [Reqs -> Int] /\ ts \in [Reqs -> Nat]
    /\ counter \in Nat /\ db \in [DOMAIN db -> Nat] /\ DOMAIN db \subseteq Id
    /\ alone \in Reqs \cup {None} /\ doubt \subseteq Doubts

(* A process that is not up serves nothing. *)
DownIsIdle == up # "up" => \A r \in Reqs : rpc[r] = "idle" /\ ids[r] = <<>>

(* A NAT configuration is always set. *)
NATSet ==
    /\ mem["nat"] # Empty
    /\ file.text \in Text /\ "nat" \in DOMAIN file.text => file.text["nat"] # Empty

(* How far a save has read. *)
Reads ==
    \A r \in Reqs :
        /\ Len(snap[r]) <= 5
        /\ rpc[r] = "read" => Len(snap[r]) < 5
        /\ rpc[r] \in {"truncate", "write"} => Len(snap[r]) = 5
        /\ ~Saving(r) => snap[r] = <<>>

Saves ==
    \A r \in Reqs :
        /\ alone = r =>
              /\ \A q \in Reqs : Saving(q) <=> q = r
              /\ \A i \in 1..Len(snap[r]) : snap[r][i] = mem[FieldOrder[i]]
              /\ rpc[r] = "write" => file = [text |-> Broken, size |-> 0]
        /\ Saving(r) /\ alone # r => "overlap" \in doubt

FileIsMemory ==
    doubt = {} /\ (\A r \in Reqs : ~Saving(r)) =>
        Loads(file.text) /\ Unmarshal(file.text) = mem

(* The counters of the statements in requests are distinct, and given out; *)
(* those that this process has stored are none of them.                    *)
Distinct ==
    \A r, s \in Reqs : \A i \in DOMAIN ids[r], j \in DOMAIN ids[s] :
        ids[r][i][2] = ids[s][j][2] => r = s /\ i = j
GivenOut == \A r \in Reqs : \A i \in DOMAIN ids[r] : ids[r][i][2] < counter
Stored ==
    \A k \in DOMAIN db :
        /\ db[k] <= life /\ (up = "down" => db[k] < life)
        /\ db[k] = life =>
              /\ up = "up" => k[2] < counter
              /\ \A r \in Reqs : \A i \in DOMAIN ids[r] : k[2] # ids[r][i][2]

Counters == Distinct /\ GivenOut /\ Stored

CInv == DownIsIdle /\ NATSet /\ Reads /\ Saves /\ FileIsMemory /\ BrokenByAccident
IInv == Types /\ CInv /\ Counters

-----------------------------------------------------------------------------
(* The text of config.json *)

LEMMA Fields ==
    /\ Field = {"info", "nat", "dir", "auth", "mfs"}
    /\ \A i \in 1..5 : FieldOrder[i] \in Field
    /\ \A i, j \in 1..5 : FieldOrder[i] = FieldOrder[j] => i = j
    /\ \A f \in Field : \E i \in 1..5 : FieldOrder[i] = f
<1>1. /\ FieldOrder[1] = "info" /\ FieldOrder[2] = "nat" /\ FieldOrder[3] = "dir"
      /\ FieldOrder[4] = "auth" /\ FieldOrder[5] = "mfs"
  BY DEF FieldOrder
<1>2. \A i \in 1..5 : i = 1 \/ i = 2 \/ i = 3 \/ i = 4 \/ i = 5
  OBVIOUS
<1> HIDE DEF FieldOrder
<1>3. Field = {"info", "nat", "dir", "auth", "mfs"}
  BY <1>1, <1>2 DEF Field
<1>4. \A i, j \in 1..5 : FieldOrder[i] = FieldOrder[j] => i = j
  BY <1>1, <1>2
<1> QED
  BY <1>3, <1>4 DEF Field

LEMMA SnapTyped ==
    ASSUME Types, NEW r \in Reqs
    PROVE  snap[r] \in Seq(Values) /\ Len(snap[r]) \in Nat
<1>1. snap[r] \in Seq(Values)
  BY DEF Types
<1> QED
  BY <1>1

(* Snapshot gives to every field what was read at its place. *)
LEMMA SnapshotReads ==
    ASSUME Types, NEW r \in Reqs, Len(snap[r]) = 5
    PROVE  /\ Snapshot(r) \in Config
           /\ \A i \in 1..5 : Snapshot(r)[FieldOrder[i]] = snap[r][i]
<1> DEFINE At(f) == CHOOSE i \in 1..5 : FieldOrder[i] = f
<1>1. \A f \in Field : At(f) \in 1..5 /\ FieldOrder[At(f)] = f
  BY Fields
<1>2. \A i \in 1..5 : At(FieldOrder[i]) = i
  BY <1>1, Fields
<1>3. Snapshot(r) = [f \in Field |-> snap[r][At(f)]]
  BY DEF Snapshot
<1>4. \A i \in 1..5 : snap[r][i] \in Values
  <2>1. snap[r] \in Seq(Values)
    BY DEF Types
  <2> QED
    BY <2>1
<1> HIDE DEF At
<1> QED
  BY <1>1, <1>2, <1>3, <1>4, Fields DEF Config

(* What saveConfig writes is an object that has exactly the fields set, *)
LEMMA MarshalIsText ==
    ASSUME NEW c \in Config
    PROVE  /\ Marshal(c) \in Text
           /\ DOMAIN Marshal(c) = {f \in Field : c[f] # Empty}
           /\ \A f \in DOMAIN Marshal(c) : Marshal(c)[f] = c[f]
<1> DEFINE D == {f \in Field : c[f] # Empty}
<1>1. D \in SUBSET (Field \cup {"olddir"}) /\ Marshal(c) \in [D -> Values]
  BY DEF Marshal, Config
<1> QED
  BY <1>1 DEF Text, Marshal

(* and loadConfig reads it back as it was. *)
LEMMA UnmarshalMarshal ==
    ASSUME NEW c \in Config, c["nat"] # Empty
    PROVE  Loads(Marshal(c)) /\ Unmarshal(Marshal(c)) = c
<1>1. Marshal(c) # NoFile /\ Marshal(c) # Broken
  BY MarshalIsText, TextAssumption
<1>2. "olddir" \notin DOMAIN Marshal(c) /\ "nat" \in DOMAIN Marshal(c)
  <2>1. DOMAIN Marshal(c) = {f \in Field : c[f] # Empty}
    BY MarshalIsText
  <2>2. "nat" \in Field /\ "olddir" \notin Field
    BY Fields
  <2> QED
    BY <2>1, <2>2
<1>3. \A f \in Field : Unmarshal(Marshal(c))[f] = c[f]
  BY <1>1, <1>2, MarshalIsText DEF Unmarshal
<1>4. Unmarshal(Marshal(c)) = [f \in Field |-> Unmarshal(Marshal(c))[f]]
  BY <1>1 DEF Unmarshal
<1>5. Unmarshal(Marshal(c)) = c
  BY <1>3, <1>4 DEF Config
<1> QED
  BY <1>1, <1>2, <1>5 DEF Loads

LEMMA UnmarshalTyped ==
    ASSUME NEW t \in Text \cup {NoFile, Broken}, Loads(t),
           t \in Text /\ "nat" \in DOMAIN t => t["nat"] # Empty
    PROVE  Unmarshal(t) \in Config /\ Unmarshal(t)["nat"] # Empty
<1>1. CASE t = NoFile
  BY <1>1, Fields, ValuesAssumption DEF Unmarshal, Config
<1>2. CASE t # NoFile
  <2>1. PICK D \in SUBSET (Field \cup {"olddir"}) : t \in [D -> Values]
    BY <1>2 DEF Loads, Text
  <2>2. "nat" \in DOMAIN t /\ t["nat"] # Empty
    BY <1>2 DEF Loads
  <2> QED
    BY <1>2, <2>1, <2>2, Fields, ValuesAssumption DEF Unmarshal, Config
<1> QED
  BY <1>1, <1>2

LEMMA SizeTyped ==
    ASSUME NEW t \in Text
    PROVE  Size(t) \in Nat
<1>1. PICK D \in SUBSET (Field \cup {"olddir"}) : t \in [D -> Values]
  BY DEF Text
<1>2. \A f \in DOMAIN t : Width[t[f]] \in Nat
  BY <1>1, WidthAssumption
<1> QED
  BY <1>2 DEF Size

(* The file after a write, whole or cut short. *)
LEMMA WriteTyped ==
    ASSUME Types, Reads, NEW r \in Reqs, rpc[r] = "write"
    PROVE  /\ Overwritten(Marshal(Snapshot(r))) \in [text : Text \cup {NoFile, Broken}, size : Nat]
           /\ \A g \in CutShort(Marshal(Snapshot(r))) :
                 /\ g \in [text : Text \cup {NoFile, Broken}, size : Nat]
                 /\ g = file \/ g.text = Broken
<1>1. Marshal(Snapshot(r)) \in Text
  BY SnapshotReads, MarshalIsText DEF Reads
<1>2. Size(Marshal(Snapshot(r))) \in Nat
  BY <1>1, SizeTyped
<1>3. Overwritten(Marshal(Snapshot(r))) \in [text : Text \cup {NoFile, Broken}, size : Nat]
  BY <1>1, <1>2 DEF Overwritten, Types
<1>4. ASSUME NEW g \in CutShort(Marshal(Snapshot(r)))
      PROVE  /\ g \in [text : Text \cup {NoFile, Broken}, size : Nat]
             /\ g = file \/ g.text = Broken
  BY <1>2, <1>4 DEF CutShort, Types
<1> QED
  BY <1>3, <1>4

-----------------------------------------------------------------------------

LEMMA InitInvariant == Init => IInv
<1> SUFFICES ASSUME Init PROVE IInv
  OBVIOUS
<1>1. /\ file.text \in Text \cup {NoFile} /\ file.size = 0
      /\ file = [text |-> file.text, size |-> 0]
      /\ file.text \in Text => "nat" \in DOMAIN file.text /\ file.text["nat"] # Empty
  <2>1. ASSUME NEW v \in ValuesOf["dir"]
        PROVE  FormerText(v) \in Text /\ DOMAIN FormerText(v) = {"nat", "olddir"}
                   /\ FormerText(v)["nat"] = NoNAT
    <3>1. v \in Values
      BY ValuesAssumption, Fields
    <3>2. {"nat", "olddir"} \in SUBSET (Field \cup {"olddir"})
      BY Fields
    <3>3. FormerText(v) \in [{"nat", "olddir"} -> Values]
      BY <3>1, ValuesAssumption DEF FormerText
    <3> QED
      BY <3>2, <3>3 DEF Text, FormerText
  <2>2. CASE file.text = NoFile
    BY <2>2, TextAssumption DEF Init
  <2>3. CASE file.text # NoFile
    BY <2>1, <2>3, ValuesAssumption DEF Init
  <2> QED
    BY <2>2, <2>3
<1>2. Loads(file.text) /\ mem \in Config /\ mem["nat"] # Empty
  <2>1. Loads(file.text)
    BY <1>1, TextAssumption DEF Loads
  <2> QED
    BY <1>1, <2>1, UnmarshalTyped DEF Init
<1>3. Types
  BY <1>1, <1>2 DEF Init, Types, Places
<1>4. DownIsIdle /\ NATSet /\ Reads
  BY <1>1, <1>2 DEF Init, DownIsIdle, NATSet, Reads, Saving
<1>5. Saves /\ FileIsMemory /\ BrokenByAccident
  BY <1>2, NoneAssumption DEF Init, Saves, FileIsMemory, BrokenByAccident, Saving
<1>6. Counters
  BY DEF Init, Counters, Distinct, GivenOut, Stored
<1> QED
  BY <1>3, <1>4, <1>5, <1>6 DEF IInv, CInv

-----------------------------------------------------------------------------
(* Types *)

LEMMA ProcessTypes ==
    ASSUME IInv, Start \/ StartFails \/ End \/ Tick
    PROVE  Types'
<1> USE DEF IInv, CInv, cfgVars, pubVars
<1>1. CASE Start
  BY <1>1, UnmarshalTyped DEF Start, Types, NATSet
<1>2. CASE StartFails
  BY <1>2 DEF StartFails, Types
<1>3. CASE End
  <2>1. file' \in [text : Text \cup {NoFile, Broken}, size : Nat]
    BY <1>3, WriteTyped DEF End, Types
  <2>2. doubt' \subseteq Doubts
    BY <1>3 DEF End, Types, Doubts
  <2> QED
    BY <1>3, <2>1, <2>2 DEF End, Types, Places
<1>4. CASE Tick
  BY <1>4 DEF Tick, Types
<1> QED
  BY <1>1, <1>2, <1>3, <1>4

LEMMA SaveTypes ==
    ASSUME IInv, NEW r \in Reqs, SetStep(r) \/ SaveStep(r)
    PROVE  Types'
<1> USE DEF IInv, CInv, cfgVars, pubVars, Places
<1>1. ASSUME NEW f \in Field, NEW v \in Values, HandleSet(r, f, v)
      PROVE  Types'
  <2>t. /\ mem \in Config /\ rpc \in [Reqs -> Places] /\ requests \in Nat
        /\ alone \in Reqs \cup {None} /\ doubt \subseteq Doubts
    BY DEF Types
  <2>1. mem' \in Config
    BY <1>1, <2>t DEF HandleSet, Config
  <2>2. rpc' \in [Reqs -> Places] /\ requests' \in Nat
    BY <1>1, <2>t DEF HandleSet
  <2>3. alone' \in Reqs \cup {None} /\ doubt' \subseteq Doubts
    BY <1>1, <2>t DEF HandleSet, Doubts
  <2> QED
    BY <1>1, <2>1, <2>2, <2>3 DEF HandleSet, Types
<1>2. CASE ReadField(r)
  <2>1. Len(snap[r]) + 1 \in 1..5 /\ snap[r] \in Seq(Values)
    <3>1. PICK n \in Nat : n = Len(snap[r])
      BY SnapTyped
    <3>2. rpc[r] = "read"
      BY <1>2 DEF ReadField
    <3>3. n < 5
      BY <3>1, <3>2 DEF Reads
    <3> QED
      BY <3>1, <3>3, SnapTyped
  <2>2. mem[FieldOrder[Len(snap[r]) + 1]] \in Values
    BY <2>1, Fields DEF Types, Config
  <2>3. snap' \in [Reqs -> Seq(Values)]
    BY <1>2, <2>1, <2>2 DEF ReadField, Types
  <2> QED
    BY <1>2, <2>3 DEF ReadField, Types
<1>3. CASE Truncate(r)
  BY <1>3 DEF Truncate, Types
<1>e. ASSUME EndSave(r), file' \in [text : Text \cup {NoFile, Broken}, size : Nat], doubt' \subseteq Doubts
      PROVE  Types'
  <2>1. snap' \in [Reqs -> Seq(Values)] /\ rpc' \in [Reqs -> Places]
    <3>1. snap \in [Reqs -> Seq(Values)] /\ rpc \in [Reqs -> Places] /\ <<>> \in Seq(Values)
      BY DEF Types
    <3> QED
      BY <1>e, <3>1 DEF EndSave
  <2>2. alone' \in Reqs \cup {None}
    BY <1>e DEF EndSave, Types
  <2>3. UNCHANGED <<up, life, clock, requests, mem, ids, left, ts, counter, db>>
    BY <1>e DEF EndSave
  <2> QED
    BY <1>e, <2>1, <2>2, <2>3 DEF Types
<1>4. CASE Write(r)
  <2>1. file' \in [text : Text \cup {NoFile, Broken}, size : Nat]
    BY <1>4, WriteTyped DEF Write, Types
  <2>2. doubt' \subseteq Doubts
    BY <1>4 DEF Write, Types
  <2> QED
    BY <1>4, <1>e, <2>1, <2>2 DEF Write
<1>5. CASE SaveFails(r)
  <2>1. file' \in [text : Text \cup {NoFile, Broken}, size : Nat]
    BY <1>5, WriteTyped DEF SaveFails, Types
  <2>2. doubt' \subseteq Doubts
    BY <1>5 DEF SaveFails, Types, Doubts
  <2> QED
    BY <1>5, <1>e, <2>1, <2>2 DEF SaveFails
<1> QED
  BY <1>1, <1>2, <1>3, <1>4, <1>5 DEF SetStep, SaveStep

LEMMA PublishTypes ==
    ASSUME IInv, NEW r \in Reqs, PublishStep(r)
    PROVE  Types'
<1> USE DEF IInv, PublishStep, cfgVars, pubVars
<1>1. UNCHANGED <<up, life, clock, mem, file, snap, alone, doubt>>
  BY DEF Publish, ReadClock, MakeStatement, MakeFails, PutBatch
<1>2. rpc' \in [Reqs -> Places]
  BY DEF Types, Places, Publish, ReadClock, MakeStatement, MakeFails, PutBatch
<1>3. requests' \in Nat /\ counter' \in Nat
  BY DEF Types, Publish, ReadClock, MakeStatement, MakeFails, PutBatch
<1>4. left' \in [Reqs -> Int] /\ ts' \in [Reqs -> Nat]
  <2>1. PICK n \in Int : left' = left \/ left' = [left EXCEPT ![r] = n]
    <3>1. left[r] - 1 \in Int /\ 1..MaxBatch \subseteq Int
      BY BoundsAssumption DEF Types
    <3> QED
      BY <3>1 DEF Publish, ReadClock, MakeStatement, MakeFails, PutBatch
  <2>2. PICK t \in Nat : ts' = ts \/ ts' = [ts EXCEPT ![r] = t]
    <3>1. clock \in Nat
      BY DEF Types
    <3> QED
      BY <3>1 DEF Publish, ReadClock, MakeStatement, MakeFails, PutBatch
  <2> QED
    BY <2>1, <2>2 DEF Types
<1>5. ids' \in [Reqs -> Seq(Id)]
  <2>1. <<ts[r], counter>> \in Id /\ ids[r] \in Seq(Id) /\ <<>> \in Seq(Id)
    BY DEF Types, Id
  <2>2. Append(ids[r], <<ts[r], counter>>) \in Seq(Id)
    BY <2>1
  <2> QED
    BY <2>1, <2>2 DEF Types, Publish, ReadClock, MakeStatement, MakeFails, PutBatch
<1>6. db' \in [DOMAIN db' -> Nat] /\ DOMAIN db' \subseteq Id
  <2>1. CASE PutBatch(r)
    <3>1. IdsOf(r) \subseteq Id
      BY DEF Types, IdsOf
    <3> QED
      BY <2>1, <3>1 DEF PutBatch, Types
  <2>2. CASE db' = db
    BY <2>2 DEF Types
  <2> QED
    BY <2>1, <2>2 DEF Publish, ReadClock, MakeStatement, MakeFails
<1> QED
  BY <1>1, <1>2, <1>3, <1>4, <1>5, <1>6 DEF Types

-----------------------------------------------------------------------------
(* The configuration *)

LEMMA ProcessConfig ==
    ASSUME IInv, Types', Start \/ StartFails \/ End \/ Tick
    PROVE  CInv'
<1> USE DEF IInv, CInv, cfgVars, pubVars, Saving
<1>1. CASE Start
  <2>1. \A q \in Reqs : rpc[q] = "idle"
    BY <1>1 DEF Start, DownIsIdle
  <2>2. mem' = Unmarshal(file.text) /\ Loads(file.text) /\ mem'["nat"] # Empty
    BY <1>1, UnmarshalTyped DEF Start, Types, NATSet
  <2>3. DownIsIdle' /\ NATSet' /\ Reads'
    BY <1>1, <2>2 DEF Start, DownIsIdle, NATSet, Reads
  <2>4. Saves'
    BY <1>1, <2>1 DEF Start, Saves
  <2>5. FileIsMemory' /\ BrokenByAccident'
    BY <1>1, <2>2 DEF Start, FileIsMemory, BrokenByAccident
  <2> QED
    BY <2>3, <2>4, <2>5
<1>2. CASE StartFails \/ Tick
  BY <1>2 DEF StartFails, Tick, DownIsIdle, NATSet, Reads, Saves, FileIsMemory, BrokenByAccident
<1>3. CASE End
  <2>1. DownIsIdle' /\ Reads'
    BY <1>3 DEF End, DownIsIdle, Reads
  <2>2. file' = file \/ file'.text = Broken
    BY <1>3, WriteTyped DEF End
  <2>3. NATSet'
    BY <1>3, <2>2, TextAssumption DEF End, NATSet
  <2>4. Saves'
    BY <1>3, NoneAssumption DEF End, Saves
  <2>5. CASE \E q \in Reqs : rpc[q] = "write"
    <3>1. "cut" \in doubt'
      BY <1>3, <2>5 DEF End
    <3>2. FileIsMemory' /\ BrokenByAccident'
      BY <3>1 DEF FileIsMemory, BrokenByAccident
    <3> QED
      BY <2>1, <2>3, <2>4, <3>2
  <2>6. CASE ~\E q \in Reqs : rpc[q] = "write"
    <3>1. file' = file /\ mem' = mem
      BY <1>3, <2>6 DEF End
    <3>2. FileIsMemory'
      BY <1>3, <3>1 DEF End, FileIsMemory
    <3>3. BrokenByAccident'
      BY <1>3, <2>6, <3>1 DEF End, BrokenByAccident
    <3> QED
      BY <2>1, <2>3, <2>4, <3>2, <3>3
  <2> QED
    BY <2>1, <2>3, <2>4, <2>5, <2>6
<1> QED
  BY <1>1, <1>2, <1>3

LEMMA SetConfig ==
    ASSUME IInv, Types', NEW r \in Reqs, SetStep(r)
    PROVE  CInv'
<1> USE DEF IInv, CInv, pubVars, Saving
<1>1. PICK f \in Field, v \in Values : HandleSet(r, f, v)
  BY DEF SetStep
<1>t. rpc \in [Reqs -> Places] /\ DOMAIN snap = Reqs
  BY DEF Types
<1>2. DownIsIdle' /\ Reads'
  <2>1. up' = "up" /\ UNCHANGED snap /\ rpc'[r] = "read" /\ ~Saving(r)
        /\ \A q \in Reqs \ {r} : rpc'[q] = rpc[q]
    BY <1>1, <1>t DEF HandleSet
  <2>2. DownIsIdle'
    BY <2>1 DEF DownIsIdle
  <2>3. snap[r] = <<>> /\ Len(<<>>) = 0
    BY <2>1 DEF Reads
  <2>4. Reads'
    BY <2>1, <2>3 DEF Reads
  <2> QED
    BY <2>2, <2>4
<1>3. NATSet'
  <2>1. mem'["nat"] = (IF f = "nat" THEN v ELSE mem["nat"]) /\ v \in ValuesOf[f]
    BY <1>1, Fields DEF HandleSet, Types, Config
  <2> QED
    BY <1>1, <2>1, ValuesAssumption DEF HandleSet, NATSet
<1>4. Saving(r)' /\ \A q \in Reqs \ {r} : Saving(q)' <=> Saving(q)
  BY <1>1 DEF HandleSet, Types
<1>5. Saves'
  <2>1. CASE \E q \in Reqs : Saving(q)
    <3>1. alone' = None /\ "overlap" \in doubt'
      BY <1>1, <2>1 DEF HandleSet
    <3> QED
      BY <3>1, NoneAssumption DEF Saves
  <2>2. CASE ~\E q \in Reqs : Saving(q)
    <3>1. alone' = r /\ doubt' = doubt /\ snap'[r] = <<>> /\ rpc'[r] = "read"
      BY <1>1, <2>2 DEF HandleSet, Reads, Types
    <3> QED
      BY <1>4, <2>2, <3>1 DEF Saves
  <2> QED
    BY <2>1, <2>2
<1>6. FileIsMemory'
  BY <1>4 DEF FileIsMemory
<1>7. BrokenByAccident'
  BY <1>1 DEF HandleSet, BrokenByAccident, Types
<1> QED
  BY <1>2, <1>3, <1>5, <1>6, <1>7

(* Of a save, the first two steps: *)
LEMMA ReadConfig ==
    ASSUME IInv, Types', NEW r \in Reqs, ReadField(r) \/ Truncate(r)
    PROVE  CInv'
<1> USE DEF IInv, CInv, pubVars, Saving
<1>1. UNCHANGED <<up, mem, alone, doubt, ids>> /\ rpc[r] \in {"read", "truncate"}
  BY DEF ReadField, Truncate
<1>2. \A q \in Reqs : Saving(q)' <=> Saving(q)
  BY DEF ReadField, Truncate, Types
<1>3. DownIsIdle'
  BY <1>1 DEF ReadField, Truncate, DownIsIdle, Types
<1>4. NATSet'
  BY <1>1, TextAssumption DEF ReadField, Truncate, NATSet
<1>5. Reads' /\ Saves'
  <2>1. CASE ReadField(r)
    <3>1. snap[r] \in Seq(Values) /\ Len(snap[r]) \in Nat /\ Len(snap[r]) < 5
      BY <2>1, SnapTyped DEF ReadField, Reads
    <3>2. /\ Len(snap'[r]) = Len(snap[r]) + 1
          /\ \A i \in 1..Len(snap[r]) : snap'[r][i] = snap[r][i]
          /\ snap'[r][Len(snap[r]) + 1] = mem[FieldOrder[Len(snap[r]) + 1]]
      BY <2>1, <3>1 DEF ReadField, Types
    <3>3. /\ rpc'[r] = (IF Len(snap[r]) = 4 THEN "truncate" ELSE "read")
          /\ \A q \in Reqs \ {r} : snap'[q] = snap[q] /\ rpc'[q] = rpc[q]
      BY <2>1 DEF ReadField, Types
    <3>4. Reads'
      <4> SUFFICES ASSUME NEW q \in Reqs
                   PROVE  /\ Len(snap'[q]) <= 5
                          /\ rpc'[q] = "read" => Len(snap'[q]) < 5
                          /\ rpc'[q] \in {"truncate", "write"} => Len(snap'[q]) = 5
                          /\ ~Saving(q)' => snap'[q] = <<>>
        BY DEF Reads
      <4>1. CASE q = r
        <5>1. \A n \in Nat : n < 5 => n = 4 \/ (n # 4 /\ n + 1 < 5 /\ n + 1 <= 5)
          OBVIOUS
        <5>2. \/ Len(snap[r]) = 4
              \/ Len(snap[r]) # 4 /\ Len(snap'[r]) < 5 /\ Len(snap'[r]) <= 5
          BY <3>1, <3>2, <5>1
        <5>3. CASE Len(snap[r]) = 4
          <6>1. Len(snap'[r]) = 5 /\ rpc'[r] = "truncate"
            BY <3>2, <3>3, <5>3
          <6> QED
            BY <4>1, <6>1
        <5>4. CASE Len(snap[r]) # 4 /\ Len(snap'[r]) < 5 /\ Len(snap'[r]) <= 5
          BY <3>3, <4>1, <5>4
        <5> QED
          BY <5>2, <5>3, <5>4
      <4>2. CASE q # r
        BY <3>3, <4>2 DEF Reads
      <4> QED
        BY <4>1, <4>2
    <3>5. ASSUME NEW q \in Reqs, alone = q
          PROVE  \A i \in 1..Len(snap'[q]) : snap'[q][i] = mem[FieldOrder[i]]
      <4>1. q = r
        BY <1>1, <3>5 DEF Saves
      <4>2. \A i \in 1..(Len(snap[r]) + 1) : i \in 1..Len(snap[r]) \/ i = Len(snap[r]) + 1
        BY <3>1
      <4> QED
        BY <3>2, <3>5, <4>1, <4>2 DEF Saves
    <3>6. Saves'
      BY <1>1, <1>2, <2>1, <3>3, <3>5 DEF ReadField, Saves
    <3> QED
      BY <3>4, <3>6
  <2>2. CASE Truncate(r)
    <3>1. Reads'
      BY <2>2 DEF Truncate, Reads, Types
    <3>2. Saves'
      BY <1>1, <1>2, <2>2 DEF Truncate, Saves
    <3> QED
      BY <3>1, <3>2
  <2> QED
    BY <2>1, <2>2
<1>6. FileIsMemory'
  BY <1>1, <1>2 DEF FileIsMemory
<1>7. BrokenByAccident'
  BY <1>1 DEF ReadField, Truncate, BrokenByAccident, Types
<1> QED
  BY <1>3, <1>4, <1>5, <1>6, <1>7

(* and its end. A save that was not made alone leaves "overlap" behind. *)
LEMMA EndConfig ==
    ASSUME IInv, Types', NEW r \in Reqs, Saving(r), EndSave(r)
    PROVE  /\ DownIsIdle' /\ Reads'
           /\ \A q \in Reqs \ {r} : Saving(q)' <=> Saving(q)
           /\ ~Saving(r)' /\ alone' = None /\ mem' = mem
           /\ alone # r => "overlap" \in doubt
<1> USE DEF IInv, CInv, pubVars, Saving, EndSave
<1>1. DownIsIdle' /\ Reads'
  BY DEF DownIsIdle, Reads, Types
<1>2. alone = r \/ alone = None
  BY DEF Saves, Types
<1>3. \A q \in Reqs \ {r} : Saving(q)' <=> Saving(q)
  BY DEF Types
<1>4. ~Saving(r)'
  BY DEF Types
<1> QED
  BY <1>1, <1>2, <1>3, <1>4 DEF Saves

LEMMA WriteConfig ==
    ASSUME IInv, Types', NEW r \in Reqs, Write(r)
    PROVE  CInv'
<1> USE DEF IInv, CInv
<1> DEFINE t == Marshal(Snapshot(r))
<1>1. rpc[r] = "write" /\ Saving(r) /\ EndSave(r) /\ file' = Overwritten(t)
  BY DEF Write, Saving
<1>2. Snapshot(r) \in Config /\ \A i \in 1..5 : Snapshot(r)[FieldOrder[i]] = snap[r][i]
  BY <1>1, SnapshotReads DEF Reads
<1>3. t \in Text /\ Size(t) \in Nat /\ ("nat" \in DOMAIN t => t["nat"] # Empty)
  BY <1>2, MarshalIsText, SizeTyped
<1> HIDE DEF t
<1>4. NATSet'
  <2>1. file'.text \in {t, Broken}
    BY <1>1 DEF Overwritten
  <2> QED
    BY <1>1, <1>3, <2>1, TextAssumption, EndConfig DEF NATSet
<1>5. Saves'
  <2>1. \A q \in Reqs \ {r} : alone = r => ~Saving(q)
    BY DEF Saves
  <2>2. alone # r => doubt' = doubt
    BY DEF Write
  <2> QED
    BY <1>1, <2>1, <2>2, EndConfig, NoneAssumption DEF Saves
<1>6. CASE alone = r
  <2>1. \A f \in Field : Snapshot(r)[f] = mem[f]
    <3>1. \A i \in 1..5 : snap[r][i] = mem[FieldOrder[i]]
      BY <1>1, <1>6 DEF Saves, Reads
    <3> QED
      BY <1>2, <3>1, Fields
  <2>2. Snapshot(r) = mem
    BY <1>2, <2>1 DEF Config, Types
  <2>3. file.size = 0
    BY <1>1, <1>6 DEF Saves
  <2>4. file'.text = Marshal(mem)
    BY <1>1, <1>3, <2>2, <2>3 DEF Overwritten, t
  <2>5. Loads(file'.text) /\ Unmarshal(file'.text) = mem
    BY <2>4, UnmarshalMarshal DEF Types, NATSet
  <2>6. FileIsMemory' /\ BrokenByAccident'
    BY <1>1, <2>5, EndConfig DEF FileIsMemory, BrokenByAccident
  <2> QED
    BY <1>1, <1>4, <1>5, <2>6, EndConfig
<1>7. CASE alone # r
  <2>1. "overlap" \in doubt'
    BY <1>1, <1>7, EndConfig DEF Write
  <2>2. FileIsMemory' /\ BrokenByAccident'
    BY <2>1 DEF FileIsMemory, BrokenByAccident
  <2> QED
    BY <1>1, <1>4, <1>5, <2>2, EndConfig
<1> QED
  BY <1>6, <1>7

LEMMA FailConfig ==
    ASSUME IInv, Types', NEW r \in Reqs, SaveFails(r)
    PROVE  CInv'
<1> USE DEF IInv, CInv
<1>1. Saving(r) /\ EndSave(r) /\ "unsaved" \in doubt' /\ doubt \subseteq doubt'
  BY DEF SaveFails, Saving
<1>2. file' = file \/ file'.text = Broken
  BY WriteTyped DEF SaveFails
<1>3. NATSet'
  BY <1>1, <1>2, TextAssumption, EndConfig DEF NATSet
<1>4. Saves'
  <2>1. \A q \in Reqs \ {r} : alone = r => ~Saving(q)
    BY <1>1 DEF Saves
  <2> QED
    BY <1>1, <2>1, EndConfig, NoneAssumption DEF Saves
<1>5. FileIsMemory'
  BY <1>1 DEF FileIsMemory
<1>6. BrokenByAccident'
  <2>1. CASE rpc[r] = "write"
    BY <2>1 DEF SaveFails, BrokenByAccident
  <2>2. CASE rpc[r] # "write"
    <3>1. file' = file
      BY <2>2 DEF SaveFails
    <3>2. \A q \in Reqs : rpc[q] = "write" => rpc'[q] = "write"
      BY <1>1, <2>2 DEF EndSave, Types
    <3> QED
      BY <1>1, <3>1, <3>2 DEF BrokenByAccident
  <2> QED
    BY <2>1, <2>2
<1> QED
  BY <1>1, <1>3, <1>4, <1>5, <1>6, EndConfig

LEMMA PublishConfig ==
    ASSUME IInv, Types', NEW r \in Reqs, PublishStep(r)
    PROVE  CInv'
<1> USE DEF IInv, CInv, Saving
<1>1. UNCHANGED <<up, mem, file, snap, alone, doubt>>
  BY DEF PublishStep, Publish, ReadClock, MakeStatement, MakeFails, PutBatch, cfgVars
<1>2. /\ rpc[r] \notin {"read", "truncate", "write"}
      /\ rpc'[r] \notin {"read", "truncate", "write"}
      /\ \A q \in Reqs \ {r} : rpc'[q] = rpc[q] /\ ids'[q] = ids[q]
  BY DEF PublishStep, Publish, ReadClock, MakeStatement, MakeFails, PutBatch, Types
<1>3. DownIsIdle'
  <2>1. up = "up"
    BY DEF PublishStep, Publish, ReadClock, MakeStatement, MakeFails, PutBatch, DownIsIdle
  <2> QED
    BY <1>1, <2>1 DEF DownIsIdle
<1>4. \A q \in Reqs : Saving(q)' <=> Saving(q)
  BY <1>2
<1>5. NATSet' /\ Reads'
  BY <1>1, <1>2 DEF NATSet, Reads
<1>6. Saves' /\ FileIsMemory' /\ BrokenByAccident'
  BY <1>1, <1>2 DEF Saves, FileIsMemory, BrokenByAccident
<1> QED
  BY <1>3, <1>5, <1>6

-----------------------------------------------------------------------------
(* The ids *)

LEMMA IdTyped ==
    ASSUME Types
    PROVE  /\ life \in Nat /\ counter \in Nat
           /\ \A k \in DOMAIN db : db[k] \in Nat /\ k[2] \in Nat
           /\ \A r \in Reqs : ids[r] \in Seq(Id) /\ IdsOf(r) \subseteq Id
           /\ \A r \in Reqs : \A i \in DOMAIN ids[r] : ids[r][i][2] \in Nat
<1>1. life \in Nat /\ counter \in Nat /\ \A k \in DOMAIN db : db[k] \in Nat /\ k[2] \in Nat
  BY DEF Types, Id
<1>2. ASSUME NEW r \in Reqs
      PROVE  /\ ids[r] \in Seq(Id) /\ IdsOf(r) \subseteq Id
             /\ \A i \in DOMAIN ids[r] : ids[r][i][2] \in Nat
  <2>1. ids[r] \in Seq(Id)
    BY DEF Types
  <2>2. \A i \in DOMAIN ids[r] : ids[r][i] \in Id
    BY <2>1
  <2> QED
    BY <2>1, <2>2 DEF IdsOf, Id
<1> QED
  BY <1>1, <1>2

LEMMA ProcessCounters ==
    ASSUME IInv, Start \/ StartFails \/ End \/ Tick
    PROVE  Counters'
<1> USE DEF IInv, CInv, cfgVars, pubVars
<1>1. CASE Start \/ End
  <2>1. \A r \in Reqs : ids'[r] = <<>>
    BY <1>1 DEF Start, End, DownIsIdle
  <2>2. \A k \in DOMAIN db : db[k] < life' /\ db[k] \in Nat /\ life' \in Nat
    BY <1>1, IdTyped DEF Start, End, Counters, Stored
  <2>3. db' = db
    BY <1>1 DEF Start, End
  <2>4. Distinct' /\ GivenOut'
    BY <2>1 DEF Distinct, GivenOut
  <2>5. Stored'
    BY <2>2, <2>3 DEF Stored
  <2> QED
    BY <2>4, <2>5 DEF Counters
<1>2. CASE StartFails \/ Tick
  BY <1>2 DEF StartFails, Tick, Counters, Distinct, GivenOut, Stored
<1> QED
  BY <1>1, <1>2

(* A request that ends, or has not yet made a statement, takes ids away. *)
LEMMA FewerIds ==
    ASSUME IInv, NEW r \in Reqs, counter' \in {counter, counter + 1},
           UNCHANGED <<up, life, db>>, ids' = ids \/ ids' = [ids EXCEPT ![r] = <<>>]
    PROVE  Counters'
<1> USE DEF IInv
<1>1. \A q \in Reqs : ids'[q] = ids[q] \/ ids'[q] = <<>>
  BY DEF Types
<1>2. \A q \in Reqs : \A i \in DOMAIN ids'[q] : i \in DOMAIN ids[q] /\ ids'[q][i] = ids[q][i]
  BY <1>1
<1>3. \A n \in Nat : n < counter => n < counter'
  BY IdTyped
<1>4. Distinct'
  BY <1>2 DEF Counters, Distinct
<1>5. GivenOut'
  BY <1>2, <1>3, IdTyped DEF Counters, GivenOut
<1>6. Stored'
  BY <1>2, <1>3, IdTyped DEF Counters, Stored
<1> QED
  BY <1>4, <1>5, <1>6 DEF Counters

LEMMA MakeCounters ==
    ASSUME IInv, NEW r \in Reqs, MakeStatement(r)
    PROVE  Counters'
<1> USE DEF IInv, Counters
<1>1. /\ ids' = [ids EXCEPT ![r] = Append(@, <<ts[r], counter>>)] /\ counter' = counter + 1
      /\ UNCHANGED <<up, life, db>>
  BY DEF MakeStatement
<1>2. <<ts[r], counter>> \in Id /\ <<ts[r], counter>>[2] = counter /\ ids \in [Reqs -> Seq(Id)]
  BY DEF Types, Id
<1>3. PICK n \in Nat :
          /\ n \notin DOMAIN ids[r] /\ DOMAIN ids'[r] = DOMAIN ids[r] \cup {n}
          /\ \A i \in DOMAIN ids[r] : ids'[r][i] = ids[r][i]
          /\ ids'[r][n] = <<ts[r], counter>>
  <2>1. ids[r] \in Seq(Id) /\ ids'[r] = Append(ids[r], <<ts[r], counter>>)
    BY <1>1, <1>2
  <2> WITNESS Len(ids[r]) + 1 \in Nat
  <2> QED
    BY <1>2, <2>1
<1>4. \A q \in Reqs \ {r} : ids'[q] = ids[q]
  BY <1>1, <1>2
<1>5. \A q \in Reqs : \A i \in DOMAIN ids'[q] :
          \/ i \in DOMAIN ids[q] /\ ids'[q][i] = ids[q][i] /\ ids'[q][i][2] # counter
          \/ q = r /\ i = n /\ ids'[q][i][2] = counter
  BY <1>2, <1>3, <1>4, IdTyped DEF GivenOut
<1>6. Distinct'
  BY <1>5 DEF Distinct
<1>7. \A m \in Nat : m < counter => m < counter' /\ m # counter
  BY <1>1, IdTyped
<1>8. GivenOut'
  BY <1>1, <1>5, <1>7, IdTyped DEF GivenOut
<1>9. up = "up"
  BY DEF MakeStatement, CInv, DownIsIdle
<1>10. Stored'
  BY <1>1, <1>5, <1>7, <1>9, IdTyped DEF Stored
<1> QED
  BY <1>6, <1>8, <1>10

(* The ids of the batch move to the database. *)
LEMMA PutCounters ==
    ASSUME IInv, NEW r \in Reqs, PutBatch(r)
    PROVE  Counters'
<1> USE DEF IInv, cfgVars
<1>1. UNCHANGED <<up, life, counter>> /\ ids' = [ids EXCEPT ![r] = <<>>] /\ life \in Nat
  BY IdTyped DEF PutBatch
<1>2. CASE IdsOf(r) \cap DOMAIN db # {}
  <2>1. db' = db
    BY <1>2 DEF PutBatch
  <2> QED
    BY <1>1, <2>1, FewerIds
<1>3. CASE IdsOf(r) \cap DOMAIN db = {}
  <2>1. /\ DOMAIN db' = DOMAIN db \cup IdsOf(r)
        /\ \A k \in DOMAIN db : db'[k] = db[k]
        /\ \A k \in IdsOf(r) : db'[k] = life
    BY <1>3 DEF PutBatch
  <2>2. ids'[r] = <<>> /\ \A q \in Reqs \ {r} : ids'[q] = ids[q]
    BY <1>1 DEF Types
  <2>3. \A q \in Reqs : \A i \in DOMAIN ids'[q] : q # r /\ ids'[q] = ids[q]
    BY <2>2
  <2>4. up = "up"
    BY DEF PutBatch, CInv, DownIsIdle
  <2>5. Distinct' /\ GivenOut'
    BY <1>1, <2>3 DEF Counters, Distinct, GivenOut
  <2>6. ASSUME NEW k \in DOMAIN db'
        PROVE  /\ db'[k] <= life
               /\ db'[k] = life => /\ k[2] < counter
                                   /\ \A q \in Reqs : \A i \in DOMAIN ids'[q] : k[2] # ids'[q][i][2]
    <3>1. CASE k \in DOMAIN db
      BY <2>1, <2>3, <2>4, <3>1 DEF Counters, Stored
    <3>2. CASE k \in IdsOf(r)
      <4>1. PICK j \in DOMAIN ids[r] : k = ids[r][j]
        BY <3>2 DEF IdsOf
      <4>2. k[2] < counter /\ \A q \in Reqs \ {r} : \A i \in DOMAIN ids[q] : k[2] # ids[q][i][2]
        BY <4>1 DEF Counters, Distinct, GivenOut
      <4> QED
        BY <1>1, <2>1, <2>3, <3>2, <4>2
    <3> QED
      BY <2>1, <3>1, <3>2
  <2>7. Stored'
    BY <1>1, <2>4, <2>6 DEF Stored
  <2> QED
    BY <2>5, <2>7 DEF Counters
<1> QED
  BY <1>2, <1>3

LEMMA RequestCounters ==
    ASSUME IInv, NEW r \in Reqs, SetStep(r) \/ SaveStep(r) \/ PublishStep(r)
    PROVE  Counters'
<1>1. CASE SetStep(r) \/ SaveStep(r)
  <2>1. UNCHANGED <<up, life, ids, counter, db>>
    BY <1>1 DEF SetStep, SaveStep, HandleSet, ReadField, Truncate, Write, SaveFails, EndSave, pubVars
  <2> QED
    BY <2>1, FewerIds
<1>2. ASSUME NEW n \in 1..MaxBatch, Publish(r, n)
      PROVE  Counters'
  <2>1. UNCHANGED <<up, life, counter, db>> /\ ids' = [ids EXCEPT ![r] = <<>>]
    BY <1>2 DEF Publish
  <2> QED
    BY <2>1, FewerIds
<1>3. CASE ReadClock(r) \/ MakeFails(r)
  <2>1. /\ UNCHANGED <<up, life, db>> /\ counter' \in {counter, counter + 1}
        /\ ids' = ids \/ ids' = [ids EXCEPT ![r] = <<>>]
    BY <1>3 DEF ReadClock, MakeFails
  <2> QED
    BY <2>1, FewerIds
<1> QED
  BY <1>1, <1>2, <1>3, MakeCounters, PutCounters DEF PublishStep

-----------------------------------------------------------------------------

LEMMA StepInvariant == IInv /\ [Next]_vars => IInv'
<1> SUFFICES ASSUME IInv, [Next]_vars PROVE IInv'
  OBVIOUS
<1>1. CASE Start \/ StartFails \/ End \/ Tick
  BY <1>1, ProcessTypes, ProcessConfig, ProcessCounters DEF IInv
<1>2. ASSUME NEW r \in Reqs, SetStep(r)
      PROVE  IInv'
  BY <1>2, SaveTypes, SetConfig, RequestCounters DEF IInv
<1>3. ASSUME NEW r \in Reqs, SaveStep(r)
      PROVE  IInv'
  <2>1. Types'
    BY <1>3, SaveTypes
  <2>2. CInv'
    BY <1>3, <2>1, ReadConfig, WriteConfig, FailConfig DEF SaveStep
  <2> QED
    BY <1>3, <2>1, <2>2, RequestCounters DEF IInv
<1>4. ASSUME NEW r \in Reqs, PublishStep(r)
      PROVE  IInv'
  BY <1>4, PublishTypes, PublishConfig, RequestCounters DEF IInv
<1>5. CASE UNCHANGED vars
  <2> USE <1>5 DEF vars, cfgVars, pubVars, IInv, CInv, Counters
  <2>1. Types'
    BY DEF Types
  <2>2. CInv'
    BY DEF DownIsIdle, NATSet, Reads, Saves, FileIsMemory, BrokenByAccident, Saving
  <2>3. Counters'
    BY DEF Distinct, GivenOut, Stored
  <2> QED
    BY <2>1, <2>2, <2>3
<1> QED
  BY <1>1, <1>2, <1>3, <1>4, <1>5 DEF Next

(* The variables keep their types: the configuration is one, config.json   *)
(* is an object, no file or broken, and ids are pairs of a second and a    *)
(* counter (node.go, saveConfig, loadConfig, makeStatement).               *)
THEOREM Invariant == Spec => []IInv
BY InitInvariant, StepInvariant, PTL DEF Spec

(* config.json can be loaded unless it is being written, a write was cut   *)
(* short or saves overlapped since the last save made alone (node.go,      *)
(* saveConfig and loadConfig).                                             *)
THEOREM OnlyAccidentsBreak == Spec => []BrokenByAccident
BY Invariant, PTL DEF IInv, CInv

(* Without an accident since the last save made alone, a process starts    *)
(* with the configuration the last one ended with (loadConfig).            *)
THEOREM RestartIsFaithful == Spec => RestartRestores
<1>1. IInv /\ [Next]_vars => [up = "down" /\ up' = "up" /\ doubt = {} => mem' = mem]_vars
  <2> SUFFICES ASSUME IInv, Next, up = "down", up' = "up", doubt = {}
               PROVE  mem' = mem
    BY DEF vars
  <2>1. \A r \in Reqs : ~Saving(r)
    BY DEF IInv, CInv, DownIsIdle, Saving
  <2>2. Unmarshal(file.text) = mem
    BY <2>1 DEF IInv, CInv, FileIsMemory
  <2>3. Start
    BY DEF Next, StartFails, End, Tick, SetStep, SaveStep, PublishStep, HandleSet, ReadField,
           Truncate, Write, SaveFails, EndSave, Publish, ReadClock, MakeStatement, MakeFails,
           PutBatch
  <2> QED
    BY <2>2, <2>3 DEF Start
<1> QED
  BY <1>1, Invariant, PTL DEF Spec, RestartRestores

(* No two statements made by one process have the same id (makeStatement   *)
(* and stmtCounter).                                                       *)
THEOREM IdsAreUnique == Spec => []IdsUnique
<1>1. IInv => IdsUnique
  <2> SUFFICES ASSUME IInv, NEW r \in Reqs
               PROVE  /\ \A i, j \in DOMAIN ids[r] : ids[r][i] = ids[r][j] => i = j
                      /\ \A q \in Reqs \ {r} : IdsOf(r) \cap IdsOf(q) = {}
                      /\ \A i \in IdsOf(r) \cap DOMAIN db : db[i] < life
    BY DEF IdsUnique
  <2>1. \A i, j \in DOMAIN ids[r] : ids[r][i] = ids[r][j] => i = j
    BY DEF IInv, Counters, Distinct
  <2>2. \A q \in Reqs \ {r} : IdsOf(r) \cap IdsOf(q) = {}
    BY DEF IInv, Counters, Distinct, IdsOf
  <2>3. ASSUME NEW k \in IdsOf(r) \cap DOMAIN db
        PROVE  db[k] < life
    <3>1. db[k] <= life /\ db[k] # life /\ db[k] \in Nat /\ life \in Nat
      BY IdTyped DEF IInv, Counters, Stored, IdsOf
    <3> QED
      BY <3>1
  <2> QED
    BY <2>1, <2>2, <2>3
<1> QED
  BY <1>1, Invariant, PTL

=============================================================================
