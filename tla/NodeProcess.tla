----------------------------- MODULE NodeProcess -----------------------------
(***************************************************************************)
(* The node as a process that may end at any moment and is started again:  *)
(* the configuration it keeps in config.json (mcnode/node.go, saveConfig   *)
(* and loadConfig, with the handlers of api.go that change a field) and    *)
(* the ids it gives to the statements it publishes (makeStatement).        *)
(*                                                                         *)
(* Requests run beside one another. A request that changes the             *)
(* configuration assigns its field and saves: it reads the fields one      *)
(* after the other without a lock, truncates the file and writes it from   *)
(* offset 0 on. The authorization rules are those of one peer. A value is  *)
(* read or assigned as a whole.                                            *)
(***************************************************************************)
EXTENDS Naturals, Sequences

CONSTANTS
    Reqs,           \* the requests that can be served at a time
    Values,         \* the values of fields
    Empty,          \* the value of a field that is not set
    NoNAT,          \* the NAT configuration of a new node, "none"
    ValuesOf,       \* ValuesOf[f]: what a request may set field f to
    Width,          \* Width[v]: the length of a value in config.json
    Broken,         \* the text of a file that is not a JSON object
    NoFile,         \* the text of a file that does not exist
    None,           \* no request
    MaxBatch,       \* bound: statements of a publish request
    MaxRequests,    \* bound: requests
    MaxEnds,        \* bound: ends of the process
    MaxClock        \* bound: the second of the clock

FieldOrder == <<"info", "nat", "dir", "auth", "mfs">>   \* as saveConfig reads them
Field == {FieldOrder[i] : i \in 1..5}
Config == [Field -> Values]

(* The JSON objects of config.json, by the keys they have: those of the     *)
(* fields, and the one under which a former version kept its directory.    *)
Text == UNION {[D -> Values] : D \in SUBSET (Field \cup {"olddir"})}

ASSUME ValuesAssumption ==
    /\ {Empty, NoNAT} \subseteq Values /\ Empty # NoNAT
    /\ ValuesOf \in [Field -> SUBSET Values] /\ Empty \notin ValuesOf["nat"]
ASSUME TextAssumption == NoFile # Broken /\ NoFile \notin Text /\ Broken \notin Text
ASSUME WidthAssumption == Width \in [Values -> Nat]
ASSUME NoneAssumption == None \notin Reqs
ASSUME BoundsAssumption == {MaxBatch, MaxRequests, MaxEnds, MaxClock} \subseteq Nat

VARIABLES
    up,             \* "down", "up", or "failed": the process could not start
    mem,            \* the configuration in memory (of the last process, if down)
    file,           \* config.json: its text and its size
    rpc,            \* rpc[r]: where request r is
    snap,           \* snap[r]: the fields it has read for its save
    ids,            \* ids[r]: the ids of the statements it has made
    left,           \* left[r]: the statements it has still to make
    ts,             \* ts[r]: the second it has read for the next one
    life,           \* how often the process has ended
    counter,        \* node.counter
    clock,          \* the second now
    db,             \* db[id]: the life in which the statement was published
    requests,       \* requests so far
    \* history: the request that saves and has done so alone; what has gone
    \* wrong with saves since one was last made alone
    alone, doubt

cfgVars == <<mem, file, snap, alone, doubt>>
pubVars == <<ids, left, ts, counter, db>>
vars == <<up, rpc, life, clock, requests, cfgVars, pubVars>>

Saving(r) == rpc[r] \in {"read", "truncate", "write"}

-----------------------------------------------------------------------------
(* config.json. A field that is not set is omitted; "none" is a setting. *)

(* Slip: the manifests forgotten. *)
MarshalWithout(c) == [f \in {g \in Field \ {"mfs"} : c[g] # Empty} |-> c[f]]

Marshal(c) == [f \in {g \in Field : c[g] # Empty} |-> c[f]]

Size(t) ==
    LET w(f) == IF f \in DOMAIN t THEN Width[t[f]] ELSE 0
    IN  w("info") + w("nat") + w("dir") + w("auth") + w("mfs")

(* A text loads if it is an object with a NAT configuration: a missing one *)
(* is the empty string, which NATConfigFromString does not accept.         *)
Loads(t) == t # NoFile => t # Broken /\ "nat" \in DOMAIN t

(* "olddir" is the key under which a former version kept its directory. *)
Unmarshal(t) ==
    IF t = NoFile THEN [f \in Field |-> IF f = "nat" THEN NoNAT ELSE Empty]
    ELSE [f \in Field |-> CASE f = "dir" /\ "olddir" \in DOMAIN t -> t["olddir"]
                            [] f \in DOMAIN t -> t[f]
                            [] OTHER -> Empty]

FormerText(dir) == [f \in {"nat", "olddir"} |-> IF f = "nat" THEN NoNAT ELSE dir]

(* The write of a text over the beginning of the file, in one call: what   *)
(* a longer text left behind it stays.                                     *)
Overwritten(t) ==
    IF Size(t) >= file.size THEN [text |-> t, size |-> Size(t)]
    ELSE [text |-> Broken, size |-> file.size]

(* The file after a write that was cut short: nothing, or a part. *)
CutShort(t) ==
    {file} \cup {[text |-> Broken, size |-> IF n > file.size THEN n ELSE file.size] :
                    n \in 1..(Size(t) - 1)}

(* What request r has read for its save. *)
Snapshot(r) ==
    [f \in Field |-> snap[r][CHOOSE i \in 1..5 : FieldOrder[i] = f]]

-----------------------------------------------------------------------------

(* No file, or that of a former version; its size is of no account before *)
(* the first save truncates it.                                           *)
Init ==
    /\ up = "down" /\ life = 0 /\ clock = 0
    /\ file \in {[text |-> t, size |-> 0] :
                    t \in {NoFile} \cup {FormerText(v) : v \in ValuesOf["dir"] \ {Empty}}}
    /\ mem = Unmarshal(file.text)
    /\ rpc = [r \in Reqs |-> "idle"] /\ snap = [r \in Reqs |-> <<>>]
    /\ ids = [r \in Reqs |-> <<>>] /\ left = [r \in Reqs |-> 0] /\ ts = [r \in Reqs |-> 0]
    /\ counter = 0 /\ db = <<>>
    /\ requests = 0 /\ alone = None /\ doubt = {}

(* main: the configuration is loaded, and the counter is new. *)
Start ==
    /\ up = "down" /\ Loads(file.text)
    /\ up' = "up" /\ mem' = Unmarshal(file.text) /\ counter' = 0
    /\ UNCHANGED <<rpc, life, clock, requests, file, snap, alone, doubt, ids, left, ts, db>>

StartFails ==
    /\ up = "down" /\ ~Loads(file.text)
    /\ up' = "failed"
    /\ UNCHANGED <<rpc, life, clock, requests, cfgVars, pubVars>>

(* doShutdown, or a crash: what the requests were doing is gone. *)
End ==
    /\ up = "up" /\ life < MaxEnds /\ life' = life + 1
    /\ up' = "down"
    /\ rpc' = [r \in Reqs |-> "idle"] /\ snap' = [r \in Reqs |-> <<>>]
    /\ ids' = [r \in Reqs |-> <<>>] /\ left' = [r \in Reqs |-> 0] /\ ts' = [r \in Reqs |-> 0]
    /\ alone' = None
    /\ doubt' = (IF \E r \in Reqs : Saving(r) THEN doubt \cup {"unsaved"} ELSE doubt)
                    \cup (IF \E r \in Reqs : rpc[r] = "write" THEN {"cut"} ELSE {})
    /\ \/ UNCHANGED file
       \/ \E r \in Reqs : rpc[r] = "write" /\ file' \in CutShort(Marshal(Snapshot(r)))
    /\ UNCHANGED <<clock, requests, mem, counter, db>>

Tick ==
    /\ clock < MaxClock /\ clock' = clock + 1
    /\ UNCHANGED <<up, rpc, life, requests, cfgVars, pubVars>>

-----------------------------------------------------------------------------
(* A change of the configuration *)

(* The handlers of /config/info, /config/nat, /config/dir, /auth/{peerId}  *)
(* and /manifest: input that cannot be parsed is answered with 400 before  *)
(* anything changes, other input is assigned.                              *)
HandleSet(r, f, v) ==
    /\ up = "up" /\ rpc[r] = "idle" /\ requests < MaxRequests /\ v \in ValuesOf[f]
    /\ mem' = [mem EXCEPT ![f] = v]
    /\ rpc' = [rpc EXCEPT ![r] = "read"] /\ requests' = requests + 1
    /\ IF \E q \in Reqs : Saving(q)
       THEN alone' = None /\ doubt' = doubt \cup {"overlap"}
       ELSE alone' = r /\ UNCHANGED doubt
    /\ UNCHANGED <<up, life, clock, file, snap, pubVars>>

(* saveConfig reads the next field. *)
ReadField(r) ==
    /\ rpc[r] = "read"
    /\ snap' = [snap EXCEPT ![r] = Append(@, mem[FieldOrder[Len(@) + 1]])]
    /\ rpc' = [rpc EXCEPT ![r] = IF Len(snap[r]) = 4 THEN "truncate" ELSE "read"]
    /\ UNCHANGED <<up, life, clock, requests, mem, file, alone, doubt, pubVars>>

(* Slip: the file opened and not truncated. *)
OpenOnly(r) ==
    /\ rpc[r] = "truncate"
    /\ rpc' = [rpc EXCEPT ![r] = "write"]
    /\ UNCHANGED <<up, life, clock, requests, mem, file, snap, alone, doubt, pubVars>>

(* ioutil.WriteFile opens the file and truncates it, *)
Truncate(r) ==
    /\ rpc[r] = "truncate"
    /\ file' = [text |-> Broken, size |-> 0]
    /\ rpc' = [rpc EXCEPT ![r] = "write"]
    /\ UNCHANGED <<up, life, clock, requests, mem, snap, alone, doubt, pubVars>>

(* The request is answered. *)
EndSave(r) ==
    /\ rpc' = [rpc EXCEPT ![r] = "idle"] /\ snap' = [snap EXCEPT ![r] = <<>>]
    /\ alone' = IF alone = r THEN None ELSE alone
    /\ UNCHANGED <<up, life, clock, requests, mem, pubVars>>

(* and writes it: OK. *)
Write(r) ==
    /\ rpc[r] = "write"
    /\ file' = Overwritten(Marshal(Snapshot(r)))
    /\ doubt' = IF alone = r THEN {} ELSE doubt
    /\ EndSave(r)

(* An error of the file system: 500, with the change in memory. *)
SaveFails(r) ==
    /\ rpc[r] \in {"truncate", "write"}
    /\ doubt' = doubt \cup {"unsaved"} \cup (IF rpc[r] = "write" THEN {"cut"} ELSE {})
    /\ file' \in IF rpc[r] = "write" THEN CutShort(Marshal(Snapshot(r))) ELSE {file}
    /\ EndSave(r)

-----------------------------------------------------------------------------
(* Publishing: the statements of a batch are made one by one, then put. *)

Publish(r, n) ==
    /\ up = "up" /\ rpc[r] = "idle" /\ requests < MaxRequests
    /\ rpc' = [rpc EXCEPT ![r] = "clock"] /\ requests' = requests + 1
    /\ left' = [left EXCEPT ![r] = n] /\ ids' = [ids EXCEPT ![r] = <<>>]
    /\ UNCHANGED <<up, life, clock, cfgVars, ts, counter, db>>

(* makeStatement asks for the time, *)
ReadClock(r) ==
    /\ rpc[r] = "clock"
    /\ ts' = [ts EXCEPT ![r] = clock] /\ rpc' = [rpc EXCEPT ![r] = "make"]
    /\ UNCHANGED <<up, life, clock, requests, cfgVars, ids, left, counter, db>>

(* Slip: a counter that counts the statements of a second. *)
MakeStatementOfSecond(r) ==
    /\ rpc[r] = "make"
    /\ ids' = [ids EXCEPT ![r] = Append(@, <<ts[r], counter>>)]
    /\ counter' = IF ts[r] = clock THEN counter + 1 ELSE 0
    /\ left' = [left EXCEPT ![r] = @ - 1] /\ ts' = [ts EXCEPT ![r] = 0]
    /\ rpc' = [rpc EXCEPT ![r] = IF left[r] > 1 THEN "clock" ELSE "put"]
    /\ UNCHANGED <<up, life, clock, requests, cfgVars, db>>

(* and for the counter, which stmtCounter gives out under the node's lock; *)
(* the publisher is the same in all ids of the node.                       *)
MakeStatement(r) ==
    /\ rpc[r] = "make"
    /\ ids' = [ids EXCEPT ![r] = Append(@, <<ts[r], counter>>)]
    /\ counter' = counter + 1
    /\ left' = [left EXCEPT ![r] = @ - 1] /\ ts' = [ts EXCEPT ![r] = 0]
    /\ rpc' = [rpc EXCEPT ![r] = IF left[r] > 1 THEN "clock" ELSE "put"]
    /\ UNCHANGED <<up, life, clock, requests, cfgVars, db>>

(* A statement that cannot be signed ends the request: no statement is     *)
(* stored, and the counter has moved on.                                   *)
MakeFails(r) ==
    /\ rpc[r] = "make"
    /\ counter' = counter + 1 /\ rpc' = [rpc EXCEPT ![r] = "idle"]
    /\ ids' = [ids EXCEPT ![r] = <<>>] /\ left' = [left EXCEPT ![r] = 0]
    /\ ts' = [ts EXCEPT ![r] = 0]
    /\ UNCHANGED <<up, life, clock, requests, cfgVars, db>>

IdsOf(r) == {ids[r][i] : i \in DOMAIN ids[r]}

(* PutBatch: all of the batch, or, when an id is taken, nothing. *)
PutBatch(r) ==
    /\ rpc[r] = "put"
    /\ db' = IF IdsOf(r) \cap DOMAIN db # {} THEN db
             ELSE [i \in DOMAIN db \cup IdsOf(r) |-> IF i \in DOMAIN db THEN db[i] ELSE life]
    /\ rpc' = [rpc EXCEPT ![r] = "idle"] /\ ids' = [ids EXCEPT ![r] = <<>>]
    /\ UNCHANGED <<up, life, clock, requests, cfgVars, left, ts, counter>>

-----------------------------------------------------------------------------

SetStep(r) == \E f \in Field, v \in Values : HandleSet(r, f, v)
SaveStep(r) == ReadField(r) \/ Truncate(r) \/ Write(r) \/ SaveFails(r)
PublishStep(r) ==
    \/ \E n \in 1..MaxBatch : Publish(r, n)
    \/ ReadClock(r) \/ MakeStatement(r) \/ MakeFails(r) \/ PutBatch(r)

Next ==
    \/ Start \/ StartFails \/ End \/ Tick
    \/ \E r \in Reqs : SetStep(r) \/ SaveStep(r) \/ PublishStep(r)

Spec == Init /\ [][Next]_vars

-----------------------------------------------------------------------------
(* Properties *)

(* config.json can be loaded except while it is being written, and unless  *)
(* a write was cut short or two saves overlapped; the next save that runs  *)
(* alone mends it, whatever the file was.                                  *)
BrokenByAccident ==
    ~Loads(file.text) =>
        (\E r \in Reqs : rpc[r] = "write") \/ doubt \cap {"overlap", "cut"} # {}

(* A process starts with the configuration that the last one had in memory *)
(* when it ended: every change that was answered with OK, as long as no    *)
(* save overlapped, failed or was interrupted since one was made alone.    *)
RestartRestores == [][up = "down" /\ up' = "up" /\ doubt = {} => mem' = mem]_vars

(* No two statements that a process makes have an id in common, in one     *)
(* batch, in two requests or in the database: a batch is refused for an id *)
(* that is taken only if an earlier process gave out that id.              *)
IdsUnique ==
    \A r \in Reqs :
        /\ \A i, j \in DOMAIN ids[r] : ids[r][i] = ids[r][j] => i = j
        /\ \A q \in Reqs \ {r} : IdsOf(r) \cap IdsOf(q) = {}
        /\ \A i \in IdsOf(r) \cap DOMAIN db : db[i] < life

=============================================================================
