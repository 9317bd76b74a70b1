----------------------------- MODULE StoreLifecycle -----------------------------
(***************************************************************************)
(* Which store the server uses: the first configuration, the switch to     *)
(* another store (open it, export, import, save the config file, replace), *)
(* a crash and the next start, against requests that got the store before  *)
(* and write to it later.                                                  *)
(*                                                                         *)
(* A store is opened as an object.  A JSON store has its data in memory    *)
(* and writes all of them with every change; two objects on one file do    *)
(* not know of each other.  A SQL store has them in the database.          *)
(* Data are kept by kind, as the version last written of it; 0 is absent   *)
(* or the default.  A job's execution is a request here: it gets the store *)
(* once for a call.                                                        *)
(***************************************************************************)
EXTENDS Naturals, Sequences

CONSTANTS
  Locations,  \* files and databases
  Files,      \* those that are JSON files
  Nowhere,    \* no config file
  Kinds,      \* the kinds of data to look at
  Requests,   \* requests that write data
  Managers,   \* requests that configure or switch the storage
  MaxOpens,   \* bound: objects opened in the life of a process
  MaxVersion, \* bound: versions of each kind
  MaxCrashes  \* bound: crashes

(* "concurrency" and "tools" are fields of the settings and of the roles'   *)
(* settings that a SQL store has no column for or never writes: the        *)
(* default concurrency limit, and SupportsTools and Proxy.                 *)
Unstored == {"concurrency", "tools"}
AllKinds ==
  {"users", "groups", "providers", "settings", "prompts", "usages", "jobs"} \cup Unstored

ASSUME StoreLifecycleAssumption ==
  /\ Files \subseteq Locations /\ Nowhere \notin Locations
  /\ Kinds \subseteq AllKinds
  /\ MaxOpens \in Nat \ {0} /\ MaxVersion \in Nat /\ MaxCrashes \in Nat

VARIABLES
  disk,       \* what is in each file or database
  objs,       \* the stores opened: a location, and a JSON store's memory
  current,    \* the object the server uses; 0: none
  config,     \* the location in the config file
  held,       \* the object each request holds; 0: none
  mgr,        \* the managers' local state
  crashes,
  latest,     \* history: the version of each kind last acknowledged
  excused     \* history: kinds of which the server has lost a write

vars == <<disk, objs, current, config, held, mgr, crashes, latest, excused>>

-----------------------------------------------------------------------------
Version  == 0..MaxVersion
Data     == [Kinds -> Version]
NoData   == [k \in Kinds |-> 0]
Object   == [loc : Locations, mem : Data]
Opened   == 0..MaxOpens
PCs      == {"idle", "initial", "lock", "export", "import", "save", "replace"}
(* A snapshot has no jobs.                                                 *)
Carried  == Kinds \ {"jobs"}
(* op: what it does; obj: the candidate; had: what that had before the     *)
(* import; snap: the snapshot; todo: the kinds that are still to come.     *)
Manager  == [op : {"none", "initial", "switch"}, pc : PCs, obj : Opened, had : Data, snap : Data,
             todo : SUBSET Carried]
Idle     == [op |-> "none", pc |-> "idle", obj |-> 0, had |-> NoData, snap |-> NoData,
             todo |-> {}]

ExportOrder ==
  <<"users", "prompts", "tools", "settings", "concurrency", "groups", "usages", "providers">>
ImportOrder ==
  <<"groups", "settings", "concurrency", "users", "providers", "prompts", "tools", "usages">>
First(order, kinds) ==
  order[CHOOSE i \in DOMAIN order : order[i] \in kinds /\ \A j \in 1..(i - 1) : order[j] \notin kinds]
IsFile(o)     == objs[o].loc \in Files
DataOf(o)     == IF IsFile(o) THEN objs[o].mem ELSE disk[objs[o].loc]

(* m.mu is held from the export, or from the check of the first            *)
(* configuration, to the end; getting the store waits for it.              *)
Locked        == \E m \in Managers : mgr[m].pc \in {"export", "import", "save", "replace"}

TypeOK ==
  /\ disk \in [Locations -> Data]
  /\ objs \in Seq(Object) /\ Len(objs) <= MaxOpens
  /\ current \in 0..Len(objs)
  /\ config \in Locations \cup {Nowhere}
  /\ held \in [Requests -> 0..Len(objs)]
  /\ mgr \in [Managers -> Manager]
  /\ crashes \in 0..MaxCrashes
  /\ latest \in Data
  /\ excused \subseteq Kinds

Init ==
  /\ disk = [l \in Locations |-> NoData]
  /\ objs = <<>> /\ current = 0
  /\ config = Nowhere
  /\ held = [r \in Requests |-> 0]
  /\ mgr = [m \in Managers |-> Idle]
  /\ crashes = 0
  /\ latest = NoData
  /\ excused = {}

-----------------------------------------------------------------------------
(* Requests.                                                               *)

dataStore(r) ==
  /\ held[r] = 0 /\ current # 0 /\ ~Locked
  /\ held' = [held EXCEPT ![r] = current]
  /\ UNCHANGED <<disk, objs, current, config, mgr, crashes, latest, excused>>

(* Object o writes v as its kind k: a JSON store all it has in memory.     *)
Put(o, k, v) ==
  IF IsFile(o)
  THEN /\ objs' = [objs EXCEPT ![o].mem[k] = v]
       /\ disk' = [disk EXCEPT ![objs[o].loc] = [objs[o].mem EXCEPT ![k] = v]]
  ELSE /\ disk' = [disk EXCEPT ![objs[o].loc][k] = v]
       /\ UNCHANGED objs

Keeps(o, k) == IsFile(o) \/ k \notin Unstored

(* A SQL store leaves what it does not keep as it is, and reports success. *)
Stored(o, k, v)  == IF Keeps(o, k) THEN v ELSE DataOf(o)[k]
Written(o, k, v) == Put(o, k, Stored(o, k, v))

(* Two objects on one file: whatever either writes, the other's is lost at *)
(* the latest when the file is read again.                                 *)
Twins(o) == IsFile(o) /\ \E p \in DOMAIN objs : p # o /\ objs[p].loc = objs[o].loc

(* A write is late when the store has been replaced, or is being exported. *)
Write(r, k) ==
  /\ held[r] # 0 /\ latest[k] < MaxVersion
  /\ latest' = [latest EXCEPT ![k] = @ + 1]
  /\ Written(held[r], k, latest'[k])
  /\ excused' = IF Twins(held[r]) THEN Kinds
                ELSE IF held[r] # current \/ Locked \/ ~Keeps(held[r], k) THEN excused \cup {k}
                ELSE excused \ {k}
  /\ held' = [held EXCEPT ![r] = 0]
  /\ UNCHANGED <<current, config, mgr, crashes>>

(* The request ends without having written anything.                       *)
Leave(r) ==
  /\ held[r] # 0
  /\ held' = [held EXCEPT ![r] = 0]
  /\ UNCHANGED <<disk, objs, current, config, mgr, crashes, latest, excused>>

-----------------------------------------------------------------------------
(* Opening, and the first configuration.                                   *)

Opens(l) == Len(objs) < MaxOpens /\ objs' = Append(objs, [loc |-> l, mem |-> disk[l]])

(* handleSetupAdmin opens the store it was given when there is none.       *)
OpenInitial(m, l) ==
  /\ mgr[m].pc = "idle" /\ current = 0 /\ ~Locked
  /\ Opens(l)
  /\ mgr' = [mgr EXCEPT ![m] = [Idle EXCEPT !.op = "initial", !.pc = "initial", !.obj = Len(objs')]]
  /\ UNCHANGED <<disk, current, config, held, crashes, latest, excused>>

(* Mutant: it is not looked again whether there is a store by now. *)
ConfigureUnchecked(m) ==
  /\ mgr[m].pc = "initial" /\ ~Locked
  /\ mgr' = [mgr EXCEPT ![m].pc = "save"]
  /\ UNCHANGED <<disk, objs, current, config, held, crashes, latest, excused>>

ConfigureInitial(m) ==
  /\ mgr[m].pc = "initial" /\ ~Locked
  /\ mgr' = [mgr EXCEPT ![m] = IF current # 0 THEN Idle ELSE [@ EXCEPT !.pc = "save"]]
  /\ UNCHANGED <<disk, objs, current, config, held, crashes, latest, excused>>

-----------------------------------------------------------------------------
(* The switch.                                                             *)

OpenCandidate(m, l) ==
  /\ mgr[m].pc = "idle" /\ current # 0
  /\ Opens(l)
  /\ mgr' = [mgr EXCEPT ![m] = [Idle EXCEPT !.op = "switch", !.pc = "lock", !.obj = Len(objs')]]
  /\ UNCHANGED <<disk, current, config, held, crashes, latest, excused>>

SwitchStore(m) ==
  /\ mgr[m].pc = "lock" /\ ~Locked
  /\ mgr' = [mgr EXCEPT ![m].pc = "export", ![m].todo = Carried,
                          ![m].had = DataOf(mgr[m].obj)]
  /\ UNCHANGED <<disk, objs, current, config, held, crashes, latest, excused>>

(* One kind is listed after the other.                                     *)
ExportSnapshot(m) ==
  LET k == First(ExportOrder, mgr[m].todo) IN
  /\ mgr[m].pc = "export"
  /\ mgr' = IF mgr[m].todo = {}
            THEN [mgr EXCEPT ![m].pc = "import", ![m].todo = Carried]
            ELSE [mgr EXCEPT ![m].snap[k] = DataOf(current)[k], ![m].todo = @ \ {k}]
  /\ UNCHANGED <<disk, objs, current, config, held, crashes, latest, excused>>

(* What becomes of a kind in the candidate that has old of it, when the    *)
(* snapshot has new.  What there is already is not created again, or, by a *)
(* JSON store, behind the old, which is found first; what is saved instead *)
(* of created replaces the old.                                            *)
ImportGroup(old, new)    == IF old = 0 THEN new ELSE old
ImportUser(old, new)     == IF old = 0 THEN new ELSE old
ImportProvider(old, new) == IF old = 0 THEN new ELSE old
ImportSettings(old, new) == new
ImportPrompts(old, new)  == new
ImportUsage(old, new)    == IF new = 0 THEN old ELSE new

Imported(k, old, new) ==
  CASE k = "groups"                       -> ImportGroup(old, new)
    [] k = "users"                        -> ImportUser(old, new)
    [] k = "providers"                    -> ImportProvider(old, new)
    [] k \in {"settings", "concurrency"}  -> ImportSettings(old, new)
    [] k \in {"prompts", "tools"}         -> ImportPrompts(old, new)
    [] k = "usages"                       -> ImportUsage(old, new)

(* Mutant: usages are not imported. *)
ImportNoUsages(m) ==
  LET k == First(ImportOrder, mgr[m].todo)  old == DataOf(mgr[m].obj)[k]  new == mgr[m].snap[k] IN
  /\ mgr[m].pc = "import"
  /\ IF mgr[m].todo = {}
     THEN mgr' = [mgr EXCEPT ![m].pc = "save"] /\ UNCHANGED <<disk, objs, excused>>
     ELSE /\ Written(mgr[m].obj, k, IF k = "usages" THEN old ELSE Imported(k, old, new))
          /\ excused' = IF Twins(mgr[m].obj) THEN Kinds ELSE excused
          /\ mgr' = [mgr EXCEPT ![m].todo = @ \ {k}]
  /\ UNCHANGED <<current, config, held, crashes, latest>>

ImportSnapshot(m) ==
  LET k == First(ImportOrder, mgr[m].todo)  old == DataOf(mgr[m].obj)[k]  new == mgr[m].snap[k] IN
  /\ mgr[m].pc = "import"
  /\ IF mgr[m].todo = {}
     THEN mgr' = [mgr EXCEPT ![m].pc = "save"] /\ UNCHANGED <<disk, objs, excused>>
     ELSE /\ Written(mgr[m].obj, k, Imported(k, old, new))
          /\ excused' = IF Twins(mgr[m].obj) THEN Kinds ELSE excused
          /\ mgr' = [mgr EXCEPT ![m].todo = @ \ {k}]
  /\ UNCHANGED <<current, config, held, crashes, latest>>

(* Mutant: an existing config file stays. *)
SaveNewConfig(m) ==
  /\ mgr[m].pc = "save"
  /\ config' = IF config = Nowhere THEN objs[mgr[m].obj].loc ELSE config
  /\ mgr' = [mgr EXCEPT ![m].pc = "replace"]
  /\ UNCHANGED <<disk, objs, current, held, crashes, latest, excused>>

(* The config file is written beside the old one and renamed over it.      *)
SaveConfig(m) ==
  /\ mgr[m].pc = "save"
  /\ config' = objs[mgr[m].obj].loc
  /\ mgr' = [mgr EXCEPT ![m].pc = "replace"]
  /\ UNCHANGED <<disk, objs, current, held, crashes, latest, excused>>

(* What the switch loses: the kinds that are not in a snapshot, those of   *)
(* which the candidate had something before, and those it does not keep.   *)
NotCarried(m) ==
  IF mgr[m].op = "initial" THEN {}
  ELSE {k \in Kinds : \/ k = "jobs" /\ latest[k] # 0
                      \/ mgr[m].had[k] # 0
                      \/ ~Keeps(mgr[m].obj, k) /\ mgr[m].snap[k] # 0}

Replace(m) ==
  /\ mgr[m].pc = "replace"
  /\ current' = mgr[m].obj
  /\ excused' = excused \cup NotCarried(m)
  /\ mgr' = [mgr EXCEPT ![m] = Idle]
  /\ UNCHANGED <<disk, objs, config, held, crashes, latest>>

(* The candidate cannot be read or written, or the config file not: the    *)
(* server stays with its store.  What was imported stays in the candidate. *)
Fails(m) ==
  /\ mgr[m].pc \in {"export", "import", "save"}
  /\ mgr' = [mgr EXCEPT ![m] = Idle]
  /\ UNCHANGED <<disk, objs, current, config, held, crashes, latest, excused>>

-----------------------------------------------------------------------------
(* Mutant: the error of opening the store at a start is dropped. *)
StartUnopened ==
  /\ crashes < MaxCrashes /\ config # Nowhere
  /\ crashes' = crashes + 1
  /\ objs' \in {<<>>, <<[loc |-> config, mem |-> disk[config]]>>} /\ current' = 1
  /\ excused' = excused \cup UNION {NotCarried(m) : m \in {n \in Managers : mgr[n].pc = "replace"}}
  /\ held' = [r \in Requests |-> 0]
  /\ mgr' = [m \in Managers |-> Idle]
  /\ UNCHANGED <<disk, config, latest>>

(* The process ends at any point; the next start opens the store of the    *)
(* config file, if there is one, and has then lost what a switch had not   *)
(* carried.                                                                *)
openStoreManager ==
  /\ crashes < MaxCrashes
  /\ crashes' = crashes + 1
  /\ IF config = Nowhere
     THEN objs' = <<>> /\ current' = 0
     ELSE objs' = <<[loc |-> config, mem |-> disk[config]]>> /\ current' = 1
  /\ excused' = excused \cup UNION {NotCarried(m) : m \in {n \in Managers : mgr[n].pc = "replace"}}
  /\ held' = [r \in Requests |-> 0]
  /\ mgr' = [m \in Managers |-> Idle]
  /\ UNCHANGED <<disk, config, latest>>

Next ==
  \/ \E r \in Requests : dataStore(r) \/ Leave(r) \/ \E k \in Kinds : Write(r, k)
  \/ \E m \in Managers :
       \/ \E l \in Locations : OpenInitial(m, l) \/ OpenCandidate(m, l)
       \/ ConfigureInitial(m) \/ SwitchStore(m) \/ ExportSnapshot(m) \/ ImportSnapshot(m)
       \/ SaveConfig(m) \/ Replace(m) \/ Fails(m)
  \/ openStoreManager

Spec == Init /\ [][Next]_vars

-----------------------------------------------------------------------------
(* Properties.                                                             *)

(* What was acknowledged is what the server answers from then on, through  *)
(* switches, failed switches, crashes and starts.  The causes of a loss    *)
(* are all named: a write by a request that has held the store since       *)
(* before its export, two objects on one file, a kind that snapshots leave *)
(* out or that a SQL store does not keep, and a candidate that was used    *)
(* before (admin switches back).                                           *)
NothingElseLost ==
  current # 0 => \A k \in Kinds \ excused : DataOf(current)[k] = latest[k]

(* The server runs on the store of its config file, which the next start   *)
(* opens; only in the middle of a replacement the file is ahead.           *)
RestartFindsStore ==
  current # 0 /\ ~(\E m \in Managers : mgr[m].pc = "replace") => config = objs[current].loc

(* Of two first configurations at a time the second changes nothing: once  *)
(* there is a store, only a switch or a new start puts another in its      *)
(* place.                                                                  *)
OneInitial ==
  [][current # 0 /\ current' # current /\ crashes' = crashes =>
       \E m \in Managers : mgr[m].op = "switch" /\ mgr[m].pc = "replace" /\ mgr'[m].pc = "idle"]_vars

=============================================================================
