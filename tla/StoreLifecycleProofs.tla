------------------------- MODULE StoreLifecycleProofs -------------------------
(***************************************************************************)
(* StoreLifecycle for any number of locations, requests and managers, any  *)
(* kinds of data and any bounds: the server runs on the store of its       *)
(* config file, only the first of several first configurations takes       *)
(* effect, and what was acknowledged is answered from then on unless one   *)
(* of the named causes lost it.  All rest on the lock: one manager at a    *)
(* time is between its check and its end, so that what it found is still   *)
(* so when it acts.                                                        *)
(***************************************************************************)
EXTENDS StoreLifecycle, TLAPS

LockedPCs == {"export", "import", "save", "replace"}

(* One at a time has the lock. *)
OneLocker ==
  \A m, n \in Managers : mgr[m].pc \in LockedPCs /\ mgr[n].pc \in LockedPCs => m = n

(* A manager that is not idle has opened its object, and is where its      *)
(* operation leads; the first configuration goes on only while there is no *)
(* store, a switch only when there is one.                                 *)
Candidates ==
  \A m \in Managers :
    /\ mgr[m].pc # "idle" => mgr[m].obj \in 1..Len(objs)
    /\ mgr[m].pc = "initial" => mgr[m].op = "initial"
    /\ mgr[m].pc \in {"lock", "export", "import"} => mgr[m].op = "switch"
    /\ mgr[m].pc \in {"save", "replace"} => mgr[m].op \in {"initial", "switch"}
    /\ mgr[m].pc \in {"save", "replace"} /\ mgr[m].op = "initial" => current = 0
    /\ mgr[m].pc # "idle" /\ mgr[m].op = "switch" => current # 0
    /\ mgr[m].pc = "replace" => config = objs[mgr[m].obj].loc

IInv == TypeOK /\ OneLocker /\ Candidates /\ RestartFindsStore

-----------------------------------------------------------------------------
(* The kind that is next in either order is one that is still to come.     *)
LEMMA FirstIsTodo ==
  ASSUME NEW kinds \in SUBSET Carried, kinds # {}
  PROVE  First(ExportOrder, kinds) \in kinds /\ First(ImportOrder, kinds) \in kinds
<1> DEFINE all == {"users", "prompts", "tools", "settings", "concurrency", "groups", "usages",
                   "providers"}
<1>1. kinds \subseteq all
  BY StoreLifecycleAssumption DEF Carried, AllKinds, Unstored
<1>2. ASSUME NEW order \in {ExportOrder, ImportOrder}
      PROVE  First(order, kinds) \in kinds
  <2> DEFINE entries == {order[1], order[2], order[3], order[4], order[5], order[6], order[7],
                         order[8]}
             FirstAt(i) == order[i] \in kinds /\ \A j \in 1..(i - 1) : order[j] \notin kinds
             Found      == \E i \in 1..8 : FirstAt(i)
             NoneTo(n)  == \A j \in 1..n : order[j] \notin kinds
  <2>1. DOMAIN order = 1..8 /\ entries = all
    <3>1. CASE order = ExportOrder
      <4>1. /\ order[1] = "users" /\ order[2] = "prompts" /\ order[3] = "tools"
            /\ order[4] = "settings" /\ order[5] = "concurrency" /\ order[6] = "groups"
            /\ order[7] = "usages" /\ order[8] = "providers"
        BY <3>1 DEF ExportOrder
      <4>2. DOMAIN order = 1..8
        BY <3>1 DEF ExportOrder
      <4>3. entries = all
        BY <4>1
      <4> QED BY <4>2, <4>3
    <3>2. CASE order = ImportOrder
      <4>1. /\ order[1] = "groups" /\ order[2] = "settings" /\ order[3] = "concurrency"
            /\ order[4] = "users" /\ order[5] = "providers" /\ order[6] = "prompts"
            /\ order[7] = "tools" /\ order[8] = "usages"
        BY <3>2 DEF ImportOrder
      <4>2. DOMAIN order = 1..8
        BY <3>2 DEF ImportOrder
      <4>3. entries = all
        BY <4>1
      <4> QED BY <4>2, <4>3
    <3> QED BY <1>2, <3>1, <3>2
  <2>2. ASSUME NEW n \in 0..7, NoneTo(n)
        PROVE  Found \/ NoneTo(n + 1)
    <3>1. CASE order[n + 1] \in kinds
      <4>1. FirstAt(n + 1)
        BY <2>2, <3>1
      <4>2. n + 1 \in 1..8
        OBVIOUS
      <4> QED BY <4>1, <4>2
    <3>2. CASE order[n + 1] \notin kinds
      <4>1. \A j \in 1..(n + 1) : j \in 1..n \/ j = n + 1
        OBVIOUS
      <4> QED BY <2>2, <3>2, <4>1
    <3> QED BY <3>1, <3>2
  <2>3. Found \/ NoneTo(8)
    <3> HIDE DEF Found
    <3>1. NoneTo(0)
      OBVIOUS
    <3> HIDE DEF NoneTo
    <3>2. Found \/ NoneTo(0 + 1)  BY <2>2, <3>1
    <3>3. Found \/ NoneTo(1 + 1)  BY <2>2, <3>2
    <3>4. Found \/ NoneTo(2 + 1)  BY <2>2, <3>3
    <3>5. Found \/ NoneTo(3 + 1)  BY <2>2, <3>4
    <3>6. Found \/ NoneTo(4 + 1)  BY <2>2, <3>5
    <3>7. Found \/ NoneTo(5 + 1)  BY <2>2, <3>6
    <3>8. Found \/ NoneTo(6 + 1)  BY <2>2, <3>7
    <3>9. Found \/ NoneTo(7 + 1)  BY <2>2, <3>8
    <3> QED BY <3>9
  <2>4. ~NoneTo(8)
    <3>1. PICK k : k \in kinds  OBVIOUS
    <3>2. k \in entries  BY <1>1, <2>1, <3>1
    <3> QED BY <3>1, <3>2
  <2> QED BY <2>1, <2>3, <2>4 DEF First
<1> QED BY <1>2

(* What an import leaves is a version of the kind. *)
LEMMA ImportedType ==
  ASSUME NEW k \in Carried, NEW old \in Version, NEW new \in Version
  PROVE  Imported(k, old, new) \in Version
BY StoreLifecycleAssumption
   DEF Carried, AllKinds, Unstored, Imported, ImportGroup, ImportUser, ImportProvider,
       ImportSettings, ImportPrompts, ImportUsage

(* Every object's data are data.                                           *)
LEMMA DataOfType ==
  ASSUME TypeOK, NEW o \in 1..Len(objs)
  PROVE  DataOf(o) \in Data /\ objs[o] \in Object
<1>1. objs[o] \in Object
  BY DEF TypeOK
<1> QED BY <1>1 DEF TypeOK, DataOf, Object

(* What is stored is what is written, or what was there.                   *)
LEMMA StoredValue ==
  ASSUME TypeOK, NEW o \in 1..Len(objs), NEW k \in Kinds, NEW v \in Version
  PROVE  /\ Stored(o, k, v) \in Version
         /\ Stored(o, k, v) \in {v, DataOf(o)[k]}
         /\ Keeps(o, k) => Stored(o, k, v) = v
BY DataOfType DEF Stored, Data

(* A write changes no object's location, opens none and leaves data.       *)
LEMMA PutType ==
  ASSUME TypeOK, NEW o \in 1..Len(objs), NEW k \in Kinds, NEW v \in Version, Put(o, k, v)
  PROVE  /\ disk' \in [Locations -> Data]
         /\ objs' \in Seq(Object) /\ Len(objs') = Len(objs)
         /\ \A p \in 1..Len(objs) : objs'[p].loc = objs[p].loc
<1>1. objs \in Seq(Object) /\ objs[o] \in Object /\ objs[o].loc \in Locations /\ objs[o].mem \in Data
  BY DataOfType DEF TypeOK, Object
<1>2. \A d \in Data : [d EXCEPT ![k] = v] \in Data
  BY DEF Data
<1>3. CASE IsFile(o)
  <2>1. /\ objs' = [objs EXCEPT ![o].mem[k] = v]
        /\ disk' = [disk EXCEPT ![objs[o].loc] = [objs[o].mem EXCEPT ![k] = v]]
    BY <1>3 DEF Put
  <2> DEFINE next == [objs[o] EXCEPT !.mem = [objs[o].mem EXCEPT ![k] = v]]
  <2>2. next \in Object /\ next.loc = objs[o].loc
    BY <1>1, <1>2 DEF Object
  <2>3. objs' = [objs EXCEPT ![o] = next]
    BY <1>1, <2>1 DEF Object
  <2> HIDE DEF next
  <2>4. objs' \in Seq(Object) /\ Len(objs') = Len(objs)
    BY <1>1, <2>2, <2>3
  <2>5. \A p \in 1..Len(objs) : objs'[p].loc = objs[p].loc
    BY <1>1, <2>2, <2>3
  <2>6. disk' \in [Locations -> Data]
    BY <1>1, <1>2, <2>1 DEF TypeOK
  <2> QED BY <2>4, <2>5, <2>6
<1>4. CASE ~IsFile(o)
  <2>1. disk' = [disk EXCEPT ![objs[o].loc][k] = v] /\ objs' = objs
    BY <1>4 DEF Put
  <2>2. disk[objs[o].loc] \in Data /\ [disk[objs[o].loc] EXCEPT ![k] = v] \in Data
    BY <1>1, <1>2 DEF TypeOK
  <2>3. disk' = [disk EXCEPT ![objs[o].loc] = [disk[objs[o].loc] EXCEPT ![k] = v]]
    BY <1>1, <2>1 DEF TypeOK
  <2>4. disk' \in [Locations -> Data]
    BY <1>1, <2>2, <2>3 DEF TypeOK
  <2> QED BY <1>1, <2>1, <2>4
<1> QED BY <1>3, <1>4

LEMMA WrittenType ==
  ASSUME TypeOK, NEW o \in 1..Len(objs), NEW k \in Kinds, NEW v \in Version, Written(o, k, v)
  PROVE  /\ disk' \in [Locations -> Data]
         /\ objs' \in Seq(Object) /\ Len(objs') = Len(objs)
         /\ \A p \in 1..Len(objs) : objs'[p].loc = objs[p].loc
BY StoredValue, PutType DEF Written

-----------------------------------------------------------------------------
(* A step of one manager leaves one locker, when it takes the lock only    *)
(* while it is free.                                                       *)
LEMMA OneChanges ==
  ASSUME TypeOK, OneLocker, NEW m \in Managers, NEW s \in Manager,
         mgr' = [mgr EXCEPT ![m] = s],
         s.pc \in LockedPCs => mgr[m].pc \in LockedPCs \/ ~Locked
  PROVE  /\ mgr' \in [Managers -> Manager]
         /\ mgr'[m] = s
         /\ \A n \in Managers : n # m => mgr'[n] = mgr[n]
         /\ OneLocker'
<1>1. /\ mgr' \in [Managers -> Manager]
      /\ mgr'[m] = s
      /\ \A n \in Managers : n # m => mgr'[n] = mgr[n]
  BY DEF TypeOK
<1>2. ASSUME NEW n \in Managers, n # m, s.pc \in LockedPCs
      PROVE  mgr[n].pc \notin LockedPCs
  BY <1>2 DEF OneLocker, Locked, LockedPCs
<1>3. OneLocker'
  BY <1>1, <1>2 DEF OneLocker, LockedPCs
<1> QED BY <1>1, <1>3

LEMMA IdleType == Idle \in Manager /\ NoData \in Data
BY StoreLifecycleAssumption DEF Idle, NoData, Manager, PCs, Opened, Data, Version

LEMMA ManagerFields ==
  ASSUME TypeOK, NEW m \in Managers
  PROVE  /\ mgr[m] \in Manager
         /\ \A pc \in PCs : [mgr[m] EXCEPT !.pc = pc] \in Manager
         /\ \A pc \in PCs : [mgr[m] EXCEPT !.pc = pc].pc = pc
         /\ \A pc \in PCs : [mgr[m] EXCEPT !.pc = pc].op = mgr[m].op
         /\ \A pc \in PCs : [mgr[m] EXCEPT !.pc = pc].obj = mgr[m].obj
BY DEF TypeOK, Manager

LEMMA InitInv == Init => IInv
<1> SUFFICES ASSUME Init PROVE IInv
  OBVIOUS
<1>1. TypeOK
  BY StoreLifecycleAssumption, IdleType DEF Init, TypeOK, NoData, Data, Version
<1> QED BY <1>1 DEF Init, IInv, OneLocker, Candidates, RestartFindsStore, Idle, LockedPCs

-----------------------------------------------------------------------------
(* Requests touch no manager, neither the config file nor the store in use.*)
LEMMA RequestStep ==
  ASSUME IInv, NEW r \in Requests, dataStore(r) \/ Leave(r) \/ \E k \in Kinds : Write(r, k)
  PROVE  IInv'
<1> USE DEF IInv
<1>1. CASE dataStore(r) \/ Leave(r)
  BY <1>1 DEF dataStore, Leave, TypeOK, OneLocker, Candidates, RestartFindsStore
<1>2. CASE \E k \in Kinds : Write(r, k)
  <2>1. PICK k \in Kinds : Write(r, k)  BY <1>2
  <2>2. held[r] \in 1..Len(objs)
    BY <2>1 DEF Write, TypeOK
  <2>3. latest' \in Data /\ latest'[k] \in Version
    BY <2>1, StoreLifecycleAssumption DEF Write, TypeOK, Data, Version
  <2>4. /\ disk' \in [Locations -> Data]
        /\ objs' \in Seq(Object) /\ Len(objs') = Len(objs)
        /\ \A p \in 1..Len(objs) : objs'[p].loc = objs[p].loc
    BY <2>1, <2>2, <2>3, WrittenType DEF Write
  <2>5. excused' \subseteq Kinds
    BY <2>1 DEF Write, TypeOK
  <2>6. TypeOK'
    BY <2>1, <2>3, <2>4, <2>5 DEF Write, TypeOK
  <2>7. Candidates'
    BY <2>1, <2>4 DEF Write, TypeOK, Candidates
  <2>8. OneLocker' /\ RestartFindsStore'
    BY <2>1, <2>4 DEF Write, TypeOK, OneLocker, RestartFindsStore
  <2> QED BY <2>6, <2>7, <2>8
<1> QED BY <1>1, <1>2

(* Whoever opens a store has an object of its own, and no lock yet.        *)
LEMMA OpenStep ==
  ASSUME IInv, NEW m \in Managers, NEW l \in Locations, OpenInitial(m, l) \/ OpenCandidate(m, l)
  PROVE  IInv'
<1> USE DEF IInv
<1> DEFINE s(op, pc) == [Idle EXCEPT !.op = op, !.pc = pc, !.obj = Len(objs')]
<1>1. /\ Opens(l) /\ mgr[m].pc = "idle"
      /\ UNCHANGED <<disk, current, config, held, crashes, latest, excused>>
      /\ \/ current = 0 /\ mgr' = [mgr EXCEPT ![m] = s("initial", "initial")]
         \/ current # 0 /\ mgr' = [mgr EXCEPT ![m] = s("switch", "lock")]
  BY DEF OpenInitial, OpenCandidate
<1>2. /\ objs' \in Seq(Object) /\ Len(objs') = Len(objs) + 1 /\ Len(objs') \in 1..MaxOpens
      /\ \A p \in 1..Len(objs) : objs'[p] = objs[p]
  <2>1. [loc |-> l, mem |-> disk[l]] \in Object
    BY DEF TypeOK, Object
  <2> QED BY <1>1, <2>1, StoreLifecycleAssumption DEF Opens, TypeOK
<1>3. /\ s("initial", "initial") \in Manager /\ s("initial", "initial").pc = "initial"
      /\ s("initial", "initial").op = "initial" /\ s("initial", "initial").obj = Len(objs')
      /\ s("switch", "lock") \in Manager /\ s("switch", "lock").pc = "lock"
      /\ s("switch", "lock").op = "switch" /\ s("switch", "lock").obj = Len(objs')
  <2>1. Len(objs') \in Opened
    BY <1>2, StoreLifecycleAssumption DEF Opened
  <2> QED BY <2>1, IdleType DEF Idle, Manager, PCs
<1> HIDE DEF s
<1>4. PICK t \in {s("initial", "initial"), s("switch", "lock")} :
        mgr' = [mgr EXCEPT ![m] = t] /\ (t.op = "initial" => current = 0) /\ (t.op = "switch" => current # 0)
  BY <1>1, <1>3
<1>5. /\ mgr' \in [Managers -> Manager]
      /\ mgr'[m] = t
      /\ \A n \in Managers : n # m => mgr'[n] = mgr[n]
      /\ OneLocker'
  <2>1. t \in Manager /\ t.pc \notin LockedPCs
    BY <1>3, <1>4 DEF LockedPCs
  <2> QED BY <1>4, <2>1, OneChanges
<1>6. TypeOK'
  BY <1>1, <1>2, <1>5 DEF TypeOK
<1>7. Candidates'
  <2> SUFFICES ASSUME NEW n \in Managers
               PROVE  /\ mgr'[n].pc # "idle" => mgr'[n].obj \in 1..Len(objs')
                      /\ mgr'[n].pc = "initial" => mgr'[n].op = "initial"
                      /\ mgr'[n].pc \in {"lock", "export", "import"} => mgr'[n].op = "switch"
                      /\ mgr'[n].pc \in {"save", "replace"} => mgr'[n].op \in {"initial", "switch"}
                      /\ mgr'[n].pc \in {"save", "replace"} /\ mgr'[n].op = "initial" => current' = 0
                      /\ mgr'[n].pc # "idle" /\ mgr'[n].op = "switch" => current' # 0
                      /\ mgr'[n].pc = "replace" => config' = objs'[mgr'[n].obj].loc
    BY DEF Candidates
  <2>1. CASE n = m
    BY <1>1, <1>2, <1>3, <1>4, <1>5, <2>1
  <2>2. CASE n # m
    BY <1>1, <1>2, <1>5, <2>2 DEF Candidates, TypeOK
  <2> QED BY <2>1, <2>2
<1>8. RestartFindsStore'
  <2>1. \A n \in Managers : mgr[n].pc = "replace" => mgr'[n].pc = "replace"
    BY <1>1, <1>5
  <2> QED BY <1>1, <1>2, <2>1 DEF RestartFindsStore, TypeOK
<1> QED BY <1>5, <1>6, <1>7, <1>8

(* The steps from one place of an operation to the next that leave the     *)
(* stores as they are: m becomes t.                                        *)
LEMMA PlaceStep ==
  ASSUME IInv, NEW m \in Managers, NEW t \in Manager,
         mgr' = [mgr EXCEPT ![m] = t],
         UNCHANGED <<disk, objs, current, held, crashes, latest, excused>>,
         config' \in Locations \cup {Nowhere},
         t.pc \in LockedPCs => mgr[m].pc \in LockedPCs \/ ~Locked,
         t.pc = "idle" \/ (t.pc # "initial" /\ t.op = mgr[m].op /\ t.obj = mgr[m].obj /\ mgr[m].pc # "idle"),
         t.pc \in {"lock", "export", "import"} => t.op = "switch",
         t.pc \in {"save", "replace"} => t.op \in {"initial", "switch"},
         t.pc = "save" /\ t.op = "initial" => current = 0,
         t.pc = "replace" => mgr[m].pc = "save" /\ config' = objs[t.obj].loc,
         config' # config => t.pc = "replace",
         mgr[m].pc # "replace"
  PROVE  IInv'
<1> USE DEF IInv
<1>1. /\ mgr' \in [Managers -> Manager]
      /\ mgr'[m] = t
      /\ \A n \in Managers : n # m => mgr'[n] = mgr[n]
      /\ OneLocker'
  BY OneChanges
<1>2. TypeOK'
  BY <1>1 DEF TypeOK
<1>3. \A n \in Managers : n # m /\ t.pc \in LockedPCs => mgr[n].pc \notin LockedPCs
  BY <1>1 DEF OneLocker
<1>4. ASSUME NEW n \in Managers
      PROVE  /\ mgr'[n].pc # "idle" => mgr'[n].obj \in 1..Len(objs')
             /\ mgr'[n].pc = "initial" => mgr'[n].op = "initial"
             /\ mgr'[n].pc \in {"lock", "export", "import"} => mgr'[n].op = "switch"
             /\ mgr'[n].pc \in {"save", "replace"} => mgr'[n].op \in {"initial", "switch"}
             /\ mgr'[n].pc \in {"save", "replace"} /\ mgr'[n].op = "initial" => current' = 0
             /\ mgr'[n].pc # "idle" /\ mgr'[n].op = "switch" => current' # 0
             /\ mgr'[n].pc = "replace" => config' = objs'[mgr'[n].obj].loc
  <2>1. CASE n = m /\ t.pc = "idle"
    BY <1>1, <2>1
  <2>2. CASE n = m /\ t.pc # "idle"
    BY <1>1, <2>2 DEF Candidates
  <2>3. CASE n # m
    <3>1. mgr[n].pc = "replace" => config' = config
      BY <1>3, <2>3 DEF LockedPCs
    <3> QED BY <1>1, <2>3, <3>1 DEF Candidates
  <2> QED BY <2>1, <2>2, <2>3
<1>5. Candidates'
  BY <1>4 DEF Candidates
<1>6. RestartFindsStore'
  <2>1. CASE t.pc = "replace"
    BY <1>1, <2>1 DEF RestartFindsStore
  <2>2. CASE t.pc # "replace"
    <3>1. \A n \in Managers : mgr[n].pc = "replace" => mgr'[n].pc = "replace"
      BY <1>1
    <3> QED BY <2>2, <3>1 DEF RestartFindsStore
  <2> QED BY <2>1, <2>2
<1> QED BY <1>1, <1>2, <1>5, <1>6

LEMMA ConfigureInitialStep ==
  ASSUME IInv, NEW m \in Managers, ConfigureInitial(m)
  PROVE  IInv'
<1> USE DEF IInv
<1>1. CASE current # 0
  <2>1. mgr' = [mgr EXCEPT ![m] = Idle]
    BY <1>1 DEF ConfigureInitial
  <2>2. Idle.pc = "idle"
    BY DEF Idle
  <2> QED BY <2>1, <2>2, IdleType, PlaceStep DEF ConfigureInitial, LockedPCs, TypeOK
<1>2. CASE current = 0
  <2> DEFINE t == [mgr[m] EXCEPT !.pc = "save"]
  <2>1. mgr' = [mgr EXCEPT ![m] = t]
    BY <1>2 DEF ConfigureInitial
  <2>2. t \in Manager /\ t.pc = "save" /\ t.op = mgr[m].op /\ t.obj = mgr[m].obj
    BY ManagerFields DEF PCs
  <2>3. /\ mgr[m].pc = "initial" /\ mgr[m].op = "initial" /\ ~Locked
        /\ UNCHANGED <<disk, objs, current, config, held, crashes, latest, excused>>
    BY DEF ConfigureInitial, Candidates
  <2> HIDE DEF t
  <2> QED BY <1>2, <2>1, <2>2, <2>3, PlaceStep DEF LockedPCs, TypeOK
<1> QED BY <1>1, <1>2

LEMMA SwitchStoreStep ==
  ASSUME IInv, NEW m \in Managers, SwitchStore(m)
  PROVE  IInv'
<1> USE DEF IInv
<1> DEFINE t == [mgr[m] EXCEPT !.pc = "export", !.todo = Carried, !.had = DataOf(mgr[m].obj)]
<1>1. /\ mgr[m].pc = "lock" /\ mgr[m].op = "switch" /\ mgr[m].obj \in 1..Len(objs) /\ ~Locked
      /\ UNCHANGED <<disk, objs, current, config, held, crashes, latest, excused>>
  BY DEF SwitchStore, Candidates
<1>2. mgr' = [mgr EXCEPT ![m] = t]
  BY DEF SwitchStore, TypeOK
<1>3. t \in Manager /\ t.pc = "export" /\ t.op = mgr[m].op /\ t.obj = mgr[m].obj
  <2>1. DataOf(mgr[m].obj) \in Data
    BY <1>1, DataOfType
  <2> QED BY <2>1, ManagerFields DEF Manager, PCs
<1> HIDE DEF t
<1> QED BY <1>1, <1>2, <1>3, PlaceStep DEF LockedPCs, TypeOK

LEMMA ExportSnapshotStep ==
  ASSUME IInv, NEW m \in Managers, ExportSnapshot(m)
  PROVE  IInv'
<1> USE DEF IInv
<1>1. /\ mgr[m].pc = "export" /\ mgr[m].op = "switch" /\ current \in 1..Len(objs)
      /\ UNCHANGED <<disk, objs, current, config, held, crashes, latest, excused>>
  BY DEF ExportSnapshot, Candidates, TypeOK
<1>2. CASE mgr[m].todo = {}
  <2> DEFINE t == [mgr[m] EXCEPT !.pc = "import", !.todo = Carried]
  <2>1. mgr' = [mgr EXCEPT ![m] = t]
    BY <1>2 DEF ExportSnapshot, TypeOK
  <2>2. t \in Manager /\ t.pc = "import" /\ t.op = mgr[m].op /\ t.obj = mgr[m].obj
    BY ManagerFields DEF Manager, PCs
  <2> HIDE DEF t
  <2> QED BY <1>1, <2>1, <2>2, PlaceStep DEF LockedPCs, TypeOK
<1>3. CASE mgr[m].todo # {}
  <2> DEFINE k == First(ExportOrder, mgr[m].todo)
             v == DataOf(current)[k]
             t == [mgr[m] EXCEPT !.snap = [mgr[m].snap EXCEPT ![k] = v], !.todo = mgr[m].todo \ {k}]
  <2>1. mgr' = [mgr EXCEPT ![m] = t]
    BY <1>3 DEF ExportSnapshot, TypeOK, Manager
  <2>2. mgr[m].snap \in Data /\ mgr[m].todo \in SUBSET Carried
    BY ManagerFields DEF Manager
  <2>3. DataOf(current) \in Data
    BY <1>1, DataOfType
  <2>4. [mgr[m].snap EXCEPT ![k] = v] \in Data
    <3> HIDE DEF k
    <3>1. k \in Kinds => v \in Version
      BY <2>3 DEF Data
    <3> HIDE DEF v
    <3> QED BY <2>2, <3>1 DEF Data
  <2> HIDE DEF k, v
  <2>5. t \in Manager /\ t.pc = "export" /\ t.op = mgr[m].op /\ t.obj = mgr[m].obj
    BY <1>1, <2>2, <2>4, ManagerFields DEF Manager
  <2> HIDE DEF t
  <2> QED BY <1>1, <2>1, <2>5, PlaceStep DEF LockedPCs, TypeOK
<1> QED BY <1>2, <1>3

LEMMA ImportSnapshotStep ==
  ASSUME IInv, NEW m \in Managers, ImportSnapshot(m)
  PROVE  IInv'
<1> USE DEF IInv
<1>1. /\ mgr[m].pc = "import" /\ mgr[m].op = "switch" /\ mgr[m].obj \in 1..Len(objs)
      /\ UNCHANGED <<current, config, held, crashes, latest>>
  BY DEF ImportSnapshot, Candidates
<1>2. CASE mgr[m].todo = {}
  <2> DEFINE t == [mgr[m] EXCEPT !.pc = "save"]
  <2>1. mgr' = [mgr EXCEPT ![m] = t] /\ UNCHANGED <<disk, objs, excused>>
    BY <1>2 DEF ImportSnapshot
  <2>2. t \in Manager /\ t.pc = "save" /\ t.op = mgr[m].op /\ t.obj = mgr[m].obj
    BY ManagerFields DEF PCs
  <2> HIDE DEF t
  <2> QED BY <1>1, <2>1, <2>2, PlaceStep DEF LockedPCs, TypeOK
<1>3. CASE mgr[m].todo # {}
  <2> DEFINE k   == First(ImportOrder, mgr[m].todo)
             old == DataOf(mgr[m].obj)[k]
             new == mgr[m].snap[k]
             t   == [mgr[m] EXCEPT !.todo = mgr[m].todo \ {k}]
  <2>1. /\ Written(mgr[m].obj, k, Imported(k, old, new))
        /\ excused' = IF Twins(mgr[m].obj) THEN Kinds ELSE excused
        /\ mgr' = [mgr EXCEPT ![m] = t]
    BY <1>3 DEF ImportSnapshot
  <2>2. mgr[m].snap \in Data /\ mgr[m].todo \in SUBSET Carried
    BY ManagerFields DEF Manager
  <2>3. k \in Carried /\ k \in Kinds
    BY <1>3, <2>2, FirstIsTodo DEF Carried
  <2>4. DataOf(mgr[m].obj) \in Data
    BY <1>1, DataOfType
  <2>5. old \in Version /\ new \in Version
    BY <2>2, <2>3, <2>4 DEF Data
  <2>6. Imported(k, old, new) \in Version
    BY <2>3, <2>5, ImportedType
  <2>7. /\ disk' \in [Locations -> Data]
        /\ objs' \in Seq(Object) /\ Len(objs') = Len(objs)
        /\ \A p \in 1..Len(objs) : objs'[p].loc = objs[p].loc
    BY <1>1, <2>1, <2>3, <2>6, WrittenType
  <2> HIDE DEF k, old, new
  <2>8. t \in Manager /\ t.pc = "import" /\ t.op = "switch" /\ t.obj = mgr[m].obj
    BY <1>1, <2>2, ManagerFields DEF Manager
  <2> HIDE DEF t
  <2>9. /\ mgr' \in [Managers -> Manager]
        /\ mgr'[m] = t
        /\ \A n \in Managers : n # m => mgr'[n] = mgr[n]
        /\ OneLocker'
    BY <1>1, <2>1, <2>8, OneChanges DEF LockedPCs
  <2>10. TypeOK'
    <3>1. excused' \subseteq Kinds
      BY <2>1 DEF TypeOK
    <3> QED BY <1>1, <2>7, <2>9, <3>1 DEF TypeOK
  <2>11. Candidates'
    BY <1>1, <2>7, <2>8, <2>9 DEF Candidates
  <2>12. RestartFindsStore'
    <3>1. \A n \in Managers : mgr[n].pc = "replace" => mgr'[n].pc = "replace"
      BY <1>1, <2>9
    <3> QED BY <1>1, <2>7, <3>1 DEF RestartFindsStore, TypeOK
  <2> QED BY <2>9, <2>10, <2>11, <2>12
<1> QED BY <1>2, <1>3

LEMMA SaveConfigStep ==
  ASSUME IInv, NEW m \in Managers, SaveConfig(m)
  PROVE  IInv'
<1> USE DEF IInv
<1> DEFINE t == [mgr[m] EXCEPT !.pc = "replace"]
<1>1. /\ mgr[m].pc = "save" /\ mgr[m].obj \in 1..Len(objs) /\ mgr[m].op \in {"initial", "switch"}
      /\ mgr' = [mgr EXCEPT ![m] = t] /\ config' = objs[mgr[m].obj].loc
      /\ UNCHANGED <<disk, objs, current, held, crashes, latest, excused>>
  BY DEF SaveConfig, Candidates
<1>2. t \in Manager /\ t.pc = "replace" /\ t.op = mgr[m].op /\ t.obj = mgr[m].obj
  BY ManagerFields DEF PCs
<1>3. config' \in Locations
  BY <1>1, DataOfType DEF Object
<1> HIDE DEF t
<1> QED BY <1>1, <1>2, <1>3, PlaceStep DEF LockedPCs

LEMMA FailsStep ==
  ASSUME IInv, NEW m \in Managers, Fails(m)
  PROVE  IInv'
<1>1. Idle.pc = "idle"
  BY DEF Idle
<1> QED BY <1>1, IdleType, PlaceStep DEF IInv, Fails, LockedPCs, TypeOK

(* The store put in place is the one that the config file names by now,    *)
(* and no other manager counts on there being none.                        *)
LEMMA ReplaceStep ==
  ASSUME IInv, NEW m \in Managers, Replace(m)
  PROVE  IInv'
<1> USE DEF IInv
<1>1. /\ mgr[m].pc = "replace" /\ mgr' = [mgr EXCEPT ![m] = Idle]
      /\ current' = mgr[m].obj /\ mgr[m].obj \in 1..Len(objs)
      /\ config = objs[mgr[m].obj].loc
      /\ UNCHANGED <<disk, objs, config, held, crashes, latest>>
  BY DEF Replace, Candidates
<1>2. Idle.pc = "idle"
  BY DEF Idle
<1>3. /\ mgr' \in [Managers -> Manager]
      /\ mgr'[m] = Idle
      /\ \A n \in Managers : n # m => mgr'[n] = mgr[n]
      /\ OneLocker'
  BY <1>1, <1>2, IdleType, OneChanges DEF LockedPCs
<1>4. TypeOK'
  <2>1. NotCarried(m) \subseteq Kinds
    BY DEF NotCarried
  <2>2. excused' \subseteq Kinds
    BY <2>1 DEF Replace, TypeOK
  <2> QED BY <1>1, <1>3, <2>2 DEF TypeOK
<1>5. \A n \in Managers : n # m => mgr[n].pc \notin LockedPCs
  BY <1>1 DEF OneLocker, LockedPCs
<1>6. Candidates'
  BY <1>1, <1>2, <1>3, <1>5 DEF Candidates, LockedPCs
<1>7. RestartFindsStore'
  BY <1>1 DEF RestartFindsStore
<1> QED BY <1>3, <1>4, <1>6, <1>7

(* A start opens what the config file names. *)
LEMMA StartStep ==
  ASSUME IInv, openStoreManager
  PROVE  IInv'
<1> USE DEF IInv
<1>1. mgr' = [m \in Managers |-> Idle] /\ Idle.pc = "idle"
  BY DEF openStoreManager, Idle
<1>2. /\ objs' \in Seq(Object) /\ Len(objs') <= MaxOpens /\ current' \in 0..Len(objs')
      /\ current' # 0 => config' = objs'[current'].loc
  <2>1. CASE config = Nowhere
    BY <2>1, StoreLifecycleAssumption DEF openStoreManager
  <2>2. CASE config # Nowhere
    <3> DEFINE o == [loc |-> config, mem |-> disk[config]]
    <3>1. o \in Object /\ o.loc = config
      BY <2>2 DEF TypeOK, Object
    <3>2. objs' = <<o>> /\ current' = 1 /\ config' = config
      BY <2>2 DEF openStoreManager
    <3> HIDE DEF o
    <3>3. objs' \in Seq(Object) /\ Len(objs') = 1 /\ objs'[1] = o
      BY <3>1, <3>2
    <3> QED BY <3>1, <3>2, <3>3, StoreLifecycleAssumption
  <2> QED BY <2>1, <2>2
<1>3. TypeOK'
  <2>1. \A m \in Managers : NotCarried(m) \subseteq Kinds
    BY DEF NotCarried
  <2>2. excused' \subseteq Kinds
    BY <2>1 DEF openStoreManager, TypeOK
  <2>3. held' \in [Requests -> 0..Len(objs')]
    BY <1>2 DEF openStoreManager
  <2>4. crashes' \in 0..MaxCrashes
    BY StoreLifecycleAssumption DEF openStoreManager, TypeOK
  <2>5. mgr' \in [Managers -> Manager]
    BY <1>1, IdleType
  <2> QED BY <1>2, <2>2, <2>3, <2>4, <2>5 DEF openStoreManager, TypeOK
<1>4. OneLocker' /\ Candidates'
  BY <1>1 DEF OneLocker, Candidates, LockedPCs
<1>5. RestartFindsStore'
  BY <1>2 DEF RestartFindsStore
<1> QED BY <1>3, <1>4, <1>5

-----------------------------------------------------------------------------
LEMMA NextInv == IInv /\ [Next]_vars => IInv'
<1> SUFFICES ASSUME IInv, [Next]_vars PROVE IInv'
  OBVIOUS
<1>1. ASSUME NEW r \in Requests, dataStore(r) \/ Leave(r) \/ \E k \in Kinds : Write(r, k)
      PROVE  IInv'
  BY <1>1, RequestStep
<1>2. ASSUME NEW m \in Managers, \E l \in Locations : OpenInitial(m, l) \/ OpenCandidate(m, l)
      PROVE  IInv'
  BY <1>2, OpenStep
<1>3. ASSUME NEW m \in Managers,
             \/ ConfigureInitial(m) \/ SwitchStore(m) \/ ExportSnapshot(m) \/ ImportSnapshot(m)
             \/ SaveConfig(m) \/ Replace(m) \/ Fails(m)
      PROVE  IInv'
  BY <1>3, ConfigureInitialStep, SwitchStoreStep, ExportSnapshotStep, ImportSnapshotStep,
     SaveConfigStep, ReplaceStep, FailsStep
<1>4. CASE openStoreManager
  BY <1>4, StartStep
<1>5. CASE UNCHANGED vars
  BY <1>5 DEF vars, IInv, TypeOK, OneLocker, Candidates, RestartFindsStore
<1> QED BY <1>1, <1>2, <1>3, <1>4, <1>5 DEF Next

LEMMA Inductive == Spec => []IInv
BY InitInv, NextInv, PTL DEF Spec

(* The state is typed: what is held, configured and in use are objects     *)
(* that this process has opened. *)
THEOREM TypeCorrect == Spec => []TypeOK
<1>1. IInv => TypeOK
  BY DEF IInv
<1> QED BY <1>1, Inductive, PTL

(* The server runs on the store of its config file, except in the middle   *)
(* of a replacement. *)
THEOREM RestartCorrect == Spec => []RestartFindsStore
<1>1. IInv => RestartFindsStore
  BY DEF IInv
<1> QED BY <1>1, Inductive, PTL

(* Of two first configurations at a time the second changes nothing. *)
THEOREM OneInitialCorrect == Spec => OneInitial
<1> DEFINE Switched ==
      current # 0 /\ current' # current /\ crashes' = crashes =>
        \E m \in Managers : mgr[m].op = "switch" /\ mgr[m].pc = "replace" /\ mgr'[m].pc = "idle"
<1>1. ASSUME IInv, [Next]_vars PROVE [Switched]_vars
  <2> SUFFICES ASSUME current # 0, current' # current, crashes' = crashes
               PROVE  \E m \in Managers :
                        mgr[m].op = "switch" /\ mgr[m].pc = "replace" /\ mgr'[m].pc = "idle"
    OBVIOUS
  <2>1. ~openStoreManager
    BY <1>1, StoreLifecycleAssumption DEF openStoreManager, IInv, TypeOK
  <2>2. \E m \in Managers : Replace(m)
    BY <1>1, <2>1
       DEF Next, vars, dataStore, Leave, Write, OpenInitial, OpenCandidate, ConfigureInitial,
           SwitchStore, ExportSnapshot, ImportSnapshot, SaveConfig, Fails
  <2>3. PICK m \in Managers : Replace(m)
    BY <2>2
  <2>4. mgr[m].pc = "replace" /\ mgr[m].op = "switch"
    BY <1>1, <2>3 DEF Replace, IInv, Candidates
  <2>5. mgr'[m].pc = "idle"
    BY <1>1, <2>3 DEF Replace, IInv, TypeOK, Idle
  <2> QED BY <2>4, <2>5
<1> QED BY <1>1, Inductive, PTL DEF Spec, OneInitial

-----------------------------------------------------------------------------
(* Nothing is lost but for the causes named.                               *)

(* Object o has the last version of k, and so has its file.                *)
HasLast(o, k) == DataOf(o)[k] = latest[k] /\ disk[objs[o].loc][k] = latest[k]

(* What was never written is nowhere. *)
ZeroData ==
  \A k \in Kinds : latest[k] = 0 =>
    /\ \A l \in Locations : disk[l][k] = 0
    /\ \A o \in 1..Len(objs) : objs[o].mem[k] = 0
    /\ \A m \in Managers : mgr[m].snap[k] = 0

NoneWithout == current = 0 => latest = NoData /\ \A r \in Requests : held[r] = 0

CurrentHas == current # 0 => \A k \in Kinds \ excused : HasLast(current, k)

(* What the candidate had nothing of and keeps, if there is any, comes to  *)
(* it.                                                                     *)
Arrives(t, k) == t.had[k] = 0 /\ (Keeps(t.obj, k) \/ t.snap[k] = 0)

(* What a switch with the locals t has exported so far, and what has come  *)
(* to its candidate.                                                       *)
Carries(t) ==
  \A k \in Carried \ excused :
    /\ t.pc = "export" =>
         (k \notin t.todo => t.snap[k] = latest[k]) /\ DataOf(t.obj)[k] = t.had[k]
    /\ t.pc = "import" =>
         /\ t.snap[k] = latest[k]
         /\ k \in t.todo => DataOf(t.obj)[k] = t.had[k]
         /\ k \notin t.todo /\ Arrives(t, k) => HasLast(t.obj, k)
    /\ t.pc \in {"save", "replace"} /\ t.op = "switch" => (Arrives(t, k) => HasLast(t.obj, k))

Safe == ZeroData /\ NoneWithout /\ CurrentHas /\ \A m \in Managers : Carries(mgr[m])

(* What object o writes as k is there; the rest stays, and what an object  *)
(* without a twin has is then in its file. *)
LEMMA PutFacts ==
  ASSUME TypeOK, NEW o \in 1..Len(objs), NEW k \in Kinds, NEW v \in Version, Put(o, k, v)
  PROVE  /\ DataOf(o)'[k] = v /\ disk'[objs[o].loc][k] = v
         /\ \A p \in 1..Len(objs) : objs'[p].loc = objs[p].loc
         /\ \A p \in 1..Len(objs), j \in Kinds \ {k} :
              DataOf(p)'[j] = DataOf(p)[j] /\ objs'[p].mem[j] = objs[p].mem[j]
         /\ \A p \in 1..Len(objs) : objs[p].loc # objs[o].loc =>
              DataOf(p)' = DataOf(p) /\ disk'[objs[p].loc] = disk[objs[p].loc]
         /\ \A p \in 1..Len(objs) : objs[p].loc = objs[o].loc /\ ~Twins(o) =>
              DataOf(p) = DataOf(o) /\ DataOf(p)'[k] = v
         /\ \A p \in 1..Len(objs), j \in Kinds \ {k} :
              ~Twins(o) /\ DataOf(p)[j] = disk[objs[p].loc][j] =>
                disk'[objs[p].loc][j] = disk[objs[p].loc][j]
         /\ \A j \in Kinds : (\A l \in Locations : disk[l][j] = 0) /\ objs[o].mem[j] = 0 /\ (j = k => v = 0)
              => /\ \A l \in Locations : disk'[l][j] = 0
                 /\ objs'[o].mem[j] = 0
         /\ \A p \in 1..Len(objs) \ {o} : objs'[p] = objs[p]
<1>1. /\ objs \in Seq(Object) /\ objs[o] \in Object /\ objs[o].loc \in Locations /\ objs[o].mem \in Data
      /\ \A p \in 1..Len(objs) : objs[p].loc \in Locations /\ objs[p].mem \in Data
      /\ \A l \in Locations : disk[l] \in Data
      /\ DOMAIN objs = 1..Len(objs)
  <2>1. /\ objs \in Seq(Object) /\ DOMAIN objs = 1..Len(objs)
        /\ \A l \in Locations : disk[l] \in Data
    BY DEF TypeOK
  <2>2. \A p \in 1..Len(objs) : objs[p] \in Object
    BY <2>1
  <2> QED BY <2>1, <2>2 DEF Object
<1>2. PICK loc : loc = objs[o].loc
  OBVIOUS
<1>3. CASE IsFile(o)
  <2>1. PICK mem : mem = [objs[o].mem EXCEPT ![k] = v]
    OBVIOUS
  <2>2. mem[k] = v /\ \A j \in Kinds \ {k} : mem[j] = objs[o].mem[j]
    BY <1>1, <2>1 DEF Data
  <2>3. PICK next : next = [objs[o] EXCEPT !.mem = mem]
    OBVIOUS
  <2>4. next.loc = loc /\ next.mem = mem
    BY <1>1, <1>2, <2>3 DEF Object
  <2>5. objs' = [objs EXCEPT ![o] = next] /\ disk' = [disk EXCEPT ![loc] = mem]
    BY <1>1, <1>2, <1>3, <2>1, <2>3 DEF Put, Object
  <2>6. /\ objs'[o] = next /\ \A p \in 1..Len(objs) \ {o} : objs'[p] = objs[p]
        /\ disk'[loc] = mem /\ \A l \in Locations \ {loc} : disk'[l] = disk[l]
    BY <1>1, <1>2, <2>5 DEF TypeOK
  <2>7. \A p \in 1..Len(objs) : objs'[p].loc = objs[p].loc
    BY <1>2, <2>4, <2>6
  <2>8. loc \in Files /\ DataOf(o)' = mem /\ DataOf(o) = objs[o].mem
    BY <1>2, <1>3, <2>4, <2>6 DEF DataOf, IsFile
  <2>9. \A p \in 1..Len(objs) \ {o} : objs[p].loc # loc => DataOf(p)' = DataOf(p)
    BY <1>1, <2>6 DEF DataOf, IsFile
  <2>10. \A p \in 1..Len(objs) \ {o} : objs[p].loc = loc => DataOf(p)' = DataOf(p) /\ Twins(o)
    BY <1>1, <1>2, <2>6, <2>8 DEF DataOf, IsFile, Twins
  <2>11. \A j \in Kinds \ {k} : DataOf(o)[j] = disk[loc][j] => disk'[loc][j] = disk[loc][j]
    BY <2>2, <2>6, <2>8
  <2> QED BY <1>1, <1>2, <2>2, <2>4, <2>6, <2>7, <2>8, <2>9, <2>10, <2>11
<1>4. CASE ~IsFile(o)
  <2>1. PICK new : new = [disk[loc] EXCEPT ![k] = v]
    OBVIOUS
  <2>2. new[k] = v /\ \A j \in Kinds \ {k} : new[j] = disk[loc][j]
    BY <1>1, <1>2, <2>1 DEF Data
  <2>3. objs' = objs /\ disk' = [disk EXCEPT ![loc] = new]
    BY <1>1, <1>2, <1>4, <2>1 DEF Put, TypeOK
  <2>4. disk'[loc] = new /\ \A l \in Locations \ {loc} : disk'[l] = disk[l]
    BY <1>1, <1>2, <2>3 DEF TypeOK
  <2>5. loc \notin Files /\ DataOf(o)' = new /\ DataOf(o) = disk[loc]
    BY <1>2, <1>4, <2>3, <2>4 DEF DataOf, IsFile
  <2>6. \A p \in 1..Len(objs) : objs[p].loc # loc => DataOf(p)' = DataOf(p)
    BY <1>1, <2>3, <2>4 DEF DataOf, IsFile
  <2>7. \A p \in 1..Len(objs) : objs[p].loc = loc => DataOf(p)' = new /\ DataOf(p) = disk[loc]
    BY <2>3, <2>4, <2>5 DEF DataOf, IsFile
  <2>8. \A j \in Kinds : (\A l \in Locations : disk[l][j] = 0) /\ (j = k => v = 0)
          => \A l \in Locations : disk'[l][j] = 0
    BY <1>1, <1>2, <2>2, <2>4
  <2> QED BY <1>1, <1>2, <2>2, <2>3, <2>4, <2>5, <2>6, <2>7, <2>8
<1> QED BY <1>3, <1>4

(* The stores are as they were: only what the manager counts on matters.   *)
LEMMA StoresStay ==
  ASSUME IInv, Safe, NEW m \in Managers, NEW t, mgr' = [mgr EXCEPT ![m] = t],
         UNCHANGED <<disk, objs, current, held, latest, excused>>,
         \A k \in Kinds : latest[k] = 0 => t.snap[k] = 0, Carries(t)
  PROVE  Safe'
<1>1. \A n \in Managers : mgr'[n] = IF n = m THEN t ELSE mgr[n]
  BY DEF IInv, TypeOK
<1>2. ASSUME NEW n \in Managers PROVE Carries(mgr[n])'
  <2>1. PICK u : u = IF n = m THEN t ELSE mgr[n]
    OBVIOUS
  <2>2. Carries(u) /\ mgr'[n] = u
    BY <1>1, <2>1 DEF Safe
  <2>3. Carries(u)'
    BY <2>2 DEF Carries, Arrives, Keeps, HasLast, DataOf, IsFile
  <2> QED BY <2>2, <2>3 DEF Carries, Arrives, Keeps, HasLast, DataOf, IsFile
<1>3. ZeroData'
  BY <1>1 DEF Safe, ZeroData
<1>4. NoneWithout' /\ CurrentHas'
  BY DEF Safe, NoneWithout, CurrentHas, HasLast, DataOf, IsFile
<1> QED BY <1>2, <1>3, <1>4 DEF Safe

LEMMA SafeConfigure ==
  ASSUME IInv, Safe, NEW m \in Managers, ConfigureInitial(m) \/ SaveConfig(m) \/ Fails(m)
  PROVE  Safe'
<1>1. mgr[m] \in Manager /\ UNCHANGED <<disk, objs, current, held, latest, excused>>
  BY DEF IInv, TypeOK, ConfigureInitial, SaveConfig, Fails
<1>2. CASE mgr' = [mgr EXCEPT ![m] = Idle]
  <2>1. Idle.pc = "idle" /\ Idle.snap = NoData
    BY DEF Idle
  <2>2. Carries(Idle) /\ \A k \in Kinds : Idle.snap[k] = 0
    BY <2>1 DEF Carries, NoData
  <2> QED BY <1>1, <1>2, <2>2, StoresStay
<1>3. CASE mgr[m].pc = "initial" /\ mgr' = [mgr EXCEPT ![m] = [mgr[m] EXCEPT !.pc = "save"]]
  <2>1. PICK t : t = [mgr[m] EXCEPT !.pc = "save"]
    OBVIOUS
  <2>2. t.pc = "save" /\ t.op = "initial" /\ t.snap = mgr[m].snap
    BY <1>1, <1>3, <2>1 DEF Manager, IInv, Candidates
  <2>3. Carries(t) /\ \A k \in Kinds : latest[k] = 0 => t.snap[k] = 0
    BY <2>2 DEF Carries, Safe, ZeroData
  <2> QED BY <1>1, <1>3, <2>1, <2>3, StoresStay
<1>4. CASE mgr[m].pc = "save" /\ mgr' = [mgr EXCEPT ![m] = [mgr[m] EXCEPT !.pc = "replace"]]
  <2>1. PICK t : t = [mgr[m] EXCEPT !.pc = "replace"]
    OBVIOUS
  <2>2. /\ t.pc = "replace" /\ t.op = mgr[m].op /\ t.snap = mgr[m].snap /\ t.had = mgr[m].had
        /\ t.obj = mgr[m].obj
    BY <1>1, <2>1 DEF Manager
  <2>3. Carries(mgr[m])
    BY DEF Safe
  <2>4. Carries(t)
    BY <1>4, <2>2, <2>3 DEF Carries, Arrives
  <2>5. \A k \in Kinds : latest[k] = 0 => t.snap[k] = 0
    BY <2>2 DEF Safe, ZeroData
  <2> QED BY <1>1, <1>4, <2>1, <2>4, <2>5, StoresStay
<1> QED BY <1>1, <1>2, <1>3, <1>4 DEF ConfigureInitial, SaveConfig, Fails, IInv, TypeOK

LEMMA SafeSwitch ==
  ASSUME IInv, Safe, NEW m \in Managers, SwitchStore(m)
  PROVE  Safe'
<1>1. PICK t : t = [mgr[m] EXCEPT !.pc = "export", !.todo = Carried, !.had = DataOf(mgr[m].obj)]
  OBVIOUS
<1>2. /\ mgr[m] \in Manager /\ mgr' = [mgr EXCEPT ![m] = t]
      /\ UNCHANGED <<disk, objs, current, held, latest, excused>>
  BY <1>1 DEF SwitchStore, IInv, TypeOK
<1>3. /\ t.pc = "export" /\ t.todo = Carried /\ t.had = DataOf(t.obj) /\ t.snap = mgr[m].snap
  BY <1>1, <1>2 DEF Manager
<1>4. Carries(t) /\ \A k \in Kinds : latest[k] = 0 => t.snap[k] = 0
  BY <1>3 DEF Carries, Safe, ZeroData
<1> QED BY <1>2, <1>4, StoresStay

(* The store that is exported has the last version of what is not excused. *)
LEMMA SafeExport ==
  ASSUME IInv, Safe, NEW m \in Managers, ExportSnapshot(m)
  PROVE  Safe'
<1>1. /\ mgr[m] \in Manager /\ mgr[m].pc = "export" /\ current # 0
      /\ current \in 1..Len(objs) /\ Carries(mgr[m])
      /\ UNCHANGED <<disk, objs, current, held, latest, excused>>
  BY DEF ExportSnapshot, IInv, TypeOK, Candidates, Safe
<1>2. CASE mgr[m].todo = {}
  <2>1. PICK t : t = [mgr[m] EXCEPT !.pc = "import", !.todo = Carried]
    OBVIOUS
  <2>2. mgr' = [mgr EXCEPT ![m] = t]
    BY <1>2, <2>1 DEF ExportSnapshot, IInv, TypeOK
  <2>3. /\ t.pc = "import" /\ t.todo = Carried /\ t.had = mgr[m].had /\ t.snap = mgr[m].snap
        /\ t.obj = mgr[m].obj
    BY <1>1, <2>1 DEF Manager
  <2>4. Carries(t)
    BY <1>1, <1>2, <2>3 DEF Carries, Arrives
  <2>5. \A k \in Kinds : latest[k] = 0 => t.snap[k] = 0
    BY <2>3 DEF Safe, ZeroData
  <2> QED BY <1>1, <2>2, <2>4, <2>5, StoresStay
<1>3. CASE mgr[m].todo # {}
  <2>1. PICK k, v : k = First(ExportOrder, mgr[m].todo) /\ v = DataOf(current)[k]
    OBVIOUS
  <2>2. PICK t : t = [mgr[m] EXCEPT !.snap = [mgr[m].snap EXCEPT ![k] = v],
                                    !.todo = mgr[m].todo \ {k}]
    OBVIOUS
  <2>3. mgr' = [mgr EXCEPT ![m] = t]
    BY <1>1, <1>3, <2>1, <2>2 DEF ExportSnapshot, IInv, TypeOK, Manager
  <2>4. k \in Carried /\ k \in Kinds
    <3>1. mgr[m].todo \in SUBSET Carried
      BY <1>1 DEF Manager
    <3> QED BY <1>3, <2>1, <3>1, FirstIsTodo DEF Carried
  <2>5. /\ t.pc = "export" /\ t.todo = mgr[m].todo \ {k} /\ t.had = mgr[m].had
        /\ t.obj = mgr[m].obj /\ t.snap[k] = v
        /\ \A j \in Kinds \ {k} : t.snap[j] = mgr[m].snap[j]
    BY <1>1, <2>2, <2>4 DEF Manager, Data
  <2>6. k \notin excused => v = latest[k]
    BY <1>1, <2>1, <2>4 DEF Safe, CurrentHas, HasLast
  <2>7. Carries(t)
    <3>1. \A j \in Carried \ excused : j \notin t.todo => t.snap[j] = latest[j]
      BY <1>1, <2>4, <2>5, <2>6 DEF Carries, Carried
    <3> QED BY <1>1, <2>5, <3>1 DEF Carries
  <2>8. latest[k] = 0 => v = 0
    BY <1>1, <2>1, <2>4, DataOfType DEF Safe, ZeroData, DataOf, IInv, Object
  <2>9. \A j \in Kinds : latest[j] = 0 => t.snap[j] = 0
    BY <2>5, <2>8 DEF Safe, ZeroData
  <2> QED BY <1>1, <2>3, <2>7, <2>9, StoresStay
<1> QED BY <1>2, <1>3

(* What has the last version keeps it, when a write does not change it, or *)
(* writes the last version. *)
LEMMA HasLastAfter ==
  ASSUME TypeOK, NEW o \in 1..Len(objs), NEW k \in Kinds, NEW v \in Version, Put(o, k, v),
         ~Twins(o), NEW p \in 1..Len(objs), NEW j \in Kinds, HasLast(p, j), latest'[j] = latest[j],
         j = k /\ objs[p].loc = objs[o].loc => v = latest[k]
  PROVE  HasLast(p, j)'
<1>1. objs'[p].loc = objs[p].loc
  BY PutFacts
<1>2. CASE j # k
  <2>1. DataOf(p)'[j] = DataOf(p)[j] /\ disk'[objs[p].loc][j] = disk[objs[p].loc][j]
    BY <1>2, PutFacts DEF HasLast
  <2> QED BY <1>1, <2>1 DEF HasLast
<1>3. CASE j = k /\ objs[p].loc # objs[o].loc
  <2>1. DataOf(p)' = DataOf(p) /\ disk'[objs[p].loc] = disk[objs[p].loc]
    BY <1>3, PutFacts
  <2> QED BY <1>1, <2>1 DEF HasLast
<1>4. CASE j = k /\ objs[p].loc = objs[o].loc
  <2>1. DataOf(p)'[k] = v /\ disk'[objs[p].loc][k] = v
    BY <1>4, PutFacts
  <2> QED BY <1>1, <1>4, <2>1 DEF HasLast
<1> QED BY <1>2, <1>3, <1>4

(* Zero stays zero when what is written of it is zero. *)
LEMMA ZeroAfter ==
  ASSUME TypeOK, ZeroData, NEW o \in 1..Len(objs), NEW k \in Kinds, NEW v \in Version,
         Put(o, k, v), latest[k] = 0 => v = 0 \/ latest'[k] # 0,
         \A j \in Kinds : latest'[j] = 0 => latest[j] = 0,
         \A m \in Managers : mgr'[m].snap = mgr[m].snap
  PROVE  ZeroData'
<1> SUFFICES ASSUME NEW j \in Kinds, latest'[j] = 0
             PROVE  /\ \A l \in Locations : disk'[l][j] = 0
                    /\ \A p \in 1..Len(objs') : objs'[p].mem[j] = 0
                    /\ \A m \in Managers : mgr'[m].snap[j] = 0
  BY DEF ZeroData
<1>1. latest[j] = 0 /\ (j = k => v = 0)
  OBVIOUS
<1>2. /\ \A l \in Locations : disk[l][j] = 0
      /\ \A p \in 1..Len(objs) : objs[p].mem[j] = 0
      /\ \A m \in Managers : mgr[m].snap[j] = 0
  BY <1>1 DEF ZeroData
<1>3. (\A l \in Locations : disk'[l][j] = 0) /\ objs'[o].mem[j] = 0
  BY <1>1, <1>2, PutFacts
<1>4. Len(objs') = Len(objs)
  BY PutType
<1>5. \A p \in 1..Len(objs) \ {o} : objs'[p] = objs[p]
  BY PutFacts
<1> QED BY <1>2, <1>3, <1>4, <1>5

LEMMA ZeroHas ==
  ASSUME TypeOK, ZeroData, NEW o \in 1..Len(objs), NEW k \in Kinds, latest[k] = 0
  PROVE  HasLast(o, k)
BY DataOfType DEF ZeroData, HasLast, DataOf, Object

(* What was not there is imported as it is, and what is the same stays.    *)
LEMMA ImportedValue ==
  ASSUME NEW k \in Carried, NEW old, NEW new
  PROVE  /\ Imported(k, old, new) \in {old, new}
         /\ old = 0 => Imported(k, old, new) = new
BY StoreLifecycleAssumption
   DEF Carried, AllKinds, Unstored, Imported, ImportGroup, ImportUser, ImportProvider,
       ImportSettings, ImportPrompts, ImportUsage

-----------------------------------------------------------------------------
LEMMA SafeImport ==
  ASSUME IInv, Safe, NEW m \in Managers, ImportSnapshot(m)
  PROVE  Safe'
<1>1. /\ mgr[m] \in Manager /\ mgr[m].pc = "import" /\ mgr[m].op = "switch"
      /\ mgr[m].obj \in 1..Len(objs) /\ Carries(mgr[m])
      /\ UNCHANGED <<current, held, latest>>
  BY DEF ImportSnapshot, IInv, TypeOK, Candidates, Safe
<1>2. CASE mgr[m].todo = {}
  <2>1. PICK t : t = [mgr[m] EXCEPT !.pc = "save"]
    OBVIOUS
  <2>2. mgr' = [mgr EXCEPT ![m] = t] /\ UNCHANGED <<disk, objs, excused>>
    BY <1>2, <2>1 DEF ImportSnapshot, IInv, TypeOK
  <2>3. /\ t.pc = "save" /\ t.had = mgr[m].had /\ t.snap = mgr[m].snap /\ t.obj = mgr[m].obj
    BY <1>1, <2>1 DEF Manager
  <2>4. Carries(t)
    BY <1>1, <1>2, <2>3 DEF Carries, Arrives
  <2>5. \A k \in Kinds : latest[k] = 0 => t.snap[k] = 0
    BY <2>3 DEF Safe, ZeroData
  <2> QED BY <1>1, <2>2, <2>4, <2>5, StoresStay
<1>3. CASE mgr[m].todo # {}
  <2>1. PICK k, obj, old, new : /\ k = First(ImportOrder, mgr[m].todo) /\ obj = mgr[m].obj
                                /\ old = DataOf(obj)[k] /\ new = mgr[m].snap[k]
    OBVIOUS
  <2>2. PICK v : v = Stored(obj, k, Imported(k, old, new))
    OBVIOUS
  <2>3. k \in mgr[m].todo /\ k \in Carried /\ k \in Kinds
    <3>1. mgr[m].todo \in SUBSET Carried
      BY <1>1 DEF Manager
    <3> QED BY <1>3, <2>1, <3>1, FirstIsTodo DEF Carried
  <2>4. /\ v \in Version /\ obj \in 1..Len(objs) /\ TypeOK
        /\ v \in {old, new}
        /\ old = 0 /\ (Keeps(obj, k) \/ new = 0) => v = new
    <3>1. old \in Version /\ new \in Version
      BY <1>1, <2>1, <2>3, DataOfType DEF IInv, Data, Manager
    <3>2. PICK i : i = Imported(k, old, new)
      OBVIOUS
    <3>3. i \in Version /\ i \in {old, new} /\ (old = 0 => i = new)
      BY <2>3, <3>1, <3>2, ImportedType, ImportedValue
    <3>4. TypeOK /\ obj \in 1..Len(objs) /\ v = Stored(obj, k, i)
      BY <1>1, <2>1, <2>2, <3>2 DEF IInv
    <3>5. v \in Version /\ v \in {i, old} /\ (Keeps(obj, k) => v = i)
      BY <2>1, <2>3, <3>3, <3>4, StoredValue
    <3> QED BY <3>3, <3>4, <3>5
  <2>5. /\ Put(obj, k, v)
        /\ excused' = IF Twins(obj) THEN Kinds ELSE excused
    BY <1>3, <2>1, <2>2 DEF ImportSnapshot, Written
  <2>6. PICK t : t = [mgr[m] EXCEPT !.todo = mgr[m].todo \ {k}]
    OBVIOUS
  <2>7. mgr' = [mgr EXCEPT ![m] = t]
    BY <1>3, <2>1, <2>6 DEF ImportSnapshot, IInv, TypeOK
  <2>8. /\ t.pc = "import" /\ t.todo = mgr[m].todo \ {k} /\ t.had = mgr[m].had
        /\ t.snap = mgr[m].snap /\ t.obj = obj
    BY <1>1, <2>1, <2>6 DEF Manager
  <2>9. mgr'[m] = t /\ \A n \in Managers : n # m => mgr'[n] = mgr[n]
    BY <2>7 DEF IInv, TypeOK
  <2>10. ZeroData'
    <3>1. latest[k] = 0 => v = 0
      <4>1. latest[k] = 0 => old = 0 /\ new = 0
        BY <2>1, <2>3, <2>4, ZeroHas DEF Safe, ZeroData, HasLast
      <4> QED BY <2>4, <4>1
    <3>2. \A n \in Managers : mgr'[n].snap = mgr[n].snap
      BY <2>8, <2>9
    <3> QED BY <1>1, <2>3, <2>4, <2>5, <3>1, <3>2, ZeroAfter DEF Safe
  <2>11. CASE Twins(obj)
    <3>1. excused' = Kinds
      BY <2>5, <2>11
    <3>2. CurrentHas' /\ \A n \in Managers : Carries(mgr[n])'
      BY <3>1 DEF CurrentHas, Carries, Carried
    <3> QED BY <1>1, <2>10, <3>2 DEF Safe, NoneWithout
  <2>12. CASE ~Twins(obj)
    <3>1. excused' = excused
      BY <2>5, <2>12
    <3>2. k \notin excused => new = latest[k]
      BY <1>1, <2>1, <2>3 DEF Carries
    <3>3. CurrentHas'
      <4> SUFFICES ASSUME current # 0, NEW j \in Kinds \ excused
                   PROVE  HasLast(current, j)'
        BY <1>1, <3>1 DEF CurrentHas
      <4>1. current \in 1..Len(objs) /\ HasLast(current, j)
        BY DEF Safe, CurrentHas, IInv, TypeOK
      <4>2. ASSUME j = k, objs[current].loc = objs[obj].loc PROVE v = latest[k]
        <5>1. DataOf(current) = DataOf(obj)
          BY <2>3, <2>4, <2>5, <2>12, <4>1, <4>2, PutFacts
        <5>2. old = latest[k] /\ new = latest[k]
          BY <2>1, <3>2, <4>1, <4>2, <5>1 DEF HasLast
        <5> QED BY <2>4, <5>2
      <4>3. HasLast(current, j)'
        BY <1>1, <2>3, <2>4, <2>5, <2>12, <4>1, <4>2, HasLastAfter
      <4> QED BY <1>1, <4>3
    <3>4. Carries(t)'
      <4> SUFFICES ASSUME NEW j \in Carried \ excused
                   PROVE  /\ t.snap[j] = latest[j]
                          /\ j \in t.todo => DataOf(obj)'[j] = t.had[j]
                          /\ j \notin t.todo /\ Arrives(t, j) => HasLast(obj, j)'
        <5>1. objs'[obj].loc = objs[obj].loc
          BY <2>3, <2>4, <2>5, PutFacts
        <5>2. \A j \in Carried : Arrives(t, j)' <=> Arrives(t, j)
          BY <2>8, <5>1 DEF Arrives, Keeps, IsFile
        <5> QED BY <1>1, <2>8, <3>1, <5>2 DEF Carries, HasLast, DataOf, IsFile
      <4>1. t.snap[j] = latest[j]
        BY <1>1, <2>8 DEF Carries
      <4>2. ASSUME j \in t.todo PROVE DataOf(obj)'[j] = t.had[j]
        <5>1. j # k /\ DataOf(obj)[j] = t.had[j]
          BY <1>1, <2>1, <2>8, <4>2 DEF Carries
        <5> QED BY <2>3, <2>4, <2>5, <5>1, PutFacts DEF Carried
      <4>3. ASSUME j \notin t.todo, Arrives(t, j), j # k PROVE HasLast(obj, j)'
        <5>1. HasLast(obj, j) /\ j \in Kinds
          BY <1>1, <2>1, <2>8, <4>3 DEF Carries, Arrives, Carried
        <5> QED BY <1>1, <2>3, <2>4, <2>5, <2>12, <4>3, <5>1, HasLastAfter
      <4>4. ASSUME Arrives(t, j), j = k PROVE HasLast(obj, j)'
        <5>1. old = 0 /\ (Keeps(obj, k) \/ new = 0)
          BY <1>1, <2>1, <2>3, <2>8, <4>4 DEF Carries, Arrives
        <5>2. v = latest[k]
          BY <2>4, <3>2, <4>4, <5>1
        <5>3. /\ DataOf(obj)'[k] = v /\ disk'[objs[obj].loc][k] = v
              /\ objs'[obj].loc = objs[obj].loc
          BY <2>3, <2>4, <2>5, PutFacts
        <5> QED BY <1>1, <4>4, <5>2, <5>3 DEF HasLast
      <4> QED BY <4>1, <4>2, <4>3, <4>4
    <3>5. \A n \in Managers : Carries(mgr[n])'
      <4> SUFFICES ASSUME NEW n \in Managers PROVE Carries(mgr[n])'
        OBVIOUS
      <4>1. CASE n = m
        BY <2>9, <3>4, <4>1 DEF Carries, Arrives, Keeps, HasLast, DataOf, IsFile
      <4>2. CASE n # m
        <5>1. mgr'[n].pc \notin LockedPCs
          BY <1>1, <2>9, <4>2 DEF IInv, OneLocker, LockedPCs
        <5> QED BY <5>1 DEF Carries, LockedPCs
      <4> QED BY <4>1, <4>2
    <3> QED BY <1>1, <2>10, <3>3, <3>5 DEF Safe, NoneWithout
  <2> QED BY <2>11, <2>12
<1> QED BY <1>2, <1>3

(* A late write, or one that goes to a store with a twin, is excused; any  *)
(* other goes to the store in use while no switch is under way.            *)
LEMMA SafeWrite ==
  ASSUME IInv, Safe, NEW r \in Requests, NEW k \in Kinds, Write(r, k)
  PROVE  Safe'
<1>1. PICK o, v : o = held[r] /\ v = Stored(o, k, latest'[k])
  OBVIOUS
<1>2. /\ TypeOK /\ o \in 1..Len(objs) /\ v \in Version /\ Put(o, k, v)
      /\ Keeps(o, k) => v = latest'[k]
      /\ latest'[k] # 0
      /\ \A j \in Kinds \ {k} : latest'[j] = latest[j]
      /\ UNCHANGED <<current, mgr>>
  <2>1. /\ TypeOK /\ o \in 1..Len(objs) /\ latest'[k] \in Version /\ latest'[k] # 0
        /\ \A j \in Kinds \ {k} : latest'[j] = latest[j]
        /\ UNCHANGED <<current, mgr>>
    BY <1>1, StoreLifecycleAssumption DEF Write, IInv, TypeOK, Data, Version
  <2>2. Put(o, k, v)
    BY <1>1 DEF Write, Written
  <2> QED BY <1>1, <2>1, <2>2, StoredValue
<1>3. current # 0 /\ current \in 1..Len(objs)
  BY <1>1, <1>2 DEF Safe, NoneWithout, IInv, TypeOK
<1>4. ZeroData'
  BY <1>1, <1>2, ZeroAfter DEF Safe
<1>5. NoneWithout'
  BY <1>2, <1>3 DEF NoneWithout
<1>6. excused' = IF Twins(o) THEN Kinds
                 ELSE IF o # current \/ Locked \/ ~Keeps(o, k) THEN excused \cup {k}
                 ELSE excused \ {k}
  BY <1>1 DEF Write
<1>7. ASSUME ~Twins(o), NEW p \in 1..Len(objs), NEW j \in Kinds \ {k}, HasLast(p, j)
      PROVE  HasLast(p, j)'
  BY <1>2, <1>7, HasLastAfter
<1>8. CASE Twins(o)
  <2>1. excused' = Kinds
    BY <1>6, <1>8
  <2> QED BY <1>4, <1>5, <2>1 DEF Safe, CurrentHas, Carries, Carried
<1>9. CASE ~Twins(o) /\ (o # current \/ Locked \/ ~Keeps(o, k))
  <2>1. excused' = excused \cup {k}
    BY <1>6, <1>9
  <2>2. CurrentHas'
    BY <1>2, <1>3, <1>7, <1>9, <2>1 DEF Safe, CurrentHas, HasLast, DataOf, IsFile
  <2>3. ASSUME NEW n \in Managers PROVE Carries(mgr[n])'
    <3>1. PICK t : t = mgr[n]
      OBVIOUS
    <3>2. mgr'[n] = t /\ Carries(t) /\ (t.pc # "idle" => t.obj \in 1..Len(objs))
      BY <1>2, <3>1 DEF Safe, IInv, Candidates
    <3>3. CASE t.pc \in LockedPCs
      <4>1. t.obj \in 1..Len(objs)
        BY <3>2, <3>3 DEF LockedPCs
      <4>2. \A j \in Kinds \ {k} : DataOf(t.obj)'[j] = DataOf(t.obj)[j] /\ latest'[j] = latest[j]
        BY <1>2, <4>1, PutFacts
      <4>3. \A j \in Kinds \ {k} : HasLast(t.obj, j) => HasLast(t.obj, j)'
        BY <1>7, <1>9, <4>1
      <4>4. \A j \in (Carried \ excused)' : j \in Carried \ excused /\ j \in Kinds \ {k}
        BY <2>1 DEF Carried
      <4>5. objs'[t.obj].loc = objs[t.obj].loc
        BY <1>2, <4>1, PutFacts
      <4>6. \A j \in Kinds : Arrives(t, j)' <=> Arrives(t, j)
        BY <4>5 DEF Arrives, Keeps, IsFile
      <4>7. Carries(t)'
        BY <3>2, <4>2, <4>3, <4>4, <4>6 DEF Carries
      <4> QED BY <3>2, <4>7 DEF Carries, Arrives, Keeps, HasLast, DataOf, IsFile
    <3>4. CASE t.pc \notin LockedPCs
      BY <3>2, <3>4 DEF Carries, LockedPCs
    <3> QED BY <3>3, <3>4
  <2> QED BY <1>4, <1>5, <2>2, <2>3 DEF Safe
<1>10. CASE ~Twins(o) /\ o = current /\ ~Locked /\ Keeps(o, k)
  <2>1. excused' = excused \ {k}
    BY <1>6, <1>10
  <2>2. HasLast(current, k)'
    <3>1. /\ DataOf(o)'[k] = v /\ disk'[objs[o].loc][k] = v /\ objs'[o].loc = objs[o].loc
      BY <1>2, PutFacts
    <3> QED BY <1>1, <1>2, <1>10, <3>1 DEF HasLast, DataOf, IsFile
  <2>3. \A j \in Kinds \ {k} : HasLast(current, j) => HasLast(current, j)'
    BY <1>2, <1>3, <1>7, <1>10 DEF HasLast, DataOf, IsFile
  <2>4. CurrentHas'
    <3>1. PICK c : c = current
      OBVIOUS
    <3>2. \A j \in Kinds \ excused' : HasLast(c, j)'
      BY <1>2, <1>3, <2>1, <2>2, <2>3, <3>1 DEF Safe, CurrentHas, HasLast, DataOf, IsFile
    <3> QED BY <1>2, <3>1, <3>2 DEF CurrentHas, HasLast, DataOf, IsFile
  <2>5. \A n \in Managers : mgr'[n].pc \notin LockedPCs
    BY <1>2, <1>10 DEF Locked, LockedPCs
  <2>6. \A n \in Managers : Carries(mgr[n])'
    BY <2>5 DEF Carries, LockedPCs
  <2> QED BY <1>4, <1>5, <2>4, <2>6 DEF Safe
<1> QED BY <1>8, <1>9, <1>10

(* What a request holds is none of the managers' business.                 *)
LEMMA SafeHold ==
  ASSUME IInv, Safe, NEW r \in Requests, dataStore(r) \/ Leave(r)
  PROVE  Safe'
<1>1. UNCHANGED <<disk, objs, current, mgr, latest, excused>>
  BY DEF dataStore, Leave
<1>2. NoneWithout'
  BY <1>1 DEF dataStore, Leave, Safe, NoneWithout, IInv, TypeOK
<1>3. ZeroData' /\ CurrentHas'
  BY <1>1 DEF Safe, ZeroData, CurrentHas, HasLast, DataOf, IsFile
<1>4. \A n \in Managers : Carries(mgr[n])'
  BY <1>1 DEF Safe, Carries, Arrives, Keeps, HasLast, DataOf, IsFile
<1> QED BY <1>2, <1>3, <1>4 DEF Safe

(* A new object reads what is in its file.                                 *)
LEMMA SafeOpen ==
  ASSUME IInv, Safe, NEW m \in Managers, NEW l \in Locations, OpenInitial(m, l) \/ OpenCandidate(m, l)
  PROVE  Safe'
<1>1. PICK t : mgr' = [mgr EXCEPT ![m] = t] /\ t.pc \in {"initial", "lock"} /\ t.snap = NoData
  <2>1. CASE OpenInitial(m, l)
    <3>1. PICK t : t = [Idle EXCEPT !.op = "initial", !.pc = "initial", !.obj = Len(objs')]
      OBVIOUS
    <3>2. t.pc \in {"initial", "lock"} /\ t.snap = NoData
      BY <3>1 DEF Idle
    <3>3. mgr' = [mgr EXCEPT ![m] = t]
      BY <2>1, <3>1 DEF OpenInitial
    <3> QED BY <3>2, <3>3
  <2>2. CASE OpenCandidate(m, l)
    <3>1. PICK t : t = [Idle EXCEPT !.op = "switch", !.pc = "lock", !.obj = Len(objs')]
      OBVIOUS
    <3>2. t.pc \in {"initial", "lock"} /\ t.snap = NoData
      BY <3>1 DEF Idle
    <3>3. mgr' = [mgr EXCEPT ![m] = t]
      BY <2>2, <3>1 DEF OpenCandidate
    <3> QED BY <3>2, <3>3
  <2> QED BY <2>1, <2>2
<1>2. PICK new : new = [loc |-> l, mem |-> disk[l]]
  OBVIOUS
<1>3. /\ UNCHANGED <<disk, current, held, latest, excused>> /\ objs' = Append(objs, new)
      /\ objs \in Seq(Object) /\ new \in Object /\ new.mem = disk[l]
  BY <1>2 DEF OpenInitial, OpenCandidate, Opens, IInv, TypeOK, Object
<1>4. /\ Len(objs') = Len(objs) + 1 /\ objs'[Len(objs) + 1] = new
      /\ \A p \in 1..Len(objs) : objs'[p] = objs[p]
  BY <1>3
<1>5. mgr'[m] = t /\ \A n \in Managers : n # m => mgr'[n] = mgr[n]
  BY <1>1 DEF IInv, TypeOK
<1>6. \A p \in 1..Len(objs) : DataOf(p)' = DataOf(p) /\ \A k \in Kinds : HasLast(p, k) => HasLast(p, k)'
  BY <1>3, <1>4 DEF DataOf, IsFile, HasLast
<1>7. ZeroData'
  <2> SUFFICES ASSUME NEW k \in Kinds, latest[k] = 0
               PROVE  /\ \A x \in Locations : disk[x][k] = 0
                      /\ \A o \in 1..Len(objs') : objs'[o].mem[k] = 0
                      /\ \A n \in Managers : mgr'[n].snap[k] = 0
    BY <1>3 DEF ZeroData
  <2>1. (\A x \in Locations : disk[x][k] = 0) /\ (\A o \in 1..Len(objs) : objs[o].mem[k] = 0)
        /\ \A n \in Managers : mgr[n].snap[k] = 0
    BY DEF Safe, ZeroData
  <2>2. t.snap[k] = 0 /\ new.mem[k] = 0
    BY <1>1, <1>3, <2>1 DEF NoData
  <2>3. Len(objs) \in Nat
    BY <1>3
  <2> QED BY <1>4, <1>5, <2>1, <2>2, <2>3
<1>8. CurrentHas'
  <2> SUFFICES ASSUME current # 0, NEW k \in Kinds \ excused PROVE HasLast(current, k)'
    BY <1>3 DEF CurrentHas
  <2>1. current \in 1..Len(objs) /\ HasLast(current, k)
    BY DEF Safe, CurrentHas, IInv, TypeOK
  <2>2. PICK c : c = current
    OBVIOUS
  <2>3. HasLast(c, k)'
    BY <1>6, <2>1, <2>2
  <2> QED BY <1>3, <2>2, <2>3 DEF HasLast, DataOf, IsFile
<1>9. ASSUME NEW n \in Managers PROVE Carries(mgr[n])'
  <2>1. CASE n = m
    BY <1>1, <1>5, <2>1 DEF Carries
  <2>2. CASE n # m
    <3>1. PICK u : u = mgr[n]
      OBVIOUS
    <3>2. mgr'[n] = u /\ Carries(u) /\ (u.pc # "idle" => u.obj \in 1..Len(objs))
      BY <1>5, <2>2, <3>1 DEF Safe, IInv, Candidates
    <3>3. Carries(u)'
      <4>1. CASE u.pc = "idle"
        BY <4>1 DEF Carries
      <4>2. CASE u.pc # "idle"
        <5>1. /\ DataOf(u.obj)' = DataOf(u.obj)
              /\ \A k \in Kinds : HasLast(u.obj, k) => HasLast(u.obj, k)'
          BY <1>6, <3>2, <4>2
        <5>2. objs'[u.obj].loc = objs[u.obj].loc
          BY <1>4, <3>2, <4>2
        <5>3. \A k \in Kinds : Arrives(u, k)' <=> Arrives(u, k)
          BY <5>2 DEF Arrives, Keeps, IsFile
        <5> QED BY <1>3, <3>2, <5>1, <5>3 DEF Carries, Carried
      <4> QED BY <4>1, <4>2
    <3> QED BY <3>2, <3>3 DEF Carries, Arrives, Keeps, HasLast, DataOf, IsFile
  <2> QED BY <2>1, <2>2
<1>10. NoneWithout'
  BY <1>3 DEF Safe, NoneWithout
<1> QED BY <1>7, <1>8, <1>9, <1>10 DEF Safe

(* The candidate has what the switch has carried; what it has not carried  *)
(* is excused, and a first configuration finds nothing written yet.        *)
LEMMA CandidateHas ==
  ASSUME IInv, Safe, NEW m \in Managers, mgr[m].pc = "replace",
         NEW k \in Kinds \ (excused \cup NotCarried(m))
  PROVE  HasLast(mgr[m].obj, k)
<1>1. mgr[m].obj \in 1..Len(objs) /\ Carries(mgr[m]) /\ TypeOK /\ ZeroData
  BY DEF IInv, Candidates, Safe
<1>2. CASE latest[k] = 0
  BY <1>1, <1>2, ZeroHas
<1>3. CASE latest[k] # 0
  <2>1. current # 0
    BY <1>3 DEF Safe, NoneWithout, NoData
  <2>2. mgr[m].op = "switch"
    BY <2>1 DEF IInv, Candidates
  <2>3. Arrives(mgr[m], k) /\ k # "jobs"
    BY <1>3, <2>2 DEF NotCarried, Arrives
  <2> QED BY <1>1, <2>2, <2>3 DEF Carries, Carried
<1> QED BY <1>2, <1>3

LEMMA SafeReplace ==
  ASSUME IInv, Safe, NEW m \in Managers, Replace(m)
  PROVE  Safe'
<1>1. PICK obj : obj = mgr[m].obj
  OBVIOUS
<1>2. /\ mgr[m].pc = "replace" /\ obj \in 1..Len(objs) /\ current' = obj
      /\ excused' = excused \cup NotCarried(m)
      /\ mgr' = [mgr EXCEPT ![m] = Idle]
      /\ UNCHANGED <<disk, objs, held, latest>>
  BY <1>1 DEF Replace, IInv, Candidates
<1>3. mgr'[m] = Idle /\ \A n \in Managers : n # m => mgr'[n] = mgr[n]
  BY <1>2 DEF IInv, TypeOK
<1>4. CurrentHas'
  <2> SUFFICES ASSUME NEW k \in Kinds, k \notin excused' PROVE HasLast(obj, k)'
    BY <1>2 DEF CurrentHas, HasLast, DataOf, IsFile
  <2>1. HasLast(obj, k)
    BY <1>1, <1>2, CandidateHas
  <2> QED BY <1>2, <2>1 DEF HasLast, DataOf, IsFile
<1>5. ASSUME NEW n \in Managers PROVE Carries(mgr[n])'
  <2>1. mgr'[n].pc \notin LockedPCs
    BY <1>2, <1>3 DEF IInv, OneLocker, LockedPCs, Idle
  <2> QED BY <2>1 DEF Carries, LockedPCs
<1>6. ZeroData'
  <2>1. \A k \in Kinds, n \in Managers : latest[k] = 0 => mgr'[n].snap[k] = 0
    BY <1>3 DEF Safe, ZeroData, Idle, NoData
  <2> QED BY <1>2, <2>1 DEF Safe, ZeroData
<1>7. NoneWithout'
  BY <1>2 DEF NoneWithout
<1> QED BY <1>4, <1>5, <1>6, <1>7 DEF Safe

(* The next start reads the file of the store in use, or of the one that   *)
(* was about to be put in place.                                           *)
LEMMA SafeStart ==
  ASSUME IInv, Safe, openStoreManager
  PROVE  Safe'
<1>1. /\ mgr' = [m \in Managers |-> Idle] /\ held' = [r \in Requests |-> 0]
      /\ UNCHANGED <<disk, config, latest>>
  BY DEF openStoreManager
<1>2. /\ excused \subseteq excused'
      /\ \A m \in Managers : mgr[m].pc = "replace" => NotCarried(m) \subseteq excused'
  BY DEF openStoreManager
<1>3. \A m \in Managers : mgr'[m].pc = "idle" /\ mgr'[m].snap = NoData
  BY <1>1 DEF Idle
<1>4. \A m \in Managers : Carries(mgr[m])'
  BY <1>3 DEF Carries
<1>5. CASE config = Nowhere
  <2>1. objs' = <<>> /\ current' = 0
    BY <1>5 DEF openStoreManager
  <2>2. current = 0
    <3>1. ASSUME NEW m \in Managers, mgr[m].pc = "replace" PROVE FALSE
      <4>1. mgr[m].obj \in 1..Len(objs) /\ config = objs[mgr[m].obj].loc
        BY <3>1 DEF IInv, Candidates
      <4>2. config \in Locations
        BY <4>1, DataOfType DEF IInv, Object
      <4> QED BY <1>5, <4>2, StoreLifecycleAssumption
    <3>2. ASSUME current # 0 PROVE FALSE
      <4>1. current \in 1..Len(objs) /\ config = objs[current].loc
        BY <3>1, <3>2 DEF IInv, TypeOK, RestartFindsStore
      <4>2. config \in Locations
        BY <4>1, DataOfType DEF IInv, Object
      <4> QED BY <1>5, <4>2, StoreLifecycleAssumption
    <3> QED BY <3>2
  <2>3. latest = NoData
    BY <2>2 DEF Safe, NoneWithout
  <2>4. ZeroData'
    BY <1>1, <1>3, <2>1 DEF Safe, ZeroData, NoData
  <2> QED BY <1>1, <1>4, <2>1, <2>3, <2>4 DEF Safe, NoneWithout, CurrentHas
<1>6. CASE config # Nowhere
  <2>1. PICK new : new = [loc |-> config, mem |-> disk[config]]
    OBVIOUS
  <2>2. objs' = <<new>> /\ current' = 1
    BY <1>6, <2>1 DEF openStoreManager
  <2>3. /\ config \in Locations /\ new.loc = config /\ new.mem = disk[config]
        /\ Len(objs') = 1 /\ objs'[1] = new
    BY <1>6, <2>1, <2>2 DEF IInv, TypeOK
  <2>4. ZeroData'
    <3>1. \A k \in Kinds : latest[k] = 0 => new.mem[k] = 0
      BY <2>3 DEF Safe, ZeroData
    <3> QED BY <1>1, <1>3, <2>3, <3>1 DEF Safe, ZeroData, NoData
  <2>5. ASSUME NEW k \in Kinds, k \notin excused' PROVE disk[config][k] = latest[k]
    <3>1. k \notin excused
      BY <1>2, <2>5
    <3>2. CASE \E m \in Managers : mgr[m].pc = "replace"
      <4>1. PICK m \in Managers : mgr[m].pc = "replace"
        BY <3>2
      <4>2. HasLast(mgr[m].obj, k)
        BY <1>2, <2>5, <3>1, <4>1, CandidateHas
      <4>3. config = objs[mgr[m].obj].loc
        BY <4>1 DEF IInv, Candidates
      <4> QED BY <4>2, <4>3 DEF HasLast
    <3>3. CASE (~\E m \in Managers : mgr[m].pc = "replace") /\ current # 0
      BY <3>1, <3>3 DEF IInv, RestartFindsStore, Safe, CurrentHas, HasLast
    <3>4. CASE current = 0
      <4>1. latest[k] = 0
        BY <3>4 DEF Safe, NoneWithout, NoData
      <4> QED BY <2>3, <4>1 DEF Safe, ZeroData
    <3> QED BY <3>2, <3>3, <3>4
  <2>6. CurrentHas'
    <3> SUFFICES ASSUME NEW k \in Kinds, k \notin excused' PROVE HasLast(1, k)'
      BY <2>2 DEF CurrentHas, HasLast, DataOf, IsFile
    <3>1. disk[config][k] = latest[k]
      BY <2>5
    <3> QED BY <1>1, <2>3, <3>1 DEF HasLast, DataOf, IsFile
  <2> QED BY <1>4, <2>2, <2>4, <2>6 DEF Safe, NoneWithout
<1> QED BY <1>5, <1>6

-----------------------------------------------------------------------------
LEMMA SafeInit == Init => Safe
<1> SUFFICES ASSUME Init PROVE Safe
  OBVIOUS
<1>1. /\ latest = NoData /\ current = 0 /\ objs = <<>>
      /\ disk = [l \in Locations |-> NoData] /\ held = [r \in Requests |-> 0]
      /\ \A m \in Managers : mgr[m].pc = "idle" /\ mgr[m].snap = NoData
  BY DEF Init, Idle
<1> QED BY <1>1 DEF Safe, ZeroData, NoneWithout, CurrentHas, Carries, NoData

LEMMA SafeNext == IInv /\ Safe /\ [Next]_vars => Safe'
<1> SUFFICES ASSUME IInv, Safe, [Next]_vars PROVE Safe'
  OBVIOUS
<1>1. ASSUME NEW r \in Requests, dataStore(r) \/ Leave(r)
      PROVE  Safe'
  BY <1>1, SafeHold
<1>2. ASSUME NEW r \in Requests, NEW k \in Kinds, Write(r, k)
      PROVE  Safe'
  BY <1>2, SafeWrite
<1>3. ASSUME NEW m \in Managers, \E l \in Locations : OpenInitial(m, l) \/ OpenCandidate(m, l)
      PROVE  Safe'
  BY <1>3, SafeOpen
<1>4. ASSUME NEW m \in Managers,
             \/ ConfigureInitial(m) \/ SwitchStore(m) \/ ExportSnapshot(m) \/ ImportSnapshot(m)
             \/ SaveConfig(m) \/ Replace(m) \/ Fails(m)
      PROVE  Safe'
  BY <1>4, SafeConfigure, SafeSwitch, SafeExport, SafeImport, SafeReplace
<1>5. CASE openStoreManager
  BY <1>5, SafeStart
<1>6. CASE UNCHANGED vars
  <2>1. UNCHANGED <<disk, objs, current, held, mgr, latest, excused>>
    BY <1>6 DEF vars
  <2>2. ZeroData' /\ NoneWithout' /\ CurrentHas'
    BY <2>1 DEF Safe, ZeroData, NoneWithout, CurrentHas, HasLast, DataOf, IsFile
  <2>3. \A m \in Managers : Carries(mgr[m])'
    BY <2>1 DEF Safe, Carries, Arrives, Keeps, HasLast, DataOf, IsFile
  <2> QED BY <2>2, <2>3 DEF Safe
<1> QED BY <1>1, <1>2, <1>3, <1>4, <1>5, <1>6 DEF Next

(* What was acknowledged is what the server answers from then on, through  *)
(* switches, failed switches, crashes and starts, but for the writes and   *)
(* the kinds that are excused by one of the causes named. *)
THEOREM LossCorrect == Spec => []NothingElseLost
<1>1. Safe => NothingElseLost
  BY DEF Safe, CurrentHas, HasLast, NothingElseLost
<1>2. Spec => []Safe
  BY SafeInit, SafeNext, Inductive, PTL DEF Spec
<1> QED BY <1>1, <1>2, PTL

=============================================================================
