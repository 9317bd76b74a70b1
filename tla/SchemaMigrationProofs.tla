------------------------- MODULE SchemaMigrationProofs -------------------------
(***************************************************************************)
(* SchemaMigration for any openings, users and older databases and any     *)
(* number of failures: the version never claims more than is there, a      *)
(* store that is ready is complete, edits stay, and no start is refused    *)
(* but by a failure.  Of the list of migrations the argument needs: a      *)
(* table is created by one statement, and only that creates its column id  *)
(* (Put); and, for the last claim, what an added column or an index needs  *)
(* has been created by then (AllSupported).                                *)
(***************************************************************************)
EXTENDS SchemaMigration, TLAPS

Statements(v) == sqlMigrations[v].statements

(* Where each table is created. *)
Place == [users |-> <<1, 1>>, sessions |-> <<1, 2>>, prompt_settings |-> <<1, 3>>,
          system_settings |-> <<1, 4>>, user_groups |-> <<1, 5>>, daily_usage |-> <<1, 6>>,
          llm_providers |-> <<3, 1>>, generation_jobs |-> <<4, 1>>, uploads |-> <<6, 2>>]

WellPut(v, i) == LET s == Statements(v)[i] IN
  \/ s.op = "table" /\ Place[s.table] = <<v, i>> /\ "id" \in s.columns
  \/ s.op = "column" /\ "id" \notin s.columns
  \/ s.op = "index"

Size == <<9, 6, 2, 3, 1, 3, 1, 3>>

LEMMA Sizes ==
  /\ LastVersion = 8
  /\ \A v \in 1..LastVersion : Size[v] \in Nat \ {0} /\ DOMAIN Statements(v) = 1..Size[v]
                               /\ Len(Statements(v)) = Size[v]
<1>1. LastVersion = 8
  BY DEF LastVersion, sqlMigrations
<1>2. /\ DOMAIN Statements(1) = 1..9 /\ DOMAIN Statements(2) = 1..6
      /\ DOMAIN Statements(3) = 1..2 /\ DOMAIN Statements(4) = 1..3
      /\ DOMAIN Statements(5) = 1..1 /\ DOMAIN Statements(6) = 1..3
      /\ DOMAIN Statements(7) = 1..1 /\ DOMAIN Statements(8) = 1..3
  BY DEF Statements, sqlMigrations
<1>3. /\ Len(Statements(1)) = 9 /\ Len(Statements(2)) = 6 /\ Len(Statements(3)) = 2
      /\ Len(Statements(4)) = 3 /\ Len(Statements(5)) = 1 /\ Len(Statements(6)) = 3
      /\ Len(Statements(7)) = 1 /\ Len(Statements(8)) = 3
  BY DEF Statements, sqlMigrations
<1>4. \A v \in 1..8 : v = 1 \/ v = 2 \/ v = 3 \/ v = 4 \/ v = 5 \/ v = 6 \/ v = 7 \/ v = 8
  OBVIOUS
<1> QED BY <1>1, <1>2, <1>3, <1>4 DEF Size

LEMMA Put == \A v \in 1..LastVersion : \A i \in 1..Size[v] : WellPut(v, i)
<1>1. /\ WellPut(1, 1) /\ WellPut(1, 2) /\ WellPut(1, 3) /\ WellPut(1, 4) /\ WellPut(1, 5)
      /\ WellPut(1, 6) /\ WellPut(1, 7) /\ WellPut(1, 8) /\ WellPut(1, 9)
  BY DEF Statements, sqlMigrations, WellPut, Place, Table, Index, Column
<1>2. /\ WellPut(2, 1) /\ WellPut(2, 2) /\ WellPut(2, 3) /\ WellPut(2, 4) /\ WellPut(2, 5)
      /\ WellPut(2, 6)
  BY DEF Statements, sqlMigrations, WellPut, Place, Table, Index, Column
<1>3. /\ WellPut(3, 1) /\ WellPut(3, 2) /\ WellPut(4, 1) /\ WellPut(4, 2) /\ WellPut(4, 3)
      /\ WellPut(5, 1)
  BY DEF Statements, sqlMigrations, WellPut, Place, Table, Index, Column
<1>4. /\ WellPut(6, 1) /\ WellPut(6, 2) /\ WellPut(6, 3) /\ WellPut(7, 1)
      /\ WellPut(8, 1) /\ WellPut(8, 2) /\ WellPut(8, 3)
  BY DEF Statements, sqlMigrations, WellPut, Place, Table, Index, Column
<1>5. \A v \in 1..8 : v = 1 \/ v = 2 \/ v = 3 \/ v = 4 \/ v = 5 \/ v = 6 \/ v = 7 \/ v = 8
  OBVIOUS
<1>6. \A i \in 1..9 : i = 1 \/ i = 2 \/ i = 3 \/ i = 4 \/ i = 5 \/ i = 6 \/ i = 7 \/ i = 8 \/ i = 9
  OBVIOUS
<1>7. \A i \in 1..9 : WellPut(1, i)
  BY <1>1, <1>6
<1>8. \A i \in 1..6 : WellPut(2, i)
  BY <1>2
<1>9. /\ \A i \in 1..2 : WellPut(3, i)
      /\ \A i \in 1..3 : WellPut(4, i)
      /\ \A i \in 1..1 : WellPut(5, i)
  BY <1>3
<1>10. /\ \A i \in 1..3 : WellPut(6, i)
       /\ \A i \in 1..1 : WellPut(7, i)
       /\ \A i \in 1..3 : WellPut(8, i)
  BY <1>4
<1>11. /\ Size[1] = 9 /\ Size[2] = 6 /\ Size[3] = 2 /\ Size[4] = 3 /\ Size[5] = 1
       /\ Size[6] = 3 /\ Size[7] = 1 /\ Size[8] = 3
  BY DEF Size
<1> QED BY <1>5, <1>7, <1>8, <1>9, <1>10, <1>11, Sizes

-----------------------------------------------------------------------------
(* What a statement creates.                                               *)

Created(v, i) == Creates(Statements(v)[i])

LEMMA InSchema ==
  ASSUME NEW w \in 0..LastVersion, NEW x
  PROVE  x \in SchemaOf(w) <=> \E v \in 1..w : \E i \in 1..Size[v] : x \in Created(v, i)
<1>1. w \in 0..8 /\ \A v \in 1..w : DOMAIN Statements(v) = 1..Size[v]
  BY Sizes
<1>2. x \in SchemaOf(w) <=>
        \E v \in 1..w : \E i \in DOMAIN Statements(v) : x \in Creates(Statements(v)[i])
  BY DEF SchemaOf, Statements, Range
<1> QED BY <1>1, <1>2 DEF Created

LEMMA InAdded ==
  ASSUME NEW w \in 0..LastVersion, NEW x
  PROVE  x \in AddedAfter(w) <=>
           \E v \in (w + 1)..LastVersion : \E i \in 1..Size[v] :
             Statements(v)[i].op = "column" /\ x \in Created(v, i)
<1>1. w \in 0..8 /\ \A v \in (w + 1)..LastVersion : DOMAIN Statements(v) = 1..Size[v]
  BY Sizes
<1>2. x \in AddedAfter(w) <=>
        \E v \in w + 1..LastVersion : \E i \in DOMAIN Statements(v) :
          Statements(v)[i].op = "column" /\ x \in Creates(Statements(v)[i])
  BY DEF AddedAfter, Statements, Range
<1> QED BY <1>1, <1>2 DEF Created

(* Only the statement that creates a table creates its column id. *)
LEMMA CreatesTable ==
  ASSUME NEW v \in 1..LastVersion, NEW i \in 1..Size[v], NEW table, <<table, "id">> \in Created(v, i)
  PROVE  /\ Statements(v)[i].op = "table" /\ Statements(v)[i].table = table
         /\ Place[table] = <<v, i>>
<1>1. WellPut(v, i)
  BY Put
<1>2. Statements(v)[i].op # "index"
  BY DEF Created, Creates
<1>3. table = Statements(v)[i].table /\ "id" \in Statements(v)[i].columns
  BY <1>2 DEF Created, Creates
<1> QED BY <1>1, <1>2, <1>3 DEF WellPut

LEMMA TablePlace ==
  ASSUME NEW v \in 1..LastVersion, NEW i \in 1..Size[v], Statements(v)[i].op = "table"
  PROVE  Place[Statements(v)[i].table] = <<v, i>> /\ <<Statements(v)[i].table, "id">> \in Created(v, i)
<1>1. WellPut(v, i)
  BY Put
<1> QED BY <1>1 DEF WellPut, Created, Creates

(* A step keeps the promise when each of its statements has its effect. *)
LEMMA PromisedStep ==
  ASSUME NEW v \in 0..LastVersion, v < LastVersion, Promised(v) \subseteq schema,
         \A i \in 1..Size[v + 1] : Created(v + 1, i) \ AddedAfter(v + 1) \subseteq schema
  PROVE  Promised(v + 1) \subseteq schema
<1>1. v + 1 \in 0..LastVersion /\ v + 1 \in 1..LastVersion /\ LastVersion = 8
  BY Sizes
<1> SUFFICES ASSUME NEW x, x \in SchemaOf(v + 1), x \notin AddedAfter(v + 1) PROVE x \in schema
  BY DEF Promised
<1>2. PICK w \in 1..(v + 1) : \E i \in 1..Size[w] : x \in Created(w, i)
  BY <1>1, InSchema
<1>3. CASE w = v + 1
  BY <1>2, <1>3
<1>4. CASE w # v + 1
  <2>1. x \in SchemaOf(v)
    <3>1. w \in 1..v
      BY <1>1, <1>4
    <3> QED BY <1>2, <3>1, InSchema
  <2>2. CASE x \notin AddedAfter(v)
    BY <2>1, <2>2 DEF Promised
  <2>3. CASE x \in AddedAfter(v)
    <3>1. PICK u \in (v + 1)..LastVersion : \E i \in 1..Size[u] :
                 Statements(u)[i].op = "column" /\ x \in Created(u, i)
      BY <2>3, InAdded
    <3>2. u = v + 1
      <4>1. u \notin (v + 2)..LastVersion
        <5>1. v + 1 + 1 = v + 2
          BY <1>1
        <5> QED BY <1>1, <3>1, <5>1, InAdded
      <4> QED BY <1>1, <4>1
    <3> QED BY <3>1, <3>2
  <2> QED BY <2>2, <2>3
<1> QED BY <1>3, <1>4

LEMMA PromisedAll == Promised(0) = {} /\ Promised(LastVersion) = SchemaOf(LastVersion)
<1>1. LastVersion = 8 /\ 0 \in 0..LastVersion /\ LastVersion \in 0..LastVersion
  BY Sizes
<1>2. \A x : x \notin SchemaOf(0)
  BY <1>1, InSchema
<1>3. \A x : x \notin AddedAfter(LastVersion)
  <2>1. (LastVersion + 1)..LastVersion = {}
    BY <1>1
  <2> QED BY <1>1, <2>1, InAdded
<1> QED BY <1>2, <1>3 DEF Promised

LEMMA SchemaGrows ==
  ASSUME NEW v \in 0..LastVersion
  PROVE  SchemaOf(v) \subseteq SchemaOf(LastVersion)
<1>1. LastVersion = 8 /\ LastVersion \in 0..LastVersion
  BY Sizes
<1>2. \A u \in 1..v : u \in 1..LastVersion
  BY <1>1
<1> QED BY <1>1, <1>2, InSchema

-----------------------------------------------------------------------------
(* The invariant.                                                          *)

Kept(v, i) == Created(v, i) \ AddedAfter(v) \subseteq schema

(* A table that is there has what its statement creates, but for columns   *)
(* that a later step adds. *)
TablesWhole ==
  \A v \in 1..LastVersion : \A i \in 1..Size[v] :
    Statements(v)[i].op = "table" /\ HasTable(Statements(v)[i].table) => Kept(v, i)

(* What an opening with the locals t has already done. *)
Migrated(t) ==
  /\ t.pc \in {"statement", "setVersion"} => t.version < LastVersion
  /\ t.pc = "statement" =>
       t.statement \in 1..Size[t.version + 1] /\ \A i \in 1..(t.statement - 1) : Kept(t.version + 1, i)
  /\ t.pc = "setVersion" => \A i \in 1..Size[t.version + 1] : Kept(t.version + 1, i)
  /\ t.pc \in {"group", "settings", "groupless", "nameless", "name", "ready"} =>
       t.version = LastVersion

(* The built-in group is there, or nothing names it and nothing ever will  *)
(* before it is made again. *)
Provided ==
  ~rows.group => rows.settings = "other" /\ \A u \in Users : rows.member[u] = "other"

Filled(t) ==
  /\ t.pc \in {"settings", "groupless", "nameless", "name", "ready"} => Provided
  /\ t.pc \in {"groupless", "nameless", "name", "ready"} => rows.settings # "none"
  /\ t.pc \in {"nameless", "name", "ready"} => \A u \in Users : rows.member[u] # ""
  /\ t.pc \in {"name", "ready"} => \A u \in Users : rows.name[u] = "" => u \in t.nameless
  /\ t.pc = "ready" => t.nameless = {}

IInv ==
  /\ TypeOK /\ VersionHonest /\ TablesWhole /\ GroupsThere
  /\ \A o \in Openers : Migrated(op[o]) /\ Filled(op[o])

Rows    == [group : BOOLEAN, settings : {"none", "builtin", "other"},
            name : [Users -> {"", "derived", "own"}], member : [Users -> {"", "builtin", "other"}]]
Opening == [pc : PCs, version : Versions, statement : Nat \ {0}, nameless : SUBSET Users]

(* What no step takes from the rows. *)
Gains ==
  /\ rows' \in Rows /\ GroupsThere'
  /\ Provided => Provided'
  /\ rows.settings # "none" => rows'.settings # "none"
  /\ \A u \in Users : (rows.member[u] # "" => rows'.member[u] # "")
                      /\ (rows.name[u] # "" => rows'.name[u] # "")

Grows ==
  schema \subseteq schema' /\ schema' \subseteq SchemaOf(LastVersion) /\ TablesWhole'

LEMMA Stays == IInv => (schema' = schema => Grows) /\ (rows' = rows => Gains)
BY DEF IInv, TypeOK, Grows, TablesWhole, Kept, HasTable, Gains, Rows, GroupsThere, Provided

LEMMA VersionsAre == Versions = 0..8 /\ LastVersion = 8 /\ 0 \in Versions
BY Sizes DEF Versions

(* A statement that is executed. *)
LEMMA AppliedGrows ==
  ASSUME IInv, NEW v \in 1..LastVersion, NEW i \in 1..Size[v],
         schema' = Applied(Statements(v)[i])
  PROVE  Grows /\ (Statements(v)[i].op # "index" => Kept(v, i)')
<1> DEFINE s == Statements(v)[i]
<1>1. LastVersion \in 0..LastVersion
  BY Sizes
<1>2. Created(v, i) \subseteq SchemaOf(LastVersion)
  BY <1>1, InSchema
<1>3. schema' \in {schema, schema \cup Created(v, i)}
  BY DEF Applied, Created
<1>4. schema \subseteq schema' /\ schema' \subseteq SchemaOf(LastVersion)
  BY <1>2, <1>3 DEF IInv, TypeOK
<1>5. ASSUME NEW w \in 1..LastVersion, NEW k \in 1..Size[w],
             Statements(w)[k].op = "table", <<Statements(w)[k].table, "id">> \in schema'
      PROVE  Created(w, k) \ AddedAfter(w) \subseteq schema'
  <2>1. CASE HasTable(Statements(w)[k].table)
    BY <1>4, <1>5, <2>1 DEF IInv, TablesWhole, Kept
  <2>2. CASE ~HasTable(Statements(w)[k].table)
    <3>1. <<Statements(w)[k].table, "id">> \in Created(v, i) /\ schema' = schema \cup Created(v, i)
      BY <1>3, <1>5, <2>2 DEF HasTable
    <3>2. Place[Statements(w)[k].table] = <<v, i>>
      BY <3>1, CreatesTable
    <3>3. Place[Statements(w)[k].table] = <<w, k>>
      BY <1>5, TablePlace
    <3>4. v = w /\ i = k
      BY <3>2, <3>3
    <3> QED BY <3>1, <3>4
  <2> QED BY <2>1, <2>2
<1>6. TablesWhole'
  BY <1>5 DEF TablesWhole, Kept, HasTable
<1>7. s.op # "index" => Kept(v, i)'
  <2>1. CASE s.op = "table" /\ HasTable(s.table)
    BY <1>4, <2>1 DEF IInv, TablesWhole, Kept
  <2>2. CASE ~(s.op = "table" /\ HasTable(s.table))
    BY <2>2 DEF Applied, Kept, Created
  <2> QED BY <2>1, <2>2
<1> QED BY <1>4, <1>6, <1>7 DEF Grows

(* An opening goes from its locals to t. *)
LEMMA OpeningStep ==
  ASSUME IInv, NEW o \in Openers, NEW t \in Opening, op' = [op EXCEPT ![o] = t],
         Grows, Gains, version' \in Versions, failures' \in 0..MaxFailures,
         Promised(version') \subseteq schema', Promised(t.version) \subseteq schema',
         Migrated(t)', Filled(t)'
  PROVE  IInv'
<1>1. /\ op' \in [Openers -> Opening] /\ op'[o] = t
      /\ \A p \in Openers \ {o} : op'[p] = op[p]
  BY DEF IInv, TypeOK, Opening
<1>2. TypeOK'
  BY <1>1 DEF TypeOK, Grows, Gains, Rows, Opening
<1>3. VersionHonest'
  <2>1. \A p \in Openers : Promised(op'[p].version) \subseteq schema'
    BY <1>1 DEF IInv, VersionHonest, Grows
  <2> QED BY <2>1 DEF VersionHonest, Promised
<1>4. ASSUME NEW p \in Openers PROVE (Migrated(op[p]) /\ Filled(op[p]))'
  <2>1. CASE p = o
    BY <1>1, <2>1 DEF Migrated, Filled, Kept
  <2>2. CASE p # o
    <3>1. op'[p] = op[p] /\ Migrated(op[p]) /\ Filled(op[p])
      BY <1>1, <2>2 DEF IInv
    <3>2. \A v, i : Kept(v, i) => Kept(v, i)'
      BY DEF Kept, Grows
    <3>3. Migrated(op[p])'
      BY <3>1, <3>2 DEF Migrated
    <3>4. Filled(op[p])'
      BY <3>1 DEF Filled, Gains
    <3> QED BY <3>3, <3>4
  <2> QED BY <2>1, <2>2
<1> QED BY <1>2, <1>3, <1>4 DEF IInv, Grows, Gains

-----------------------------------------------------------------------------
(* The steps.                                                               *)

LEMMA OpeningFields ==
  ASSUME IInv, NEW o \in Openers
  PROVE  /\ op[o] \in Opening /\ op[o].version \in 0..8 /\ op[o].statement \in Nat \ {0}
         /\ op[o].nameless \subseteq Users /\ Promised(op[o].version) \subseteq schema
         /\ Migrated(op[o]) /\ Filled(op[o])
BY VersionsAre DEF IInv, TypeOK, VersionHonest, Opening

(* Where a step leads. *)
LEMMA AfterStepFits ==
  ASSUME NEW v \in Versions
  PROVE  /\ AfterStep(v) \in Opening /\ AfterStep(v).version = v
         /\ AfterStep(v).pc \in {"statement", "group"}
         /\ AfterStep(v).pc = "statement" => v < LastVersion /\ AfterStep(v).statement = 1
         /\ AfterStep(v).pc = "group" => v = LastVersion
<1>1. v \in 0..8 /\ LastVersion = 8
  BY VersionsAre
<1>2. PICK pc : pc = IF v < LastVersion THEN "statement" ELSE "group"
  OBVIOUS
<1>3. AfterStep(v) = [pc |-> pc, version |-> v, statement |-> 1, nameless |-> {}]
  <2>1. AfterStep(v) = [Off EXCEPT !.pc = pc, !.version = v]
    BY <1>2 DEF AfterStep
  <2> QED BY <2>1 DEF Off
<1>4. pc \in {"statement", "group"} /\ pc \in PCs
  BY <1>2 DEF PCs
<1>5. /\ pc = "statement" => v < LastVersion
      /\ pc = "group" => v = LastVersion
  BY <1>1, <1>2
<1> QED BY <1>3, <1>4, <1>5 DEF Opening

(* An opening reads or writes v as the version and goes on from there. *)
LEMMA VersionStep ==
  ASSUME IInv, NEW o \in Openers, NEW v \in Versions, Promised(v) \subseteq schema,
         op' = [op EXCEPT ![o] = AfterStep(v)], version' \in {version, v},
         UNCHANGED <<schema, rows, failures>>
  PROVE  IInv'
<1>1. PICK t : t = AfterStep(v)
  OBVIOUS
<1>2. /\ t \in Opening /\ t.version = v /\ t.pc \in {"statement", "group"}
      /\ t.pc = "statement" => v < LastVersion /\ t.statement = 1
      /\ t.pc = "group" => v = LastVersion
  BY <1>1, AfterStepFits
<1>3. t.pc = "statement" => t.statement \in 1..Size[t.version + 1] /\ 1..(t.statement - 1) = {}
  <2> SUFFICES ASSUME t.pc = "statement" PROVE 1 \in 1..Size[v + 1]
    BY <1>2
  <2>1. v + 1 \in 1..LastVersion
    BY <1>2, VersionsAre
  <2> QED BY <2>1, Sizes
<1>4. Migrated(t)' /\ Filled(t)'
  BY <1>2, <1>3 DEF Migrated, Filled
<1>5. version' \in Versions /\ failures' \in 0..MaxFailures /\ Promised(version') \subseteq schema'
  BY DEF IInv, TypeOK, VersionHonest
<1> QED BY <1>1, <1>2, <1>4, <1>5, Stays, OpeningStep

(* An opening is at its beginning or has given up. *)
LEMMA OutsideStep ==
  ASSUME IInv, NEW o \in Openers, NEW pc \in {"off", "version", "refused"},
         op' = [op EXCEPT ![o] = [Off EXCEPT !.pc = pc]], Grows, failures' \in 0..MaxFailures,
         UNCHANGED <<version, rows>>
  PROVE  IInv'
<1>1. PICK t : t = [Off EXCEPT !.pc = pc]
  OBVIOUS
<1>2. t \in Opening /\ t.version = 0 /\ t.pc = pc
  BY <1>1, VersionsAre DEF Off, Opening, PCs
<1>3. Migrated(t)' /\ Filled(t)'
  BY <1>2 DEF Migrated, Filled
<1>4. /\ version' \in Versions /\ Promised(version') \subseteq schema'
      /\ Promised(t.version) \subseteq schema'
  BY <1>2, PromisedAll DEF IInv, TypeOK, VersionHonest, Grows
<1> QED BY <1>1, <1>2, <1>3, <1>4, Stays, OpeningStep

LEMMA AtStatement ==
  ASSUME IInv, NEW o \in Openers, op[o].pc = "statement"
  PROVE  /\ op[o].version + 1 \in 1..LastVersion
         /\ op[o].statement \in 1..Size[op[o].version + 1]
         /\ Statement(o) = Statements(op[o].version + 1)[op[o].statement]
         /\ Len(Step(o).statements) = Size[op[o].version + 1]
         /\ \A i \in 1..(op[o].statement - 1) : Kept(op[o].version + 1, i)
<1>1. op[o].version + 1 \in 1..LastVersion
  BY OpeningFields, VersionsAre DEF Migrated
<1> QED BY <1>1, OpeningFields, Sizes DEF Migrated, Statement, Step, Statements

LEMMA ExecStep ==
  ASSUME IInv, NEW o \in Openers, Exec(o)
  PROVE  IInv'
<1> DEFINE answer == Answer(Statement(o))
<1>1. PICK v, i : v = op[o].version + 1 /\ i = op[o].statement
  OBVIOUS
<1>2. /\ v \in 1..LastVersion /\ i \in 1..Size[v] /\ Statement(o) = Statements(v)[i]
      /\ Len(Step(o).statements) = Size[v] /\ Size[v] \in Nat \ {0} /\ i \in Nat \ {0}
      /\ v \in Nat /\ op[o].version + 1 = v /\ op[o].version < LastVersion
      /\ \A k \in 1..(i - 1) : Kept(v, k)
  <2>1. op[o].pc = "statement" /\ op[o].version < LastVersion
    BY OpeningFields DEF Exec, Migrated
  <2>2. v \in 1..LastVersion /\ Size[v] \in Nat \ {0} /\ v \in Nat
    <3>1. v \in 1..LastVersion
      BY <1>1, <2>1, AtStatement
    <3> QED BY <3>1, Sizes
  <2>3. i \in Nat \ {0}
    BY <1>1, OpeningFields
  <2> QED BY <1>1, <2>1, <2>2, <2>3, AtStatement
<1>3. /\ schema' = IF answer = "ok" THEN Applied(Statements(v)[i]) ELSE schema
      /\ op' = [op EXCEPT ![o] = IF Tolerated(o, answer) THEN NextStatement(o)
                                 ELSE [Off EXCEPT !.pc = "refused"]]
      /\ UNCHANGED <<version, rows, failures>>
  BY <1>2 DEF Exec
<1>4. Grows
  BY <1>2, <1>3, AppliedGrows, Stays
<1>5. failures' \in 0..MaxFailures /\ version' \in Versions /\ Promised(version') \subseteq schema'
  BY <1>3, <1>4 DEF IInv, TypeOK, VersionHonest, Grows
<1>6. CASE ~Tolerated(o, answer)
  <2>1. op' = [op EXCEPT ![o] = [Off EXCEPT !.pc = "refused"]]
    BY <1>3, <1>6
  <2> QED BY <1>3, <1>4, <1>5, <2>1, OutsideStep
<1>7. CASE Tolerated(o, answer)
  <2>1. Kept(v, i)'
    <3>1. CASE Statements(v)[i].op = "index"
      <4>1. Created(v, i) = {}
        BY <3>1 DEF Created, Creates
      <4> QED BY <4>1 DEF Kept
    <3>2. CASE answer = "ok" /\ Statements(v)[i].op # "index"
      BY <1>2, <1>3, <3>2, AppliedGrows
    <3>3. CASE answer = "duplicateColumn" /\ Statements(v)[i].op # "index"
      <4>1. Created(v, i) \subseteq schema
        BY <1>2, <3>3 DEF Answer, Created
      <4> QED BY <1>4, <4>1 DEF Kept, Grows
    <3> QED BY <1>7, <3>1, <3>2, <3>3 DEF Tolerated
  <2>2. \A k \in 1..(i - 1) : Kept(v, k)'
    BY <1>2, <1>4 DEF Kept, Grows
  <2>3. \A k \in 1..i : k = i \/ k \in 1..(i - 1)
    BY <1>2
  <2>4. \A k \in 1..i : Kept(v, k)'
    BY <2>1, <2>2, <2>3
  <2>5. PICK t : t = NextStatement(o)
    OBVIOUS
  <2>6. op[o] \in Opening /\ op[o].pc = "statement" /\ Promised(op[o].version) \subseteq schema
    BY OpeningFields DEF Exec
  <2>7. CASE i < Size[v]
    <3>1. t = [op[o] EXCEPT !.statement = i + 1]
      BY <1>1, <1>2, <2>5, <2>7 DEF NextStatement
    <3>2. /\ t \in Opening /\ t.pc = "statement" /\ t.version = op[o].version
          /\ t.statement = i + 1
      BY <1>2, <2>6, <3>1 DEF Opening
    <3>3. t.statement \in 1..Size[v] /\ t.statement - 1 = i
      BY <1>2, <2>7, <3>2
    <3>4. Migrated(t)' /\ Filled(t)'
      BY <1>2, <2>4, <3>2, <3>3 DEF Migrated, Filled
    <3>5. Promised(t.version) \subseteq schema'
      BY <1>4, <2>6, <3>2 DEF Grows
    <3> QED BY <1>3, <1>4, <1>5, <1>7, <2>5, <3>2, <3>4, <3>5, Stays, OpeningStep
  <2>8. CASE ~(i < Size[v])
    <3>1. t = [op[o] EXCEPT !.pc = "setVersion"]
      BY <1>1, <1>2, <2>5, <2>8 DEF NextStatement
    <3>2. t \in Opening /\ t.pc = "setVersion" /\ t.version = op[o].version
      BY <2>6, <3>1 DEF Opening, PCs
    <3>3. i = Size[v]
      BY <1>2, <2>8
    <3>4. Migrated(t)' /\ Filled(t)'
      BY <1>2, <2>4, <3>2, <3>3 DEF Migrated, Filled
    <3>5. Promised(t.version) \subseteq schema'
      BY <1>4, <2>6, <3>2 DEF Grows
    <3> QED BY <1>3, <1>4, <1>5, <1>7, <2>5, <3>2, <3>4, <3>5, Stays, OpeningStep
  <2> QED BY <2>7, <2>8
<1> QED BY <1>6, <1>7

(* No step tolerates what is neither done nor a duplicate column. *)
LEMMA ExecFailsStep ==
  ASSUME IInv, NEW o \in Openers, ExecFails(o)
  PROVE  IInv'
<1>1. /\ schema' = schema \/ schema' = Applied(Statement(o))
      /\ op' = [op EXCEPT ![o] = [Off EXCEPT !.pc = "refused"]]
      /\ op[o].pc = "statement" /\ failures < MaxFailures /\ failures' = failures + 1
      /\ UNCHANGED <<version, rows>>
  BY DEF ExecFails, Tolerated
<1>2. Grows
  BY <1>1, AtStatement, AppliedGrows, Stays
<1>3. failures' \in 0..MaxFailures
  <2>1. failures \in 0..MaxFailures
    BY DEF IInv, TypeOK
  <2> QED BY <1>1, <2>1, SchemaMigrationAssumption
<1> QED BY <1>1, <1>2, <1>3, OutsideStep

LEMMA setSchemaVersionStep ==
  ASSUME IInv, NEW o \in Openers, setSchemaVersion(o)
  PROVE  IInv'
<1>1. PICK v : v = op[o].version
  OBVIOUS
<1>2. /\ v \in 0..LastVersion /\ v < LastVersion /\ v + 1 \in Versions
      /\ Promised(v) \subseteq schema /\ \A i \in 1..Size[v + 1] : Kept(v + 1, i)
  BY <1>1, OpeningFields, VersionsAre DEF setSchemaVersion, Migrated
<1>3. Promised(v + 1) \subseteq schema
  BY <1>2, PromisedStep DEF Kept
<1>4. /\ version' = v + 1 /\ op' = [op EXCEPT ![o] = AfterStep(v + 1)]
      /\ UNCHANGED <<schema, rows, failures>>
  BY <1>1 DEF setSchemaVersion
<1> QED BY <1>2, <1>3, <1>4, VersionStep

(* A step of ensureDefaults, once the schema is complete. *)
LEMMA DefaultsStep ==
  ASSUME IInv, NEW o \in Openers, NEW t \in Opening, op' = [op EXCEPT ![o] = t],
         op[o].pc \in {"group", "settings", "groupless", "nameless", "name"},
         t.version = op[o].version, t.pc \notin {"statement", "setVersion"},
         Gains, Filled(t)', UNCHANGED <<schema, version, failures>>
  PROVE  IInv'
<1>1. op[o].version = LastVersion /\ Promised(op[o].version) \subseteq schema
  BY OpeningFields DEF Migrated
<1>2. Migrated(t)'
  BY <1>1 DEF Migrated
<1>3. /\ version' \in Versions /\ failures' \in 0..MaxFailures
      /\ Promised(version') \subseteq schema' /\ Promised(t.version) \subseteq schema'
  BY <1>1 DEF IInv, TypeOK, VersionHonest
<1> QED BY <1>2, <1>3, Stays, OpeningStep

LEMMA EnsureStep ==
  ASSUME IInv, NEW o \in Openers, EnsureGroup(o) \/ EnsureSettings(o) \/ EnsureUserGroups(o)
  PROVE  IInv'
<1>1. op[o] \in Opening /\ Filled(op[o]) /\ rows \in Rows /\ GroupsThere
  BY OpeningFields DEF IInv, TypeOK, Rows
<1>2. CASE EnsureGroup(o)
  <2>1. /\ op[o].pc = "group"
        /\ rows' = [rows EXCEPT !.group = TRUE]
        /\ op' = [op EXCEPT ![o] = [op[o] EXCEPT !.pc = "settings"]]
        /\ UNCHANGED <<schema, version, failures>>
    BY <1>2 DEF EnsureGroup, Goto, IInv, TypeOK
  <2>2. Gains /\ Provided'
    BY <1>1, <2>1 DEF Gains, Rows, Provided, GroupsThere
  <2>3. PICK t : t = [op[o] EXCEPT !.pc = "settings"]
    OBVIOUS
  <2>4. t \in Opening /\ t.pc = "settings" /\ t.version = op[o].version
    BY <1>1, <2>3 DEF Opening, PCs
  <2>5. Filled(t)'
    BY <2>2, <2>4 DEF Filled
  <2> QED BY <2>1, <2>2, <2>3, <2>4, <2>5, DefaultsStep
<1>3. CASE EnsureSettings(o)
  <2>1. /\ op[o].pc = "settings"
        /\ rows' = [rows EXCEPT !.settings = IF @ = "none" THEN "builtin" ELSE @]
        /\ op' = [op EXCEPT ![o] = [op[o] EXCEPT !.pc = "groupless"]]
        /\ UNCHANGED <<schema, version, failures>>
    BY <1>3 DEF EnsureSettings, Goto, IInv, TypeOK
  <2>2. Provided
    BY <1>1, <2>1 DEF Filled
  <2>3. /\ rows' \in Rows /\ rows'.settings # "none" /\ rows'.group = rows.group
        /\ rows'.member = rows.member /\ rows'.name = rows.name
        /\ rows.settings # "none" => rows'.settings = rows.settings
    BY <1>1, <2>1 DEF Rows
  <2>4. GroupsThere' /\ Provided'
    BY <1>1, <2>2, <2>3 DEF GroupsThere, Provided
  <2>5. Gains
    BY <2>3, <2>4 DEF Gains
  <2>6. PICK t : t = [op[o] EXCEPT !.pc = "groupless"]
    OBVIOUS
  <2>7. t \in Opening /\ t.pc = "groupless" /\ t.version = op[o].version
    BY <1>1, <2>6 DEF Opening, PCs
  <2>8. Filled(t)'
    BY <2>3, <2>4, <2>7 DEF Filled
  <2> QED BY <2>1, <2>5, <2>6, <2>7, <2>8, DefaultsStep
<1>4. CASE EnsureUserGroups(o)
  <2>1. /\ op[o].pc = "groupless"
        /\ rows' = [rows EXCEPT !.member = [u \in Users |-> IF @[u] = "" THEN "builtin" ELSE @[u]]]
        /\ op' = [op EXCEPT ![o] = [op[o] EXCEPT !.pc = "nameless"]]
        /\ UNCHANGED <<schema, version, failures>>
    BY <1>4 DEF EnsureUserGroups, Goto, IInv, TypeOK
  <2>2. Provided /\ rows.settings # "none"
    BY <1>1, <2>1 DEF Filled
  <2>3. /\ rows' \in Rows /\ rows'.settings = rows.settings /\ rows'.group = rows.group
        /\ rows'.name = rows.name /\ \A u \in Users : rows'.member[u] # ""
        /\ \A u \in Users : rows.member[u] # "" => rows'.member[u] = rows.member[u]
    BY <1>1, <2>1 DEF Rows
  <2>4. GroupsThere' /\ Provided'
    BY <1>1, <2>2, <2>3 DEF GroupsThere, Provided
  <2>5. Gains
    BY <2>3, <2>4 DEF Gains
  <2>6. PICK t : t = [op[o] EXCEPT !.pc = "nameless"]
    OBVIOUS
  <2>7. t \in Opening /\ t.pc = "nameless" /\ t.version = op[o].version
    BY <1>1, <2>6 DEF Opening, PCs
  <2>8. Filled(t)'
    BY <2>2, <2>3, <2>4, <2>7 DEF Filled
  <2> QED BY <2>1, <2>5, <2>6, <2>7, <2>8, DefaultsStep
<1> QED BY <1>2, <1>3, <1>4

LEMMA SelectNamelessStep ==
  ASSUME IInv, NEW o \in Openers, SelectNameless(o)
  PROVE  IInv'
<1>1. op[o] \in Opening /\ Filled(op[o])
  BY OpeningFields
<1>2. PICK t : t = [op[o] EXCEPT !.pc = "name", !.nameless = {u \in Users : rows.name[u] = ""}]
  OBVIOUS
<1>3. /\ op[o].pc = "nameless" /\ op' = [op EXCEPT ![o] = t]
      /\ UNCHANGED <<schema, version, rows, failures>>
  BY <1>2 DEF SelectNameless, IInv, TypeOK
<1>4. /\ t \in Opening /\ t.pc = "name" /\ t.version = op[o].version
      /\ \A u \in Users : rows.name[u] = "" => u \in t.nameless
  BY <1>1, <1>2 DEF Opening, PCs
<1>5. Filled(t)'
  BY <1>1, <1>3, <1>4 DEF Filled, Provided
<1> QED BY <1>3, <1>4, <1>5, Stays, DefaultsStep

LEMMA NameUserStep ==
  ASSUME IInv, NEW o \in Openers, NEW u \in Users, NameUser(o, u)
  PROVE  IInv'
<1>1. op[o] \in Opening /\ Filled(op[o]) /\ rows \in Rows
  BY OpeningFields DEF IInv, TypeOK, Rows
<1>2. PICK t : t = [op[o] EXCEPT !.nameless = op[o].nameless \ {u}]
  OBVIOUS
<1>3. /\ op[o].pc = "name" /\ op' = [op EXCEPT ![o] = t]
      /\ rows' = [rows EXCEPT !.name[u] = "derived"]
      /\ UNCHANGED <<schema, version, failures>>
  BY <1>2 DEF NameUser, IInv, TypeOK
<1>4. /\ t \in Opening /\ t.pc = "name" /\ t.version = op[o].version
      /\ \A v \in Users : v \in op[o].nameless /\ v # u => v \in t.nameless
  BY <1>1, <1>2, <1>3 DEF Opening
<1>5. /\ rows' \in Rows /\ rows'.group = rows.group /\ rows'.settings = rows.settings
      /\ rows'.member = rows.member /\ rows'.name[u] = "derived"
      /\ \A v \in Users \ {u} : rows'.name[v] = rows.name[v]
  BY <1>1, <1>3 DEF Rows
<1>6. Gains
  BY <1>5 DEF Gains, GroupsThere, Provided, IInv
<1>7. Filled(t)'
  BY <1>1, <1>3, <1>4, <1>5 DEF Filled, Provided
<1> QED BY <1>3, <1>4, <1>6, <1>7, DefaultsStep

LEMMA ReadyStep ==
  ASSUME IInv, NEW o \in Openers, Ready(o)
  PROVE  IInv'
<1>1. op[o] \in Opening /\ Filled(op[o])
  BY OpeningFields
<1>2. PICK t : t = [op[o] EXCEPT !.pc = "ready"]
  OBVIOUS
<1>3. /\ op[o].pc = "name" /\ op[o].nameless = {} /\ op' = [op EXCEPT ![o] = t]
      /\ UNCHANGED <<schema, version, rows, failures>>
  BY <1>2 DEF Ready, Goto, IInv, TypeOK
<1>4. /\ t \in Opening /\ t.pc = "ready" /\ t.version = op[o].version /\ t.nameless = {}
  BY <1>1, <1>2, <1>3 DEF Opening, PCs
<1>5. Filled(t)'
  BY <1>1, <1>3, <1>4 DEF Filled, Provided
<1> QED BY <1>3, <1>4, <1>5, Stays, DefaultsStep

LEMMA OpenStep ==
  ASSUME IInv, NEW o \in Openers, Open(o) \/ Dies(o)
  PROVE  IInv'
<1>1. Off = [Off EXCEPT !.pc = "off"]
  BY DEF Off
<1>2. schema' = schema /\ Grows
  BY Stays DEF Open, Dies
<1>3. CASE Open(o)
  <2>1. failures' \in 0..MaxFailures
    BY <1>3 DEF Open, IInv, TypeOK
  <2> QED BY <1>2, <1>3, <2>1, OutsideStep DEF Open
<1>4. CASE Dies(o)
  <2>1. failures \in 0..MaxFailures
    BY DEF IInv, TypeOK
  <2>2. failures' \in 0..MaxFailures
    BY <1>4, <2>1, SchemaMigrationAssumption DEF Dies
  <2> QED BY <1>1, <1>2, <1>4, <2>2, OutsideStep DEF Dies
<1> QED BY <1>3, <1>4

(* The work of administrators only gains: they delete the built-in group   *)
(* in a server that is ready, when every user has another. *)
LEMMA AdministratorGains ==
  ASSUME IInv, AdministratorActs
  PROVE  Gains /\ UNCHANGED <<schema, version, op, failures>>
<1>1. rows \in Rows /\ GroupsThere
  BY DEF IInv, TypeOK, Rows
<1>2. UNCHANGED <<schema, version, op, failures>> /\ Administer
  BY DEF AdministratorActs, DeleteGroup, SetDefault, MoveUser, RenameUser
<1>3. rows.settings # "none" /\ \A u \in Users : rows.member[u] # ""
  BY <1>2, OpeningFields DEF Administer, Filled
<1>4. CASE DeleteGroup
  <2>1. /\ rows' \in Rows /\ rows'.settings = rows.settings /\ rows'.member = rows.member
        /\ rows'.name = rows.name
    BY <1>1, <1>4 DEF DeleteGroup, Rows
  <2>2. rows.settings = "other" /\ \A u \in Users : rows.member[u] = "other"
    BY <1>1, <1>3, <1>4 DEF DeleteGroup, Rows
  <2> QED BY <1>2, <2>1, <2>2 DEF Gains, GroupsThere, Provided
<1>5. ASSUME NEW g \in {"builtin", "other"}, SetDefault(g) PROVE Gains
  <2>1. /\ rows' \in Rows /\ rows'.settings = g /\ rows'.member = rows.member
        /\ rows'.name = rows.name /\ rows'.group = rows.group /\ (g = "builtin" => rows.group)
    BY <1>1, <1>5 DEF SetDefault, GroupExists, Rows
  <2> QED BY <1>1, <2>1 DEF Gains, GroupsThere, Provided
<1>6. ASSUME NEW g \in {"builtin", "other"}, NEW u \in Users, MoveUser(u, g) PROVE Gains
  <2>1. /\ rows' \in Rows /\ rows'.settings = rows.settings /\ rows'.name = rows.name
        /\ rows'.group = rows.group /\ (g = "builtin" => rows.group) /\ rows'.member[u] = g
        /\ \A v \in Users \ {u} : rows'.member[v] = rows.member[v]
    BY <1>1, <1>6 DEF MoveUser, GroupExists, Rows
  <2> QED BY <1>1, <2>1 DEF Gains, GroupsThere, Provided
<1>7. ASSUME NEW u \in Users, RenameUser(u) PROVE Gains
  <2>1. /\ rows' \in Rows /\ rows'.settings = rows.settings /\ rows'.member = rows.member
        /\ rows'.group = rows.group /\ rows'.name[u] = "own"
        /\ \A v \in Users \ {u} : rows'.name[v] = rows.name[v]
    BY <1>1, <1>7 DEF RenameUser, Rows
  <2> QED BY <1>1, <2>1 DEF Gains, GroupsThere, Provided
<1> QED BY <1>2, <1>4, <1>5, <1>6, <1>7 DEF AdministratorActs

LEMMA AdministratorStep ==
  ASSUME IInv, AdministratorActs
  PROVE  IInv'
<1>1. UNCHANGED <<schema, version, op, failures>> /\ rows \in Rows
  BY AdministratorGains DEF IInv, TypeOK, Rows
<1>2. Gains
  BY AdministratorGains
<1>3. TypeOK' /\ VersionHonest' /\ TablesWhole'
  BY <1>1, <1>2 DEF IInv, TypeOK, VersionHonest, Promised, TablesWhole, Kept, HasTable, Gains, Rows
<1>4. ASSUME NEW o \in Openers PROVE (Migrated(op[o]) /\ Filled(op[o]))'
  <2>1. Migrated(op[o]) /\ Filled(op[o]) /\ op'[o] = op[o]
    BY <1>1 DEF IInv
  <2>2. Migrated(op[o])'
    BY <1>1, <2>1 DEF Migrated, Kept
  <2>3. Filled(op[o])'
    BY <1>2, <2>1 DEF Filled, Gains
  <2> QED BY <2>2, <2>3
<1> QED BY <1>2, <1>3, <1>4 DEF IInv, Gains

-----------------------------------------------------------------------------
(* An older database has the tables of its steps, whole but for what later *)
(* steps add. *)
LEMMA OlderWhole ==
  ASSUME NEW w \in 0..LastVersion, NEW lack, lack \subseteq AddedAfter(w), lack \subseteq AddedAfter(1),
         w <= 1 \/ lack = {}, schema = SchemaOf(w) \ lack
  PROVE  TablesWhole /\ Promised(w) \subseteq schema
<1>1. LastVersion = 8
  BY Sizes
<1>2. ASSUME NEW v \in 1..LastVersion, NEW i \in 1..Size[v],
             Statements(v)[i].op = "table", HasTable(Statements(v)[i].table)
      PROVE  Kept(v, i)
  <2> DEFINE table == Statements(v)[i].table
  <2>1. <<table, "id">> \in SchemaOf(w)
    BY <1>2 DEF HasTable
  <2>2. PICK u \in 1..w : \E k \in 1..Size[u] : <<table, "id">> \in Created(u, k)
    BY <2>1, InSchema
  <2>3. PICK k \in 1..Size[u] : <<table, "id">> \in Created(u, k)
    BY <2>2
  <2>4. u \in 1..LastVersion
    BY <1>1
  <2>5. Place[table] = <<u, k>> /\ Place[table] = <<v, i>>
    BY <1>2, <2>3, <2>4, CreatesTable, TablePlace
  <2>6. v \in 1..w
    BY <2>5
  <2>7. Created(v, i) \subseteq SchemaOf(w)
    BY <2>6, InSchema
  <2>8. CASE lack = {}
    BY <2>7, <2>8 DEF Kept
  <2>9. CASE w <= 1
    <3>1. v = 1
      BY <1>1, <2>6, <2>9
    <3> QED BY <2>7, <3>1 DEF Kept
  <2> QED BY <2>8, <2>9
<1>3. TablesWhole
  BY <1>2 DEF TablesWhole
<1>4. Promised(w) \subseteq schema
  BY DEF Promised
<1> QED BY <1>3, <1>4

LEMMA InitInv == Init => IInv
<1> SUFFICES ASSUME Init PROVE IInv
  OBVIOUS
<1>1. LastVersion = 8 /\ Versions = 0..8 /\ 0 \in 0..LastVersion /\ 1 \in 0..LastVersion
  BY VersionsAre
<1>2. op \in [Openers -> Opening] /\ \A o \in Openers : op[o] = Off
  <2>1. Off \in Opening
    BY VersionsAre DEF Off, Opening, PCs
  <2> QED BY <2>1 DEF Init
<1>3. /\ version \in Versions /\ rows \in Rows /\ schema \subseteq SchemaOf(LastVersion)
      /\ TablesWhole /\ Promised(version) \subseteq schema
  <2>1. CASE Fresh
    <3>1. schema = {} /\ version = 0 /\ rows \in Rows
      BY <2>1 DEF Fresh, Rows
    <3>2. TablesWhole
      BY <3>1 DEF TablesWhole, HasTable
    <3> QED BY <1>1, <3>1, <3>2, PromisedAll
  <2>2. CASE Older
    <3>1. rows \in Rows
      BY <2>2 DEF Older, Rows
    <3>2. CASE version \in {0, 1} /\ \E lack \in Lacks : schema = SchemaOf(1) \ lack
      <4>1. PICK lack \in Lacks : schema = SchemaOf(1) \ lack
        BY <3>2
      <4>2. lack \subseteq AddedAfter(1)
        BY LacksAssumption
      <4>3. TablesWhole /\ Promised(1) \subseteq schema
        BY <1>1, <4>1, <4>2, OlderWhole
      <4>4. version \in Versions /\ Promised(version) \subseteq schema
        BY <1>1, <3>2, <4>3, PromisedAll
      <4>5. schema \subseteq SchemaOf(LastVersion)
        BY <1>1, <4>1, SchemaGrows
      <4> QED BY <3>1, <4>3, <4>4, <4>5
    <3>3. CASE version \in 1..LastVersion /\ schema = SchemaOf(version)
      <4>1. version \in 0..LastVersion /\ schema = SchemaOf(version) \ {}
        BY <1>1, <3>3
      <4>2. TablesWhole /\ Promised(version) \subseteq schema
        <5>1. PICK w, lack : w = version /\ lack = {}
          OBVIOUS
        <5>2. /\ w \in 0..LastVersion /\ schema = SchemaOf(w) \ lack
              /\ lack \subseteq AddedAfter(w) /\ lack \subseteq AddedAfter(1)
          BY <4>1, <5>1
        <5>3. TablesWhole /\ Promised(w) \subseteq schema
          BY <5>1, <5>2, OlderWhole
        <5> QED BY <5>1, <5>3
      <4>3. version \in Versions /\ schema \subseteq SchemaOf(LastVersion)
        BY <1>1, <3>3, <4>1, SchemaGrows
      <4> QED BY <3>1, <4>2, <4>3
    <3> QED BY <2>2, <3>2, <3>3 DEF Older
  <2> QED BY <2>1, <2>2 DEF Init
<1>4. failures \in 0..MaxFailures
  BY SchemaMigrationAssumption DEF Init
<1>5. TypeOK
  BY <1>2, <1>3, <1>4 DEF TypeOK, Opening, Rows
<1>6. VersionHonest
  BY <1>2, <1>3, PromisedAll DEF VersionHonest, Off
<1>7. \A o \in Openers : Migrated(op[o]) /\ Filled(op[o])
  <2>1. Off.pc = "off"
    BY DEF Off
  <2> QED BY <1>2, <2>1 DEF Migrated, Filled
<1>8. GroupsThere
  <2>1. CASE Fresh
    <3>1. rows.settings = "none" /\ \A u \in Users : rows.member[u] = "other"
      BY <2>1 DEF Fresh
    <3> QED BY <3>1 DEF GroupsThere
  <2>2. CASE Older
    BY <2>2 DEF Older
  <2> QED BY <2>1, <2>2 DEF Init
<1> QED BY <1>3, <1>5, <1>6, <1>7, <1>8 DEF IInv

LEMMA NextInv == IInv /\ [Next]_vars => IInv'
<1> SUFFICES ASSUME IInv, [Next]_vars PROVE IInv'
  OBVIOUS
<1>1. ASSUME NEW o \in Openers, schemaVersion(o) PROVE IInv'
  <2>1. PICK v : v = version
    OBVIOUS
  <2>2. v \in Versions /\ Promised(v) \subseteq schema
    BY <2>1 DEF IInv, TypeOK, VersionHonest
  <2> QED BY <1>1, <2>1, <2>2, VersionStep DEF schemaVersion
<1>2. ASSUME NEW o \in Openers, Progress(o) \/ ExecFails(o) \/ Dies(o) PROVE IInv'
  BY <1>1, <1>2, OpenStep, ExecStep, setSchemaVersionStep, EnsureStep, SelectNamelessStep, NameUserStep,
     ReadyStep, ExecFailsStep DEF Progress
<1>3. CASE UNCHANGED vars
  BY <1>3, Stays
     DEF vars, IInv, TypeOK, VersionHonest, Promised, TablesWhole, Kept, HasTable, Migrated, Filled,
         GroupsThere, Provided
<1> QED BY <1>2, <1>3, AdministratorStep DEF Next

LEMMA Inductive == Spec => []IInv
BY InitInv, NextInv, PTL DEF Spec

(* An opening is at one of its places, with a version that there is. *)
THEOREM TypeCorrect == Spec => []TypeOK
<1>1. IInv => TypeOK
  BY DEF IInv
<1> QED BY <1>1, Inductive, PTL

(* Neither schema_version nor the version an opening goes on from claims   *)
(* what is not there, whoever else is opening the database, puts the       *)
(* version back or dies between two statements. *)
THEOREM VersionCorrect == Spec => []VersionHonest
<1>1. IInv => VersionHonest
  BY DEF IInv
<1> QED BY <1>1, Inductive, PTL

(* What migrate and ensureDefaults return without an error is complete.    *)
THEOREM ReadyCorrect == Spec => []ReadyIsComplete
<1>1. IInv => ReadyIsComplete
  <2> SUFFICES ASSUME IInv, NEW o \in Openers, op[o].pc = "ready"
               PROVE  /\ SchemaOf(LastVersion) \subseteq schema
                      /\ rows.settings # "none"
                      /\ \A u \in Users : rows.member[u] # "" /\ rows.name[u] # ""
    BY DEF ReadyIsComplete
  <2>1. op[o].version = LastVersion /\ Promised(op[o].version) \subseteq schema
    BY OpeningFields DEF Migrated
  <2>2. SchemaOf(LastVersion) \subseteq schema
    BY <2>1, PromisedAll
  <2>3. Filled(op[o])
    BY OpeningFields
  <2> QED BY <2>2, <2>3 DEF Filled
<1> QED BY <1>1, Inductive, PTL

(* No start and no administrator, whatever they interleave, leaves the     *)
(* settings or a user with the built-in group when it is not there: a      *)
(* deletion needs a server that is ready, and what that server's start has *)
(* filled in no other start will put into the group again (Provided). *)
THEOREM GroupsCorrect == Spec => []GroupsThere
<1>1. IInv => GroupsThere
  BY DEF IInv
<1> QED BY <1>1, Inductive, PTL

-----------------------------------------------------------------------------
(* Which openings are refused.  Every statement finds what it names:       *)
(* ALTER TABLE names a table of an earlier step, CREATE INDEX a column     *)
(* that a statement before it in its step made sure of; with one           *)
(* exception, the index of the first step on users(group_id).              *)

(* The indexed columns that no step adds to a table. *)
Lasting == {"token_hash", "usage_date", "user_id", "status"}

Supported(v, i) == LET s == Statements(v)[i] IN
  \/ s.op = "table"
  \/ /\ s.op = "column" /\ s.columns \cap Lasting = {}
     /\ sqlMigrations[v].allowDuplicateColumn
     /\ \E w \in 1..(v - 1) : \E k \in 1..Size[w] :
          Statements(w)[k].op = "table" /\ Statements(w)[k].table = s.table
  \/ /\ s.op = "index"
     /\ \E k \in 1..(i - 1) : /\ Statements(v)[k].op # "index"
                              /\ Statements(v)[k].table = s.table
                              /\ s.columns \subseteq Statements(v)[k].columns
     /\ s.columns \subseteq Lasting \/ v = LastVersion \/ <<v, i>> = <<1, 8>>

LEMMA AllSupported == \A v \in 1..LastVersion : \A i \in 1..Size[v] : Supported(v, i)
<1>1. LastVersion = 8 /\ \A i \in 1..9 : i \in {1, 2, 3, 4, 5, 6, 7, 8, 9}
  BY Sizes
<1>2. /\ Size[1] = 9 /\ Size[2] = 6 /\ Size[3] = 2 /\ Size[4] = 3 /\ Size[5] = 1
      /\ Size[6] = 3 /\ Size[7] = 1 /\ Size[8] = 3
  BY DEF Size
<1>3. ASSUME NEW i \in 1..9 PROVE Supported(1, i)
  <2>1. CASE i \in {1, 2, 3, 4, 5, 6}
    BY <2>1 DEF Supported, Statements, sqlMigrations, Table
  <2>2. CASE i = 7
    <3>1. 2 \in 1..(7 - 1)
      OBVIOUS
    <3> QED BY <2>2, <3>1 DEF Supported, Statements, sqlMigrations, Table, Index, Lasting
  <2>3. CASE i = 8
    <3>1. 1 \in 1..(8 - 1)
      OBVIOUS
    <3> QED BY <2>3, <3>1 DEF Supported, Statements, sqlMigrations, Table, Index
  <2>4. CASE i = 9
    <3>1. 6 \in 1..(9 - 1)
      OBVIOUS
    <3> QED BY <2>4, <3>1 DEF Supported, Statements, sqlMigrations, Table, Index, Lasting
  <2> QED BY <1>1, <2>1, <2>2, <2>3, <2>4
(* The tables of the first step and those of the third and fourth, which   *)
(* later steps alter. *)
<1>4. /\ Statements(1)[1].op = "table" /\ Statements(1)[1].table = "users"
      /\ Statements(1)[3].op = "table" /\ Statements(1)[3].table = "prompt_settings"
      /\ Statements(1)[4].op = "table" /\ Statements(1)[4].table = "system_settings"
      /\ Statements(1)[5].op = "table" /\ Statements(1)[5].table = "user_groups"
      /\ Statements(3)[1].op = "table" /\ Statements(3)[1].table = "llm_providers"
      /\ Statements(4)[1].op = "table" /\ Statements(4)[1].table = "generation_jobs"
  BY DEF Statements, sqlMigrations, Table
<1>5. ASSUME NEW v \in 1..LastVersion, NEW i \in 1..Size[v],
             Statements(v)[i].op = "column", Statements(v)[i].columns \cap Lasting = {},
             sqlMigrations[v].allowDuplicateColumn,
             NEW w \in 1..(v - 1), NEW k \in 1..Size[w],
             Statements(w)[k].op = "table", Statements(w)[k].table = Statements(v)[i].table
      PROVE  Supported(v, i)
  BY <1>5 DEF Supported
<1>6. ASSUME NEW v \in 1..LastVersion, NEW i \in 1..Size[v],
             <<v, i>> \in {<<2, 1>>, <<2, 2>>, <<2, 3>>, <<2, 4>>, <<2, 5>>, <<2, 6>>, <<3, 2>>,
                           <<5, 1>>, <<6, 1>>, <<7, 1>>, <<8, 1>>, <<8, 2>>}
      PROVE  /\ Statements(v)[i].op = "column" /\ Statements(v)[i].columns \cap Lasting = {}
             /\ sqlMigrations[v].allowDuplicateColumn
             /\ Statements(v)[i].table =
                  CASE <<v, i>> \in {<<2, 1>>, <<2, 2>>, <<2, 3>>} -> "users"
                    [] <<v, i>> = <<2, 4>> -> "user_groups"
                    [] <<v, i>> = <<2, 5>> -> "system_settings"
                    [] <<v, i>> = <<5, 1>> -> "llm_providers"
                    [] v = 8 -> "generation_jobs"
                    [] OTHER -> "prompt_settings"
  BY <1>6 DEF Statements, sqlMigrations, Column, Lasting
<1>7. ASSUME NEW v \in 1..LastVersion, NEW i \in 1..Size[v],
             <<v, i>> \in {<<2, 1>>, <<2, 2>>, <<2, 3>>, <<2, 4>>, <<2, 5>>, <<2, 6>>, <<3, 2>>,
                           <<5, 1>>, <<6, 1>>, <<7, 1>>, <<8, 1>>, <<8, 2>>}
      PROVE  Supported(v, i)
  <2>1. 1 \in 1..(v - 1) /\ (v = 5 => 3 \in 1..(v - 1)) /\ (v = 8 => 4 \in 1..(v - 1))
    BY <1>7
  <2>2. /\ 1 \in 1..Size[1] /\ 3 \in 1..Size[1] /\ 4 \in 1..Size[1] /\ 5 \in 1..Size[1]
        /\ 1 \in 1..Size[3] /\ 1 \in 1..Size[4]
    BY <1>2
  <2>3. CASE <<v, i>> \in {<<2, 1>>, <<2, 2>>, <<2, 3>>}
    BY <1>4, <1>5, <1>6, <2>1, <2>2, <2>3
  <2>4. CASE <<v, i>> = <<2, 4>>
    BY <1>4, <1>5, <1>6, <2>1, <2>2, <2>4
  <2>5. CASE <<v, i>> = <<2, 5>>
    BY <1>4, <1>5, <1>6, <2>1, <2>2, <2>5
  <2>6. CASE <<v, i>> \in {<<2, 6>>, <<3, 2>>, <<6, 1>>, <<7, 1>>}
    BY <1>4, <1>5, <1>6, <2>1, <2>2, <2>6
  <2>7. CASE <<v, i>> = <<5, 1>>
    BY <1>4, <1>5, <1>6, <2>1, <2>2, <2>7
  <2>8. CASE <<v, i>> \in {<<8, 1>>, <<8, 2>>}
    BY <1>4, <1>5, <1>6, <2>1, <2>2, <2>8
  <2> QED BY <1>7, <2>3, <2>4, <2>5, <2>6, <2>7, <2>8
<1>8. Supported(3, 1) /\ Supported(4, 1) /\ Supported(6, 2)
  BY DEF Supported, Statements, sqlMigrations, Table
<1>9. Supported(4, 2) /\ Supported(4, 3)
  <2>1. 1 \in 1..(2 - 1) /\ 1 \in 1..(3 - 1)
    OBVIOUS
  <2> QED BY <2>1 DEF Supported, Statements, sqlMigrations, Table, Index, Lasting
<1>10. Supported(6, 3)
  <2>1. 2 \in 1..(3 - 1)
    OBVIOUS
  <2> QED BY <2>1 DEF Supported, Statements, sqlMigrations, Table, Index, Lasting
<1>11. Supported(8, 3)
  <2>1. 1 \in 1..(3 - 1)
    OBVIOUS
  <2> QED BY <1>1, <2>1 DEF Supported, Statements, sqlMigrations, Column, Index
<1>12. \A v \in 1..LastVersion : v = 1 \/ v = 2 \/ v = 3 \/ v = 4 \/ v = 5 \/ v = 6 \/ v = 7 \/ v = 8
  BY <1>1
<1>13. ASSUME NEW v \in 1..LastVersion, NEW i \in 1..Size[v] PROVE Supported(v, i)
  <2>1. CASE v \in {1, 2}
    <3>1. v = 2 => i \in {1, 2, 3, 4, 5, 6}
      BY <1>2
    <3> QED BY <1>2, <1>3, <1>7, <2>1, <3>1
  <2>2. CASE v \in {3, 4, 5}
    <3>1. i \in {1, 2, 3} /\ (v = 3 => i \in {1, 2}) /\ (v = 5 => i = 1)
      BY <1>2, <2>2
    <3> QED BY <1>7, <1>8, <1>9, <2>2, <3>1
  <2>3. CASE v \in {6, 7, 8}
    <3>1. i \in {1, 2, 3} /\ (v = 7 => i = 1)
      BY <1>2, <2>3
    <3> QED BY <1>7, <1>8, <1>10, <1>11, <2>3, <3>1
  <2> QED BY <1>12, <2>1, <2>2, <2>3
<1> QED BY <1>13

(* What a later step does not add to a table.                              *)
LEMMA NotAdded ==
  ASSUME NEW w \in 0..LastVersion, NEW table, NEW column \in Lasting \cup {"id"}
  PROVE  <<table, column>> \notin AddedAfter(w)
<1> SUFFICES ASSUME <<table, column>> \in AddedAfter(w) PROVE FALSE
  OBVIOUS
<1>1. PICK v \in (w + 1)..LastVersion : \E i \in 1..Size[v] :
             Statements(v)[i].op = "column" /\ <<table, column>> \in Created(v, i)
  BY InAdded
<1>2. PICK i \in 1..Size[v] :
             Statements(v)[i].op = "column" /\ <<table, column>> \in Created(v, i)
  BY <1>1
<1>3. v \in 1..LastVersion
  <2>1. LastVersion = 8
    BY Sizes
  <2> QED BY <1>1, <2>1
<1>4. column \in Statements(v)[i].columns
  BY <1>2 DEF Created, Creates
<1>5. WellPut(v, i) /\ Supported(v, i)
  BY <1>3, Put, AllSupported
<1> QED BY <1>2, <1>4, <1>5 DEF WellPut, Supported

GroupColumn     == <<"users", "group_id">>
UsersHaveGroups == HasTable("users") => GroupColumn \in schema

(* The first step is only gone through where its index has its column.     *)
Upgradable ==
  version = 0 \/ (\E o \in Openers : op[o].pc \in {"statement", "setVersion"} /\ op[o].version = 0)
    => UsersHaveGroups

(* No statement that an opening is at can refuse it by its own answer.     *)
NoneRefusable == \A o \in Openers : op[o].pc = "statement" => Tolerated(o, Answer(Statement(o)))

LEMMA AnswersTolerated ==
  ASSUME IInv, Upgradable, NEW o \in Openers, op[o].pc = "statement"
  PROVE  Tolerated(o, Answer(Statement(o)))
<1>1. PICK v, i : v = op[o].version + 1 /\ i = op[o].statement
  OBVIOUS
<1>2. PICK s : s = Statement(o)
  OBVIOUS
<1>3. /\ v \in 1..LastVersion /\ i \in 1..Size[v] /\ s = Statements(v)[i]
      /\ \A k \in 1..(i - 1) : Kept(v, k)
  BY <1>1, <1>2, AtStatement
<1>4. /\ LastVersion = 8 /\ Size[v] \in Nat /\ op[o].version = v - 1 /\ v - 1 \in 0..LastVersion
      /\ Promised(v - 1) \subseteq schema
  <2>1. LastVersion = 8 /\ Size[v] \in Nat
    BY <1>3, Sizes
  <2>2. op[o].version \in 0..8 /\ Promised(op[o].version) \subseteq schema
    BY OpeningFields
  <2>3. op[o].version = v - 1
    BY <1>1, <2>2
  <2> QED BY <2>1, <2>2, <2>3
<1>5. Supported(v, i)
  BY <1>3, AllSupported
<1>6. CASE s.op = "table"
  BY <1>2, <1>6 DEF Tolerated, Answer
<1>7. CASE s.op = "column"
  <2>1. Step(o).allowDuplicateColumn
    BY <1>1, <1>3, <1>5, <1>7 DEF Supported, Step
  <2>2. PICK w \in 1..(v - 1) : \E k \in 1..Size[w] :
               Statements(w)[k].op = "table" /\ Statements(w)[k].table = s.table
    BY <1>3, <1>5, <1>7 DEF Supported
  <2>3. PICK k \in 1..Size[w] : Statements(w)[k].op = "table" /\ Statements(w)[k].table = s.table
    BY <2>2
  <2>4. w \in 1..LastVersion
    BY <1>3, <1>4
  <2>5. <<s.table, "id">> \in Created(w, k)
    BY <2>3, <2>4, TablePlace
  <2>6. <<s.table, "id">> \in SchemaOf(v - 1)
    BY <1>4, <2>5, InSchema
  <2>7. <<s.table, "id">> \notin AddedAfter(v - 1)
    BY <1>4, NotAdded
  <2>8. HasTable(s.table)
    BY <1>4, <2>6, <2>7 DEF Promised, HasTable
  <2>9. Answer(s) \in {"ok", "duplicateColumn"}
    BY <1>7, <2>8 DEF Answer
  <2> QED BY <1>2, <2>1, <2>9 DEF Tolerated
<1>8. CASE s.op = "index"
  <2>1. PICK k \in 1..(i - 1) : /\ Statements(v)[k].op # "index"
                                /\ Statements(v)[k].table = s.table
                                /\ s.columns \subseteq Statements(v)[k].columns
    BY <1>3, <1>5, <1>8 DEF Supported
  <2>2. {s.table} \X s.columns \subseteq Created(v, k) /\ Kept(v, k)
    BY <1>3, <2>1 DEF Created, Creates
  <2>3. CASE s.columns \subseteq Lasting
    <3>1. \A c \in s.columns : <<s.table, c>> \notin AddedAfter(v)
      <4>1. v \in 0..LastVersion
        BY <1>3, <1>4
      <4> QED BY <2>3, <4>1, NotAdded
    <3>2. {s.table} \X s.columns \subseteq schema
      BY <2>2, <3>1 DEF Kept
    <3> QED BY <1>2, <1>8, <3>2 DEF Answer, Tolerated
  <2>4. CASE v = LastVersion
    <3>1. \A x : x \notin AddedAfter(v)
      <4>1. (v + 1)..LastVersion = {} /\ v \in 0..LastVersion
        BY <1>4, <2>4
      <4> QED BY <4>1, InAdded
    <3>2. {s.table} \X s.columns \subseteq schema
      BY <2>2, <3>1 DEF Kept
    <3> QED BY <1>2, <1>8, <3>2 DEF Answer, Tolerated
  <2>5. CASE <<v, i>> = <<1, 8>>
    <3>1. Kept(1, 1) /\ 1 \in 1..LastVersion /\ 1 \in 1..Size[1]
      BY <1>3, <1>4, <2>5 DEF Size
    <3>2. Statements(1)[1].op = "table" /\ Statements(1)[1].table = "users"
      BY DEF Statements, sqlMigrations, Table
    <3>3. <<"users", "id">> \in Created(1, 1)
      BY <3>1, <3>2, TablePlace
    <3>4. <<"users", "id">> \notin AddedAfter(1)
      BY <1>4, NotAdded
    <3>5. GroupColumn \in schema
      BY <1>4, <2>5, <3>1, <3>3, <3>4 DEF Kept, HasTable, Upgradable, UsersHaveGroups
    <3>6. s.columns = {"group_id"} /\ s.table = "users"
      BY <1>3, <2>5 DEF Statements, sqlMigrations, Index
    <3> QED BY <1>2, <1>8, <3>5, <3>6 DEF Answer, Tolerated, GroupColumn
  <2> QED BY <1>3, <1>5, <1>8, <2>3, <2>4, <2>5 DEF Supported
<1> QED BY <1>5, <1>3, <1>6, <1>7, <1>8 DEF Supported

(* Executing a statement keeps users as it is, or creates it whole.        *)
LEMMA GroupsStay ==
  ASSUME UsersHaveGroups, NEW v \in 1..LastVersion, NEW i \in 1..Size[v],
         schema' \in {schema, Applied(Statements(v)[i])}
  PROVE  UsersHaveGroups'
<1> SUFFICES ASSUME HasTable("users")' PROVE GroupColumn \in schema'
  BY DEF UsersHaveGroups
<1>1. schema' \in {schema, schema \cup Created(v, i)} /\ schema \subseteq schema'
  BY DEF Applied, Created
<1>2. CASE HasTable("users")
  BY <1>1, <1>2 DEF UsersHaveGroups
<1>3. CASE ~HasTable("users")
  <2>1. <<"users", "id">> \in Created(v, i) /\ schema' = schema \cup Created(v, i)
    BY <1>1, <1>3 DEF HasTable
  <2>2. Place["users"] = <<v, i>>
    BY <2>1, CreatesTable
  <2>3. v = 1 /\ i = 1
    BY <2>2 DEF Place
  <2>4. GroupColumn \in Created(v, i)
    BY <2>3 DEF GroupColumn, Created, Creates, Statements, sqlMigrations, Table
  <2> QED BY <2>1, <2>4
<1> QED BY <1>2, <1>3

LEMMA UpgradableInit == Init /\ ~Groupless => Upgradable
<1> SUFFICES ASSUME Init, ~Groupless PROVE Upgradable
  OBVIOUS
<1>1. \A o \in Openers : op[o].pc = "off"
  BY DEF Init, Off
<1>2. version = 0 => schema = {} \/ GroupColumn \in schema
  BY DEF Groupless, GroupColumn
<1> QED BY <1>1, <1>2 DEF Upgradable, UsersHaveGroups, HasTable

LEMMA UpgradableNext == IInv /\ Upgradable /\ [Next]_vars => Upgradable'
<1> SUFFICES ASSUME IInv, Upgradable, [Next]_vars PROVE Upgradable'
  OBVIOUS
<1> DEFINE FromStart(t) == t.pc \in {"statement", "setVersion"} /\ t.version = 0
<1>1. ASSUME UNCHANGED <<schema, version, op>> PROVE Upgradable'
  BY <1>1 DEF Upgradable, UsersHaveGroups, HasTable
(* What the step of an opening has to show. *)
<1>2. ASSUME NEW o \in Openers, NEW t, op' = [op EXCEPT ![o] = t],
             FromStart(t) => version = 0 \/ FromStart(op[o]),
             version' = 0 => version = 0, UsersHaveGroups => UsersHaveGroups'
      PROVE  Upgradable'
  <2>1. op'[o] = t /\ \A p \in Openers : p # o => op'[p] = op[p]
    BY <1>2 DEF IInv, TypeOK
  <2> SUFFICES ASSUME version' = 0 \/ \E p \in Openers : FromStart(op'[p])
               PROVE  UsersHaveGroups
    BY <1>2 DEF Upgradable
  <2>2. version = 0 \/ \E p \in Openers : FromStart(op[p])
    BY <1>2, <2>1
  <2> QED BY <2>2 DEF Upgradable
<1>3. ASSUME NEW o \in Openers, NEW pc, op' = [op EXCEPT ![o].pc = pc],
             pc \notin {"statement", "setVersion"}, UNCHANGED <<schema, version>>
      PROVE  Upgradable'
  <2>1. PICK t : t = [op[o] EXCEPT !.pc = pc]
    OBVIOUS
  <2>2. op' = [op EXCEPT ![o] = t] /\ t.pc = pc
    BY <1>3, <2>1, OpeningFields DEF IInv, TypeOK, Opening
  <2> QED BY <1>2, <1>3, <2>2 DEF UsersHaveGroups, HasTable
<1>4. ASSUME NEW o \in Openers, NEW pc \in {"off", "version", "refused"},
             op' = [op EXCEPT ![o] = [Off EXCEPT !.pc = pc]], version' = version,
             UsersHaveGroups => UsersHaveGroups'
      PROVE  Upgradable'
  <2>1. PICK t : t = [Off EXCEPT !.pc = pc]
    OBVIOUS
  <2>2. t.pc = pc
    BY <2>1 DEF Off
  <2> QED BY <1>2, <1>4, <2>1, <2>2
<1>5. ASSUME NEW o \in Openers, op[o].pc = "statement",
             schema' \in {schema, Applied(Statement(o))}
      PROVE  UsersHaveGroups => UsersHaveGroups'
  BY <1>5, AtStatement, GroupsStay
<1>6. ASSUME NEW o \in Openers, Open(o) \/ Dies(o) PROVE Upgradable'
  <2>1. Off = [Off EXCEPT !.pc = "off"]
    BY DEF Off
  <2> QED BY <1>4, <1>6, <2>1 DEF Open, Dies, UsersHaveGroups, HasTable
<1>7. ASSUME NEW o \in Openers, schemaVersion(o) PROVE Upgradable'
  <2>1. PICK t : t = AfterStep(version)
    OBVIOUS
  <2>2. t.version = version
    BY <2>1, AfterStepFits DEF IInv, TypeOK
  <2> QED BY <1>2, <1>7, <2>1, <2>2 DEF schemaVersion, UsersHaveGroups, HasTable
<1>8. ASSUME NEW o \in Openers, setSchemaVersion(o) PROVE Upgradable'
  <2>1. PICK v : v = op[o].version + 1
    OBVIOUS
  <2>2. v \in Versions /\ v # 0
    BY <1>8, <2>1, OpeningFields, VersionsAre DEF setSchemaVersion, Migrated
  <2>3. PICK t : t = AfterStep(v)
    OBVIOUS
  <2>4. t.version # 0
    BY <2>2, <2>3, AfterStepFits
  <2> QED BY <1>2, <1>8, <2>1, <2>2, <2>3, <2>4 DEF setSchemaVersion, UsersHaveGroups, HasTable
<1>9. ASSUME NEW o \in Openers, Exec(o) PROVE Upgradable'
  <2>1. /\ op[o].pc = "statement" /\ version' = version
        /\ schema' \in {schema, Applied(Statement(o))}
        /\ op' = [op EXCEPT ![o] = NextStatement(o)]
    <3>1. op[o].pc = "statement"
      BY <1>9 DEF Exec
    <3>2. Tolerated(o, Answer(Statement(o)))
      BY <3>1, AnswersTolerated
    <3> QED BY <1>9, <3>1, <3>2 DEF Exec
  <2>2. PICK t : t = NextStatement(o)
    OBVIOUS
  <2>3. t.version = op[o].version
    BY <2>2, OpeningFields DEF NextStatement, Opening
  <2> QED BY <1>2, <1>5, <2>1, <2>2, <2>3
<1>10. ASSUME NEW o \in Openers, ExecFails(o) PROVE Upgradable'
  <2>1. /\ op[o].pc = "statement" /\ version' = version
        /\ schema' \in {schema, Applied(Statement(o))}
        /\ op' = [op EXCEPT ![o] = [Off EXCEPT !.pc = "refused"]]
    BY <1>10 DEF ExecFails, Tolerated
  <2> QED BY <1>4, <1>5, <2>1
<1>11. ASSUME NEW o \in Openers, EnsureGroup(o) \/ EnsureSettings(o) \/ EnsureUserGroups(o) \/ Ready(o)
       PROVE  Upgradable'
  <2>1. PICK pc \in {"settings", "groupless", "nameless", "ready"} :
          Goto(o, pc) /\ UNCHANGED <<schema, version>>
    BY <1>11 DEF EnsureGroup, EnsureSettings, EnsureUserGroups, Ready
  <2>2. op' = [op EXCEPT ![o].pc = pc]
    BY <2>1 DEF Goto
  <2> QED BY <1>3, <2>1, <2>2
<1>12. ASSUME NEW o \in Openers, SelectNameless(o) \/ \E u \in Users : NameUser(o, u)
       PROVE  Upgradable'
  <2>1. PICK nameless, pc :
          /\ op[o].pc \in {"nameless", "name"} /\ pc = "name"
          /\ op' = [op EXCEPT ![o] = [op[o] EXCEPT !.pc = pc, !.nameless = nameless]]
          /\ UNCHANGED <<schema, version>>
    <3>1. CASE SelectNameless(o)
      BY <3>1 DEF SelectNameless, IInv, TypeOK
    <3>2. ASSUME NEW u \in Users, NameUser(o, u)
          PROVE  op' = [op EXCEPT ![o] = [op[o] EXCEPT !.pc = "name",
                                                      !.nameless = op[o].nameless \ {u}]]
      BY <3>2, OpeningFields DEF NameUser, IInv, TypeOK, Opening
    <3> QED BY <1>12, <3>1, <3>2 DEF NameUser
  <2>2. PICK t : t = [op[o] EXCEPT !.pc = pc, !.nameless = nameless]
    OBVIOUS
  <2>3. t.pc = "name"
    BY <2>1, <2>2, OpeningFields DEF Opening
  <2> QED BY <1>2, <2>1, <2>2, <2>3 DEF UsersHaveGroups, HasTable
<1>13. CASE AdministratorActs
  BY <1>1, <1>13, AdministratorGains
<1>14. CASE UNCHANGED vars
  BY <1>1, <1>14 DEF vars
<1> QED BY <1>6, <1>7, <1>8, <1>9, <1>10, <1>11, <1>12, <1>13, <1>14 DEF Next, Progress

(* A database that does not lack the column of the first version's index   *)
(* is refused to no opening by an answer of its own: a table, a column or  *)
(* an index that is there already, or half of a step, stops no later       *)
(* start, whoever else is migrating it.                                    *)
THEOREM NoneIsRefusable == Spec /\ ~Groupless => []NoneRefusable
<1>1. IInv /\ Upgradable => NoneRefusable
  BY AnswersTolerated DEF NoneRefusable
<1> QED BY <1>1, Inductive, UpgradableInit, UpgradableNext, PTL DEF Spec

(* No opening is refused but in a step that is itself a failure.           *)
OnlyFailuresRefuse ==
  [][\A o \in Openers : op[o].pc # "refused" /\ op'[o].pc = "refused" => failures' > failures]_vars

(* So an opening of a database that is not Groupless is refused only in a  *)
(* step in which a statement failed for another reason or the process      *)
(* died: the safety core of StartsEnd, by which a later start succeeds.    *)
THEOREM RefusalsAreFailures == Spec /\ ~Groupless => OnlyFailuresRefuse
<1> DEFINE Refuses == \E o \in Openers : op[o].pc # "refused" /\ op'[o].pc = "refused"
<1>1. ASSUME IInv, NoneRefusable, [Next]_vars PROVE [Refuses => failures' > failures]_vars
  <2>1. failures \in Nat
    <3>1. failures \in 0..MaxFailures
      BY <1>1 DEF IInv, TypeOK
    <3> QED BY <3>1, SchemaMigrationAssumption
  <2>2. ASSUME NEW o \in Openers, ExecFails(o) \/ Dies(o) PROVE failures' > failures
    BY <2>1, <2>2 DEF ExecFails, Dies
  <2>3. ASSUME NEW o \in Openers, NEW t, op' = [op EXCEPT ![o] = t], t.pc # "refused"
        PROVE  ~Refuses
    BY <1>1, <2>3 DEF IInv, TypeOK
  <2>4. ASSUME NEW o \in Openers, Progress(o) PROVE ~Refuses
    <3>1. op[o] \in Opening /\ op \in [Openers -> Opening]
      BY <1>1, OpeningFields DEF IInv, TypeOK, Opening
    <3>2. ASSUME NEW pc, pc # "refused", op' = [op EXCEPT ![o].pc = pc] PROVE ~Refuses
      <4>1. PICK t : t = [op[o] EXCEPT !.pc = pc]
        OBVIOUS
      <4>2. op' = [op EXCEPT ![o] = t] /\ t.pc = pc
        BY <3>1, <3>2, <4>1 DEF Opening
      <4> QED BY <2>3, <3>2, <4>2
    <3>3. CASE Open(o)
      <4>1. PICK t : t = [Off EXCEPT !.pc = "version"]
        OBVIOUS
      <4>2. t.pc = "version"
        BY <4>1 DEF Off
      <4> QED BY <2>3, <3>3, <4>1, <4>2 DEF Open
    <3>4. CASE schemaVersion(o) \/ setSchemaVersion(o)
      <4>1. PICK v \in Versions : op' = [op EXCEPT ![o] = AfterStep(v)]
        <5>1. version \in Versions
          BY <1>1 DEF IInv, TypeOK
        <5>2. setSchemaVersion(o) => op[o].version + 1 \in Versions
          BY <1>1, OpeningFields, VersionsAre DEF setSchemaVersion, Migrated
        <5> QED BY <3>4, <5>1, <5>2 DEF schemaVersion, setSchemaVersion
      <4>2. AfterStep(v).pc # "refused"
        BY AfterStepFits
      <4> QED BY <2>3, <4>1, <4>2
    <3>5. CASE Exec(o)
      <4>1. op' = [op EXCEPT ![o] = NextStatement(o)] /\ op[o].pc = "statement"
        BY <1>1, <3>5 DEF Exec, NoneRefusable
      <4>2. PICK t : t = NextStatement(o)
        OBVIOUS
      <4>3. t.pc \in {"statement", "setVersion"}
        BY <3>1, <4>1, <4>2 DEF NextStatement, Opening
      <4> QED BY <2>3, <4>1, <4>2, <4>3
    <3>6. CASE EnsureGroup(o) \/ EnsureSettings(o) \/ EnsureUserGroups(o) \/ Ready(o)
      BY <3>2, <3>6 DEF EnsureGroup, EnsureSettings, EnsureUserGroups, Ready, Goto
    <3>7. CASE SelectNameless(o)
      <4>1. PICK t : t = [op[o] EXCEPT !.pc = "name",
                                       !.nameless = {u \in Users : rows.name[u] = ""}]
        OBVIOUS
      <4>2. op' = [op EXCEPT ![o] = t] /\ t.pc = "name"
        BY <3>1, <3>7, <4>1 DEF SelectNameless, Opening
      <4> QED BY <2>3, <4>2
    <3>8. ASSUME NEW u \in Users, NameUser(o, u) PROVE ~Refuses
      <4>1. PICK t : t = [op[o] EXCEPT !.nameless = op[o].nameless \ {u}]
        OBVIOUS
      <4>2. op' = [op EXCEPT ![o] = t] /\ t.pc = "name"
        BY <3>1, <3>8, <4>1 DEF NameUser, Opening
      <4> QED BY <2>3, <4>2
    <3> QED BY <2>4, <3>3, <3>4, <3>5, <3>6, <3>7, <3>8 DEF Progress
  <2>5. ASSUME op' = op PROVE ~Refuses
    BY <2>5
  <2>6. ASSUME AdministratorActs PROVE ~Refuses
    BY <1>1, <2>5, <2>6, AdministratorGains
  <2> QED BY <1>1, <2>2, <2>4, <2>6 DEF Next
<1>2. [Refuses => failures' > failures]_vars =>
        [\A o \in Openers : op[o].pc # "refused" /\ op'[o].pc = "refused"
                            => failures' > failures]_vars
  OBVIOUS
<1> QED BY <1>1, <1>2, Inductive, NoneIsRefusable, PTL DEF Spec, OnlyFailuresRefuse

-----------------------------------------------------------------------------
(* The exception: a database whose users table lacks group_id and that has *)
(* no version yet.  No step but the second would add the column, and no    *)
(* opening gets past the index of the first.                               *)
AtFirstStep(t) ==
  /\ t.pc \in {"off", "version", "statement", "refused"}
  /\ t.version = 0 /\ t.statement \in 1..8

Stuck ==
  /\ version = 0 /\ HasTable("users") /\ GroupColumn \notin schema
  /\ \A o \in Openers : AtFirstStep(op[o])

LEMMA StuckInit == Init /\ Groupless => Stuck
<1> SUFFICES ASSUME Init, Groupless PROVE Stuck
  OBVIOUS
<1>1. version = 0 /\ GroupColumn \notin schema
  BY DEF Groupless, GroupColumn
<1>2. \A o \in Openers : AtFirstStep(op[o])
  BY DEF Init, Off, AtFirstStep
<1>3. LastVersion = 8 /\ 1 \in 0..LastVersion /\ 1 \in 1..LastVersion
  BY Sizes
<1>4. PICK lack \in Lacks : schema = SchemaOf(1) \ lack
  <2>1. ~Fresh
    BY DEF Fresh, Groupless
  <2>2. version \notin 1..LastVersion
    BY <1>1, <1>3
  <2> QED BY <2>1, <2>2 DEF Init, Older
<1>5. 1 \in 1..Size[1] /\ 1 \in 1..1
  BY DEF Size
<1>6. Statements(1)[1].op = "table" /\ Statements(1)[1].table = "users"
  BY DEF Statements, sqlMigrations, Table
<1>7. <<"users", "id">> \in Created(1, 1)
  BY <1>3, <1>5, <1>6, TablePlace
<1>8. <<"users", "id">> \in SchemaOf(1)
  BY <1>3, <1>5, <1>7, InSchema
<1>9. <<"users", "id">> \notin AddedAfter(1)
  BY <1>3, NotAdded
<1>10. HasTable("users")
  BY <1>4, <1>8, <1>9, LacksAssumption DEF HasTable
<1> QED BY <1>1, <1>2, <1>10 DEF Stuck

(* What the first step's statements do to such a database.                 *)
LEMMA FirstStepStuck ==
  ASSUME Stuck, NEW i \in 1..8
  PROVE  /\ GroupColumn \notin Applied(Statements(1)[i])
         /\ schema \subseteq Applied(Statements(1)[i])
         /\ i = 8 => Answer(Statements(1)[i]) = "noColumn"
<1>1. i \in {1, 2, 3, 4, 5, 6, 7, 8}
  OBVIOUS
<1>2. CASE i = 1
  <2>1. Statements(1)[1].op = "table" /\ Statements(1)[1].table = "users"
    BY DEF Statements, sqlMigrations, Table
  <2> QED BY <1>2, <2>1 DEF Applied, Stuck
<1>3. CASE i \in {2, 3, 4, 5, 6}
  <2>1. Statements(1)[i].op = "table" /\ Statements(1)[i].table # "users"
    BY <1>3 DEF Statements, sqlMigrations, Table
  <2>2. GroupColumn \notin Creates(Statements(1)[i])
    BY <2>1 DEF Creates, GroupColumn
  <2> QED BY <1>3, <2>2 DEF Applied, Stuck
<1>4. CASE i \in {7, 8}
  <2>1. Statements(1)[i].op = "index"
    BY <1>4 DEF Statements, sqlMigrations, Index
  <2>2. Applied(Statements(1)[i]) = schema
    BY <2>1 DEF Applied, Creates
  <2>3. Statements(1)[8].table = "users" /\ Statements(1)[8].columns = {"group_id"}
    BY DEF Statements, sqlMigrations, Index
  <2> QED BY <1>4, <2>1, <2>2, <2>3 DEF Stuck, Answer, GroupColumn
<1> QED BY <1>1, <1>2, <1>3, <1>4

LEMMA StuckNext == IInv /\ Stuck /\ [Next]_vars => Stuck'
<1> SUFFICES ASSUME IInv, Stuck, [Next]_vars PROVE Stuck'
  OBVIOUS
<1>1. ASSUME NEW o \in Openers, NEW t, AtFirstStep(t), op' = [op EXCEPT ![o] = t],
             version' = version, schema \subseteq schema', GroupColumn \notin schema'
      PROVE  Stuck'
  <2>1. op'[o] = t /\ \A p \in Openers : p # o => op'[p] = op[p]
    BY <1>1 DEF IInv, TypeOK
  <2>2. \A p \in Openers : AtFirstStep(op'[p])
    BY <1>1, <2>1 DEF Stuck
  <2> QED BY <1>1, <2>2 DEF Stuck, HasTable
<1>2. ASSUME NEW o \in Openers, NEW pc \in {"off", "version", "refused", "statement"},
             op' = [op EXCEPT ![o] = [Off EXCEPT !.pc = pc]],
             version' = version, schema \subseteq schema', GroupColumn \notin schema'
      PROVE  Stuck'
  <2>1. PICK t : t = [Off EXCEPT !.pc = pc]
    OBVIOUS
  <2>2. AtFirstStep(t)
    BY <2>1 DEF Off, AtFirstStep
  <2> QED BY <1>1, <1>2, <2>1, <2>2
<1>3. ASSUME NEW o \in Openers, Open(o) \/ Dies(o) PROVE Stuck'
  <2>1. Off = [Off EXCEPT !.pc = "off"]
    BY DEF Off
  <2> QED BY <1>2, <1>3, <2>1 DEF Open, Dies, Stuck
<1>4. ASSUME NEW o \in Openers, schemaVersion(o) PROVE Stuck'
  <2>1. PICK t : t = AfterStep(version)
    OBVIOUS
  <2>2. version = 0 /\ version \in Versions /\ version < LastVersion
    BY VersionsAre DEF Stuck
  <2>3. t.version = 0 /\ t.pc = "statement" /\ t.statement = 1
    BY <2>1, <2>2, AfterStepFits
  <2>4. AtFirstStep(t)
    BY <2>3 DEF AtFirstStep
  <2> QED BY <1>1, <1>4, <2>1, <2>4 DEF schemaVersion, Stuck
<1>5. ASSUME NEW o \in Openers, Exec(o) \/ ExecFails(o) PROVE Stuck'
  <2>1. PICK i : i = op[o].statement
    OBVIOUS
  <2>2. /\ i \in 1..8 /\ op[o].version = 0 /\ op[o].pc = "statement"
        /\ AtFirstStep(op[o]) /\ op[o] \in Opening
    BY <1>5, <2>1, OpeningFields DEF Stuck, AtFirstStep, Exec, ExecFails
  <2>3. /\ Statement(o) = Statements(1)[i] /\ Len(Step(o).statements) = Size[1]
    <3>1. op[o].version + 1 = 1
      BY <2>2
    <3> QED BY <2>1, <2>2, <3>1, AtStatement
  <2>4. schema' \in {schema, Applied(Statements(1)[i])} /\ version' = version
    BY <1>5, <2>3 DEF Exec, ExecFails
  <2>5. schema \subseteq schema' /\ GroupColumn \notin schema'
    BY <2>2, <2>4, FirstStepStuck DEF Stuck
  <2>6. CASE op' = [op EXCEPT ![o] = [Off EXCEPT !.pc = "refused"]]
    BY <1>2, <2>4, <2>5, <2>6
  <2>7. CASE op' # [op EXCEPT ![o] = [Off EXCEPT !.pc = "refused"]]
    <3>1. Tolerated(o, Answer(Statement(o))) /\ op' = [op EXCEPT ![o] = NextStatement(o)]
      BY <1>5, <2>7 DEF Exec, ExecFails, Tolerated
    <3>2. i # 8
      BY <2>2, <2>3, <3>1, FirstStepStuck DEF Tolerated
    <3>3. PICK t : t = NextStatement(o)
      OBVIOUS
    <3>4. t = [op[o] EXCEPT !.statement = i + 1]
      BY <2>1, <2>2, <2>3, <3>3 DEF NextStatement, Size
    <3>5. t.pc = "statement" /\ t.version = 0 /\ t.statement = i + 1
      BY <2>2, <3>4 DEF Opening
    <3>6. AtFirstStep(t)
      BY <2>2, <3>2, <3>5 DEF AtFirstStep
    <3> QED BY <1>1, <2>4, <2>5, <3>1, <3>3, <3>6
  <2> QED BY <2>6, <2>7
<1>6. ASSUME NEW o \in Openers, setSchemaVersion(o) \/ EnsureGroup(o) \/ EnsureSettings(o)
                                \/ EnsureUserGroups(o) \/ SelectNameless(o) \/ Ready(o)
                                \/ \E u \in Users : NameUser(o, u)
      PROVE  FALSE
  BY <1>6 DEF Stuck, AtFirstStep, setSchemaVersion, EnsureGroup, EnsureSettings, EnsureUserGroups,
              SelectNameless, Ready, NameUser
<1>7. CASE AdministratorActs
  BY <1>7, AdministratorGains DEF Stuck, HasTable
<1>8. CASE UNCHANGED vars
  BY <1>8 DEF vars, Stuck, HasTable
<1> QED BY <1>3, <1>4, <1>5, <1>6, <1>7, <1>8 DEF Next, Progress

(* Such a database is refused for ever: no opening of it ever gets to      *)
(* record a version, let alone to be ready, however often it is repeated.  *)
(* The hypothesis Groupless that StartsEnd makes is needed.                *)
THEOREM GrouplessNeverReady ==
  Spec /\ Groupless => [](version = 0 /\ \A o \in Openers : op[o].pc # "ready")
<1>1. Stuck => version = 0 /\ \A o \in Openers : op[o].pc # "ready"
  BY DEF Stuck, AtFirstStep
<1> QED BY <1>1, Inductive, StuckInit, StuckNext, PTL DEF Spec

=============================================================================
