---------------------------- MODULE SchemaMigration ----------------------------
(***************************************************************************)
(* internal/store/sql_store.go, migrate: every opening of an SQL store     *)
(* (a start of the server, a test of a configuration, the candidate of a   *)
(* switch) brings the database to the last version of sqlMigrations        *)
(* (migrations.go) and then fills in defaults.  No transaction spans two   *)
(* statements and no lock keeps two openings of a database apart, so one   *)
(* action is one statement; each of them may fail, with or without its     *)
(* effect, and the process may die between any two.                        *)
(*                                                                         *)
(* Columns that the statements treat alike are one column here (the three  *)
(* limits of a user, the JSON of the requests, the fields of a theme).     *)
(***************************************************************************)
EXTENDS Integers, Sequences, Functions

CONSTANTS
  Openers,      \* the openings of this database: servers, tests, switches
  Users,        \* the rows of an older database's users table
  Lacks,        \* what an older database's tables may lack: sets of <<table, column>>
  MaxFailures   \* bound: statements that fail and processes that die

ASSUME SchemaMigrationAssumption == MaxFailures \in Nat

-----------------------------------------------------------------------------
(* migrations.go                                                           *)

Table(table, columns) == [op |-> "table", table |-> table, columns |-> columns \cup {"id"}]
Column(table, column) == [op |-> "column", table |-> table, columns |-> {column}]
Index(table, column)  == [op |-> "index", table |-> table, columns |-> {column}]

sqlMigrations ==
  << [allowDuplicateColumn |-> FALSE, statements |->
       << Table("users", {"username", "group_id", "limits"}),
          Table("sessions", {"token_hash"}),
          Table("prompt_settings", {"request_json"}),
          Table("system_settings", {"default_slide_concurrency_limit"}),
          Table("user_groups", {"slide_concurrency_limit"}),
          Table("daily_usage", {"usage_date"}),
          Index("sessions", "token_hash"),
          Index("users", "group_id"),
          Index("daily_usage", "usage_date") >>],
     [allowDuplicateColumn |-> TRUE, statements |->
       << Column("users", "username"),
          Column("users", "group_id"),
          Column("users", "limits"),
          Column("user_groups", "slide_concurrency_limit"),
          Column("system_settings", "default_slide_concurrency_limit"),
          Column("prompt_settings", "request_json") >>],
     [allowDuplicateColumn |-> TRUE, statements |->
       << Table("llm_providers", {}),
          Column("prompt_settings", "provider") >>],
     [allowDuplicateColumn |-> FALSE, statements |->
       << Table("generation_jobs", {"user_id", "status"}),
          Index("generation_jobs", "user_id"),
          Index("generation_jobs", "status") >>],
     [allowDuplicateColumn |-> TRUE, statements |->
       << Column("llm_providers", "proxy") >>],
     [allowDuplicateColumn |-> TRUE, statements |->
       << Column("prompt_settings", "architect_workflow_json"),
          Table("uploads", {"user_id"}),
          Index("uploads", "user_id") >>],
     [allowDuplicateColumn |-> TRUE, statements |->
       << Column("prompt_settings", "theme") >>],
     [allowDuplicateColumn |-> TRUE, statements |->
       << Column("generation_jobs", "parent_job_id"),
          Column("generation_jobs", "label"),
          Index("generation_jobs", "parent_job_id") >>] >>

LastVersion     == Len(sqlMigrations)
Versions == 0..LastVersion

(* What a database has that went through the steps 1..version. *)
Creates(statement) ==
  IF statement.op = "index" THEN {} ELSE {statement.table} \X statement.columns
SchemaOf(version) ==
  UNION {Creates(s) : s \in UNION {Range(sqlMigrations[v].statements) : v \in 1..version}}

(* The columns that the steps after v add to tables. *)
AddedAfter(v) ==
  UNION {Creates(s) : s \in {t \in UNION {Range(sqlMigrations[w].statements) : w \in v + 1..LastVersion} :
                               t.op = "column"}}

(* An older table lacks only what a later step adds.                       *)
ASSUME LacksAssumption == \A lack \in Lacks : lack \subseteq AddedAfter(1)

-----------------------------------------------------------------------------
VARIABLES
  schema,    \* the <<table, column>> pairs of the database
  version,   \* the row of schema_version, 0 when there is none
  rows,      \* the built-in group, the settings' default group, each user's name and group
  op,        \* each opening: its locals
  failures

vars == <<schema, version, rows, op, failures>>

HasTable(table) == <<table, "id">> \in schema

Off == [pc |-> "off", version |-> 0, statement |-> 1, nameless |-> {}]

PCs == {"off", "version", "statement", "setVersion", "group", "settings", "groupless",
        "nameless", "name", "ready", "refused"}

TypeOK ==
  /\ schema \subseteq SchemaOf(LastVersion)
  /\ version \in Versions
  /\ rows \in [group : BOOLEAN, settings : {"none", "builtin", "other"},
               name : [Users -> {"", "derived", "own"}], member : [Users -> {"", "builtin", "other"}]]
  /\ op \in [Openers -> [pc : PCs, version : Versions, statement : Nat \ {0},
                         nameless : SUBSET Users]]
  /\ failures \in 0..MaxFailures

(* The settings and the users name the group whose id is 'default', which  *)
(* every start sees to (builtin), only while it has a row.                 *)
GroupsThere ==
  ~rows.group => rows.settings # "builtin" /\ \A u \in Users : rows.member[u] # "builtin"

(* A new database (the rows of Users are not there yet and lack nothing);  *)
(* or one an older release left: of the first version's tables, some       *)
(* lacking columns, from before schema_version was kept; or of a later     *)
(* version; with the built-in group or after its deletion.  A column that  *)
(* is not there counts as what ADD COLUMN fills it with.                   *)
Fresh == /\ schema = {} /\ version = 0
         /\ rows = [group |-> FALSE, settings |-> "none",
                    name |-> [u \in Users |-> "own"], member |-> [u \in Users |-> "other"]]

Older == /\ \/ version \in {0, 1} /\ \E lack \in Lacks : schema = SchemaOf(1) \ lack
            \/ version \in 1..LastVersion /\ schema = SchemaOf(version)
         /\ rows \in [group : BOOLEAN, settings : {"none", "builtin", "other"},
                      name : [Users -> {"", "own"}], member : [Users -> {"", "builtin", "other"}]]
         /\ GroupsThere
         /\ <<"users", "username">> \in schema \/ \A u \in Users : rows.name[u] = ""
         /\ <<"users", "group_id">> \in schema \/ \A u \in Users : rows.member[u] = "builtin"

Init ==
  /\ Fresh \/ Older
  /\ op = [o \in Openers |-> Off]
  /\ failures = 0

-----------------------------------------------------------------------------
(* migrate                                                                 *)

Goto(o, pc) == op' = [op EXCEPT ![o].pc = pc]

(* CREATE TABLE IF NOT EXISTS schema_version. *)
Open(o) ==
  /\ op[o].pc \in {"off", "refused"}
  /\ op' = [op EXCEPT ![o] = [Off EXCEPT !.pc = "version"]]
  /\ UNCHANGED <<schema, version, rows, failures>>

(* Where the loop goes once it is past the steps up to v: it skips every    *)
(* step that is not later than the version. *)
AfterStep(v) ==
  [Off EXCEPT !.pc = IF v < LastVersion THEN "statement" ELSE "group", !.version = v]

(* Mutant: defaults only after a migration. *)
SchemaVersionNoDefaults(o) ==
  /\ op[o].pc = "version"
  /\ op' = [op EXCEPT ![o] = IF version = LastVersion THEN [AfterStep(version) EXCEPT !.pc = "ready"]
                             ELSE AfterStep(version)]
  /\ UNCHANGED <<schema, version, rows, failures>>

schemaVersion(o) ==
  /\ op[o].pc = "version"
  /\ op' = [op EXCEPT ![o] = AfterStep(version)]
  /\ UNCHANGED <<schema, version, rows, failures>>

Step(o)      == sqlMigrations[op[o].version + 1]
Statement(o) == Step(o).statements[op[o].statement]

(* What the database answers. *)
Answer(s) ==
  IF s.op = "table" THEN "ok"
  ELSE IF s.op = "index"
  THEN IF {s.table} \X s.columns \subseteq schema THEN "ok" ELSE "noColumn"
  ELSE IF ~HasTable(s.table) THEN "noTable"
  ELSE IF Creates(s) \subseteq schema THEN "duplicateColumn" ELSE "ok"

(* Mutant: a step that may meet duplicate columns skips every error. *)
TolerateAll(o, answer) == answer = "ok" \/ Step(o).allowDuplicateColumn

(* Mutant: no step may meet duplicate columns. *)
TolerateNone(o, answer) == answer = "ok"

(* isDuplicateColumnErr, where the step allows it. *)
Tolerated(o, answer) ==
  \/ answer = "ok"
  \/ answer = "duplicateColumn" /\ Step(o).allowDuplicateColumn

Applied(s) ==
  IF s.op = "table" /\ HasTable(s.table) THEN schema ELSE schema \cup Creates(s)

NextStatement(o) ==
  IF op[o].statement < Len(Step(o).statements)
  THEN [op[o] EXCEPT !.statement = @ + 1]
  ELSE [op[o] EXCEPT !.pc = "setVersion"]

Exec(o) ==
  /\ op[o].pc = "statement"
  /\ LET answer == Answer(Statement(o)) IN
       /\ schema' = IF answer = "ok" THEN Applied(Statement(o)) ELSE schema
       /\ op' = [op EXCEPT ![o] = IF Tolerated(o, answer) THEN NextStatement(o)
                                  ELSE [Off EXCEPT !.pc = "refused"]]
  /\ UNCHANGED <<version, rows, failures>>

(* A statement fails for another reason: the connection, a locked file; it *)
(* may have been executed all the same. *)
ExecFails(o) ==
  /\ op[o].pc = "statement" /\ failures < MaxFailures
  /\ failures' = failures + 1
  /\ schema' \in {schema} \cup
       (IF Answer(Statement(o)) = "ok" THEN {Applied(Statement(o))} ELSE {})
  /\ op' = [op EXCEPT ![o] = IF Tolerated(o, "failed") THEN NextStatement(o)
                             ELSE [Off EXCEPT !.pc = "refused"]]
  /\ UNCHANGED <<version, rows>>

setSchemaVersion(o) ==
  /\ op[o].pc = "setVersion"
  /\ version' = op[o].version + 1
  /\ op' = [op EXCEPT ![o] = AfterStep(op[o].version + 1)]
  /\ UNCHANGED <<schema, rows, failures>>

-----------------------------------------------------------------------------
(* ensureDefaults                                                          *)

(* INSERT ... ON CONFLICT DO NOTHING, twice: the settings that are new     *)
(* make the built-in group the default.                                    *)
EnsureGroup(o) ==
  /\ op[o].pc = "group"
  /\ rows' = [rows EXCEPT !.group = TRUE]
  /\ Goto(o, "settings")
  /\ UNCHANGED <<schema, version, failures>>

EnsureSettings(o) ==
  /\ op[o].pc = "settings"
  /\ rows' = [rows EXCEPT !.settings = IF @ = "none" THEN "builtin" ELSE @]
  /\ Goto(o, "groupless")
  /\ UNCHANGED <<schema, version, failures>>

EnsureUserGroups(o) ==
  /\ op[o].pc = "groupless"
  /\ rows' = [rows EXCEPT !.member = [u \in Users |-> IF @[u] = "" THEN "builtin" ELSE @[u]]]
  /\ Goto(o, "nameless")
  /\ UNCHANGED <<schema, version, failures>>

SelectNameless(o) ==
  /\ op[o].pc = "nameless"
  /\ op' = [op EXCEPT ![o].pc = "name", ![o].nameless = {u \in Users : rows.name[u] = ""}]
  /\ UNCHANGED <<schema, version, rows, failures>>

NameUser(o, u) ==
  /\ op[o].pc = "name" /\ u \in op[o].nameless
  /\ rows' = [rows EXCEPT !.name[u] = "derived"]
  /\ op' = [op EXCEPT ![o].nameless = @ \ {u}]
  /\ UNCHANGED <<schema, version, failures>>

Ready(o) ==
  /\ op[o].pc = "name" /\ op[o].nameless = {}
  /\ Goto(o, "ready")
  /\ UNCHANGED <<schema, version, rows, failures>>

-----------------------------------------------------------------------------
(* The process dies, or a statement outside the steps fails: NewSQLStore   *)
(* closes the connection and returns the error.                            *)
Dies(o) ==
  /\ op[o].pc # "off" /\ failures < MaxFailures
  /\ failures' = failures + 1
  /\ op' = [op EXCEPT ![o] = Off]
  /\ UNCHANGED <<schema, version, rows>>

(* Administrators at work in a server that is ready, one at a time (the    *)
(* overlaps of their operations are in Accounts). *)
Administer == \E o \in Openers : op[o].pc = "ready"

GroupExists(g) == g = "builtin" => rows.group

SetDefault(g) ==
  /\ Administer /\ GroupExists(g)
  /\ rows' = [rows EXCEPT !.settings = g]
  /\ UNCHANGED <<schema, version, op, failures>>

MoveUser(u, g) ==
  /\ Administer /\ GroupExists(g)
  /\ rows' = [rows EXCEPT !.member[u] = g]
  /\ UNCHANGED <<schema, version, op, failures>>

(* Mutant: the users of the group are not counted. *)
DeleteGroupUncounted ==
  /\ Administer /\ rows.group /\ rows.settings # "builtin"
  /\ rows' = [rows EXCEPT !.group = FALSE]
  /\ UNCHANGED <<schema, version, op, failures>>

(* The built-in group goes like any other, once it is not the default and  *)
(* no user is in it; the next start makes it anew.                         *)
DeleteGroup ==
  /\ Administer /\ rows.group /\ rows.settings # "builtin"
  /\ \A u \in Users : rows.member[u] # "builtin"
  /\ rows' = [rows EXCEPT !.group = FALSE]
  /\ UNCHANGED <<schema, version, op, failures>>

RenameUser(u) ==
  /\ Administer
  /\ rows' = [rows EXCEPT !.name[u] = "own"]
  /\ UNCHANGED <<schema, version, op, failures>>

AdministratorActs ==
  \/ DeleteGroup
  \/ \E g \in {"builtin", "other"} : SetDefault(g) \/ \E u \in Users : MoveUser(u, g)
  \/ \E u \in Users : RenameUser(u)

Progress(o) ==
  \/ Open(o) \/ schemaVersion(o) \/ Exec(o) \/ setSchemaVersion(o)
  \/ EnsureGroup(o) \/ EnsureSettings(o) \/ EnsureUserGroups(o)
  \/ SelectNameless(o) \/ (\E u \in Users : NameUser(o, u)) \/ Ready(o)

Next ==
  \/ \E o \in Openers : Progress(o) \/ ExecFails(o) \/ Dies(o)
  \/ AdministratorActs

Spec == Init /\ [][Next]_vars

(* An opening under way goes on, and a server that died or was refused is  *)
(* started again.                                                          *)
FairSpec == Spec /\ \A o \in Openers : WF_vars(Progress(o))

-----------------------------------------------------------------------------
(* Properties.                                                             *)

(* schema_version never claims more than the database has, although it is  *)
(* written after the statements and outside of any transaction, and a      *)
(* slower opening may put it back: what a step it skips creates is there,  *)
(* or is still added by a step that it does not skip.                      *)
Promised(v) == SchemaOf(v) \ AddedAfter(v)

VersionHonest ==
  /\ Promised(version) \subseteq schema
  /\ \A o \in Openers : Promised(op[o].version) \subseteq schema

(* A store that was opened has every column its queries name, the settings *)
(* and a name and a group for every user, whatever died before and whoever *)
(* else is opening it or at work in it.                                    *)
ReadyIsComplete ==
  \A o \in Openers : op[o].pc = "ready" =>
    /\ SchemaOf(LastVersion) \subseteq schema
    /\ rows.settings # "none"
    /\ \A u \in Users : rows.member[u] # "" /\ rows.name[u] # ""

(* GroupsThere, stated before Init, holds of every state: the settings and *)
(* the group of the users are written in statements of their own, after    *)
(* the statement that saw to the group; an administrator of another server *)
(* may have made another group the default and deleted this one in between.*)

(* The first version's index on users(group_id) is created before the      *)
(* second version adds that column: such a database is refused for ever    *)
(* (migrations.go:12 wants it upgraded).                                   *)
Groupless == version = 0 /\ schema # {} /\ <<"users", "group_id">> \notin schema

(* Every other database is ready in the end: what failed half-way is       *)
(* repeated by the next start.                                             *)
StartsEnd == ~Groupless => <>[](\A o \in Openers : op[o].pc = "ready")

=============================================================================
