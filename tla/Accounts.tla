------------------------------- MODULE Accounts -------------------------------
(***************************************************************************)
(* Users, groups, sessions and system settings: the handlers of            *)
(* internal/httpapi (auth_handlers, admin_users, admin_settings_handlers,  *)
(* middleware) over the two kinds of store.  A method of the JSON store    *)
(* holds its mutex and is one action; the methods of the SQL stores are    *)
(* several statements outside a transaction, and one statement is one      *)
(* action.  A handler that calls the store several times is as many        *)
(* actions on every store.                                                 *)
(*                                                                         *)
(* Ids are drawn at random and never again, so an id of a user or a group  *)
(* is fresh, here or gone.  A user has at most one session.  Names, emails *)
(* and passwords are not kept: a taken email is one of the ways to fail.   *)
(* Nor are the is_default flags of the groups, which only the pages show.  *)
(***************************************************************************)
EXTENDS Naturals, FiniteSets

CONSTANTS
  Ids,        \* user ids
  Groups,     \* group ids
  Default,    \* the built-in group
  Requests,   \* requests served at the same time
  Backends,   \* the kinds of store to look at
  Nobody, NoGroup

ASSUME AccountsAssumption ==
  /\ Default \in Groups
  /\ Nobody \notin Ids /\ NoGroup \notin Groups
  /\ Backends \subseteq {"json", "sql"}

VARIABLES
  backend,    \* the kind of store
  users,      \* the users table
  groups,     \* the state of each group
  settings,   \* system_settings: the default group, is registration open?
  sessions,   \* the users with a session that has not expired
  req,        \* the requests' local state
  raced       \* history: which kinds of requests have overlapped

vars == <<backend, users, groups, settings, sessions, req, raced>>

-----------------------------------------------------------------------------
Roles    == {"admin", "user"}
States   == {"fresh", "here", "gone"}
User     == [state : States, role : Roles, disabled : BOOLEAN, group : Groups \cup {NoGroup}]
NoUser   == [state |-> "fresh", role |-> "user", disabled |-> FALSE, group |-> NoGroup]

Fields   == {"role", "disabled", "group"}
AdminOps == {"createUser", "updateUser", "deleteUser", "createGroup", "updateGroup",
             "deleteGroup", "saveSettings"}
Ops      == {"none", "auth", "login", "setup", "register"} \cup AdminOps
PCs      == {"idle", "user", "settings", "create", "lookup", "insert", "newSession",
             "target", "count", "delete", "deleteRow", "update", "updateRow", "addGroup",
             "editGroup", "dropGroup", "countUsers", "dropRow", "save", "readSettings",
             "checkGroup", "upsert"}

(* me: who asks; id: the user it is about; group and flag: the values it   *)
(* holds from one statement to the next.                                   *)
Request  == [op : Ops, pc : PCs, me : Ids \cup {Nobody}, id : Ids \cup {Nobody},
             group : Groups \cup {NoGroup}, flag : BOOLEAN]
Idle     == [op |-> "none", pc |-> "idle", me |-> Nobody, id |-> Nobody, group |-> NoGroup,
             flag |-> FALSE]

Here(u)         == users[u].state = "here"
Admin(u)        == Here(u) /\ users[u].role = "admin"
EnabledAdmin(u) == Admin(u) /\ ~users[u].disabled
Exists(g)       == g \in Groups /\ groups[g] = "here"

(* CountAdmins counts the enabled ones.  NeedsSetup looks for any          *)
(* administrator in the JSON store, for an enabled one in the SQL stores.  *)
CountAboveOne   == \E u, v \in Ids : u # v /\ EnabledAdmin(u) /\ EnabledAdmin(v)
NeedsSetupJSON  == \A u \in Ids : ~Admin(u)
NeedsSetupSQL   == \A u \in Ids : ~EnabledAdmin(u)
NeedsSetup      == IF backend = "json" THEN NeedsSetupJSON ELSE NeedsSetupSQL

Admitted(r) == req[r].op \in AdminOps

(* What a request that starts op overlaps with.                            *)
Working(r) == req[r].op \notin {"none", "auth"}
Deletions  == {"deleteUser", "deleteGroup"}
Overlaps(r, op) ==
  {k \in {"admin", "setup", "deletion"} : \E q \in Requests \ {r} :
     \/ k = "admin" /\ op \in AdminOps /\ Admitted(q)
     \/ k = "setup" /\ op = "setup" /\ req[q].op = "setup"
     \/ k = "deletion" /\ Working(q) /\ (op \in Deletions \/ req[q].op \in Deletions)}

TypeOK ==
  /\ backend \in Backends
  /\ users \in [Ids -> User]
  /\ groups \in [Groups -> States]
  /\ settings \in [group : Groups, registration : BOOLEAN]
  /\ sessions \subseteq Ids
  /\ req \in [Requests -> Request]
  /\ raced \subseteq {"admin", "setup", "deletion"}

(* A new store has the built-in group and the default settings.            *)
Init ==
  /\ backend \in Backends
  /\ users = [u \in Ids |-> NoUser]
  /\ groups = [g \in Groups |-> IF g = Default THEN "here" ELSE "fresh"]
  /\ settings = [group |-> Default, registration |-> TRUE]
  /\ sessions = {}
  /\ req = [r \in Requests |-> Idle]
  /\ raced = {}

Go(r, pc) == req' = [req EXCEPT ![r].pc = pc]
Done(r)   == req' = [req EXCEPT ![r] = Idle]

-----------------------------------------------------------------------------
(* Requests from outside.                                                  *)

(* Mutant: the set-up stays open. *)
SetupAlwaysOpen(r) ==
  /\ req[r].pc = "idle"
  /\ req' = [req EXCEPT ![r] = [Idle EXCEPT !.op = "setup", !.pc = "create"]]
  /\ raced' = raced \cup Overlaps(r, "setup")
  /\ UNCHANGED <<backend, users, groups, settings, sessions>>

handleSetupAdmin(r) ==
  /\ req[r].pc = "idle"
  /\ NeedsSetup
  /\ req' = [req EXCEPT ![r] = [Idle EXCEPT !.op = "setup", !.pc = "create"]]
  /\ raced' = raced \cup Overlaps(r, "setup")
  /\ UNCHANGED <<backend, users, groups, settings, sessions>>

handleRegister(r) ==
  /\ req[r].pc = "idle"
  /\ ~NeedsSetup
  /\ req' = [req EXCEPT ![r] = [Idle EXCEPT !.op = "register", !.pc = "settings"]]
  /\ raced' = raced \cup Overlaps(r, "register")
  /\ UNCHANGED <<backend, users, groups, settings, sessions>>

RegisterSettings(r) ==
  /\ req[r].pc = "settings"
  /\ IF settings.registration
     THEN req' = [req EXCEPT ![r].pc = "create", ![r].group = settings.group]
     ELSE Done(r)
  /\ UNCHANGED <<backend, users, groups, settings, sessions, raced>>

handleLogin(r, u) ==
  /\ req[r].pc = "idle"
  /\ Here(u) /\ ~users[u].disabled
  /\ req' = [req EXCEPT ![r] = [Idle EXCEPT !.op = "login", !.pc = "newSession", !.id = u]]
  /\ raced' = raced \cup Overlaps(r, "login")
  /\ UNCHANGED <<backend, users, groups, settings, sessions>>

(* CreateSession does not look at the user.                                *)
CreateSession(r) ==
  /\ req[r].pc = "newSession"
  /\ sessions' = sessions \cup {req[r].id}
  /\ Done(r)
  /\ UNCHANGED <<backend, users, groups, settings, raced>>

(* A logout, or a session's end: GetSession does not find an expired one,  *)
(* which the SQL stores then delete.                                       *)
SessionEnds(u) ==
  /\ u \in sessions
  /\ sessions' = sessions \ {u}
  /\ UNCHANGED <<backend, users, groups, settings, req, raced>>

(* Every handler returns at the first error of the store: a statement that *)
(* fails, a context the client has cancelled, an email that is taken.      *)
Fails(r) ==
  /\ req[r].pc # "idle"
  /\ Done(r)
  /\ UNCHANGED <<backend, users, groups, settings, sessions, raced>>

-----------------------------------------------------------------------------
(* withAdmin: the session, then its user, then the handler.  What the      *)
(* request asks for is drawn where the handler first uses it.              *)

GetSession(r, u) ==
  /\ req[r].pc = "idle"
  /\ u \in sessions
  /\ req' = [req EXCEPT ![r] = [Idle EXCEPT !.op = "auth", !.pc = "user", !.me = u]]
  /\ UNCHANGED <<backend, users, groups, settings, sessions, raced>>

FirstStep ==
  [createUser |-> "create", updateUser |-> "update", deleteUser |-> "target",
   createGroup |-> "addGroup", updateGroup |-> "editGroup", deleteGroup |-> "dropGroup",
   saveSettings |-> "save"]

withAdmin(r) ==
  /\ req[r].pc = "user"
  /\ \/ /\ EnabledAdmin(req[r].me)
        /\ \E op \in AdminOps :
             /\ req' = [req EXCEPT ![r].op = op, ![r].pc = FirstStep[op]]
             /\ raced' = raced \cup Overlaps(r, op)
     \/ ~EnabledAdmin(req[r].me) /\ Done(r) /\ UNCHANGED raced
  /\ UNCHANGED <<backend, users, groups, settings, sessions>>

-----------------------------------------------------------------------------
(* Creating a user.  An empty group means the default one of the settings. *)

(* The set-up makes administrators, a registration users, and an           *)
(* administrator what he likes.                                            *)
MayCreate(op, role, disabled) ==
  /\ op = "setup" => role = "admin" /\ ~disabled
  /\ op = "register" => role = "user" /\ ~disabled

(* Mutant: the user is returned without its new id. *)
InsertedNoId(r, u, g) ==
  /\ \E role \in Roles, d \in BOOLEAN :
       /\ MayCreate(req[r].op, role, d)
       /\ users' = [users EXCEPT ![u] =
                      [state |-> "here", role |-> role, disabled |-> d, group |-> g]]
  /\ IF req[r].op \in {"setup", "register"}
     THEN req' = [req EXCEPT ![r].pc = "newSession", ![r].group = NoGroup]
     ELSE Done(r)

Inserted(r, u, g) ==
  /\ \E role \in Roles, d \in BOOLEAN :
       /\ MayCreate(req[r].op, role, d)
       /\ users' = [users EXCEPT ![u] =
                      [state |-> "here", role |-> role, disabled |-> d, group |-> g]]
  /\ IF req[r].op \in {"setup", "register"}
     THEN req' = [req EXCEPT ![r].pc = "newSession", ![r].id = u, ![r].group = NoGroup]
     ELSE Done(r)

(* The group an input names; the set-up names none.                        *)
Named(r) ==
  CASE req[r].op = "createUser" -> Groups \cup {NoGroup}
    [] req[r].op = "register"   -> {req[r].group}
    [] OTHER                    -> {NoGroup}

OrDefault(g) == IF g = NoGroup THEN settings.group ELSE g

CreateUserJSON(r) ==
  /\ req[r].pc = "create" /\ backend = "json"
  /\ \E g \in Named(r) :
       IF Exists(OrDefault(g))
       THEN \E u \in Ids : users[u].state = "fresh" /\ Inserted(r, u, OrDefault(g))
       ELSE Done(r) /\ UNCHANGED <<users>>
  /\ UNCHANGED <<backend, groups, settings, sessions, raced>>

CreateUserSettings(r) ==
  /\ req[r].pc = "create" /\ backend = "sql"
  /\ \E g \in Named(r) :
       req' = [req EXCEPT ![r].pc = "lookup", ![r].group = OrDefault(g)]
  /\ UNCHANGED <<backend, users, groups, settings, sessions, raced>>

(* Mutant: the group is not looked up. *)
CreateUserAnyGroup(r) ==
  /\ req[r].pc = "lookup"
  /\ Go(r, "insert")
  /\ UNCHANGED <<backend, users, groups, settings, sessions, raced>>

CreateUserGroup(r) ==
  /\ req[r].pc = "lookup"
  /\ IF Exists(req[r].group) THEN Go(r, "insert") ELSE Done(r)
  /\ UNCHANGED <<backend, users, groups, settings, sessions, raced>>

CreateUserInsert(r) ==
  /\ req[r].pc = "insert"
  /\ \E u \in Ids : users[u].state = "fresh" /\ Inserted(r, u, req[r].group)
  /\ UNCHANGED <<backend, groups, settings, sessions, raced>>

-----------------------------------------------------------------------------
(* Updating a user.  When the group does not exist the JSON store returns  *)
(* an error with the fields before it already changed in memory.           *)

(* Mutant: administrators may demote and disable themselves. *)
AnyChange(me, u, user, new) == TRUE

(* What an update may make of u: one cannot take the administrator's role  *)
(* from oneself, nor disable oneself.                                      *)
MayChange(me, u, user, new) ==
  u = me => /\ new.role \in {user.role, "admin"}
            /\ new.disabled \in {user.disabled, FALSE}

(* The row of u changes to new; nothing does when u is not there.          *)
Patched(r, u, g) ==
  \E role \in Roles, d \in BOOLEAN :
    LET new == [users[u] EXCEPT !.role = role, !.disabled = d, !.group = g] IN
    /\ MayChange(req[r].me, u, users[u], new)
    /\ users' = IF Here(u) THEN [users EXCEPT ![u] = new] ELSE users

Kept(u, g) == IF g = NoGroup THEN users[u].group ELSE g

UpdateUserJSON(r) ==
  /\ req[r].pc = "update" /\ backend = "json"
  /\ \E u \in Ids, g \in Groups \cup {NoGroup} :
       Patched(r, u, IF Exists(g) THEN g ELSE users[u].group)
  /\ Done(r)
  /\ UNCHANGED <<backend, groups, settings, sessions, raced>>

UpdateUserGroup(r) ==
  /\ req[r].pc = "update" /\ backend = "sql"
  /\ \E g \in Groups \cup {NoGroup} :
       IF g = NoGroup \/ Exists(g)
       THEN req' = [req EXCEPT ![r].pc = "updateRow", ![r].group = g]
       ELSE Done(r)
  /\ UNCHANGED <<backend, users, groups, settings, sessions, raced>>

UpdateUserRow(r) ==
  /\ req[r].pc = "updateRow"
  /\ \E u \in Ids : Patched(r, u, Kept(u, req[r].group))
  /\ Done(r)
  /\ UNCHANGED <<backend, groups, settings, sessions, raced>>

-----------------------------------------------------------------------------
(* Deleting a user: look at it, count the administrators if it is one,     *)
(* delete it.                                                              *)

DeleteTarget(r) ==
  /\ req[r].pc = "target"
  /\ \E u \in Ids \ {req[r].me} :
       IF Here(u)
       THEN req' = [req EXCEPT ![r].pc = IF Admin(u) THEN "count" ELSE "delete", ![r].id = u]
       ELSE Done(r)
  /\ UNCHANGED <<backend, users, groups, settings, sessions, raced>>

DeleteCount(r) ==
  /\ req[r].pc = "count"
  /\ IF CountAboveOne THEN Go(r, "delete") ELSE Done(r)
  /\ UNCHANGED <<backend, users, groups, settings, sessions, raced>>

Removed(u) == users' = IF Here(u) THEN [users EXCEPT ![u] = [NoUser EXCEPT !.state = "gone"]]
                       ELSE users

(* Mutant: the sessions stay. *)
DeleteUserOnlyJSON(r) ==
  LET u == req[r].id IN
  /\ req[r].pc = "delete" /\ backend = "json"
  /\ Removed(u)
  /\ Done(r)
  /\ UNCHANGED <<backend, groups, settings, sessions, raced>>

DeleteUserJSON(r) ==
  LET u == req[r].id IN
  /\ req[r].pc = "delete" /\ backend = "json"
  /\ Removed(u)
  /\ sessions' = IF Here(u) THEN sessions \ {u} ELSE sessions
  /\ Done(r)
  /\ UNCHANGED <<backend, groups, settings, raced>>

DeleteUserSessions(r) ==
  /\ req[r].pc = "delete" /\ backend = "sql"
  /\ sessions' = sessions \ {req[r].id}
  /\ Go(r, "deleteRow")
  /\ UNCHANGED <<backend, users, groups, settings, raced>>

DeleteUserRow(r) ==
  /\ req[r].pc = "deleteRow"
  /\ Removed(req[r].id)
  /\ Done(r)
  /\ UNCHANGED <<backend, groups, settings, sessions, raced>>

-----------------------------------------------------------------------------
(* The settings.  SaveSystemSettings checks the group and writes the row.  *)

Saved(g, registration) == settings' = [group |-> g, registration |-> registration]

SaveSettingsJSON(r) ==
  /\ req[r].pc = "save" /\ backend = "json"
  /\ \E g \in Groups \cup {NoGroup}, registration \in BOOLEAN :
       IF Exists(OrDefault(g))
       THEN Saved(OrDefault(g), registration)
       ELSE UNCHANGED settings
  /\ Done(r)
  /\ UNCHANGED <<backend, users, groups, sessions, raced>>

SaveSettingsSQL(r) ==
  /\ req[r].pc = "save" /\ backend = "sql"
  /\ \E g \in Groups, registration \in BOOLEAN :
       req' = [req EXCEPT ![r].pc = "checkGroup", ![r].group = g, ![r].flag = registration]
  /\ UNCHANGED <<backend, users, groups, settings, sessions, raced>>

CheckGroup(r) ==
  /\ req[r].pc = "checkGroup"
  /\ IF Exists(req[r].group) THEN Go(r, "upsert") ELSE Done(r)
  /\ UNCHANGED <<backend, users, groups, settings, sessions, raced>>

Upsert(r) ==
  /\ req[r].pc = "upsert"
  /\ Saved(req[r].group, req[r].flag)
  /\ Done(r)
  /\ UNCHANGED <<backend, users, groups, sessions, raced>>

-----------------------------------------------------------------------------
(* Groups.  Making a group the default one reads the settings and saves    *)
(* them again with the new group, the registration switch included.        *)

Fresh(g) == groups[g] = "fresh"

Created(g) == Fresh(g) /\ groups' = [groups EXCEPT ![g] = "here"]

CreateGroupJSON(r) ==
  /\ req[r].pc = "addGroup" /\ backend = "json"
  /\ \E g \in Groups :
       /\ Created(g)
       /\ Saved(g, settings.registration) \/ UNCHANGED settings
  /\ Done(r)
  /\ UNCHANGED <<backend, users, sessions, raced>>

CreateGroupRow(r) ==
  /\ req[r].pc = "addGroup" /\ backend = "sql"
  /\ \E g \in Groups :
       /\ Created(g)
       /\ \/ Done(r)
          \/ req' = [req EXCEPT ![r].pc = "readSettings", ![r].group = g]
  /\ UNCHANGED <<backend, users, settings, sessions, raced>>

UpdateGroupJSON(r) ==
  /\ req[r].pc = "editGroup" /\ backend = "json"
  /\ \/ \E g \in Groups : Exists(g) /\ Saved(g, settings.registration)
     \/ UNCHANGED settings
  /\ Done(r)
  /\ UNCHANGED <<backend, users, groups, sessions, raced>>

(* The settings follow when isDefault is set in the request.               *)
UpdateGroupRow(r) ==
  /\ req[r].pc = "editGroup" /\ backend = "sql"
  /\ \/ \E g \in Groups :
          Exists(g) /\ req' = [req EXCEPT ![r].pc = "readSettings", ![r].group = g]
     \/ Done(r)
  /\ UNCHANGED <<backend, users, groups, settings, sessions, raced>>

(* Mutant: the settings are not read, so that their other fields are zero. *)
ForgetSettings(r) ==
  /\ req[r].pc = "readSettings"
  /\ req' = [req EXCEPT ![r].pc = "checkGroup", ![r].flag = FALSE]
  /\ UNCHANGED <<backend, users, groups, settings, sessions, raced>>

ReadSettings(r) ==
  /\ req[r].pc = "readSettings"
  /\ req' = [req EXCEPT ![r].pc = "checkGroup", ![r].flag = settings.registration]
  /\ UNCHANGED <<backend, users, groups, settings, sessions, raced>>

InUse(g) == \E u \in Ids : Here(u) /\ users[u].group = g

DropGroup(r, g) ==
  /\ groups' = [groups EXCEPT ![g] = IF @ = "here" THEN "gone" ELSE @]
  /\ Done(r)

DeleteGroupJSON(r) ==
  /\ req[r].pc = "dropGroup" /\ backend = "json"
  /\ \E g \in Groups :
       IF g # settings.group /\ ~InUse(g) THEN DropGroup(r, g)
       ELSE Done(r) /\ UNCHANGED groups
  /\ UNCHANGED <<backend, users, settings, sessions, raced>>

DeleteGroupSettings(r) ==
  /\ req[r].pc = "dropGroup" /\ backend = "sql"
  /\ \E g \in Groups :
       IF g # settings.group
       THEN req' = [req EXCEPT ![r].pc = "countUsers", ![r].group = g]
       ELSE Done(r)
  /\ UNCHANGED <<backend, users, groups, settings, sessions, raced>>

DeleteGroupCount(r) ==
  /\ req[r].pc = "countUsers"
  /\ IF InUse(req[r].group) THEN Done(r) ELSE Go(r, "dropRow")
  /\ UNCHANGED <<backend, users, groups, settings, sessions, raced>>

DeleteGroupRow(r) ==
  /\ req[r].pc = "dropRow"
  /\ DropGroup(r, req[r].group)
  /\ UNCHANGED <<backend, users, settings, sessions, raced>>

-----------------------------------------------------------------------------
AccountStep(r) ==
  \/ handleSetupAdmin(r) \/ handleRegister(r) \/ RegisterSettings(r)
  \/ \E u \in Ids : handleLogin(r, u) \/ GetSession(r, u)
  \/ CreateSession(r) \/ Fails(r) \/ withAdmin(r)
  \/ CreateUserJSON(r) \/ CreateUserSettings(r) \/ CreateUserGroup(r) \/ CreateUserInsert(r)
  \/ UpdateUserJSON(r) \/ UpdateUserGroup(r) \/ UpdateUserRow(r)
  \/ DeleteTarget(r) \/ DeleteCount(r)
  \/ DeleteUserJSON(r) \/ DeleteUserSessions(r) \/ DeleteUserRow(r)

DirectoryStep(r) ==
  \/ SaveSettingsJSON(r) \/ SaveSettingsSQL(r) \/ CheckGroup(r) \/ Upsert(r)
  \/ CreateGroupJSON(r) \/ CreateGroupRow(r)
  \/ UpdateGroupJSON(r) \/ UpdateGroupRow(r) \/ ReadSettings(r)
  \/ DeleteGroupJSON(r) \/ DeleteGroupSettings(r) \/ DeleteGroupCount(r) \/ DeleteGroupRow(r)

Next ==
  \/ \E r \in Requests : AccountStep(r) \/ DirectoryStep(r)
  \/ \E u \in Ids : SessionEnds(u)

Spec == Init /\ [][Next]_vars

-----------------------------------------------------------------------------
(* Properties.                                                             *)

(* An installed system keeps an administrator who can log in, and whoever  *)
(* administers it is one at that moment, unless two administrative         *)
(* requests overlapped: the handlers keep administrators from harming      *)
(* themselves, and nothing else protects the last one.                     *)
AdminRemains ==
  "admin" \notin raced =>
    /\ (\E u \in Ids : Admin(u)) => \E u \in Ids : EnabledAdmin(u)
    /\ \A r \in Requests : Admitted(r) => EnabledAdmin(req[r].me)

(* The set-up creates an administrator only in a system without one; the   *)
(* ways around are two set-ups at a time, which both find none, and an     *)
(* administrator who has lost his rights to another while he works.        *)
SetupOnlyWhenEmpty ==
  [][\A r \in Requests :
       req[r].op = "setup" /\ req[r].pc \in {"create", "insert"} /\ req'[r].pc = "newSession"
       /\ raced \cap {"admin", "setup"} = {}
       => \A u \in Ids : ~EnabledAdmin(u)]_vars

(* The default group and the group of every user exist.  On the JSON store *)
(* always, on the SQL stores unless a deletion overlapped another request. *)
GroupsResolve ==
  backend = "json" \/ "deletion" \notin raced =>
    /\ Exists(settings.group)
    /\ \A u \in Ids : Here(u) => Exists(users[u].group)

(* Deleting a user ends his sessions, in either order of the store's       *)
(* steps; a login that overlaps the deletion can leave one behind.         *)
SessionsHaveUsers == "deletion" \notin raced => \A u \in sessions : Here(u)

(* Making a group the default one saves all the settings, and must not     *)
(* turn the registration switch: only saving the settings does, unless two *)
(* administrative requests overlapped on a SQL store.                      *)
RegistrationAsSaved ==
  [][settings'.registration # settings.registration
     /\ (backend = "json" \/ "admin" \notin raced)
     => \E r \in Requests : req[r].op = "saveSettings" /\ req'[r] # req[r]]_vars

(* The code does not keep what follows (README, section 4).                *)

(* admin_users.go:194 refuses to delete the last administrator: when the   *)
(* user about to be deleted is one, there is another.                      *)
LastAdminKept ==
  \A r \in Requests : req[r].pc \in {"delete", "deleteRow"} /\ Admin(req[r].id) =>
    \E u \in Ids \ {req[r].id} : Admin(u)

=============================================================================
