---------------------------- MODULE AccountsProofs ----------------------------
(***************************************************************************)
(* Accounts for any number of users, groups and requests and either kind   *)
(* of store: all six properties that the run checks.  The argument: a      *)
(* request that overlaps none of the other kind finds the shared state,    *)
(* when it writes, as it was when it looked.  Fit says what that is, at    *)
(* each place of a handler; Alone says that history tells overlaps right.  *)
(***************************************************************************)
EXTENDS Accounts, TLAPS

SqlPCs == {"lookup", "insert", "updateRow", "deleteRow", "checkGroup", "upsert", "readSettings",
           "countUsers", "dropRow"}

(* Which operation a request at a place is in, and what it has filled in.  *)
InPlace(t) ==
  /\ t.op = "none" <=> t.pc = "idle"
  /\ t.op = "auth" <=> t.pc = "user"
  /\ t.pc = "settings" => t.op = "register"
  /\ t.pc \in {"create", "lookup", "insert"} => t.op \in {"setup", "register", "createUser"}
  /\ t.pc = "newSession" => t.op \in {"login", "setup", "register"}
  /\ t.pc \in {"target", "count", "delete", "deleteRow"} => t.op = "deleteUser"
  /\ t.pc \in {"update", "updateRow"} => t.op = "updateUser"
  /\ t.pc = "save" => t.op = "saveSettings"
  /\ t.pc = "addGroup" => t.op = "createGroup"
  /\ t.pc = "editGroup" => t.op = "updateGroup"
  /\ t.pc = "readSettings" => t.op \in {"createGroup", "updateGroup"}
  /\ t.pc \in {"checkGroup", "upsert"} => t.op \in {"saveSettings", "createGroup", "updateGroup"}
  /\ t.pc \in {"dropGroup", "countUsers", "dropRow"} => t.op = "deleteGroup"
  /\ t.op \in AdminOps \cup {"auth"} => t.me \in Ids
  /\ t.pc \in {"count", "delete", "deleteRow"} => t.id \in Ids \ {t.me}
  /\ t.pc = "newSession" => t.id \in Ids
  /\ t.op = "register" /\ t.pc = "create" => t.group \in Groups
  /\ t.pc \in SqlPCs \ {"updateRow", "deleteRow"} => t.group \in Groups
  /\ t.pc \in SqlPCs => backend = "sql"

(* What a request that has looked relies on. *)
Fit(t) ==
  /\ InPlace(t)
  /\ "admin" \notin raced /\ t.op \in AdminOps => EnabledAdmin(t.me)
  /\ raced \cap {"admin", "setup"} = {} /\ t.op = "setup" /\ t.pc # "newSession"
       => \A u \in Ids : ~EnabledAdmin(u)
  /\ "admin" \notin raced /\ t.pc \in {"checkGroup", "upsert"} /\ t.op # "saveSettings"
       => t.flag = settings.registration
  /\ "deletion" \notin raced =>
       /\ t.pc \in {"insert", "upsert"} => Exists(t.group)
       /\ t.pc = "updateRow" => t.group = NoGroup \/ Exists(t.group)
       /\ t.pc \in {"countUsers", "dropRow"} => t.group # settings.group
       /\ t.pc = "dropRow" => ~InUse(t.group)
       /\ t.pc = "newSession" => Here(t.id)
       /\ t.pc = "deleteRow" => t.id \notin sessions

Fits == \A q \in Requests : Fit(req[q])

(* While history knows of no overlap there is none. *)
Alone ==
  \A q, r \in Requests : q # r =>
    /\ "admin" \notin raced => ~(Admitted(q) /\ Admitted(r))
    /\ "setup" \notin raced => ~(req[q].op = "setup" /\ req[r].op = "setup")
    /\ "deletion" \notin raced => ~(Working(q) /\ Working(r) /\ req[q].op \in Deletions)

AdminLeft ==
  "admin" \notin raced /\ (\E u \in Ids : Admin(u)) => \E u \in Ids : EnabledAdmin(u)

IInv == TypeOK /\ Fits /\ Alone /\ AdminLeft /\ GroupsResolve /\ SessionsHaveUsers

-----------------------------------------------------------------------------
LEMMA IdleFits == Idle \in Request /\ Fit(Idle) /\ Idle.op = "none"
BY DEF Idle, Request, Ops, PCs, AdminOps, SqlPCs, InPlace, Fit

LEMMA InitInv == Init => IInv
<1> SUFFICES ASSUME Init PROVE IInv
  OBVIOUS
<1>1. TypeOK
  BY AccountsAssumption, IdleFits DEF Init, TypeOK, User, NoUser, States, Roles
<1>2. Fits
  BY IdleFits DEF Init, Fits
<1>3. Alone
  BY IdleFits DEF Init, Alone, Admitted, Working, AdminOps
<1>4. AdminLeft /\ GroupsResolve /\ SessionsHaveUsers
  BY AccountsAssumption
     DEF Init, AdminLeft, GroupsResolve, SessionsHaveUsers, Admin, Here, Exists, NoUser
<1> QED BY <1>1, <1>2, <1>3, <1>4 DEF IInv

(* A step within a request, or its end, leaves the others alone. *)
LEMMA AloneStep ==
  ASSUME TypeOK, Alone, NEW r \in Requests, NEW t \in Request,
         req' = [req EXCEPT ![r] = t], raced' = raced,
         t.op \in {"none", "auth"} \/ t.op = req[r].op
  PROVE  Alone' /\ req' \in [Requests -> Request] /\ req'[r] = t
         /\ \A q \in Requests \ {r} : req'[q] = req[q]
<1>1. /\ req' \in [Requests -> Request] /\ req'[r] = t
      /\ \A q \in Requests \ {r} : req'[q] = req[q]
  BY DEF TypeOK
<1>2. \A q \in Requests : req'[q].op \in {"none", "auth"} \/ req'[q].op = req[q].op
  BY <1>1
<1>3. Alone'
  BY <1>2 DEF Alone, Admitted, Working, AdminOps, Deletions
<1> QED BY <1>1, <1>3

(* A step of a request that changes only what it holds. *)
LEMMA OwnStep ==
  ASSUME IInv, NEW r \in Requests, NEW t \in Request, Fit(t),
         req' = [req EXCEPT ![r] = t],
         UNCHANGED <<backend, users, groups, settings, sessions, raced>>,
         t.op \in {"none", "auth"} \/ t.op = req[r].op
  PROVE  IInv'
<1>1. /\ Alone' /\ req' \in [Requests -> Request] /\ req'[r] = t
      /\ \A q \in Requests \ {r} : req'[q] = req[q]
  BY AloneStep DEF IInv
<1>2. TypeOK'
  BY <1>1 DEF IInv, TypeOK
<1>3. \A q \in Requests : Fit(req'[q])
  BY <1>1 DEF IInv, Fits
<1>4. Fits'
  BY <1>3 DEF Fits, Fit, InPlace, EnabledAdmin, Admin, Here, Exists, InUse
<1>5. AdminLeft' /\ GroupsResolve' /\ SessionsHaveUsers'
  BY DEF IInv, AdminLeft, GroupsResolve, SessionsHaveUsers, EnabledAdmin, Admin, Here, Exists
<1> QED BY <1>1, <1>2, <1>4, <1>5 DEF IInv

(* A request that begins is remembered to overlap those at work. *)
LEMMA BeginStep ==
  ASSUME IInv, NEW r \in Requests, NEW t \in Request, Fit(t),
         req' = [req EXCEPT ![r] = t],
         UNCHANGED <<backend, users, groups, settings, sessions>>,
         raced' = raced \cup Overlaps(r, t.op)
  PROVE  IInv'
<1>1. /\ req' \in [Requests -> Request] /\ req'[r] = t
      /\ \A q \in Requests \ {r} : req'[q] = req[q]
  BY DEF IInv, TypeOK
<1>2. raced' \subseteq {"admin", "setup", "deletion"} /\ raced \subseteq raced'
  BY DEF IInv, TypeOK, Overlaps
<1>3. TypeOK'
  BY <1>1, <1>2 DEF IInv, TypeOK
<1>4. \A q \in Requests : Fit(req'[q])
  BY <1>1 DEF IInv, Fits
<1>5. Fits'
  BY <1>2, <1>4 DEF Fits, Fit, InPlace, EnabledAdmin, Admin, Here, Exists, InUse
<1>6. ASSUME NEW q \in Requests \ {r}
      PROVE  /\ "admin" \notin raced' => ~(t.op \in AdminOps /\ Admitted(q))
             /\ "setup" \notin raced' => ~(t.op = "setup" /\ req[q].op = "setup")
             /\ "deletion" \notin raced' => ~(Working(q) /\ (t.op \in Deletions \/ req[q].op \in Deletions))
  BY <1>6 DEF Overlaps
<1>7. Alone'
  <2> SUFFICES ASSUME NEW p \in Requests, NEW q \in Requests, p # q
               PROVE  /\ "admin" \notin raced' => ~(Admitted(p)' /\ Admitted(q)')
                      /\ "setup" \notin raced' => ~(req'[p].op = "setup" /\ req'[q].op = "setup")
                      /\ "deletion" \notin raced' =>
                           ~(Working(p)' /\ Working(q)' /\ req'[p].op \in Deletions)
    BY DEF Alone
  <2>1. CASE p # r /\ q # r
    BY <1>1, <1>2, <2>1 DEF IInv, Alone, Admitted, Working
  <2>2. CASE p = r
    BY <1>1, <1>6, <2>2 DEF Admitted, Working
  <2>3. CASE q = r
    BY <1>1, <1>6, <2>3 DEF Admitted, Working
  <2> QED BY <2>1, <2>2, <2>3
<1>8. AdminLeft' /\ GroupsResolve' /\ SessionsHaveUsers'
  BY <1>2 DEF IInv, AdminLeft, GroupsResolve, SessionsHaveUsers, EnabledAdmin, Admin, Here, Exists
<1> QED BY <1>3, <1>5, <1>7, <1>8 DEF IInv

-----------------------------------------------------------------------------
(* The ways a request goes on without a change of the shared state.        *)
LEMMA DoneStep ==
  ASSUME IInv, NEW r \in Requests, Done(r),
         UNCHANGED <<backend, users, groups, settings, sessions, raced>>
  PROVE  IInv'
BY IdleFits, OwnStep DEF Done

LEMMA RequestType ==
  ASSUME TypeOK, NEW r \in Requests
  PROVE  /\ req[r] \in Request
         /\ \A pc \in PCs : /\ [req[r] EXCEPT !.pc = pc] \in Request
                            /\ [req[r] EXCEPT !.pc = pc].pc = pc
                            /\ [req[r] EXCEPT !.pc = pc].op = req[r].op
                            /\ [req[r] EXCEPT !.pc = pc].me = req[r].me
                            /\ [req[r] EXCEPT !.pc = pc].id = req[r].id
                            /\ [req[r] EXCEPT !.pc = pc].group = req[r].group
                            /\ [req[r] EXCEPT !.pc = pc].flag = req[r].flag
BY DEF TypeOK, Request

LEMMA GoStep ==
  ASSUME IInv, NEW r \in Requests, NEW pc \in PCs, Go(r, pc), Fit([req[r] EXCEPT !.pc = pc]),
         UNCHANGED <<backend, users, groups, settings, sessions, raced>>
  PROVE  IInv'
<1> DEFINE t == [req[r] EXCEPT !.pc = pc]
<1>1. t \in Request /\ t.op = req[r].op /\ Fit(t) /\ req' = [req EXCEPT ![r] = t]
  BY RequestType DEF IInv, Go
<1> HIDE DEF t
<1> QED BY <1>1, OwnStep

(* Requests from outside: each finds what its first place relies on. *)
LEMMA OutsideStep ==
  ASSUME IInv, NEW r \in Requests,
         \/ handleSetupAdmin(r) \/ handleRegister(r) \/ RegisterSettings(r) \/ Fails(r)
         \/ \E u \in Ids : handleLogin(r, u) \/ GetSession(r, u)
  PROVE  IInv'
<1>1. CASE handleSetupAdmin(r)
  <2> DEFINE t == [Idle EXCEPT !.op = "setup", !.pc = "create"]
  <2>1. t \in Request /\ t.op = "setup" /\ t.pc = "create"
    BY DEF Idle, Request, Ops, PCs
  <2>2. \A u \in Ids : ~EnabledAdmin(u)
    BY <1>1 DEF handleSetupAdmin, NeedsSetup, NeedsSetupJSON, NeedsSetupSQL, EnabledAdmin
  <2>3. Fit(t)
    <3> HIDE DEF t
    <3> QED BY <2>1, <2>2 DEF Fit, InPlace, SqlPCs, AdminOps
  <2>4. req' = [req EXCEPT ![r] = t] /\ raced' = raced \cup Overlaps(r, t.op)
    BY <1>1, <2>1 DEF handleSetupAdmin
  <2> HIDE DEF t
  <2> QED BY <1>1, <2>1, <2>3, <2>4, BeginStep DEF handleSetupAdmin
<1>2. CASE handleRegister(r)
  <2> DEFINE t == [Idle EXCEPT !.op = "register", !.pc = "settings"]
  <2>1. t \in Request /\ t.op = "register" /\ t.pc = "settings"
    BY DEF Idle, Request, Ops, PCs
  <2>2. Fit(t)
    <3> HIDE DEF t
    <3> QED BY <2>1 DEF Fit, InPlace, SqlPCs, AdminOps
  <2>3. req' = [req EXCEPT ![r] = t] /\ raced' = raced \cup Overlaps(r, t.op)
    BY <1>2, <2>1 DEF handleRegister
  <2> HIDE DEF t
  <2> QED BY <1>2, <2>1, <2>2, <2>3, BeginStep DEF handleRegister
<1>3. CASE RegisterSettings(r)
  <2>1. CASE settings.registration
    <3> DEFINE t == [req[r] EXCEPT !.pc = "create", !.group = settings.group]
    <3>1. req' = [req EXCEPT ![r] = t]
      BY <1>3, <2>1 DEF RegisterSettings, IInv, TypeOK
    <3>2. /\ t \in Request /\ t.op = req[r].op /\ t.pc = "create" /\ t.group \in Groups
          /\ t.me = req[r].me /\ t.id = req[r].id
      <4>1. req[r] \in Request /\ settings.group \in Groups /\ "create" \in PCs
        BY DEF IInv, TypeOK, PCs
      <4> QED BY <4>1 DEF Request
    <3>3. req[r].op = "register"
      BY <1>3 DEF RegisterSettings, IInv, Fits, Fit, InPlace
    <3> HIDE DEF t
    <3>4. Fit(t)
      BY <3>2, <3>3 DEF Fit, InPlace, SqlPCs, AdminOps
    <3> QED BY <1>3, <3>1, <3>2, <3>4, OwnStep DEF RegisterSettings
  <2>2. CASE ~settings.registration
    BY <1>3, <2>2, DoneStep DEF RegisterSettings
  <2> QED BY <2>1, <2>2
<1>4. CASE Fails(r)
  BY <1>4, DoneStep DEF Fails
<1>5. ASSUME NEW u \in Ids, handleLogin(r, u)
      PROVE  IInv'
  <2> DEFINE t == [Idle EXCEPT !.op = "login", !.pc = "newSession", !.id = u]
  <2>1. t \in Request /\ t.op = "login" /\ t.pc = "newSession" /\ t.id = u
    BY DEF Idle, Request, Ops, PCs
  <2>2. Here(u)
    BY <1>5 DEF handleLogin
  <2>3. Fit(t)
    <3> HIDE DEF t
    <3> QED BY <2>1, <2>2 DEF Fit, InPlace, SqlPCs, AdminOps
  <2>4. req' = [req EXCEPT ![r] = t] /\ raced' = raced \cup Overlaps(r, t.op)
    BY <1>5, <2>1 DEF handleLogin
  <2> HIDE DEF t
  <2> QED BY <1>5, <2>1, <2>3, <2>4, BeginStep DEF handleLogin
<1>6. ASSUME NEW u \in Ids, GetSession(r, u)
      PROVE  IInv'
  <2> DEFINE t == [Idle EXCEPT !.op = "auth", !.pc = "user", !.me = u]
  <2>1. t \in Request /\ t.op = "auth" /\ t.pc = "user" /\ t.me = u
    BY DEF Idle, Request, Ops, PCs
  <2>2. Fit(t)
    <3> HIDE DEF t
    <3> QED BY <2>1 DEF Fit, InPlace, SqlPCs, AdminOps
  <2>3. req' = [req EXCEPT ![r] = t]
    BY <1>6 DEF GetSession
  <2> HIDE DEF t
  <2> QED BY <1>6, <2>1, <2>2, <2>3, OwnStep DEF GetSession
<1> QED BY <1>1, <1>2, <1>3, <1>4, <1>5, <1>6

(* The session's user is looked at once; from then on the request relies   *)
(* on it.                                                                  *)
LEMMA withAdminStep ==
  ASSUME IInv, NEW r \in Requests, withAdmin(r)
  PROVE  IInv'
<1>1. /\ req[r] \in Request /\ req[r].pc = "user" /\ req[r].op = "auth" /\ req[r].me \in Ids
      /\ UNCHANGED <<backend, users, groups, settings, sessions>>
  BY DEF withAdmin, IInv, TypeOK, Fits, Fit, InPlace
<1>2. CASE Done(r) /\ UNCHANGED raced
  BY <1>1, <1>2, DoneStep
<1>3. ASSUME NEW op \in AdminOps, EnabledAdmin(req[r].me),
             req' = [req EXCEPT ![r].op = op, ![r].pc = FirstStep[op]],
             raced' = raced \cup Overlaps(r, op)
      PROVE  IInv'
  <2> DEFINE t == [req[r] EXCEPT !.op = op, !.pc = FirstStep[op]]
  <2>1. /\ FirstStep[op] \in PCs /\ op \in Ops
        /\ FirstStep[op] = CASE op = "createUser" -> "create" [] op = "updateUser" -> "update"
                             [] op = "deleteUser" -> "target" [] op = "createGroup" -> "addGroup"
                             [] op = "updateGroup" -> "editGroup"
                             [] op = "deleteGroup" -> "dropGroup" [] op = "saveSettings" -> "save"
    BY DEF AdminOps, FirstStep, PCs, Ops
  <2>2. req' = [req EXCEPT ![r] = t]
    BY <1>3 DEF IInv, TypeOK
  <2>3. t \in Request /\ t.op = op /\ t.pc = FirstStep[op] /\ t.me = req[r].me
    BY <1>1, <2>1 DEF Request
  <2> HIDE DEF t
  <2>4. InPlace(t)
    BY <1>1, <2>1, <2>3 DEF InPlace, SqlPCs, AdminOps
  <2>5. Fit(t)
    <3>1. t.op # "setup" /\ t.pc \notin SqlPCs \cup {"newSession"}
      BY <2>1, <2>3 DEF AdminOps, SqlPCs
    <3> QED BY <1>3, <2>3, <2>4, <3>1 DEF Fit, SqlPCs
  <2> QED BY <1>1, <1>3, <2>2, <2>3, <2>5, BeginStep
<1> QED BY <1>2, <1>3 DEF withAdmin

(* A request goes to its next place with a group. *)
LEMMA GroupFields ==
  ASSUME TypeOK, NEW r \in Requests, NEW pc \in PCs, NEW g \in Groups \cup {NoGroup},
         req' = [req EXCEPT ![r].pc = pc, ![r].group = g]
  PROVE  /\ req' = [req EXCEPT ![r] = req'[r]]
         /\ req'[r] \in Request
         /\ req'[r].pc = pc /\ req'[r].group = g /\ req'[r].op = req[r].op
         /\ req'[r].me = req[r].me /\ req'[r].id = req[r].id /\ req'[r].flag = req[r].flag
<1> DEFINE t == [req[r] EXCEPT !.pc = pc, !.group = g]
<1>1. req' = [req EXCEPT ![r] = t]
  BY DEF TypeOK
<1>2. req[r] \in Request
  BY DEF TypeOK
<1>3. /\ t \in Request /\ t.pc = pc /\ t.group = g /\ t.op = req[r].op
      /\ t.me = req[r].me /\ t.id = req[r].id /\ t.flag = req[r].flag
  BY <1>2 DEF Request
<1>4. req'[r] = t
  BY <1>1 DEF TypeOK
<1> HIDE DEF t
<1> QED BY <1>1, <1>3, <1>4

-----------------------------------------------------------------------------
(* The places where a request looks at the shared state: what it goes on   *)
(* with is what it has seen.                                               *)
LEMMA CreateLookStep ==
  ASSUME IInv, NEW r \in Requests, CreateUserSettings(r) \/ CreateUserGroup(r)
  PROVE  IInv'
<1>1. req[r] \in Request /\ Fit(req[r]) /\ settings.group \in Groups
  BY DEF IInv, TypeOK, Fits
<1>2. CASE CreateUserSettings(r)
  <2>1. PICK h \in Named(r) : req' = [req EXCEPT ![r].pc = "lookup", ![r].group = OrDefault(h)]
    BY <1>2 DEF CreateUserSettings
  <2>2. OrDefault(h) \in Groups
    BY <1>1, <1>2, <2>1 DEF CreateUserSettings, OrDefault, Named, Request
  <2>3. PICK g \in Groups : req' = [req EXCEPT ![r].pc = "lookup", ![r].group = g]
    BY <2>1, <2>2
  <2>4. /\ req' = [req EXCEPT ![r] = req'[r]] /\ req'[r] \in Request
        /\ req'[r].pc = "lookup" /\ req'[r].group \in Groups /\ req'[r].op = req[r].op
        /\ req'[r].me = req[r].me
    BY <2>3, GroupFields DEF IInv, PCs
  <2>5. Fit(req'[r])
    BY <1>1, <1>2, <2>4 DEF CreateUserSettings, Fit, InPlace, SqlPCs, AdminOps
  <2> QED BY <1>2, <2>4, <2>5, OwnStep DEF CreateUserSettings
<1>3. CASE CreateUserGroup(r)
  <2>1. CASE Exists(req[r].group)
    <3>1. Fit([req[r] EXCEPT !.pc = "insert"])
      <4> DEFINE t == [req[r] EXCEPT !.pc = "insert"]
      <4>1. /\ t.pc = "insert" /\ t.op = req[r].op /\ t.me = req[r].me /\ t.group = req[r].group
        BY RequestType DEF IInv, PCs
      <4> HIDE DEF t
      <4>2. Fit(t)
        BY <1>1, <1>3, <2>1, <4>1 DEF CreateUserGroup, Fit, InPlace, SqlPCs, AdminOps
      <4> QED BY <4>2 DEF t
    <3> QED BY <1>3, <2>1, <3>1, GoStep DEF CreateUserGroup, PCs
  <2>2. CASE ~Exists(req[r].group)
    BY <1>3, <2>2, DoneStep DEF CreateUserGroup
  <2> QED BY <2>1, <2>2
<1> QED BY <1>2, <1>3

LEMMA UpdateUserGroupStep ==
  ASSUME IInv, NEW r \in Requests, UpdateUserGroup(r)
  PROVE  IInv'
<1>1. req[r] \in Request /\ Fit(req[r])
  BY DEF IInv, TypeOK, Fits
<1>2. PICK g \in Groups \cup {NoGroup} :
        IF g = NoGroup \/ Exists(g)
        THEN req' = [req EXCEPT ![r].pc = "updateRow", ![r].group = g]
        ELSE Done(r)
  BY DEF UpdateUserGroup
<1>3. CASE g = NoGroup \/ Exists(g)
  <2>1. /\ req' = [req EXCEPT ![r] = req'[r]] /\ req'[r] \in Request
        /\ req'[r].pc = "updateRow" /\ req'[r].group = g /\ req'[r].op = req[r].op
        /\ req'[r].me = req[r].me
    BY <1>2, <1>3, GroupFields DEF IInv, PCs
  <2>2. Fit(req'[r])
    BY <1>1, <1>3, <2>1 DEF UpdateUserGroup, Fit, InPlace, SqlPCs, AdminOps
  <2> QED BY <2>1, <2>2, OwnStep DEF UpdateUserGroup
<1>4. CASE ~(g = NoGroup \/ Exists(g))
  BY <1>2, <1>4, DoneStep DEF UpdateUserGroup
<1> QED BY <1>3, <1>4

LEMMA DeleteLookStep ==
  ASSUME IInv, NEW r \in Requests, DeleteTarget(r) \/ DeleteCount(r)
  PROVE  IInv'
<1>1. req[r] \in Request /\ Fit(req[r])
  BY DEF IInv, TypeOK, Fits
<1>2. CASE DeleteTarget(r)
  <2>1. PICK u \in Ids \ {req[r].me} :
          IF Here(u)
          THEN req' = [req EXCEPT ![r].pc = IF Admin(u) THEN "count" ELSE "delete", ![r].id = u]
          ELSE Done(r)
    BY <1>2 DEF DeleteTarget
  <2>2. CASE Here(u)
    <3> DEFINE pc == IF Admin(u) THEN "count" ELSE "delete"
               t  == [req[r] EXCEPT !.pc = pc, !.id = u]
    <3>1. pc \in {"count", "delete"} /\ req' = [req EXCEPT ![r].pc = pc, ![r].id = u]
      BY <2>1, <2>2
    <3> HIDE DEF pc
    <3>2. req' = [req EXCEPT ![r] = t]
      BY <3>1 DEF IInv, TypeOK
    <3>3. t \in Request /\ t.pc = pc /\ t.id = u /\ t.op = req[r].op /\ t.me = req[r].me
      BY <1>1, <3>1 DEF Request, PCs
    <3> HIDE DEF t
    <3>4. Fit(t)
      BY <1>1, <1>2, <2>1, <3>1, <3>3 DEF DeleteTarget, Fit, InPlace, SqlPCs, AdminOps
    <3> QED BY <1>2, <3>2, <3>3, <3>4, OwnStep DEF DeleteTarget
  <2>3. CASE ~Here(u)
    BY <1>2, <2>1, <2>3, DoneStep DEF DeleteTarget
  <2> QED BY <2>2, <2>3
<1>3. CASE DeleteCount(r)
  <2>1. CASE CountAboveOne
    <3>1. Fit([req[r] EXCEPT !.pc = "delete"])
      <4> DEFINE t == [req[r] EXCEPT !.pc = "delete"]
      <4>1. /\ t.pc = "delete" /\ t.op = req[r].op /\ t.me = req[r].me /\ t.id = req[r].id
        BY RequestType DEF IInv, PCs
      <4> HIDE DEF t
      <4>2. Fit(t)
        BY <1>1, <1>3, <4>1 DEF DeleteCount, Fit, InPlace, SqlPCs, AdminOps
      <4> QED BY <4>2 DEF t
    <3> QED BY <1>3, <2>1, <3>1, GoStep DEF DeleteCount, PCs
  <2>2. CASE ~CountAboveOne
    BY <1>3, <2>2, DoneStep DEF DeleteCount
  <2> QED BY <2>1, <2>2
<1> QED BY <1>2, <1>3

LEMMA SettingsLookStep ==
  ASSUME IInv, NEW r \in Requests, SaveSettingsSQL(r) \/ CheckGroup(r) \/ ReadSettings(r)
  PROVE  IInv'
<1>1. req[r] \in Request /\ Fit(req[r]) /\ settings.registration \in BOOLEAN
  BY DEF IInv, TypeOK, Fits
<1>2. CASE SaveSettingsSQL(r)
  <2>1. PICK g \in Groups, b \in BOOLEAN :
          req' = [req EXCEPT ![r].pc = "checkGroup", ![r].group = g, ![r].flag = b]
    BY <1>2 DEF SaveSettingsSQL
  <2> DEFINE t == [req[r] EXCEPT !.pc = "checkGroup", !.group = g, !.flag = b]
  <2>2. req' = [req EXCEPT ![r] = t]
    BY <2>1 DEF IInv, TypeOK
  <2>3. /\ t \in Request /\ t.pc = "checkGroup" /\ t.group = g /\ t.op = req[r].op
        /\ t.me = req[r].me
    BY <1>1, <2>1 DEF Request, PCs
  <2> HIDE DEF t
  <2>4. Fit(t)
    BY <1>1, <1>2, <2>1, <2>3 DEF SaveSettingsSQL, Fit, InPlace, SqlPCs, AdminOps
  <2> QED BY <1>2, <2>2, <2>3, <2>4, OwnStep DEF SaveSettingsSQL
<1>3. CASE CheckGroup(r)
  <2>1. CASE Exists(req[r].group)
    <3>1. Fit([req[r] EXCEPT !.pc = "upsert"])
      <4> DEFINE t == [req[r] EXCEPT !.pc = "upsert"]
      <4>1. /\ t.pc = "upsert" /\ t.op = req[r].op /\ t.me = req[r].me
            /\ t.group = req[r].group /\ t.flag = req[r].flag
        BY RequestType DEF IInv, PCs
      <4> HIDE DEF t
      <4>2. Fit(t)
        BY <1>1, <1>3, <2>1, <4>1 DEF CheckGroup, Fit, InPlace, SqlPCs, AdminOps
      <4> QED BY <4>2 DEF t
    <3> QED BY <1>3, <2>1, <3>1, GoStep DEF CheckGroup, PCs
  <2>2. CASE ~Exists(req[r].group)
    BY <1>3, <2>2, DoneStep DEF CheckGroup
  <2> QED BY <2>1, <2>2
<1>4. CASE ReadSettings(r)
  <2> DEFINE t == [req[r] EXCEPT !.pc = "checkGroup", !.flag = settings.registration]
  <2>1. req' = [req EXCEPT ![r] = t]
    BY <1>4 DEF ReadSettings, IInv, TypeOK
  <2>2. /\ t \in Request /\ t.pc = "checkGroup" /\ t.group = req[r].group /\ t.op = req[r].op
        /\ t.me = req[r].me /\ t.flag = settings.registration
    BY <1>1 DEF Request, PCs
  <2> HIDE DEF t
  <2>3. Fit(t)
    BY <1>1, <1>4, <2>2 DEF ReadSettings, Fit, InPlace, SqlPCs, AdminOps
  <2> QED BY <1>4, <2>1, <2>2, <2>3, OwnStep DEF ReadSettings
<1> QED BY <1>2, <1>3, <1>4

LEMMA GroupLookStep ==
  ASSUME IInv, NEW r \in Requests,
         UpdateGroupRow(r) \/ DeleteGroupSettings(r) \/ DeleteGroupCount(r)
  PROVE  IInv'
<1>1. req[r] \in Request /\ Fit(req[r])
  BY DEF IInv, TypeOK, Fits
<1>2. CASE UpdateGroupRow(r)
  <2>1. CASE Done(r)
    BY <1>2, <2>1, DoneStep DEF UpdateGroupRow
  <2>2. ASSUME NEW g \in Groups,
               req' = [req EXCEPT ![r].pc = "readSettings", ![r].group = g]
        PROVE  IInv'
    <3>1. /\ req' = [req EXCEPT ![r] = req'[r]] /\ req'[r] \in Request
          /\ req'[r].pc = "readSettings" /\ req'[r].group = g /\ req'[r].op = req[r].op
          /\ req'[r].me = req[r].me
      BY <2>2, GroupFields DEF IInv, PCs
    <3>2. Fit(req'[r])
      BY <1>1, <1>2, <3>1 DEF UpdateGroupRow, Fit, InPlace, SqlPCs, AdminOps
    <3> QED BY <1>2, <3>1, <3>2, OwnStep DEF UpdateGroupRow
  <2> QED BY <1>2, <2>1, <2>2 DEF UpdateGroupRow
<1>3. CASE DeleteGroupSettings(r)
  <2>1. PICK g \in Groups :
          IF g # settings.group
          THEN req' = [req EXCEPT ![r].pc = "countUsers", ![r].group = g]
          ELSE Done(r)
    BY <1>3 DEF DeleteGroupSettings
  <2>2. CASE g # settings.group
    <3>1. /\ req' = [req EXCEPT ![r] = req'[r]] /\ req'[r] \in Request
          /\ req'[r].pc = "countUsers" /\ req'[r].group = g /\ req'[r].op = req[r].op
          /\ req'[r].me = req[r].me
      BY <2>1, <2>2, GroupFields DEF IInv, PCs
    <3>2. Fit(req'[r])
      BY <1>1, <1>3, <2>2, <3>1 DEF DeleteGroupSettings, Fit, InPlace, SqlPCs, AdminOps
    <3> QED BY <1>3, <3>1, <3>2, OwnStep DEF DeleteGroupSettings
  <2>3. CASE g = settings.group
    BY <1>3, <2>1, <2>3, DoneStep DEF DeleteGroupSettings
  <2> QED BY <2>2, <2>3
<1>4. CASE DeleteGroupCount(r)
  <2>1. CASE ~InUse(req[r].group)
    <3>1. Fit([req[r] EXCEPT !.pc = "dropRow"])
      <4> DEFINE t == [req[r] EXCEPT !.pc = "dropRow"]
      <4>1. /\ t.pc = "dropRow" /\ t.op = req[r].op /\ t.me = req[r].me /\ t.group = req[r].group
        BY RequestType DEF IInv, PCs
      <4> HIDE DEF t
      <4>2. Fit(t)
        BY <1>1, <1>4, <2>1, <4>1 DEF DeleteGroupCount, Fit, InPlace, SqlPCs, AdminOps
      <4> QED BY <4>2 DEF t
    <3> QED BY <1>4, <2>1, <3>1, GoStep DEF DeleteGroupCount, PCs
  <2>2. CASE InUse(req[r].group)
    BY <1>4, <2>2, DoneStep DEF DeleteGroupCount
  <2> QED BY <2>1, <2>2
<1> QED BY <1>2, <1>3, <1>4

-----------------------------------------------------------------------------
(* The writes.  Each goes through what the other requests rely on.         *)

LEMMA SessionStep ==
  ASSUME IInv, \/ \E r \in Requests : CreateSession(r)
               \/ \E u \in Ids : SessionEnds(u)
  PROVE  IInv'
<1>1. ASSUME NEW r \in Requests, CreateSession(r)
      PROVE  IInv'
  <2>1. req[r] \in Request /\ Fit(req[r]) /\ req[r].pc = "newSession" /\ req[r].id \in Ids
    BY <1>1 DEF CreateSession, IInv, TypeOK, Fits, Fit, InPlace
  <2>2. /\ Alone' /\ req' \in [Requests -> Request] /\ req'[r] = Idle
        /\ \A q \in Requests \ {r} : req'[q] = req[q]
    BY <1>1, IdleFits, AloneStep DEF CreateSession, Done, IInv
  <2>3. TypeOK'
    BY <1>1, <2>1, <2>2 DEF CreateSession, IInv, TypeOK
  <2>4. Working(r)
    BY <2>1 DEF Fit, InPlace, Working
  <2>5. ASSUME NEW q \in Requests \ {r}
        PROVE  Fit(req[q])'
    <3>1. Fit(req[q])
      BY DEF IInv, Fits
    <3>2. "deletion" \notin raced => req[q].pc # "deleteRow"
      BY <2>4, <3>1 DEF IInv, Alone, Fit, InPlace, Working, Deletions
    <3> QED BY <1>1, <2>2, <3>1, <3>2
            DEF CreateSession, Fit, InPlace, EnabledAdmin, Admin, Here, Exists, InUse
  <2>6. Fit(Idle)'
    BY DEF Idle, Fit, InPlace, AdminOps, SqlPCs
  <2>7. Fits'
    BY <2>2, <2>5, <2>6 DEF Fits
  <2>8. AdminLeft' /\ GroupsResolve'
    BY <1>1 DEF CreateSession, IInv, AdminLeft, GroupsResolve, EnabledAdmin, Admin, Here, Exists
  <2>9. SessionsHaveUsers'
    BY <1>1, <2>1 DEF CreateSession, IInv, SessionsHaveUsers, Fit, Here
  <2> QED BY <2>2, <2>3, <2>7, <2>8, <2>9 DEF IInv
<1>2. ASSUME NEW u \in Ids, SessionEnds(u)
      PROVE  IInv'
  <2>1. TypeOK' /\ Alone'
    BY <1>2 DEF SessionEnds, IInv, TypeOK, Alone, Admitted, Working
  <2>2. Fits'
    BY <1>2 DEF SessionEnds, IInv, Fits, Fit, InPlace, EnabledAdmin, Admin, Here, Exists, InUse
  <2>3. AdminLeft' /\ GroupsResolve' /\ SessionsHaveUsers'
    BY <1>2 DEF SessionEnds, IInv, AdminLeft, GroupsResolve, SessionsHaveUsers, EnabledAdmin,
                Admin, Here, Exists
  <2> QED BY <2>1, <2>2, <2>3 DEF IInv
<1> QED BY <1>1, <1>2

(* A new user is in a group that exists, and an administrator only by the  *)
(* set-up or another administrator.                                        *)
LEMMA InsertedStep ==
  ASSUME IInv, NEW r \in Requests, NEW u \in Ids, NEW g \in Groups,
         req[r].pc \in {"create", "insert"}, users[u].state = "fresh", Inserted(r, u, g),
         backend = "json" \/ "deletion" \notin raced => Exists(g),
         UNCHANGED <<backend, groups, settings, sessions, raced>>
  PROVE  IInv'
<1>1. req[r] \in Request /\ Fit(req[r]) /\ req[r].op \in {"setup", "register", "createUser"}
  BY DEF IInv, TypeOK, Fits, Fit, InPlace
<1>2. PICK role \in Roles, d \in BOOLEAN :
        /\ MayCreate(req[r].op, role, d)
        /\ users' = [users EXCEPT ![u] =
                       [state |-> "here", role |-> role, disabled |-> d, group |-> g]]
  BY DEF Inserted
<1> DEFINE new == [state |-> "here", role |-> role, disabled |-> d, group |-> g]
<1>3. /\ new \in User /\ new.state = "here" /\ new.role = role /\ new.disabled = d
      /\ new.group = g
  BY <1>2 DEF User, States
<1>4. /\ users' \in [Ids -> User] /\ users'[u] = new
      /\ \A v \in Ids \ {u} : users'[v] = users[v]
  BY <1>2, <1>3 DEF IInv, TypeOK
<1> HIDE DEF new
<1>5. ~Here(u) /\ Here(u)'
  BY <1>3, <1>4 DEF Here
<1>6. \A v \in Ids : /\ Here(v) => v # u /\ Here(v)' /\ users'[v] = users[v]
                     /\ Here(v)' => v = u \/ Here(v)
  BY <1>4, <1>5 DEF Here
<1>7. PICK t \in Request :
        /\ req' = [req EXCEPT ![r] = t]
        /\ \/ t = Idle
           \/ /\ t.pc = "newSession" /\ t.id = u /\ t.op = req[r].op
              /\ t.op \in {"setup", "register"}
  <2>1. CASE req[r].op \in {"setup", "register"}
    <3> DEFINE t == [req[r] EXCEPT !.pc = "newSession", !.id = u, !.group = NoGroup]
    <3>1. req' = [req EXCEPT ![r] = t]
      BY <2>1 DEF Inserted, IInv, TypeOK
    <3>2. t \in Request /\ t.pc = "newSession" /\ t.id = u /\ t.op = req[r].op
      BY <1>1 DEF Request, PCs
    <3> HIDE DEF t
    <3> QED BY <2>1, <3>1, <3>2
  <2>2. CASE req[r].op \notin {"setup", "register"}
    BY <2>2, IdleFits DEF Inserted, Done
  <2> QED BY <2>1, <2>2
<1>8. /\ Alone' /\ req' \in [Requests -> Request] /\ req'[r] = t
      /\ \A q \in Requests \ {r} : req'[q] = req[q]
  <2>1. t.op \in {"none", "auth"} \/ t.op = req[r].op
    BY <1>7, IdleFits
  <2> QED BY <1>7, <2>1, AloneStep DEF IInv
<1>9. TypeOK'
  BY <1>4, <1>8 DEF IInv, TypeOK
<1>10. \A v \in Ids : EnabledAdmin(v) => EnabledAdmin(v)' /\ v # u
  BY <1>6 DEF EnabledAdmin, Admin
<1>11. /\ req[r].op = "register" => ~EnabledAdmin(u)' /\ ~Admin(u)'
       /\ req[r].op = "setup" => EnabledAdmin(u)'
       /\ \A v \in Ids \ {u} : /\ EnabledAdmin(v)' <=> EnabledAdmin(v)
                               /\ Admin(v)' <=> Admin(v)
  BY <1>2, <1>3, <1>4, <1>5 DEF MayCreate, EnabledAdmin, Admin, Here
<1>12. "admin" \notin raced /\ req[r].op = "createUser" => \E v \in Ids : EnabledAdmin(v)
  BY <1>1 DEF Fit, InPlace, AdminOps
<1>13. Working(r)
  BY <1>1 DEF Working
<1>14. ASSUME NEW q \in Requests \ {r}
       PROVE  Fit(req[q])'
  <2>1. Fit(req[q]) /\ req[q] \in Request
    BY DEF IInv, Fits, TypeOK
  <2>2. InPlace(req[q])'
    BY <1>8, <2>1 DEF Fit, InPlace
  <2>3. "admin" \notin raced /\ req[q].op \in AdminOps => EnabledAdmin(req[q].me)'
    BY <1>8, <1>10, <2>1 DEF Fit, InPlace
  <2>4. raced \cap {"admin", "setup"} = {} /\ req[q].op = "setup" /\ req[q].pc # "newSession"
          => \A v \in Ids : ~EnabledAdmin(v)'
    <3> SUFFICES ASSUME "admin" \notin raced, "setup" \notin raced, req[q].op = "setup",
                        req[q].pc # "newSession"
                 PROVE  \A v \in Ids : ~EnabledAdmin(v)'
      OBVIOUS
    <3>1. \A v \in Ids : ~EnabledAdmin(v)
      BY <2>1 DEF Fit, IInv, TypeOK
    <3>2. req[r].op = "register"
      BY <1>1, <1>12, <3>1 DEF IInv, Alone
    <3> QED BY <1>11, <3>1, <3>2
  <2>5. "deletion" \notin raced => req[q].op \notin Deletions \/ ~Working(q)
    BY <1>13 DEF IInv, Alone
  <2>6. "deletion" \notin raced => req[q].pc # "dropRow"
    BY <2>1, <2>5 DEF Fit, InPlace, Working, Deletions
  <2>7. "deletion" \notin raced /\ req[q].pc = "newSession" => Here(req[q].id)'
    BY <1>6, <1>8, <2>1 DEF Fit, InPlace
  <2> QED BY <1>8, <2>1, <2>2, <2>3, <2>4, <2>6, <2>7 DEF Fit, Exists
<1>15. Fit(t)'
  <2>1. CASE t = Idle
    BY <2>1 DEF Idle, Fit, InPlace, AdminOps, SqlPCs
  <2>2. CASE t # Idle
    BY <1>5, <1>7, <2>2 DEF Fit, InPlace, AdminOps, SqlPCs
  <2> QED BY <2>1, <2>2
<1>16. Fits'
  BY <1>8, <1>14, <1>15 DEF Fits
<1>17. AdminLeft'
  BY <1>1, <1>10, <1>11, <1>12 DEF IInv, AdminLeft
<1>18. GroupsResolve'
  BY <1>3, <1>4, <1>6 DEF IInv, GroupsResolve, Exists
<1>19. SessionsHaveUsers'
  BY <1>6 DEF IInv, TypeOK, SessionsHaveUsers
<1> QED BY <1>8, <1>9, <1>16, <1>17, <1>18, <1>19 DEF IInv

LEMMA CreateUserStep ==
  ASSUME IInv, NEW r \in Requests, CreateUserJSON(r) \/ CreateUserInsert(r)
  PROVE  IInv'
<1>1. req[r] \in Request /\ Fit(req[r]) /\ settings.group \in Groups
  BY DEF IInv, TypeOK, Fits
<1>2. CASE CreateUserJSON(r)
  <2>1. PICK g \in Named(r) :
          IF Exists(OrDefault(g))
          THEN \E u \in Ids : users[u].state = "fresh" /\ Inserted(r, u, OrDefault(g))
          ELSE Done(r) /\ UNCHANGED users
    BY <1>2 DEF CreateUserJSON
  <2>2. CASE Exists(OrDefault(g))
    <3>1. PICK u \in Ids : users[u].state = "fresh" /\ Inserted(r, u, OrDefault(g))
      BY <2>1, <2>2
    <3>2. OrDefault(g) \in Groups
      BY <2>2 DEF Exists
    <3>3. req[r].pc \in {"create", "insert"}
      BY <1>2 DEF CreateUserJSON
    <3>4. UNCHANGED <<backend, groups, settings, sessions, raced>>
      BY <1>2 DEF CreateUserJSON
    <3> QED BY <2>2, <3>1, <3>2, <3>3, <3>4, InsertedStep
  <2>3. CASE ~Exists(OrDefault(g))
    BY <1>2, <2>1, <2>3, DoneStep DEF CreateUserJSON
  <2> QED BY <2>2, <2>3
<1>3. CASE CreateUserInsert(r)
  <2>1. PICK u \in Ids : users[u].state = "fresh" /\ Inserted(r, u, req[r].group)
    BY <1>3 DEF CreateUserInsert
  <2>2. /\ req[r].pc = "insert" /\ req[r].group \in Groups /\ backend = "sql"
        /\ "deletion" \notin raced => Exists(req[r].group)
    BY <1>1, <1>3 DEF CreateUserInsert, Fit, InPlace, SqlPCs
  <2>3. UNCHANGED <<backend, groups, settings, sessions, raced>>
    BY <1>3 DEF CreateUserInsert
  <2> QED BY <2>1, <2>2, <2>3, InsertedStep
<1> QED BY <1>2, <1>3

(* An update by an administrator leaves himself one. *)
LEMMA PatchedStep ==
  ASSUME IInv, NEW r \in Requests, NEW u \in Ids, NEW g \in Groups \cup {NoGroup},
         req[r].pc \in {"update", "updateRow"}, Patched(r, u, g), Done(r),
         (backend = "json" \/ "deletion" \notin raced) /\ Here(u) => Exists(g),
         UNCHANGED <<backend, groups, settings, sessions, raced>>
  PROVE  IInv'
<1>1. /\ req[r] \in Request /\ Fit(req[r]) /\ req[r].op = "updateUser" /\ req[r].me \in Ids
      /\ Admitted(r) /\ Working(r)
  BY DEF IInv, TypeOK, Fits, Fit, InPlace, AdminOps, Admitted, Working
<1>2. PICK role \in Roles, d \in BOOLEAN :
        /\ MayChange(req[r].me, u, users[u],
                     [users[u] EXCEPT !.role = role, !.disabled = d, !.group = g])
        /\ users' = IF Here(u)
                    THEN [users EXCEPT ![u] =
                            [users[u] EXCEPT !.role = role, !.disabled = d, !.group = g]]
                    ELSE users
  BY DEF Patched
<1>3. CASE ~Here(u)
  BY <1>2, <1>3, DoneStep
<1>4. CASE Here(u)
  <2> DEFINE new == [users[u] EXCEPT !.role = role, !.disabled = d, !.group = g]
  <2>1. /\ new \in User /\ new.state = "here" /\ new.group = g
        /\ new.role = role /\ new.disabled = d
    BY <1>2, <1>4 DEF IInv, TypeOK, User, Here
  <2>2. /\ users' \in [Ids -> User] /\ users'[u] = new
        /\ \A v \in Ids \ {u} : users'[v] = users[v]
    BY <1>2, <1>4, <2>1 DEF IInv, TypeOK
  <2>3. u = req[r].me => /\ role \in {users[u].role, "admin"}
                         /\ d \in {users[u].disabled, FALSE}
    BY <1>2, <2>1 DEF MayChange
  <2> HIDE DEF new
  <2>4. /\ Alone' /\ req' \in [Requests -> Request] /\ req'[r] = Idle
        /\ \A q \in Requests \ {r} : req'[q] = req[q]
    BY IdleFits, AloneStep DEF Done, IInv
  <2>5. TypeOK'
    BY <2>2, <2>4 DEF IInv, TypeOK
  <2>6. \A v \in Ids : Here(v)' <=> Here(v)
    BY <1>4, <2>1, <2>2 DEF Here
  <2>7. \A v \in Ids \ {u} : /\ EnabledAdmin(v)' <=> EnabledAdmin(v)
                             /\ Admin(v)' <=> Admin(v)
    BY <2>2 DEF EnabledAdmin, Admin, Here
  <2>8. PICK me \in Ids : me = req[r].me
    BY <1>1
  <2>9. "admin" \notin raced => EnabledAdmin(me) /\ EnabledAdmin(me)'
    <3>1. "admin" \notin raced => EnabledAdmin(me)
      BY <1>1, <2>8 DEF Fit, AdminOps
    <3>2. u = me /\ EnabledAdmin(me) => EnabledAdmin(me)'
      BY <2>1, <2>2, <2>3, <2>8 DEF EnabledAdmin, Admin, Here
    <3> QED BY <2>7, <3>1, <3>2
  <2>10. ASSUME NEW q \in Requests \ {r}
         PROVE  Fit(req[q])'
    <3>1. Fit(req[q]) /\ req[q] \in Request
      BY DEF IInv, Fits, TypeOK
    <3>2. InPlace(req[q])'
      BY <2>4, <3>1 DEF Fit, InPlace
    <3>3. "admin" \notin raced => req[q].op \notin AdminOps
      BY <1>1 DEF IInv, Alone, Admitted
    <3>4. "admin" \in raced \/ "setup" \in raced \/ req[q].op # "setup" \/ req[q].pc = "newSession"
      BY <2>9, <3>1 DEF Fit, IInv, TypeOK
    <3>5. "deletion" \notin raced => req[q].pc # "dropRow"
      BY <1>1, <3>1 DEF IInv, Alone, Fit, InPlace, Working, Deletions
    <3>6. "deletion" \notin raced /\ req[q].pc = "newSession" => Here(req[q].id)'
      BY <2>4, <2>6, <3>1 DEF Fit, InPlace
    <3> QED BY <2>4, <3>1, <3>2, <3>3, <3>4, <3>5, <3>6 DEF Fit, Exists
  <2>11. Fit(Idle)'
    BY DEF Idle, Fit, InPlace, AdminOps, SqlPCs
  <2>12. Fits'
    BY <2>4, <2>10, <2>11 DEF Fits
  <2>13. AdminLeft'
    BY <2>9 DEF AdminLeft
  <2>14. GroupsResolve'
    BY <1>4, <2>1, <2>2, <2>6 DEF IInv, GroupsResolve, Exists
  <2>15. SessionsHaveUsers'
    BY <2>6 DEF IInv, TypeOK, SessionsHaveUsers
  <2> QED BY <2>4, <2>5, <2>12, <2>13, <2>14, <2>15 DEF IInv
<1> QED BY <1>3, <1>4

LEMMA UpdateUserStep ==
  ASSUME IInv, NEW r \in Requests, UpdateUserJSON(r) \/ UpdateUserRow(r)
  PROVE  IInv'
<1>1. req[r] \in Request /\ Fit(req[r]) /\ users \in [Ids -> User]
  BY DEF IInv, TypeOK, Fits
<1>2. CASE UpdateUserJSON(r)
  <2>1. PICK u \in Ids, h \in Groups \cup {NoGroup} :
          Patched(r, u, IF Exists(h) THEN h ELSE users[u].group)
    BY <1>2 DEF UpdateUserJSON
  <2>2. PICK g \in Groups \cup {NoGroup} :
          Patched(r, u, g) /\ (Here(u) => Exists(g) \/ g = users[u].group)
    BY <1>1, <2>1 DEF User
  <2>3. Here(u) => Exists(g)
    BY <1>2, <2>2 DEF UpdateUserJSON, IInv, GroupsResolve
  <2>4. /\ req[r].pc \in {"update", "updateRow"} /\ Done(r)
        /\ UNCHANGED <<backend, groups, settings, sessions, raced>>
    BY <1>2 DEF UpdateUserJSON
  <2> QED BY <2>2, <2>3, <2>4, PatchedStep
<1>3. CASE UpdateUserRow(r)
  <2>1. PICK u \in Ids : Patched(r, u, Kept(u, req[r].group))
    BY <1>3 DEF UpdateUserRow
  <2>2. PICK g \in Groups \cup {NoGroup} :
          /\ Patched(r, u, g)
          /\ g = IF req[r].group = NoGroup THEN users[u].group ELSE req[r].group
    BY <1>1, <2>1 DEF Kept, User, Request
  <2>3. /\ req[r].pc = "updateRow" /\ backend = "sql"
        /\ "deletion" \notin raced => req[r].group = NoGroup \/ Exists(req[r].group)
    BY <1>1, <1>3 DEF UpdateUserRow, Fit, InPlace, SqlPCs
  <2>4. "deletion" \notin raced /\ Here(u) => Exists(g)
    BY <2>2, <2>3 DEF IInv, GroupsResolve
  <2>5. Done(r) /\ UNCHANGED <<backend, groups, settings, sessions, raced>>
    BY <1>3 DEF UpdateUserRow
  <2> QED BY <2>2, <2>3, <2>4, <2>5, PatchedStep
<1> QED BY <1>2, <1>3

(* A deletion takes the sessions before the user, or with him, and never   *)
(* takes the one who asked for it.                                         *)
LEMMA DeleteUserStep ==
  ASSUME IInv, NEW r \in Requests,
         DeleteUserJSON(r) \/ DeleteUserSessions(r) \/ DeleteUserRow(r)
  PROVE  IInv'
<1>1. /\ req[r] \in Request /\ Fit(req[r]) /\ req[r].op = "deleteUser"
      /\ req[r].pc \in {"delete", "deleteRow"}
      /\ req[r].me \in Ids /\ req[r].id \in Ids \ {req[r].me}
      /\ Admitted(r) /\ Working(r)
  BY DEF DeleteUserJSON, DeleteUserSessions, DeleteUserRow, IInv, TypeOK, Fits, Fit, InPlace,
         AdminOps, Admitted, Working
<1>2. PICK u \in Ids, me \in Ids : u = req[r].id /\ me = req[r].me /\ u # me
  BY <1>1
<1>3. "admin" \notin raced => EnabledAdmin(me)
  BY <1>1, <1>2 DEF Fit, AdminOps
<1>4. ASSUME NEW q \in Requests \ {r}
      PROVE  /\ Fit(req[q]) /\ req[q] \in Request
             /\ "admin" \notin raced => req[q].op \notin AdminOps
             /\ "deletion" \notin raced => req[q].pc \in {"idle", "user"}
             /\ \/ "admin" \in raced \/ "setup" \in raced
                \/ req[q].op # "setup" \/ req[q].pc = "newSession"
  <2>1. Fit(req[q]) /\ req[q] \in Request
    BY DEF IInv, Fits, TypeOK
  <2>2. "admin" \notin raced => req[q].op \notin AdminOps
    BY <1>1 DEF IInv, Alone, Admitted
  <2>3. "deletion" \notin raced => ~Working(q)
    BY <1>1 DEF IInv, Alone, Deletions
  <2>4. "deletion" \notin raced => req[q].pc \in {"idle", "user"}
    BY <2>1, <2>3 DEF Working, Fit, InPlace
  <2>5. \/ "admin" \in raced \/ "setup" \in raced
        \/ req[q].op # "setup" \/ req[q].pc = "newSession"
    BY <1>3, <2>1 DEF Fit, IInv, TypeOK
  <2> QED BY <2>1, <2>2, <2>4, <2>5
<1>5. CASE DeleteUserSessions(r)
  <2> DEFINE t == [req[r] EXCEPT !.pc = "deleteRow"]
  <2>1. /\ t \in Request /\ t.pc = "deleteRow" /\ t.op = "deleteUser" /\ t.me = me /\ t.id = u
        /\ req' = [req EXCEPT ![r] = t]
    BY <1>1, <1>2, <1>5, RequestType DEF DeleteUserSessions, Go, PCs, IInv
  <2> HIDE DEF t
  <2>2. /\ Alone' /\ req' \in [Requests -> Request] /\ req'[r] = t
        /\ \A q \in Requests \ {r} : req'[q] = req[q]
    BY <1>1, <1>5, <2>1, AloneStep DEF DeleteUserSessions, IInv
  <2>3. sessions' = sessions \ {u} /\ UNCHANGED <<backend, users, groups, settings, raced>>
    BY <1>2, <1>5 DEF DeleteUserSessions
  <2>4. TypeOK'
    BY <2>2, <2>3 DEF IInv, TypeOK
  <2>5. ASSUME NEW q \in Requests \ {r} PROVE Fit(req[q])'
    BY <1>4, <2>2, <2>3 DEF Fit, InPlace, EnabledAdmin, Admin, Here, Exists, InUse
  <2>6. /\ req'[r].pc = "deleteRow" /\ req'[r].op = "deleteUser" /\ req'[r].me = me
        /\ req'[r].id = u /\ u \notin sessions' /\ backend' = "sql"
        /\ "admin" \notin raced' => EnabledAdmin(me)'
    BY <1>3, <1>5, <2>1, <2>2, <2>3 DEF EnabledAdmin, Admin, Here, DeleteUserSessions
  <2>7. Fit(req[r])'
    BY <1>2, <2>6 DEF Fit, InPlace, AdminOps, SqlPCs
  <2>8. Fits'
    BY <2>5, <2>7 DEF Fits
  <2>9. AdminLeft' /\ GroupsResolve' /\ SessionsHaveUsers'
    BY <2>3 DEF IInv, AdminLeft, GroupsResolve, SessionsHaveUsers, EnabledAdmin, Admin, Here,
                Exists
  <2> QED BY <2>2, <2>4, <2>8, <2>9 DEF IInv
<1>6. CASE DeleteUserJSON(r) \/ DeleteUserRow(r)
  <2>1. /\ Done(r) /\ Removed(u) /\ UNCHANGED <<backend, groups, settings, raced>>
        /\ sessions' \subseteq sessions
        /\ "deletion" \notin raced => u \notin sessions'
    <3>1. CASE DeleteUserJSON(r)
      BY <1>2, <3>1 DEF DeleteUserJSON, IInv, SessionsHaveUsers
    <3>2. CASE DeleteUserRow(r)
      BY <1>1, <1>2, <3>2 DEF DeleteUserRow, Fit
    <3> QED BY <1>6, <3>1, <3>2
  <2>2. /\ Alone' /\ req' \in [Requests -> Request] /\ req'[r] = Idle
        /\ \A q \in Requests \ {r} : req'[q] = req[q]
    BY <2>1, IdleFits, AloneStep DEF Done, IInv
  <2> DEFINE none == [NoUser EXCEPT !.state = "gone"]
  <2>3. none \in User /\ none.state = "gone"
    BY DEF NoUser, User, States, Roles
  <2>4. users' = IF Here(u) THEN [users EXCEPT ![u] = none] ELSE users
    BY <2>1 DEF Removed
  <2> HIDE DEF none
  <2>5. /\ users' \in [Ids -> User] /\ ~Here(u)'
        /\ \A v \in Ids \ {u} : users'[v] = users[v]
    BY <2>3, <2>4 DEF IInv, TypeOK, Here
  <2>6. TypeOK'
    BY <2>1, <2>2, <2>5 DEF IInv, TypeOK
  <2>7. /\ \A v \in Ids : EnabledAdmin(v)' => EnabledAdmin(v)
        /\ \A v \in Ids : Here(v)' => Here(v) /\ users'[v] = users[v]
        /\ \A v \in Ids \ {u} : Here(v)' <=> Here(v)
        /\ "admin" \notin raced => EnabledAdmin(me)'
    BY <1>2, <1>3, <2>5 DEF EnabledAdmin, Admin, Here
  <2>8. ASSUME NEW q \in Requests \ {r} PROVE Fit(req[q])'
    <3>1. InPlace(req[q])'
      BY <1>4, <2>1, <2>2 DEF Fit, InPlace
    <3> QED BY <1>4, <2>1, <2>2, <3>1 DEF Fit
  <2>9. Fit(Idle)'
    BY DEF Idle, Fit, InPlace, AdminOps, SqlPCs
  <2>10. Fits'
    BY <2>2, <2>8, <2>9 DEF Fits
  <2>11. AdminLeft'
    BY <2>1, <2>7 DEF AdminLeft
  <2>12. GroupsResolve'
    BY <2>1, <2>7 DEF IInv, GroupsResolve, Exists
  <2>13. SessionsHaveUsers'
    BY <2>1, <2>7 DEF IInv, TypeOK, SessionsHaveUsers
  <2> QED BY <2>2, <2>6, <2>10, <2>11, <2>12, <2>13 DEF IInv
<1> QED BY <1>5, <1>6

(* The settings and the groups change: whoever else relies on them would   *)
(* be known to overlap.                                                    *)
LEMMA DirectoryWrite ==
  ASSUME IInv, NEW r \in Requests, NEW t \in Request, Admitted(r),
         req' = [req EXCEPT ![r] = t], t.op = "none" \/ t.op = req[r].op, Fit(t)',
         groups' \in [Groups -> States], settings' \in [group : Groups, registration : BOOLEAN],
         UNCHANGED <<backend, users, sessions, raced>>,
         req[r].op \notin Deletions => \A g \in Groups : Exists(g) => Exists(g)',
         backend = "json" \/ "deletion" \notin raced =>
           Exists(settings.group)' /\ \A u \in Ids : Here(u) => Exists(users[u].group)'
  PROVE  IInv'
<1>1. /\ Alone' /\ req' \in [Requests -> Request] /\ req'[r] = t
      /\ \A q \in Requests \ {r} : req'[q] = req[q]
  BY AloneStep DEF IInv
<1>2. TypeOK'
  BY <1>1 DEF IInv, TypeOK
<1>3. Working(r)
  BY DEF Working, Admitted, AdminOps
<1>4. ASSUME NEW q \in Requests \ {r} PROVE Fit(req[q])'
  <2>1. Fit(req[q])
    BY DEF IInv, Fits
  <2>2. InPlace(req[q])'
    BY <1>1, <2>1 DEF Fit, InPlace
  <2>3. "admin" \notin raced => req[q].op \notin AdminOps /\ req[q].pc \notin {"checkGroup", "upsert"}
    BY <2>1 DEF IInv, Alone, Admitted, Fit, InPlace, AdminOps
  <2>4. "deletion" \notin raced => req[q].pc \notin {"countUsers", "dropRow"}
    BY <1>3, <2>1 DEF IInv, Alone, Fit, InPlace, Working, Deletions
  <2>5. "deletion" \notin raced /\ req[q].pc \in {"insert", "upsert"} => Exists(req[q].group)'
    BY <1>1, <1>3, <2>1 DEF IInv, Alone, Fit, InPlace, Working, SqlPCs
  <2>6. "deletion" \notin raced /\ req[q].pc = "updateRow" =>
          req[q].group = NoGroup \/ Exists(req[q].group)'
    <3>1. Exists(req[q].group) => req[q].group \in Groups
      BY DEF Exists
    <3> QED BY <1>1, <1>3, <2>1, <3>1 DEF IInv, Alone, Fit, InPlace, Working
  <2> QED BY <1>1, <2>1, <2>2, <2>3, <2>4, <2>5, <2>6 DEF Fit, EnabledAdmin, Admin, Here
<1>5. Fits'
  BY <1>1, <1>4 DEF Fits
<1>6. AdminLeft' /\ GroupsResolve' /\ SessionsHaveUsers'
  BY DEF IInv, AdminLeft, GroupsResolve, SessionsHaveUsers, EnabledAdmin, Admin, Here
<1> QED BY <1>1, <1>2, <1>5, <1>6 DEF IInv

LEMMA DirectoryDone ==
  ASSUME IInv, NEW r \in Requests, Admitted(r), Done(r),
         groups' \in [Groups -> States], settings' \in [group : Groups, registration : BOOLEAN],
         UNCHANGED <<backend, users, sessions, raced>>,
         req[r].op \notin Deletions => \A g \in Groups : Exists(g) => Exists(g)',
         backend = "json" \/ "deletion" \notin raced =>
           Exists(settings.group)' /\ \A u \in Ids : Here(u) => Exists(users[u].group)'
  PROVE  IInv'
<1>1. Fit(Idle)'
  BY DEF Idle, Fit, InPlace, AdminOps, SqlPCs
<1> QED BY <1>1, IdleFits, DirectoryWrite DEF Done

LEMMA SaveSettingsStep ==
  ASSUME IInv, NEW r \in Requests, SaveSettingsJSON(r) \/ Upsert(r) \/ UpdateGroupJSON(r)
  PROVE  IInv'
<1>1. /\ req[r] \in Request /\ Fit(req[r]) /\ Admitted(r) /\ req[r].op \notin Deletions /\ Done(r)
      /\ UNCHANGED <<backend, users, groups, sessions, raced>>
  BY DEF SaveSettingsJSON, Upsert, UpdateGroupJSON, IInv, TypeOK, Fits, Fit, InPlace, AdminOps,
         Admitted, Deletions
<1>2. CASE UNCHANGED settings
  BY <1>1, <1>2, DoneStep
<1>3. ASSUME NEW g \in Groups, NEW b \in BOOLEAN, Saved(g, b),
             backend = "json" \/ "deletion" \notin raced => Exists(g)
      PROVE  IInv'
  <2>1. settings' \in [group : Groups, registration : BOOLEAN] /\ settings'.group = g
    BY <1>3 DEF Saved
  <2>2. \A h \in Groups : Exists(h) <=> Exists(h)'
    BY <1>1 DEF Exists
  <2>3. backend = "json" \/ "deletion" \notin raced =>
           Exists(settings.group)' /\ \A u \in Ids : Here(u) => Exists(users[u].group)'
    BY <1>1, <1>3, <2>1 DEF IInv, GroupsResolve, Exists
  <2>4. groups' \in [Groups -> States]
    BY <1>1 DEF IInv, TypeOK
  <2> QED BY <1>1, <2>1, <2>2, <2>3, <2>4, DirectoryDone
<1>4. CASE SaveSettingsJSON(r)
  <2>1. PICK g \in Groups \cup {NoGroup}, b \in BOOLEAN :
          IF Exists(OrDefault(g)) THEN Saved(OrDefault(g), b) ELSE UNCHANGED settings
    BY <1>4 DEF SaveSettingsJSON
  <2>2. Exists(OrDefault(g)) => OrDefault(g) \in Groups
    BY DEF Exists
  <2> QED BY <1>2, <1>3, <2>1, <2>2
<1>5. CASE Upsert(r)
  <2>1. /\ Saved(req[r].group, req[r].flag) /\ req[r].group \in Groups /\ req[r].flag \in BOOLEAN
        /\ backend = "sql" /\ "deletion" \notin raced => Exists(req[r].group)
    BY <1>1, <1>5 DEF Upsert, Fit, InPlace, SqlPCs, Request
  <2>2. backend = "sql"
    BY <1>1, <1>5 DEF Upsert, Fit, InPlace, SqlPCs
  <2> QED BY <1>3, <2>1, <2>2
<1>6. CASE UpdateGroupJSON(r)
  <2>1. settings.registration \in BOOLEAN
    BY DEF IInv, TypeOK
  <2> QED BY <1>2, <1>3, <1>6, <2>1 DEF UpdateGroupJSON
<1> QED BY <1>4, <1>5, <1>6

LEMMA CreateGroupStep ==
  ASSUME IInv, NEW r \in Requests, CreateGroupJSON(r) \/ CreateGroupRow(r)
  PROVE  IInv'
<1>1. /\ req[r] \in Request /\ Fit(req[r]) /\ Admitted(r) /\ req[r].op = "createGroup"
      /\ req[r].pc = "addGroup" /\ req[r].op \notin Deletions
      /\ UNCHANGED <<backend, users, sessions, raced>>
  BY DEF CreateGroupJSON, CreateGroupRow, IInv, TypeOK, Fits, Fit, InPlace, AdminOps, Admitted,
         Deletions
<1>2. PICK g \in Groups :
        /\ Created(g)
        /\ settings' = settings \/ Saved(g, settings.registration)
        /\ \/ Done(r)
           \/ /\ req' = [req EXCEPT ![r].pc = "readSettings", ![r].group = g]
              /\ backend = "sql"
  BY DEF CreateGroupJSON, CreateGroupRow
<1>3. groups' \in [Groups -> States] /\ Exists(g)' /\ \A h \in Groups : Exists(h) => Exists(h)'
  BY <1>2 DEF Created, Fresh, Exists, IInv, TypeOK, States
<1>4. settings' \in [group : Groups, registration : BOOLEAN] /\ settings'.group \in {settings.group, g}
  BY <1>2 DEF Saved, IInv, TypeOK
<1>5. backend = "json" \/ "deletion" \notin raced =>
        Exists(settings.group)' /\ \A u \in Ids : Here(u) => Exists(users[u].group)'
  <2> SUFFICES ASSUME backend = "json" \/ "deletion" \notin raced
               PROVE  Exists(settings.group)' /\ \A u \in Ids : Here(u) => Exists(users[u].group)'
    OBVIOUS
  <2>1. /\ settings.group \in Groups /\ Exists(settings.group)
        /\ \A u \in Ids : Here(u) => users[u].group \in Groups /\ Exists(users[u].group)
    BY DEF IInv, TypeOK, GroupsResolve, Exists
  <2>2. groups'[settings.group] = "here" /\ groups'[g] = "here"
        /\ \A u \in Ids : Here(u) => groups'[users[u].group] = "here"
    BY <1>2, <2>1 DEF Created, Fresh, Exists, IInv, TypeOK
  <2> QED BY <1>1, <1>4, <2>1, <2>2 DEF Exists
<1>6. CASE Done(r)
  BY <1>1, <1>3, <1>4, <1>5, <1>6, DirectoryDone
<1>7. CASE req' = [req EXCEPT ![r].pc = "readSettings", ![r].group = g] /\ backend = "sql"
  <2>1. PICK t \in Request :
          /\ req' = [req EXCEPT ![r] = t] /\ t.pc = "readSettings" /\ t.group = g
          /\ t.op = req[r].op /\ t.me = req[r].me
    <3>1. /\ req' = [req EXCEPT ![r] = req'[r]] /\ req'[r] \in Request
          /\ req'[r].pc = "readSettings" /\ req'[r].group = g
          /\ req'[r].op = req[r].op /\ req'[r].me = req[r].me
      BY <1>7, GroupFields DEF IInv, PCs
    <3> QED BY <3>1
  <2>2. t.me \in Ids
    BY <1>1, <2>1 DEF Fit, InPlace, AdminOps
  <2>3. PICK me \in Ids : me = t.me
    BY <2>2
  <2>4. "admin" \notin raced' => EnabledAdmin(me)'
    BY <1>1, <2>1, <2>3 DEF Fit, AdminOps, EnabledAdmin, Admin, Here
  <2>5. Fit(t)'
    BY <1>1, <1>7, <2>1, <2>3, <2>4 DEF Fit, InPlace, SqlPCs, AdminOps
  <2> QED BY <1>1, <1>3, <1>4, <1>5, <2>1, <2>5, DirectoryWrite
<1> QED BY <1>2, <1>6, <1>7

LEMMA DeleteGroupStep ==
  ASSUME IInv, NEW r \in Requests, DeleteGroupJSON(r) \/ DeleteGroupRow(r)
  PROVE  IInv'
<1>1. /\ req[r] \in Request /\ Fit(req[r]) /\ Admitted(r) /\ req[r].op = "deleteGroup"
      /\ UNCHANGED <<backend, users, settings, sessions, raced>>
  BY DEF DeleteGroupJSON, DeleteGroupRow, IInv, TypeOK, Fits, Fit, InPlace, AdminOps, Admitted
<1>2. ASSUME NEW g \in Groups, DropGroup(r, g),
             backend = "json" \/ "deletion" \notin raced => g # settings.group /\ ~InUse(g)
      PROVE  IInv'
  <2>1. /\ Done(r) /\ groups' \in [Groups -> States]
        /\ \A h \in Groups \ {g} : Exists(h) => Exists(h)'
    BY <1>2 DEF DropGroup, Exists, IInv, TypeOK, States
  <2>2. backend = "json" \/ "deletion" \notin raced =>
          Exists(settings.group)' /\ \A u \in Ids : Here(u) => Exists(users[u].group)'
    <3> SUFFICES ASSUME backend = "json" \/ "deletion" \notin raced
                 PROVE  /\ Exists(settings.group)'
                        /\ \A u \in Ids : Here(u) => Exists(users[u].group)'
      OBVIOUS
    <3>1. /\ settings.group \in Groups \ {g} /\ Exists(settings.group)
          /\ \A u \in Ids : Here(u) => users[u].group \in Groups \ {g} /\ Exists(users[u].group)
      BY <1>2 DEF IInv, TypeOK, GroupsResolve, Exists, InUse
    <3> QED BY <1>1, <2>1, <3>1 DEF Exists
  <2>3. settings' \in [group : Groups, registration : BOOLEAN]
    BY <1>1 DEF IInv, TypeOK
  <2> QED BY <1>1, <2>1, <2>2, <2>3, DirectoryDone DEF Deletions
<1>3. CASE DeleteGroupJSON(r)
  BY <1>2, <1>3, DoneStep DEF DeleteGroupJSON
<1>4. CASE DeleteGroupRow(r)
  <2>1. /\ req[r].group \in Groups /\ DropGroup(r, req[r].group) /\ backend = "sql"
        /\ "deletion" \notin raced => req[r].group # settings.group /\ ~InUse(req[r].group)
    BY <1>1, <1>4 DEF DeleteGroupRow, Fit, InPlace, SqlPCs
  <2>2. backend # "json"
    BY <2>1
  <2> QED BY <1>2, <2>1, <2>2
<1> QED BY <1>3, <1>4

-----------------------------------------------------------------------------
LEMMA NextInv == IInv /\ [Next]_vars => IInv'
<1> SUFFICES ASSUME IInv, [Next]_vars PROVE IInv'
  OBVIOUS
<1>1. ASSUME NEW r \in Requests, AccountStep(r)
      PROVE  IInv'
  <2>1. CASE \/ handleSetupAdmin(r) \/ handleRegister(r) \/ RegisterSettings(r) \/ Fails(r)
             \/ \E u \in Ids : handleLogin(r, u) \/ GetSession(r, u)
    BY <2>1, OutsideStep
  <2>2. CASE CreateSession(r)
    BY <2>2, SessionStep
  <2>3. CASE withAdmin(r)
    BY <2>3, withAdminStep
  <2>4. CASE \/ CreateUserJSON(r) \/ CreateUserSettings(r) \/ CreateUserGroup(r)
             \/ CreateUserInsert(r)
    BY <2>4, CreateUserStep, CreateLookStep
  <2>5. CASE UpdateUserJSON(r) \/ UpdateUserGroup(r) \/ UpdateUserRow(r)
    BY <2>5, UpdateUserStep, UpdateUserGroupStep
  <2>6. CASE \/ DeleteTarget(r) \/ DeleteCount(r)
             \/ DeleteUserJSON(r) \/ DeleteUserSessions(r) \/ DeleteUserRow(r)
    BY <2>6, DeleteLookStep, DeleteUserStep
  <2> QED BY <1>1, <2>1, <2>2, <2>3, <2>4, <2>5, <2>6 DEF AccountStep
<1>2. ASSUME NEW r \in Requests, DirectoryStep(r)
      PROVE  IInv'
  BY <1>2, SaveSettingsStep, SettingsLookStep, CreateGroupStep, GroupLookStep, DeleteGroupStep
     DEF DirectoryStep
<1>3. ASSUME NEW u \in Ids, SessionEnds(u)
      PROVE  IInv'
  BY <1>3, SessionStep
<1>4. CASE UNCHANGED vars
  <2>1. TypeOK' /\ Alone'
    BY <1>4 DEF vars, IInv, TypeOK, Alone, Admitted, Working
  <2>2. Fits'
    BY <1>4 DEF vars, IInv, Fits, Fit, InPlace, EnabledAdmin, Admin, Here, Exists, InUse
  <2>3. AdminLeft' /\ GroupsResolve' /\ SessionsHaveUsers'
    BY <1>4 DEF vars, IInv, AdminLeft, GroupsResolve, SessionsHaveUsers, EnabledAdmin, Admin, Here,
                Exists
  <2> QED BY <2>1, <2>2, <2>3 DEF IInv
<1> QED BY <1>1, <1>2, <1>3, <1>4 DEF Next

LEMMA Inductive == Spec => []IInv
BY InitInv, NextInv, PTL DEF Spec

-----------------------------------------------------------------------------
(* The state is typed; in particular every session is of a known id and a  *)
(* request that goes on with a user or a group has one.                    *)
THEOREM TypeCorrect == Spec => []TypeOK
<1>1. IInv => TypeOK
  BY DEF IInv
<1> QED BY <1>1, Inductive, PTL

(* Sessions are of users that are there, unless a deletion overlapped.     *)
THEOREM SessionsCorrect == Spec => []SessionsHaveUsers
<1>1. IInv => SessionsHaveUsers
  BY DEF IInv
<1> QED BY <1>1, Inductive, PTL

(* The default group and every user's group exist: on the JSON store       *)
(* always, on the SQL stores unless a deletion overlapped.                 *)
THEOREM GroupsCorrect == Spec => []GroupsResolve
<1>1. IInv => GroupsResolve
  BY DEF IInv
<1> QED BY <1>1, Inductive, PTL

(* An enabled administrator remains, and who administers is one, unless    *)
(* two administrative requests overlapped. *)
THEOREM AdminCorrect == Spec => []AdminRemains
<1>1. IInv => AdminRemains
  BY DEF IInv, Fits, Fit, AdminLeft, AdminRemains, Admitted
<1> QED BY <1>1, Inductive, PTL

(* The set-up makes an administrator only where there is none. *)
THEOREM SetupCorrect == Spec => SetupOnlyWhenEmpty
<1> DEFINE Alone1 ==
      \A r \in Requests :
        req[r].op = "setup" /\ req[r].pc \in {"create", "insert"} /\ req'[r].pc = "newSession"
        /\ raced \cap {"admin", "setup"} = {}
        => \A u \in Ids : ~EnabledAdmin(u)
<1>1. IInv => Alone1
  BY DEF IInv, Fits, Fit
<1> QED BY <1>1, Inductive, PTL DEF SetupOnlyWhenEmpty

(* Only saving the settings turns the registration switch. *)
THEOREM RegistrationCorrect == Spec => RegistrationAsSaved
<1> DEFINE Turned ==
      settings'.registration # settings.registration
      /\ (backend = "json" \/ "admin" \notin raced)
      => \E r \in Requests : req[r].op = "saveSettings" /\ req'[r] # req[r]
<1>1. ASSUME IInv, [Next]_vars PROVE Turned
  <2> SUFFICES ASSUME settings'.registration # settings.registration,
                      backend = "json" \/ "admin" \notin raced
               PROVE  \E r \in Requests : req[r].op = "saveSettings" /\ req'[r] # req[r]
    OBVIOUS
  <2>1. PICK r \in Requests :
          SaveSettingsJSON(r) \/ Upsert(r) \/ UpdateGroupJSON(r) \/ CreateGroupJSON(r)
    BY <1>1 DEF Next, vars, AccountStep, DirectoryStep, handleSetupAdmin, handleRegister,
                RegisterSettings, handleLogin, GetSession, CreateSession, Fails, withAdmin,
                CreateUserJSON, CreateUserSettings, CreateUserGroup, CreateUserInsert,
                UpdateUserJSON, UpdateUserGroup, UpdateUserRow, DeleteTarget, DeleteCount,
                DeleteUserJSON, DeleteUserSessions, DeleteUserRow, SaveSettingsSQL, CheckGroup,
                CreateGroupRow, UpdateGroupRow, ReadSettings, DeleteGroupJSON,
                DeleteGroupSettings, DeleteGroupCount, DeleteGroupRow, SessionEnds
  <2>2. req[r] \in Request /\ Fit(req[r])
    BY <1>1 DEF IInv, TypeOK, Fits
  <2>3. /\ Done(r) /\ req[r].pc # "idle"
    BY <2>1 DEF SaveSettingsJSON, Upsert, UpdateGroupJSON, CreateGroupJSON
  <2>4. req'[r] # req[r]
    BY <1>1, <2>3 DEF Done, Idle, IInv, TypeOK
  <2>5. req[r].op = "saveSettings"
    <3>1. CASE SaveSettingsJSON(r)
      BY <2>2, <3>1 DEF SaveSettingsJSON, Fit, InPlace
    <3>2. CASE Upsert(r)
      BY <2>2, <3>2 DEF Upsert, Saved, Fit, InPlace, SqlPCs
    <3>3. CASE UpdateGroupJSON(r) \/ CreateGroupJSON(r)
      BY <3>3 DEF UpdateGroupJSON, CreateGroupJSON, Saved
    <3> QED BY <2>1, <3>1, <3>2, <3>3
  <2> QED BY <2>4, <2>5
<1> QED BY <1>1, Inductive, PTL DEF Spec, RegistrationAsSaved

=============================================================================
