----------------------------- MODULE AccessProofs -----------------------------
(***************************************************************************)
(* Theorems about Access, for any set of permissions, roles and users, and *)
(* any number of sessions and requests.  The inductive invariant adds to   *)
(* the tables what requests and seeds carry from one await to the next:    *)
(* it is what they have read, or drafted, that they write in the end.      *)
(***************************************************************************)
EXTENDS Access, TLAPS

(* The inductive invariant *)

\* The super-admin role is with nobody but the live account of the seeded name.
AdminAlone == \A u \in Users : Admin \in user[u].roles => u = Root /\ user[u].row = "live"

\* The rows, foreign keys and the holder of the super-admin role included.
TableInv ==
    /\ permission \subseteq PERMISSIONS
    /\ role \in [Roles -> RoleRows]
    /\ user \in [Users -> UserRows]
    /\ \A r \in Roles : role[r].perms \subseteq permission
    /\ \A u \in Users : user[u].roles \subseteq LiveRoles /\ user[u].perms \subseteq permission
    /\ AdminAlone

\* What a request carries, when the permissions of the database are known.
ReqOK(r, known) ==
    /\ r \in ReqRecs
    /\ r.perms \subseteq known
    /\ r.op \in {"updateUser", "assignRole"} => (Admin \in r.roles <=> r.user = Root)
    /\ r.op = "assignRole" => Admin \notin r.adds
    /\ r.op = "assignPermission" /\ r.pc = "saving" => r.given \subseteq known
    /\ r.op \in {"updateRole", "deleteRole"} => r.role # Admin

ReqInv == req \in [Requests -> ReqRecs] /\ \A q \in Requests : ReqOK(req[q], permission)

\* What the seeds carry, and what they have made sure of.
SeedInv ==
    /\ seed \in SeedRecs
    /\ seed.perms \subseteq permission
    /\ seed.pc \in {"user", "roles", "saveUser", "done"} => role[Admin].row = "live"
    /\ seed.pc = "saveUser" => Admin \in seed.roles
    /\ seed.pc \in {"perms", "saveRole"} /\ seed.found =>
          role[Admin].row = "live" /\ role[Admin].perms \subseteq seed.perms
    /\ seed.pc # "off" /\ seed.drafted = {} => permission = PERMISSIONS
    /\ seed.pc = "saveRole" /\ seed.drafted = {} => seed.perms = PERMISSIONS
    /\ ReseedGivesAll

RestInv ==
    /\ session \in [Browsers -> Sessions]
    /\ log \in [Requests -> Entries]
    /\ faults \in 0 .. MaxFaults

\* Until the seeds have given their account the super-admin role, ...
Unseeded ==
    \/ user[Root].row = "new"
    \/ user[Root].row = "live" /\ Admin \notin user[Root].roles

\* ... nobody may do anything, so that no request but a registration has been let in.
Powerless ==
    /\ \A u \in Users : user[u].perms = {}
    /\ \A r \in Roles \ {Admin} : role[r].perms = {}
    /\ \A b \in Browsers : session[b].perms = {}
    /\ \A q \in Requests : req[q].op \in {"none", "signUp"}

PhaseInv ==
    /\ \A u \in Users : user[u].row = "new" => user[u].roles = {} /\ user[u].perms = {}
    /\ Unseeded => Powerless

BaseInv == TableInv /\ ReqInv /\ SeedInv /\ RestInv
IInv    == BaseInv /\ PhaseInv
-----------------------------------------------------------------------------
(* The tables *)

LEMMA TablesKept ==
    ASSUME TableInv, UNCHANGED tables
    PROVE  TableInv'
  BY DEF TableInv, tables, LiveRoles, AdminAlone

\* A user row may be replaced by one whose references exist, if it has the super-admin
\* role only as the live row of Root.
LEMMA UserChanges ==
    ASSUME TableInv, NEW u \in Users, NEW row \in UserRows,
           row.roles \subseteq LiveRoles, row.perms \subseteq permission,
           Admin \in row.roles => u = Root /\ row.row = "live",
           user' = [user EXCEPT ![u] = row], UNCHANGED <<permission, role>>
    PROVE  TableInv'
  <1>1. \A v \in Users : user'[v] = IF v = u THEN row ELSE user[v]
    BY DEF TableInv
  <1>2. user' \in [Users -> UserRows]
    BY DEF TableInv
  <1>3. LiveRoles' = LiveRoles
    BY DEF LiveRoles
  <1>4. \A v \in Users : user'[v].roles \subseteq LiveRoles /\ user'[v].perms \subseteq permission
    BY <1>1 DEF TableInv
  <1>5. AdminAlone'
    BY <1>1 DEF TableInv, AdminAlone
  <1> QED BY <1>2, <1>3, <1>4, <1>5 DEF TableInv

\* A role may be given any permissions that exist.
LEMMA RoleChanges ==
    ASSUME TableInv, NEW r \in Roles, NEW ps, ps \subseteq permission,
           role' = [role EXCEPT ![r] = [row |-> "live", perms |-> ps]],
           UNCHANGED <<permission, user>>
    PROVE  TableInv'
  <1>1. \A s \in Roles : role'[s] = IF s = r THEN [row |-> "live", perms |-> ps] ELSE role[s]
    BY DEF TableInv
  <1>2. [row |-> "live", perms |-> ps] \in RoleRows
    BY DEF TableInv, RoleRows, Row
  <1>3. role' \in [Roles -> RoleRows]
    BY <1>2 DEF TableInv
  <1>4. LiveRoles \subseteq LiveRoles'
    BY <1>1 DEF LiveRoles
  <1>5. \A s \in Roles : role'[s].perms \subseteq permission
    BY <1>1 DEF TableInv
  <1>6. AdminAlone'
    BY DEF TableInv, AdminAlone
  <1> QED BY <1>3, <1>4, <1>5, <1>6 DEF TableInv

(* Requests *)

LEMMA OverOK ==
    ASSUME NEW pc \in {"ok", "signedUp", "failed", "cut"}, NEW known
    PROVE  ReqOK(Over(pc), known)
  BY SeededNames DEF ReqOK, Over, Unasked, ReqRecs, Ops

LEMMA OneRequest ==
    ASSUME ReqInv, NEW q \in Requests, NEW r, ReqOK(r, permission),
           req' = [req EXCEPT ![q] = r], permission' = permission
    PROVE  ReqInv'
  <1>1. \A p \in Requests : req'[p] = IF p = q THEN r ELSE req[p]
    BY DEF ReqInv
  <1>2. r \in ReqRecs
    BY DEF ReqOK
  <1>3. req' \in [Requests -> ReqRecs]
    BY <1>2 DEF ReqInv
  <1>4. \A p \in Requests : ReqOK(req'[p], permission')
    BY <1>1 DEF ReqInv
  <1> QED BY <1>3, <1>4 DEF ReqInv

LEMMA RequestsKept ==
    ASSUME ReqInv, UNCHANGED req, permission \subseteq permission'
    PROVE  ReqInv'
  BY DEF ReqInv, ReqOK

(* Seeds *)

\* What the seeds know survives whatever leaves the super-admin role alone.
LEMMA SeedKept ==
    ASSUME SeedInv, UNCHANGED <<permission, seed>>, role'[Admin] = role[Admin]
    PROVE  SeedInv'
  BY DEF SeedInv, ReseedGivesAll

(* Answers *)

LEMMA Answered ==
    ASSUME IInv, NEW q \in Requests, Succeeds(q) \/ SignsUp(q) \/ Fails(q),
           UNCHANGED <<permission, session, faults>>
    PROVE  ReqInv' /\ RestInv'
  <1>1. ReqInv'
    <2>1. \A pc \in {"ok", "signedUp", "failed", "cut"} : ReqOK(Over(pc), permission)
      BY OverOK
    <2>2. PICK pc \in {"ok", "signedUp", "failed"} : req' = [req EXCEPT ![q] = Over(pc)]
      BY DEF Succeeds, SignsUp, Fails
    <2> QED BY <2>1, <2>2, OneRequest DEF IInv, BaseInv
  <1>2. RestInv'
    BY DEF IInv, BaseInv, RestInv, Succeeds, SignsUp, Fails, Entries
  <1> QED BY <1>1, <1>2

\* A request that only moves on, or is answered, without touching the tables.
LEMMA Stays ==
    ASSUME IInv, NEW q \in Requests, UNCHANGED <<tables, session, seed, faults>>,
           \/ Succeeds(q) \/ SignsUp(q) \/ Fails(q)
           \/ \E r : ReqOK(r, permission) /\ Proceeds(q, r)
    PROVE  BaseInv'
  <1>1. TableInv' /\ SeedInv'
    BY TablesKept, SeedKept DEF IInv, BaseInv, tables
  <1>2. CASE Succeeds(q) \/ SignsUp(q) \/ Fails(q)
    BY <1>1, <1>2, Answered DEF IInv, BaseInv, tables
  <1>3. CASE \E r : ReqOK(r, permission) /\ Proceeds(q, r)
    <2>1. ReqInv'
      BY <1>3, OneRequest DEF IInv, BaseInv, tables, Proceeds
    <2>2. RestInv'
      BY <1>3 DEF IInv, BaseInv, RestInv, Proceeds
    <2> QED BY <1>1, <2>1, <2>2 DEF IInv, BaseInv
  <1> QED BY <1>2, <1>3

LEMMA Asked ==
    ASSUME IInv, NEW q \in Requests, NEW r, ReqOK(r, permission), Asks(q, r)
    PROVE  BaseInv'
  <1>1. Proceeds(q, r) /\ UNCHANGED <<tables, session, seed, faults>>
    BY DEF Asks, Proceeds
  <1> QED BY <1>1, Stays

LEMMA SaveUserOK ==
    ASSUME IInv, NEW q \in Requests, NEW row \in UserRows, SaveUser(q, row),
           row.row = "live", row.perms \subseteq permission,
           Admin \in row.roles => req[q].user = Root,
           UNCHANGED <<permission, role, session, seed, faults>>
    PROVE  BaseInv'
  <1>1. req[q].user \in Users
    BY DEF IInv, BaseInv, ReqInv, ReqRecs
  <1>2. TableInv'
    <2>1. CASE user' = user
      BY <2>1, TablesKept DEF IInv, BaseInv, tables
    <2>2. CASE user' = [user EXCEPT ![req[q].user] = row] /\ row.roles \subseteq LiveRoles
      BY <1>1, <2>2, UserChanges DEF IInv, BaseInv
    <2> QED BY <2>1, <2>2 DEF SaveUser
  <1>3. SeedInv'
    BY SeedKept DEF IInv, BaseInv
  <1>4. ReqInv' /\ RestInv'
    BY Answered DEF SaveUser
  <1> QED BY <1>2, <1>3, <1>4 DEF IInv, BaseInv
-----------------------------------------------------------------------------
(* Initially *)

LEMMA InitOK ==
    ASSUME Init
    PROVE  IInv
  <1>1. permission \subseteq PERMISSIONS
    BY PermissionSets DEF Init
  <1>2. role \in [Roles -> RoleRows] /\ \A r \in Roles : role[r].perms \subseteq permission
    BY <1>1 DEF Init, RoleRows, Row
  <1>3. LiveRoles \subseteq Roles
    BY DEF LiveRoles
  <1>4. user \in [Users -> UserRows]
    BY <1>3 DEF Init, UserRows, Row
  <1>5. \A u \in Users : user[u].roles \subseteq LiveRoles /\ user[u].perms \subseteq permission
    BY DEF Init
  <1>6. TableInv
    BY <1>1, <1>2, <1>4, <1>5 DEF Init, TableInv, AdminAlone
  <1>7. ReqOK(Unasked, permission)
    BY SeededNames DEF ReqOK, Unasked, ReqRecs, Ops
  <1>8. ReqInv
    BY <1>7 DEF Init, ReqInv, ReqOK
  <1>9. SeedInv
    BY DEF Init, SeedInv, SeedOff, SeedRecs, ReseedGivesAll
  <1>10. RestInv
    BY SeededNames, BoundsAreNat DEF Init, RestInv, NoToken, Sessions, Entries
  <1>11. PhaseInv
    <2>1. \A u \in Users : user[u].row = "new" => user[u].roles = {}
      BY DEF Init
    <2>2. \A u \in Users : user[u].perms = {}
      BY DEF Init
    <2>3. ASSUME Unseeded PROVE Powerless
      <3>1. permission = {}
        BY <2>3, SeededNames DEF Init, Unseeded
      <3>2. \A r \in Roles : role[r].perms = {}
        BY <1>2, <3>1
      <3> QED BY <2>2, <3>2 DEF Init, Powerless, NoToken, Unasked
    <2> QED BY <2>1, <2>2, <2>3 DEF PhaseInv
  <1> QED BY <1>6, <1>8, <1>9, <1>10, <1>11 DEF IInv, BaseInv

(* Tokens and the log *)

LEMMA QuietOK ==
    ASSUME IInv, UNCHANGED <<tables, req, seed>>, RestInv'
    PROVE  BaseInv'
  <1>1. TableInv' /\ SeedInv'
    BY TablesKept, SeedKept DEF IInv, BaseInv, tables
  <1>2. ReqInv'
    BY RequestsKept DEF IInv, BaseInv, tables
  <1> QED BY <1>1, <1>2 DEF IInv, BaseInv

LEMMA AuthenticatingOK ==
    ASSUME IInv, NEW b \in Browsers, Authenticating(b)
    PROVE  BaseInv'
  <1>1. CASE signIn(b)
    <2>1. PICK u \in Users : SignIn(b, u)
      BY <1>1 DEF signIn
    <2>2. Effective(u) \subseteq PERMISSIONS
      BY DEF IInv, BaseInv, TableInv, Effective, UserRows, RoleRows
    <2>3. [pc |-> "in", user |-> u, perms |-> Effective(u)] \in Sessions
      BY <2>2 DEF Sessions
    <2>4. RestInv'
      BY <2>1, <2>3 DEF IInv, BaseInv, RestInv, SignIn
    <2> QED BY <2>1, <2>4, QuietOK DEF SignIn
  <1>2. CASE Expire(b) \/ logout(b)
    <2>1. NoToken \in Sessions
      BY SeededNames DEF NoToken, Sessions
    <2>2. RestInv'
      BY <1>2, <2>1 DEF IInv, BaseInv, RestInv, Expire, logout, Logout
    <2> QED BY <1>2, <2>2, QuietOK DEF Expire, logout, Logout
  <1> QED BY <1>1, <1>2 DEF Authenticating

LEMMA LoggingOK ==
    ASSUME IInv, (\E q \in Requests : Record(q) \/ Drop(q)) \/ purge
    PROVE  BaseInv'
  <1>1. CASE \E q \in Requests : Record(q)
    <2>1. RestInv'
      BY <1>1 DEF IInv, BaseInv, RestInv, Record, Entries
    <2> QED BY <1>1, <2>1, QuietOK DEF Record
  <1>2. CASE \E q \in Requests : Drop(q)
    <2>1. RestInv'
      BY <1>2, BoundsAreNat DEF IInv, BaseInv, RestInv, Drop, Entries
    <2> QED BY <1>2, <2>1, QuietOK DEF Drop
  <1>3. CASE purge
    <2>1. RestInv'
      BY <1>3 DEF IInv, BaseInv, RestInv, purge, Purge, Entries
    <2> QED BY <1>3, <2>1, QuietOK DEF purge, Purge
  <1> QED BY <1>1, <1>2, <1>3

LEMMA CrashOK ==
    ASSUME IInv, Crash
    PROVE  BaseInv'
  <1>1. TableInv' /\ SeedInv'
    BY TablesKept, SeedKept DEF IInv, BaseInv, Crash, tables
  <1>2. ReqInv'
    <2>1. ReqOK(Over("cut"), permission) /\ Over("cut") \in ReqRecs
      BY OverOK DEF ReqOK
    <2>2. permission' = permission
      BY DEF Crash, tables
    <2> QED BY <2>1, <2>2 DEF IInv, BaseInv, ReqInv, Crash
  <1>3. RestInv'
    BY BoundsAreNat DEF IInv, BaseInv, RestInv, Crash, Entries
  <1> QED BY <1>1, <1>2, <1>3 DEF IInv, BaseInv

(* Requests arriving *)

\* Loading a user gives a request what is in the tables.
LEMMA LoadedOK ==
    ASSUME IInv, ~ Unseeded,
           NEW q \in Requests, NEW u \in Users, NEW r \in ReqRecs, Loads(q, u, r),
           r.op \in {"updateUser", "deleteUser", "changePassword", "assignRole", "assignPermission"},
           r.adds = {}, r.op = "assignPermission" => r.pc = "reading"
    PROVE  BaseInv'
  <1> DEFINE s == [r EXCEPT !.user = u, !.roles = user[u].roles, !.perms = user[u].perms]
  <1>1. /\ user[u].roles \subseteq Roles /\ user[u].perms \subseteq permission
        /\ user[u].perms \subseteq PERMISSIONS
    BY DEF IInv, BaseInv, TableInv, UserRows
  <1>2. Admin \in user[u].roles <=> u = Root
    BY DEF IInv, BaseInv, TableInv, AdminAlone, Loads, Unseeded
  <1>3. s \in ReqRecs
    BY <1>1 DEF ReqRecs
  <1>4. /\ s.op = r.op /\ s.pc = r.pc /\ s.adds = r.adds
        /\ s.user = u /\ s.roles = user[u].roles /\ s.perms = user[u].perms
    BY DEF ReqRecs
  <1>5. ReqOK(s, permission)
    BY <1>1, <1>2, <1>3, <1>4 DEF ReqOK
  <1> QED BY <1>5, Asked DEF Loads

\* A permission in a token means that the seeds have been.
LEMMA AllowedLater ==
    ASSUME IInv, NEW p, Allowed(p)
    PROVE  ~ Unseeded
  BY DEF IInv, PhaseInv, Powerless, Allowed

LEMMA AskingOK ==
    ASSUME IInv, NEW q \in Requests, Asking(q)
    PROVE  BaseInv'
  <1> USE SeededNames
  <1>1. CASE signup(q) \/ createUser(q)
    <2>1. PICK u \in Users, op \in {"signUp", "createUser"} : CreateUser(q, op, u)
      BY <1>1 DEF signup, createUser
    <2>2. ReqOK([Unasked EXCEPT !.pc = "reading", !.op = op, !.user = u], permission)
      BY <2>1 DEF CreateUser, ReqOK, Unasked, ReqRecs, Ops
    <2> QED BY <2>1, <2>2, Asked DEF CreateUser
  <1>2. CASE updateUser(q)
    <2>1. PICK u \in Users : UpdateUser(q, u)
      BY <1>2 DEF updateUser
    <2> QED BY <1>2, <2>1, AllowedLater, LoadedOK DEF updateUser, UpdateUser, Unasked, ReqRecs, Ops
  <1>3. CASE deleteUser(q)
    <2>1. PICK u \in Users : DeleteUser(q, u)
      BY <1>3 DEF deleteUser
    <2> QED BY <1>3, <2>1, AllowedLater, LoadedOK DEF deleteUser, DeleteUser, Unasked, ReqRecs, Ops
  <1>4. CASE changePassword(q)
    <2>1. PICK u \in Users : ChangePassword(q, u)
      BY <1>4 DEF changePassword
    <2>2. CASE Asks(q, Over("failed"))
      BY <2>2, OverOK, Asked
    <2>3. CASE Loads(q, u, [Unasked EXCEPT !.pc = "saving", !.op = "changePassword"])
      BY <1>4, <2>3, AllowedLater, LoadedOK DEF changePassword, Unasked, ReqRecs, Ops
    <2> QED BY <2>1, <2>2, <2>3 DEF ChangePassword
  <1>5. CASE assignRole(q)
    <2>1. PICK u \in Users, r \in Roles : AssignRole(q, u, r)
      BY <1>5 DEF assignRole
    <2> QED BY <1>5, <2>1, AllowedLater, LoadedOK DEF assignRole, AssignRole, Unasked, ReqRecs, Ops
  <1>6. CASE assignPermission(q)
    <2>1. PICK u \in Users, p \in UNION Payloads : AssignPermission(q, u, p)
      BY <1>6 DEF assignPermission
    <2>2. p \in PERMISSIONS
      BY PermissionSets
    <2> QED BY <1>6, <2>1, <2>2, AllowedLater, LoadedOK DEF assignPermission, AssignPermission, Unasked, ReqRecs, Ops
  <1>7. CASE createRole(q)
    <2>1. PICK r \in Roles, ps \in Payloads : CreateRole(q, r, ps)
      BY <1>7 DEF createRole
    <2>2. ps \subseteq PERMISSIONS
      BY PermissionSets
    <2>3. ReqOK([Unasked EXCEPT !.pc = "saving", !.op = "createRole",
                                !.role = r, !.given = ps], permission)
      BY <2>2 DEF ReqOK, Unasked, ReqRecs, Ops
    <2> QED BY <2>1, <2>3, OverOK, Asked DEF CreateRole
  <1>8. CASE updateRole(q)
    <2>1. PICK r \in Roles, ps \in Payloads : UpdateRole(q, r, ps)
      BY <1>8 DEF updateRole
    <2>2. ps \subseteq PERMISSIONS
      BY PermissionSets
    <2>3. r # Admin => ReqOK([Unasked EXCEPT !.pc = "saving", !.op = "updateRole",
                                !.role = r, !.given = ps], permission)
      BY <2>2 DEF ReqOK, Unasked, ReqRecs, Ops
    <2> QED BY <2>1, <2>3, OverOK, Asked DEF UpdateRole
  <1>9. CASE deleteRole(q)
    <2>1. PICK r \in Roles : DeleteRole(q, r)
      BY <1>9 DEF deleteRole
    <2>2. r # Admin => ReqOK([Unasked EXCEPT !.pc = "saving", !.op = "deleteRole",
                                !.role = r], permission)
      BY DEF ReqOK, Unasked, ReqRecs, Ops
    <2> QED BY <2>1, <2>2, OverOK, Asked DEF DeleteRole
  <1> QED BY <1>1, <1>2, <1>3, <1>4, <1>5, <1>6, <1>7, <1>8, <1>9 DEF Asking

(* Requests going on *)

\* The role table gets one row written by a request, never that of the super-admin unless
\* it was new.
LEMMA SaveRoleOK ==
    ASSUME IInv, NEW q \in Requests, NEW r \in Roles, NEW ps, ps \subseteq permission,
           r = Admin => role[Admin].row = "new",
           role' = [role EXCEPT ![r] = [row |-> "live", perms |-> ps]],
           UNCHANGED <<permission, user, session, seed, faults>>,
           NEW s, ReqOK(s, permission), Proceeds(q, s)
    PROVE  BaseInv'
  <1>1. TableInv'
    BY RoleChanges DEF IInv, BaseInv
  <1>2. SeedInv'
    <2>1. CASE r # Admin
      <3>1. role'[Admin] = role[Admin]
        BY <2>1, SeededNames DEF IInv, BaseInv, TableInv
      <3> QED BY <3>1, SeedKept DEF IInv, BaseInv
    <2>2. CASE r = Admin
      <3>1. role[Admin].row = "new"
        BY <2>2
      <3>2. ~ (seed.pc \in {"user", "roles", "saveUser", "done"})
            /\ ~ (seed.pc \in {"perms", "saveRole"} /\ seed.found)
        BY <3>1 DEF IInv, BaseInv, SeedInv
      <3> QED BY <3>2 DEF IInv, BaseInv, SeedInv, ReseedGivesAll
    <2> QED BY <2>1, <2>2
  <1>3. ReqInv'
    BY OneRequest DEF IInv, BaseInv, Proceeds
  <1>4. RestInv'
    BY DEF IInv, BaseInv, RestInv, Proceeds
  <1> QED BY <1>1, <1>2, <1>3, <1>4 DEF IInv, BaseInv

LEMMA HandlingUserOK ==
    ASSUME IInv, NEW q \in Requests,
           \/ FindExisting(q) \/ InsertUser(q) \/ SaveUpdated(q) \/ EraseUser(q) \/ WritePassword(q)
    PROVE  BaseInv'
  <1>1. req[q] \in ReqRecs /\ ReqOK(req[q], permission)
    BY DEF IInv, BaseInv, ReqInv
  <1>2. req[q].user \in Users
    BY <1>1 DEF ReqRecs
  <1>3. CASE FindExisting(q)
    <2>1. ReqOK([req[q] EXCEPT !.pc = "saving"], permission)
      BY <1>1, <1>3 DEF ReqOK, ReqRecs, FindExisting
    <2> QED BY <1>3, <2>1, Stays DEF FindExisting, At, Created
  <1>4. CASE InsertUser(q)
    <2> DEFINE u == req[q].user
               row == [user[u] EXCEPT !.row = "live"]
    <2>1. CASE Fails(q) /\ UNCHANGED user
      BY <1>4, <2>1, Stays DEF InsertUser, At, tables
    <2>2. CASE user[u].row = "new" /\ user' = [user EXCEPT ![u].row = "live"] /\ Created(q)
      <3>1. user[u].roles = {}
        BY <1>2, <1>4, <2>2 DEF InsertUser, At, IInv, PhaseInv
      <3>2. user[u] \in UserRows /\ row \in UserRows
        BY <1>2 DEF IInv, BaseInv, TableInv, UserRows, Row
      <3>3. row.roles = user[u].roles /\ row.perms = user[u].perms /\ row.row = "live"
        BY <3>2 DEF UserRows
      <3>4. row.roles \subseteq LiveRoles /\ row.perms \subseteq permission /\ Admin \notin row.roles
        BY <1>2, <3>1, <3>3 DEF IInv, BaseInv, TableInv, AdminAlone
      <3>5. user' = [user EXCEPT ![u] = row]
        BY <2>2
      <3>6. UNCHANGED <<permission, role, session, seed, faults>>
        BY <1>4 DEF InsertUser, At
      <3>7. TableInv'
        BY <1>2, <3>1, <3>2, <3>4, <3>5, <3>6, UserChanges DEF IInv, BaseInv
      <3>8. SeedInv' /\ ReqInv' /\ RestInv'
        BY <2>2, <3>6, SeedKept, Answered DEF IInv, BaseInv, Created
      <3> QED BY <3>7, <3>8 DEF IInv, BaseInv
    <2> QED BY <1>4, <2>1, <2>2 DEF InsertUser
  <1>5. CASE SaveUpdated(q)
    <2> DEFINE row == [row |-> "live", roles |-> req[q].roles, perms |-> req[q].perms]
    <2>1. row \in UserRows
      BY <1>1 DEF UserRows, Row, ReqRecs
    <2>2. row.perms \subseteq permission /\ (Admin \in row.roles <=> req[q].user = Root)
      BY <1>1, <1>5 DEF ReqOK, SaveUpdated, At
    <2> QED BY <1>5, <2>1, <2>2, SaveUserOK DEF SaveUpdated, At
  <1>6. CASE EraseUser(q)
    <2>1. NoUser \in UserRows /\ NoUser.roles = {} /\ NoUser.perms = {} /\ NoUser.row = "gone"
      BY DEF NoUser, UserRows, Row
    <2>2. user' = [user EXCEPT ![req[q].user] = NoUser] /\ Succeeds(q)
          /\ UNCHANGED <<permission, role, session, seed, faults>>
      BY <1>6 DEF EraseUser, At
    <2>3. TableInv'
      BY <1>2, <2>1, <2>2, UserChanges DEF IInv, BaseInv
    <2>4. SeedInv' /\ ReqInv' /\ RestInv'
      BY <2>2, SeedKept, Answered DEF IInv, BaseInv
    <2> QED BY <2>3, <2>4 DEF IInv, BaseInv
  <1>7. CASE WritePassword(q)
    BY <1>7, Stays DEF WritePassword, At
  <1> QED BY <1>3, <1>4, <1>5, <1>6, <1>7

LEMMA HandlingAssignmentOK ==
    ASSUME IInv, NEW q \in Requests,
           CheckRole(q) \/ SaveAssigned(q) \/ CheckPermission(q) \/ SavePermission(q)
    PROVE  BaseInv'
  <1>1. req[q] \in ReqRecs /\ ReqOK(req[q], permission)
    BY DEF IInv, BaseInv, ReqInv
  <1>2. req[q].user \in Users
    BY <1>1 DEF ReqRecs
  <1>3. CASE CheckRole(q)
    <2> DEFINE found == {req[q].role} \cap LiveRoles
               s == [req[q] EXCEPT !.pc = "saving", !.adds = found]
    <2>1. found \subseteq Roles
      BY DEF LiveRoles
    <2>2. s \in ReqRecs
      BY <1>1, <2>1 DEF ReqRecs
    <2>3. Admin \notin found => ReqOK(s, permission)
      BY <1>1, <1>3, <2>2 DEF ReqOK, ReqRecs, CheckRole, At
    <2>4. Fails(q) \/ (Admin \notin found /\ Proceeds(q, s))
      BY <1>3 DEF CheckRole
    <2> QED BY <1>3, <2>3, <2>4, Stays DEF CheckRole, At
  <1>4. CASE SaveAssigned(q)
    <2> DEFINE row == [row |-> "live", roles |-> req[q].roles \cup req[q].adds,
                       perms |-> req[q].perms]
    <2>1. row \in UserRows
      BY <1>1 DEF UserRows, Row, ReqRecs
    <2>2. row.perms \subseteq permission /\ (Admin \in row.roles <=> req[q].user = Root)
      BY <1>1, <1>4 DEF ReqOK, SaveAssigned, At
    <2> QED BY <1>4, <2>1, <2>2, SaveUserOK DEF SaveAssigned, At
  <1>5. CASE CheckPermission(q)
    <2> DEFINE s == [req[q] EXCEPT !.pc = "saving"]
    <2>1. s \in ReqRecs
      BY <1>1 DEF ReqRecs
    <2>2. req[q].given \subseteq permission => ReqOK(s, permission)
      BY <1>1, <1>5, <2>1 DEF ReqOK, ReqRecs, CheckPermission, At
    <2>3. Fails(q) \/ Succeeds(q) \/ (req[q].given \subseteq permission /\ Proceeds(q, s))
      BY <1>5 DEF CheckPermission
    <2> QED BY <1>5, <2>2, <2>3, Stays DEF CheckPermission, At
  <1>6. CASE SavePermission(q)
    <2> DEFINE u == req[q].user
               row == [user[u] EXCEPT !.perms = req[q].perms \cup req[q].given]
    <2>1. UNCHANGED <<permission, role, session, seed, faults>>
      BY <1>6 DEF SavePermission, At
    <2>2. CASE user' = user /\ Fails(q)
      BY <2>1, <2>2, Stays DEF tables
    <2>3. CASE user[u].row = "live" /\ SaveUser(q, row)
      <3>1. user[u] \in UserRows
        BY <1>2 DEF IInv, BaseInv, TableInv
      <3>2. row.roles = user[u].roles /\ row.perms = req[q].perms \cup req[q].given
            /\ row.row = "live"
        BY <2>3, <3>1 DEF UserRows
      <3>3. row \in UserRows
        BY <1>1, <3>1 DEF UserRows, ReqRecs
      <3>4. row.perms \subseteq permission
        BY <1>1, <1>6, <3>2 DEF ReqOK, SavePermission, At
      <3>5. Admin \in row.roles => u = Root
        BY <1>2, <2>3, <3>2 DEF IInv, BaseInv, TableInv, AdminAlone
      <3> QED BY <2>1, <2>3, <3>2, <3>3, <3>4, <3>5, SaveUserOK
    <2> QED BY <1>6, <2>2, <2>3 DEF SavePermission, SaveUser
  <1> QED BY <1>3, <1>4, <1>5, <1>6

LEMMA HandlingRoleOK ==
    ASSUME IInv, NEW q \in Requests,
           InsertRole(q) \/ SaveRole(q) \/ Reread(q) \/ EraseRole(q)
    PROVE  BaseInv'
  <1> DEFINE r == req[q].role
             s == [req[q] EXCEPT !.pc = "rereading"]
  <1>1. req[q] \in ReqRecs /\ ReqOK(req[q], permission)
    BY DEF IInv, BaseInv, ReqInv
  <1>2. r \in Roles
    BY <1>1 DEF ReqRecs
  <1>3. req[q].op \in {"createRole", "updateRole"} => ReqOK(s, permission)
    BY <1>1 DEF ReqOK, ReqRecs
  <1>4. CASE InsertRole(q)
    <2>1. CASE Fails(q) /\ UNCHANGED role
      BY <1>4, <2>1, Stays DEF InsertRole, At, tables
    <2>2. CASE role[r].row = "new" /\ req[q].given \subseteq permission /\ Proceeds(q, s)
               /\ role' = [role EXCEPT ![r] = [row |-> "live", perms |-> req[q].given]]
      <3>1. ReqOK(s, permission) /\ UNCHANGED <<permission, user, session, seed, faults>>
        BY <1>3, <1>4 DEF InsertRole, At
      <3>2. r = Admin => role[Admin].row = "new"
        BY <2>2
      <3> QED BY <1>2, <2>2, <3>1, <3>2, SaveRoleOK
    <2> QED BY <1>4, <2>1, <2>2 DEF InsertRole
  <1>5. CASE SaveRole(q)
    <2>1. CASE Fails(q) /\ UNCHANGED role
      BY <1>5, <2>1, Stays DEF SaveRole, At, tables
    <2>2. CASE req[q].given \subseteq permission /\ Proceeds(q, s)
               /\ role' = [role EXCEPT ![r] = [row |-> "live", perms |-> req[q].given]]
      <3>1. ReqOK(s, permission) /\ UNCHANGED <<permission, user, session, seed, faults>>
        BY <1>3, <1>5 DEF SaveRole, At
      <3>2. r # Admin
        BY <1>1, <1>5 DEF SaveRole, At, ReqOK
      <3> QED BY <1>2, <2>2, <3>1, <3>2, SaveRoleOK
    <2> QED BY <1>5, <2>1, <2>2 DEF SaveRole
  <1>6. CASE Reread(q)
    BY <1>6, Stays DEF Reread, At
  <1>7. CASE EraseRole(q)
    <2>1. CASE Fails(q) /\ UNCHANGED <<role, user>>
      BY <1>7, <2>1, Stays DEF EraseRole, At, tables
    <2>2. CASE /\ role' = [role EXCEPT ![r] = NoRole]
               /\ user' = [u \in Users |-> [user[u] EXCEPT !.roles = @ \ {r}]]
               /\ Succeeds(q)
      <3>1. UNCHANGED <<permission, session, seed, faults>>
        BY <1>7 DEF EraseRole, At
      <3>2. r # Admin
        BY <1>1, <1>7 DEF EraseRole, At, ReqOK
      <3>3. \A t \in Roles : role'[t] = IF t = r THEN NoRole ELSE role[t]
        BY <2>2 DEF IInv, BaseInv, TableInv
      <3>4. role' \in [Roles -> RoleRows] /\ \A t \in Roles : role'[t].perms \subseteq permission
        BY <2>2, <3>3 DEF IInv, BaseInv, TableInv, RoleRows, Row, NoRole
      <3>5. LiveRoles' = LiveRoles \ {r}
        BY <3>3 DEF LiveRoles, NoRole
      <3>6. \A u \in Users : /\ user'[u].roles = user[u].roles \ {r}
                             /\ user'[u].perms = user[u].perms /\ user'[u].row = user[u].row
        BY <2>2 DEF IInv, BaseInv, TableInv, UserRows
      <3>7. user' \in [Users -> UserRows]
        BY <2>2 DEF IInv, BaseInv, TableInv, UserRows
      <3>8. \A u \in Users : user'[u].roles \subseteq LiveRoles' /\ user'[u].perms \subseteq permission
        BY <3>5, <3>6 DEF IInv, BaseInv, TableInv
      <3>9. AdminAlone'
        BY <3>2, <3>6, SeededNames DEF IInv, BaseInv, TableInv, AdminAlone
      <3>10. TableInv'
        BY <3>1, <3>4, <3>7, <3>8, <3>9 DEF IInv, BaseInv, TableInv
      <3>11. role'[Admin] = role[Admin]
        BY <3>2, <3>3, SeededNames
      <3>12. SeedInv' /\ ReqInv' /\ RestInv'
        BY <2>2, <3>1, <3>11, SeedKept, Answered DEF IInv, BaseInv
      <3> QED BY <3>10, <3>12 DEF IInv, BaseInv
    <2> QED BY <1>7, <2>1, <2>2 DEF EraseRole
  <1> QED BY <1>4, <1>5, <1>6, <1>7

(* The seeds *)

\* A step of the seeds that writes no table.
LEMMA SeedReads ==
    ASSUME IInv, UNCHANGED <<tables, session, req, log, faults>>, SeedInv'
    PROVE  BaseInv'
  <1>1. TableInv'
    BY TablesKept DEF IInv, BaseInv
  <1>2. ReqInv'
    BY RequestsKept DEF IInv, BaseInv, tables
  <1>3. RestInv'
    BY DEF IInv, BaseInv, RestInv
  <1> QED BY <1>1, <1>2, <1>3 DEF IInv, BaseInv

LEMMA SeedReadingOK ==
    ASSUME IInv,
           \/ SeedPermissions \/ SeedFindRole \/ SeedFindPermissions
           \/ SeedFindUser \/ SeedFindRoles \/ SeedExit
    PROVE  BaseInv'
  <1>1. /\ UNCHANGED <<tables, session, req, log, faults>>
        /\ UNCHANGED <<permission, role, user>>
    BY DEF SeedPermissions, SeedFindRole, SeedFindPermissions, SeedFindUser, SeedFindRoles,
           SeedExit, Seeds, tables
  <1>2. /\ permission \subseteq PERMISSIONS
        /\ role[Admin] \in RoleRows /\ role[Admin].perms \subseteq permission
        /\ user[Root].roles \subseteq Roles
        /\ LiveRoles \subseteq Roles
    BY SeededNames DEF IInv, BaseInv, TableInv, LiveRoles, UserRows
  <1>3. CASE SeedPermissions
    <2>1. SeedInv'
      BY <1>1, <1>2, <1>3
         DEF IInv, BaseInv, SeedInv, ReseedGivesAll, SeedPermissions, SeedOff, SeedRecs
    <2> QED BY <1>1, <2>1, SeedReads
  <1>4. CASE SeedFindRole
    <2>1. SeedInv'
      BY <1>1, <1>2, <1>4
         DEF IInv, BaseInv, SeedInv, ReseedGivesAll, SeedFindRole, Seeds, SeedRecs, RoleRows
    <2> QED BY <1>1, <2>1, SeedReads
  <1>5. CASE SeedFindPermissions
    <2>1. SeedInv'
      BY <1>1, <1>2, <1>5 DEF IInv, BaseInv, SeedInv, ReseedGivesAll, SeedFindPermissions, Seeds, SeedRecs
    <2> QED BY <1>1, <2>1, SeedReads
  <1>6. CASE SeedFindUser
    <2>1. SeedInv'
      BY <1>1, <1>2, <1>6 DEF IInv, BaseInv, SeedInv, ReseedGivesAll, SeedFindUser, Seeds, SeedRecs
    <2> QED BY <1>1, <2>1, SeedReads
  <1>7. CASE SeedFindRoles
    <2>1. Admin \in LiveRoles
      BY <1>7, SeededNames DEF IInv, BaseInv, SeedInv, SeedFindRoles, Seeds, LiveRoles
    <2>2. SeedInv'
      BY <1>1, <1>2, <1>7, <2>1 DEF IInv, BaseInv, SeedInv, ReseedGivesAll, SeedFindRoles, Seeds, SeedRecs
    <2> QED BY <1>1, <2>2, SeedReads
  <1>8. CASE SeedExit
    <2>1. SeedInv'
      BY <1>1, <1>8 DEF IInv, BaseInv, SeedInv, ReseedGivesAll, SeedExit, SeedOff, SeedRecs
    <2> QED BY <1>1, <2>1, SeedReads
  <1> QED BY <1>3, <1>4, <1>5, <1>6, <1>7, <1>8

LEMMA SeedWritingOK ==
    ASSUME IInv, WritePermissions \/ SeedSaveRole \/ SeedSaveUser
    PROVE  BaseInv'
  <1>1. UNCHANGED <<session, req, log, faults>>
    BY DEF WritePermissions, SeedSaveRole, SeedSaveUser, Seeds
  <1>2. RestInv'
    BY <1>1 DEF IInv, BaseInv, RestInv
  <1>3. CASE WritePermissions
    <2>1. permission' = permission \cup seed.drafted /\ UNCHANGED <<role, user>>
      BY <1>3 DEF WritePermissions
    <2>2. permission \subseteq permission' /\ permission' \subseteq PERMISSIONS
      BY <2>1 DEF IInv, BaseInv, TableInv, SeedInv, SeedRecs
    <2>3. TableInv'
      BY <2>1, <2>2 DEF IInv, BaseInv, TableInv, LiveRoles, AdminAlone
    <2>4. ReqInv'
      BY <1>1, <2>2, RequestsKept DEF IInv, BaseInv
    <2>5. SeedInv'
      BY <1>3, <2>1, <2>2 DEF IInv, BaseInv, SeedInv, ReseedGivesAll, WritePermissions, SeedRecs
    <2> QED BY <1>2, <2>3, <2>4, <2>5 DEF IInv, BaseInv
  <1>4. CASE SeedSaveRole
    <2>1. UNCHANGED <<permission, user>> /\ seed.pc = "saveRole"
      BY <1>4 DEF SeedSaveRole, Seeds
    <2>2. ReqInv'
      BY <1>1, <2>1, RequestsKept DEF IInv, BaseInv
    <2>3. CASE seed' = SeedOff /\ UNCHANGED role
      <3>1. TableInv'
        BY <2>1, <2>3, TablesKept DEF IInv, BaseInv, tables
      <3>2. SeedInv'
        BY <2>1, <2>3 DEF IInv, BaseInv, SeedInv, ReseedGivesAll, SeedOff, SeedRecs
      <3> QED BY <1>2, <2>2, <3>1, <3>2 DEF IInv, BaseInv
    <2>4. CASE /\ role' = [role EXCEPT ![Admin] = [row |-> "live", perms |-> seed.perms]]
               /\ seed' = [seed EXCEPT !.pc = "user", !.found = FALSE]
      <3>1. TableInv'
        BY <2>1, <2>4, RoleChanges, SeededNames DEF IInv, BaseInv, SeedInv
      <3>2. role'[Admin] = [row |-> "live", perms |-> seed.perms]
        BY <2>4, SeededNames DEF IInv, BaseInv, TableInv
      <3>3. seed' \in SeedRecs
        BY <2>4 DEF IInv, BaseInv, SeedInv, SeedRecs
      <3>4. seed'.pc = "user" /\ seed'.perms = seed.perms /\ seed'.drafted = seed.drafted
        BY <2>4 DEF IInv, BaseInv, SeedInv, SeedRecs
      <3>5. SeedInv'
        BY <2>1, <3>2, <3>3, <3>4 DEF IInv, BaseInv, SeedInv, ReseedGivesAll
      <3> QED BY <1>2, <2>2, <3>1, <3>5 DEF IInv, BaseInv
    <2> QED BY <1>4, <2>3, <2>4 DEF SeedSaveRole
  <1>5. CASE SeedSaveUser
    <2>1. UNCHANGED <<permission, role>> /\ seed.pc = "saveUser"
      BY <1>5 DEF SeedSaveUser, Seeds
    <2>2. ReqInv'
      BY <1>1, <2>1, RequestsKept DEF IInv, BaseInv
    <2>3. CASE seed' = SeedOff /\ UNCHANGED user
      <3>1. TableInv'
        BY <2>1, <2>3, TablesKept DEF IInv, BaseInv, tables
      <3>2. SeedInv'
        BY <2>1, <2>3 DEF IInv, BaseInv, SeedInv, ReseedGivesAll, SeedOff, SeedRecs
      <3> QED BY <1>2, <2>2, <3>1, <3>2 DEF IInv, BaseInv
    <2>4. CASE /\ seed.roles \subseteq LiveRoles
               /\ user' = [user EXCEPT ![Root].row = "live", ![Root].roles = seed.roles]
               /\ seed' = [seed EXCEPT !.pc = "done", !.found = FALSE, !.roles = {}]
      <3> DEFINE row == [user[Root] EXCEPT !.row = "live", !.roles = seed.roles]
      <3>1. user[Root] \in UserRows
        BY SeededNames DEF IInv, BaseInv, TableInv
      <3>2. row \in UserRows
        BY <3>1 DEF UserRows, Row, IInv, BaseInv, SeedInv, SeedRecs
      <3>3. row.row = "live" /\ row.roles = seed.roles /\ row.perms = user[Root].perms
        BY <3>1 DEF UserRows
      <3>4. row.perms \subseteq permission /\ row.roles \subseteq LiveRoles /\ Admin \in row.roles
        BY <2>1, <2>4, <3>3, SeededNames DEF IInv, BaseInv, TableInv, SeedInv
      <3>5. user' = [user EXCEPT ![Root] = row]
        BY <2>4, <3>1 DEF UserRows, IInv, BaseInv, TableInv
      <3>6. TableInv'
        BY <2>1, <3>2, <3>3, <3>4, <3>5, UserChanges, SeededNames DEF IInv, BaseInv
      <3>7. SeedInv'
        BY <2>1, <2>4 DEF IInv, BaseInv, SeedInv, ReseedGivesAll, SeedRecs
      <3> QED BY <1>2, <2>2, <3>6, <3>7 DEF IInv, BaseInv
    <2> QED BY <1>5, <2>3, <2>4 DEF SeedSaveUser
  <1> QED BY <1>3, <1>4, <1>5
-----------------------------------------------------------------------------
(* Until the seeds have been *)

\* Who writes the role table.
LEMMA RoleWriters ==
    ASSUME [Next]_vars
    PROVE  \/ UNCHANGED role
           \/ \E q \in Requests : InsertRole(q) \/ SaveRole(q) \/ EraseRole(q)
           \/ SeedSaveRole
  <1>1. CASE \E b \in Browsers : Authenticating(b)
    BY <1>1 DEF Authenticating, signIn, SignIn, Expire, logout, Logout, tables
  <1>2. ASSUME NEW q \in Requests, Asking(q) PROVE UNCHANGED role
    BY <1>2 DEF Asking, signup, createUser, updateUser, deleteUser, changePassword, assignRole,
           assignPermission, createRole, updateRole, deleteRole, CreateUser, UpdateUser,
           DeleteUser, ChangePassword, AssignRole, AssignPermission, CreateRole, UpdateRole,
           DeleteRole, Loads, Asks, tables
  <1>3. ASSUME NEW q \in Requests, Handling(q)
        PROVE  UNCHANGED role \/ InsertRole(q) \/ SaveRole(q) \/ EraseRole(q)
    BY <1>3 DEF Handling, FindExisting, InsertUser, SaveUpdated, EraseUser, WritePassword,
           CheckRole, SaveAssigned, CheckPermission, SavePermission, Reread, tables
  <1>4. CASE (\E q \in Requests : Record(q) \/ Drop(q)) \/ purge
    BY <1>4 DEF Record, Drop, purge, Purge, tables
  <1>5. CASE Seeding
    BY <1>5 DEF Seeding, SeedPermissions, WritePermissions, SeedFindRole, SeedFindPermissions,
           SeedFindUser, SeedFindRoles, SeedSaveUser, SeedExit, tables
  <1>6. CASE Crash \/ UNCHANGED vars
    BY <1>6 DEF Crash, vars, tables
  <1> QED BY <1>1, <1>2, <1>3, <1>4, <1>5, <1>6 DEF Next

\* Who writes the user table.
LEMMA UserWriters ==
    ASSUME [Next]_vars
    PROVE  \/ UNCHANGED user
           \/ \E q \in Requests :
                 \/ InsertUser(q) \/ SaveUpdated(q) \/ EraseUser(q) \/ SaveAssigned(q)
                 \/ SavePermission(q) \/ EraseRole(q)
           \/ SeedSaveUser
  <1>1. CASE \E b \in Browsers : Authenticating(b)
    BY <1>1 DEF Authenticating, signIn, SignIn, Expire, logout, Logout, tables
  <1>2. ASSUME NEW q \in Requests, Asking(q) PROVE UNCHANGED user
    BY <1>2 DEF Asking, signup, createUser, updateUser, deleteUser, changePassword, assignRole,
           assignPermission, createRole, updateRole, deleteRole, CreateUser, UpdateUser,
           DeleteUser, ChangePassword, AssignRole, AssignPermission, CreateRole, UpdateRole,
           DeleteRole, Loads, Asks, tables
  <1>3. ASSUME NEW q \in Requests, Handling(q)
        PROVE  \/ UNCHANGED user
               \/ InsertUser(q) \/ SaveUpdated(q) \/ EraseUser(q) \/ SaveAssigned(q)
               \/ SavePermission(q) \/ EraseRole(q)
    BY <1>3 DEF Handling, FindExisting, WritePassword, CheckRole, CheckPermission,
           InsertRole, SaveRole, Reread, tables
  <1>4. CASE (\E q \in Requests : Record(q) \/ Drop(q)) \/ purge
    BY <1>4 DEF Record, Drop, purge, Purge, tables
  <1>5. CASE Seeding
    BY <1>5 DEF Seeding, SeedPermissions, WritePermissions, SeedFindRole, SeedFindPermissions,
           SeedSaveRole, SeedFindUser, SeedFindRoles, SeedExit, tables
  <1>6. CASE Crash \/ UNCHANGED vars
    BY <1>6 DEF Crash, vars, tables
  <1> QED BY <1>1, <1>2, <1>3, <1>4, <1>5, <1>6 DEF Next

\* A new row stays empty: whatever is written into a row makes it live, or takes roles away.
LEMMA NewRowsOK ==
    ASSUME IInv, [Next]_vars, NEW u \in Users, user'[u].row = "new"
    PROVE  user'[u].roles = {} /\ user'[u].perms = {}
  <1>1. user \in [Users -> UserRows]
    BY DEF IInv, BaseInv, TableInv
  <1>2. user[u].row = "new" => user[u].roles = {} /\ user[u].perms = {}
    BY DEF IInv, PhaseInv
  <1>3. CASE \E q \in Requests : InsertUser(q) \/ EraseUser(q)
    BY <1>1, <1>2, <1>3 DEF InsertUser, EraseUser, NoUser, UserRows
  <1>4. CASE \E q \in Requests : SaveUpdated(q) \/ SaveAssigned(q) \/ SavePermission(q)
    <2>1. PICK q \in Requests : SaveUpdated(q) \/ SaveAssigned(q) \/ SavePermission(q)
      BY <1>4
    <2>2. ASSUME NEW row, SaveUser(q, row), row.row = "live"
          PROVE  user'[u] = user[u] \/ user'[u].row = "live"
      BY <1>1, <2>2 DEF SaveUser
    <2>3. user'[u] = user[u] \/ user'[u].row = "live"
      <3>1. CASE SaveUpdated(q)
        BY <2>2, <3>1 DEF SaveUpdated
      <3>2. CASE SaveAssigned(q)
        BY <2>2, <3>2 DEF SaveAssigned
      <3>3. CASE SavePermission(q)
        BY <1>1, <3>3 DEF SavePermission, SaveUser, UserRows
      <3> QED BY <2>1, <3>1, <3>2, <3>3
    <2> QED BY <1>2, <2>3
  <1>5. CASE \E q \in Requests : EraseRole(q)
    BY <1>1, <1>2, <1>5 DEF EraseRole, UserRows
  <1>6. CASE SeedSaveUser
    BY <1>1, <1>2, <1>6 DEF SeedSaveUser, UserRows
  <1>7. CASE UNCHANGED user
    BY <1>2, <1>7
  <1> QED BY <1>3, <1>4, <1>5, <1>6, <1>7, UserWriters

\* Once the account of the seeds has been given its role it never is without.
LEMMA SeededStays ==
    ASSUME IInv, [Next]_vars, ~ Unseeded
    PROVE  ~ Unseeded'
  <1>1. user \in [Users -> UserRows] /\ Root \in Users
    BY SeededNames DEF IInv, BaseInv, TableInv
  <1>2. user[Root].row # "new" /\ (user[Root].row = "live" => Admin \in user[Root].roles)
    BY DEF Unseeded
  <1>3. CASE \E q \in Requests : InsertUser(q) \/ EraseUser(q)
    BY <1>1, <1>2, <1>3 DEF InsertUser, EraseUser, NoUser, UserRows, Unseeded
  <1>4. CASE \E q \in Requests : SaveUpdated(q) \/ SaveAssigned(q) \/ SavePermission(q)
    <2>1. PICK q \in Requests : SaveUpdated(q) \/ SaveAssigned(q) \/ SavePermission(q)
      BY <1>4
    <2>2. ReqOK(req[q], permission)
      BY DEF IInv, BaseInv, ReqInv
    <2>3. ASSUME NEW row, SaveUser(q, row), row.row = "live",
                 req[q].user = Root => Admin \in row.roles
          PROVE  ~ Unseeded'
      BY <1>1, <1>2, <2>3 DEF SaveUser, Unseeded
    <2>4. CASE SaveUpdated(q)
      BY <2>2, <2>3, <2>4 DEF SaveUpdated, At, ReqOK
    <2>5. CASE SaveAssigned(q)
      BY <2>2, <2>3, <2>5 DEF SaveAssigned, At, ReqOK
    <2>6. CASE SavePermission(q)
      BY <1>1, <1>2, <2>6 DEF SavePermission, SaveUser, UserRows, Unseeded
    <2> QED BY <2>1, <2>4, <2>5, <2>6
  <1>5. CASE \E q \in Requests : EraseRole(q)
    <2>1. PICK q \in Requests : EraseRole(q)
      BY <1>5
    <2>2. req[q].role # Admin
      BY <2>1 DEF EraseRole, At, IInv, BaseInv, ReqInv, ReqOK
    <2> QED BY <1>1, <1>2, <2>1, <2>2 DEF EraseRole, UserRows, Unseeded
  <1>6. CASE SeedSaveUser
    <2>1. Admin \in seed.roles
      BY <1>6 DEF SeedSaveUser, Seeds, IInv, BaseInv, SeedInv
    <2> QED BY <1>1, <1>2, <1>6, <2>1 DEF SeedSaveUser, UserRows, Unseeded
  <1>7. CASE UNCHANGED user
    BY <1>2, <1>7 DEF Unseeded
  <1> QED BY <1>3, <1>4, <1>5, <1>6, <1>7, UserWriters

\* Where nobody may do anything, a step gives no permission and lets no other request in.
LEMMA PowerlessKept ==
    ASSUME IInv, Unseeded, Powerless, [Next]_vars, Unseeded'
    PROVE  Powerless'
  <1>1. /\ user \in [Users -> UserRows] /\ role \in [Roles -> RoleRows]
        /\ session \in [Browsers -> Sessions] /\ req \in [Requests -> ReqRecs]
        /\ Root \in Users /\ Admin \in Roles
    BY SeededNames DEF IInv, BaseInv, TableInv, ReqInv, RestInv
  <1>2. \A p : ~ Allowed(p)
    BY DEF Powerless, Allowed
  <1>3. CASE \E b \in Browsers : Authenticating(b)
    <2>1. PICK b \in Browsers : Authenticating(b)
      BY <1>3
    <2>2. UNCHANGED <<user, role, req>>
      BY <2>1 DEF Authenticating, signIn, SignIn, Expire, logout, Logout, tables
    <2>3. \A u \in Users : Effective(u) = {}
      <3>1. \A u \in Users : user[u].roles \subseteq Roles \ {Admin}
        BY DEF IInv, BaseInv, TableInv, LiveRoles, AdminAlone, Unseeded
      <3> QED BY <3>1 DEF Powerless, Effective
    <2>4. \A c \in Browsers : session'[c].perms = {}
      BY <1>1, <2>1, <2>3
         DEF Authenticating, signIn, SignIn, Expire, logout, Logout, NoToken, Powerless
    <2> QED BY <2>2, <2>4 DEF Powerless
  <1>4. CASE \E q \in Requests : Asking(q)
    <2>1. PICK q \in Requests : signup(q)
      BY <1>2, <1>4 DEF Asking, createUser, updateUser, deleteUser, changePassword, assignRole,
         assignPermission, createRole, updateRole, deleteRole
    <2>2. PICK u \in Users :
             Asks(q, [Unasked EXCEPT !.pc = "reading", !.op = "signUp", !.user = u])
      BY <2>1 DEF signup, CreateUser
    <2> QED BY <1>1, <2>2 DEF Asks, Unasked, Powerless, tables
  <1>5. CASE \E q \in Requests : Handling(q)
    <2>1. PICK q \in Requests : Handling(q)
      BY <1>5
    <2>2. req[q].op \in {"none", "signUp"}
      BY DEF Powerless
    <2>3. FindExisting(q) \/ InsertUser(q)
      BY <2>1, <2>2 DEF Handling, SaveUpdated, EraseUser, WritePassword, CheckRole, SaveAssigned,
         CheckPermission, SavePermission, InsertRole, SaveRole, Reread, EraseRole, At
    <2>4. UNCHANGED <<role, session>> /\ \A u \in Users : user'[u].perms = user[u].perms
      BY <1>1, <2>3 DEF FindExisting, InsertUser, At, tables, UserRows
    <2>5. \A p \in Requests : req'[p].op \in {"none", "signUp"}
      BY <1>1, <2>2, <2>3 DEF FindExisting, InsertUser, Created, SignsUp, Succeeds, Fails,
         Proceeds, Over, Unasked, ReqRecs, Powerless
    <2> QED BY <2>4, <2>5 DEF Powerless
  <1>6. CASE (\E q \in Requests : Record(q) \/ Drop(q)) \/ purge \/ UNCHANGED vars
    BY <1>6 DEF Record, Drop, purge, Purge, vars, tables, Powerless
  <1>7. CASE Seeding
    <2>1. UNCHANGED <<session, req>>
      BY <1>7 DEF Seeding, SeedPermissions, WritePermissions, SeedFindRole, SeedFindPermissions,
         SeedSaveRole, SeedFindUser, SeedFindRoles, SeedSaveUser, SeedExit, Seeds
    <2>2. \A r \in Roles \ {Admin} : role'[r] = role[r]
      BY <1>1, <1>7 DEF Seeding, SeedPermissions, WritePermissions, SeedFindRole,
         SeedFindPermissions, SeedSaveRole, SeedFindUser, SeedFindRoles, SeedSaveUser, SeedExit,
         tables
    <2>3. \A u \in Users : user'[u].perms = user[u].perms
      BY <1>1, <1>7 DEF Seeding, SeedPermissions, WritePermissions, SeedFindRole,
         SeedFindPermissions, SeedSaveRole, SeedFindUser, SeedFindRoles, SeedSaveUser, SeedExit,
         tables, UserRows
    <2> QED BY <2>1, <2>2, <2>3 DEF Powerless
  <1>8. CASE Crash
    <2>1. \A q \in Requests : req'[q].op \in {"none", "signUp"}
      BY <1>8 DEF Crash, Over, Unasked, Powerless
    <2> QED BY <1>8, <2>1 DEF Crash, tables, Powerless
  <1> QED BY <1>3, <1>4, <1>5, <1>6, <1>7, <1>8 DEF Next

LEMMA PhaseOK ==
    ASSUME IInv, [Next]_vars
    PROVE  PhaseInv'
  <1>1. \A u \in Users : user'[u].row = "new" => user'[u].roles = {} /\ user'[u].perms = {}
    BY NewRowsOK
  <1>2. Unseeded' => Powerless'
    BY SeededStays, PowerlessKept DEF IInv, PhaseInv
  <1> QED BY <1>1, <1>2 DEF PhaseInv
-----------------------------------------------------------------------------
(* The invariant and what follows from it *)

LEMMA NextOK ==
    ASSUME IInv, [Next]_vars
    PROVE  BaseInv'
  <1>1. CASE \E b \in Browsers : Authenticating(b)
    BY <1>1, AuthenticatingOK
  <1>2. CASE \E q \in Requests : Asking(q)
    BY <1>2, AskingOK
  <1>3. CASE \E q \in Requests : Handling(q)
    BY <1>3, HandlingUserOK, HandlingAssignmentOK, HandlingRoleOK DEF Handling
  <1>4. CASE (\E q \in Requests : Record(q) \/ Drop(q)) \/ purge
    BY <1>4, LoggingOK
  <1>5. CASE Seeding
    BY <1>5, SeedReadingOK, SeedWritingOK DEF Seeding
  <1>6. CASE Crash
    BY <1>6, CrashOK
  <1>7. CASE UNCHANGED vars
    <2>1. UNCHANGED <<tables, req, seed>> /\ RestInv'
      BY <1>7 DEF vars, tables, IInv, BaseInv, RestInv
    <2> QED BY <2>1, QuietOK
  <1>8. CASE Next
    <2>1. \/ \E b \in Browsers : Authenticating(b)
          \/ \E q \in Requests : Asking(q)
          \/ \E q \in Requests : Handling(q)
          \/ (\E q \in Requests : Record(q) \/ Drop(q)) \/ purge
          \/ Seeding
          \/ Crash
      BY <1>8 DEF Next
    <2> QED BY <2>1, <1>1, <1>2, <1>3, <1>4, <1>5, <1>6
  <1> QED BY <1>7, <1>8

\* Tables, tokens, requests, log and seeds keep what the code relies on, in every state.
THEOREM Inductive == Spec => []IInv
  <1>1. Init => IInv
    BY InitOK
  <1>2. IInv /\ [Next]_vars => IInv'
    BY NextOK, PhaseOK DEF IInv
  <1> QED BY <1>1, <1>2, PTL DEF Spec

\* Rows have their types, and no role or user ever refers to a row that is not there.
THEOREM AccessTypeCorrect == Spec => []TypeOK
  <1>1. IInv => TypeOK
    BY DEF IInv, BaseInv, TableInv, ReqInv, SeedInv, RestInv, TypeOK
  <1> QED BY <1>1, Inductive, PTL

\* The super-admin role is that of the account of the seeded name alone, whatever is
\* registered, assigned, saved from an old reading, deleted or seeded, and in whichever
\* order; and while a live account of that name lacks it, nobody may do anything.
THEOREM AdminStaysRoots == Spec => []AdminIsRoots
  <1>1. ASSUME IInv PROVE AdminIsRoots
    <2>1. AdminAlone
      BY <1>1 DEF IInv, BaseInv, TableInv
    <2>2. ASSUME user[Root].row = "live", Admin \notin user[Root].roles, NEW u \in Users
          PROVE  Effective(u) = {}
      <3>1. Powerless
        BY <1>1, <2>2 DEF IInv, PhaseInv, Unseeded
      <3>2. user[u].roles \subseteq Roles \ {Admin}
        BY <1>1, <2>1, <2>2 DEF IInv, BaseInv, TableInv, LiveRoles, AdminAlone
      <3> QED BY <3>1, <3>2 DEF Powerless, Effective
    <2> QED BY <2>1, <2>2 DEF AdminIsRoots, AdminAlone
  <1> QED BY <1>1, Inductive, PTL

\* Seeds that find every permission written leave the super-admin role with all of them.
THEOREM ReseedComplete == Spec => []ReseedGivesAll
  <1>1. IInv => ReseedGivesAll
    BY DEF IInv, BaseInv, SeedInv
  <1> QED BY <1>1, Inductive, PTL
-----------------------------------------------------------------------------
(* What steps may not do *)

LEMMA AdminKept ==
    ASSUME IInv, [Next]_vars, role[Admin].row = "live"
    PROVE  role'[Admin].row = "live" /\ role[Admin].perms \subseteq role'[Admin].perms
  <1>1. role \in [Roles -> RoleRows]
    BY DEF IInv, BaseInv, TableInv
  <1>2. CASE \E q \in Requests : InsertRole(q) \/ SaveRole(q) \/ EraseRole(q)
    <2>1. PICK q \in Requests : InsertRole(q) \/ SaveRole(q) \/ EraseRole(q)
      BY <1>2
    <2>2. ReqOK(req[q], permission)
      BY DEF IInv, BaseInv, ReqInv
    <2>3. CASE req[q].role # Admin
      BY <1>1, <2>1, <2>3, SeededNames DEF InsertRole, SaveRole, EraseRole
    <2>4. CASE InsertRole(q) /\ req[q].role = Admin
      BY <2>4 DEF InsertRole
    <2>5. CASE (SaveRole(q) \/ EraseRole(q)) /\ req[q].role = Admin
      BY <2>2, <2>5 DEF SaveRole, EraseRole, At, ReqOK
    <2> QED BY <2>1, <2>3, <2>4, <2>5
  <1>3. CASE SeedSaveRole
    <2>1. seed.pc = "saveRole"
      BY <1>3 DEF SeedSaveRole, Seeds
    <2>2. seed.found \in BOOLEAN
      BY DEF IInv, BaseInv, SeedInv, SeedRecs
    <2>3. CASE seed.found
      <3>1. role[Admin].perms \subseteq seed.perms
        BY <2>1, <2>3 DEF IInv, BaseInv, SeedInv
      <3> QED BY <1>1, <1>3, <3>1, SeededNames DEF SeedSaveRole
    <2>4. CASE ~ seed.found
      <3>1. UNCHANGED role
        BY <1>3, <2>2, <2>4 DEF SeedSaveRole
      <3> QED BY <3>1
    <2> QED BY <2>3, <2>4
  <1>4. CASE UNCHANGED role
    BY <1>4
  <1> QED BY <1>2, <1>3, <1>4, RoleWriters

\* The super-admin role, once there, is neither deleted nor does it lose a permission,
\* even to seeds that write what they read long before.
THEOREM AdminRoleKept == Spec => AdminNeverShrinks
  <1>1. IInv /\ [Next]_vars =>
          [role[Admin].row = "live" =>
             role'[Admin].row = "live" /\ role[Admin].perms \subseteq role'[Admin].perms]_vars
    BY AdminKept
  <1> QED BY <1>1, Inductive, PTL DEF Spec, AdminNeverShrinks

LEMMA GoneKept ==
    ASSUME IInv, [Next]_vars, NEW u \in Users, user[u].row = "gone"
    PROVE  user'[u].row = "gone" \/ (u = Root /\ seed.pc = "saveUser")
  <1>1. user \in [Users -> UserRows]
    BY DEF IInv, BaseInv, TableInv
  <1>2. CASE \E q \in Requests : InsertUser(q) \/ EraseUser(q)
    BY <1>1, <1>2 DEF InsertUser, EraseUser, NoUser, UserRows
  <1>3. CASE \E q \in Requests : SaveUpdated(q) \/ SaveAssigned(q) \/ SavePermission(q)
    <2>1. PICK q \in Requests : \E row : SaveUser(q, row)
      BY <1>3 DEF SaveUpdated, SaveAssigned, SavePermission
    <2>2. PICK row : SaveUser(q, row)
      BY <2>1
    <2> QED BY <1>1, <2>2 DEF SaveUser
  <1>4. CASE \E q \in Requests : EraseRole(q)
    BY <1>1, <1>4 DEF EraseRole, UserRows
  <1>5. CASE SeedSaveUser
    BY <1>1, <1>5 DEF SeedSaveUser, Seeds, UserRows
  <1>6. CASE UNCHANGED user
    BY <1>6
  <1> QED BY <1>2, <1>3, <1>4, <1>5, <1>6, UserWriters

\* No request brings a deleted account back, however long ago it had read it; the seeds
\* may insert theirs anew.
THEOREM DeletedAccountsStay == Spec => DeletedStaysDeleted
  <1>1. IInv /\ [Next]_vars =>
          [\A u \in Users : user[u].row = "gone"
             => user'[u].row = "gone" \/ (u = Root /\ seed.pc = "saveUser")]_vars
    BY GoneKept
  <1> QED BY <1>1, Inductive, PTL DEF Spec, DeletedStaysDeleted

\* A request that arrives or goes on leaves the others alone.
LEMMA MovesOne ==
    ASSUME NEW q \in Requests, Asking(q) \/ Handling(q)
    PROVE  \E r : req' = [req EXCEPT ![q] = r]
  <1>1. CASE Asking(q)
    <2>1. \E r : Asks(q, r)
      BY <1>1 DEF Asking, signup, createUser, updateUser, deleteUser, changePassword, assignRole,
           assignPermission, createRole, updateRole, deleteRole, CreateUser, UpdateUser,
           DeleteUser, ChangePassword, AssignRole, AssignPermission, CreateRole, UpdateRole,
           DeleteRole, Loads
    <2> QED BY <2>1 DEF Asks
  <1>2. CASE Handling(q)
    <2>1. Succeeds(q) \/ SignsUp(q) \/ Fails(q) \/ \E r : Proceeds(q, r)
      BY <1>2 DEF Handling, FindExisting, InsertUser, SaveUpdated, EraseUser, WritePassword,
           CheckRole, SaveAssigned, CheckPermission, SavePermission, InsertRole, SaveRole,
           Reread, EraseRole, SaveUser, Created
    <2> QED BY <2>1 DEF Succeeds, SignsUp, Fails, Proceeds
  <1> QED BY <1>1, <1>2

\* Only its own handler answers a request that is about to save.
LEMMA SaversAnswer ==
    ASSUME ReqInv, [Next]_vars, NEW q \in Requests, req[q].pc = "saving", req'[q].pc = "ok",
           req[q].op \in {"updateUser", "assignRole", "assignPermission"}
    PROVE  SaveUpdated(q) \/ SaveAssigned(q) \/ SavePermission(q)
  <1>1. req \in [Requests -> ReqRecs]
    BY DEF ReqInv
  <1>2. req'[q] # req[q]
    OBVIOUS
  <1>3. CASE \E p \in Requests : p # q /\ (Asking(p) \/ Handling(p))
    <2>1. PICK p \in Requests : p # q /\ (Asking(p) \/ Handling(p))
      BY <1>3
    <2>2. \E r : req' = [req EXCEPT ![p] = r]
      BY <2>1, MovesOne
    <2> QED BY <1>1, <1>2, <2>1, <2>2
  <1>4. CASE Asking(q)
    <2>1. req[q].pc = "new"
      BY <1>4 DEF Asking, signup, createUser, updateUser, deleteUser, changePassword, assignRole,
           assignPermission, createRole, updateRole, deleteRole, CreateUser, UpdateUser,
           DeleteUser, ChangePassword, AssignRole, AssignPermission, CreateRole, UpdateRole,
           DeleteRole, Loads, Asks
    <2> QED BY <2>1
  <1>5. CASE Handling(q)
    BY <1>5 DEF Handling, FindExisting, InsertUser, EraseUser, WritePassword, CheckRole,
           CheckPermission, InsertRole, SaveRole, Reread, EraseRole, At
  <1>6. CASE (\E b \in Browsers : Authenticating(b)) \/ (\E p \in Requests : Record(p) \/ Drop(p))
             \/ purge \/ Seeding \/ UNCHANGED vars
    BY <1>2, <1>6 DEF Authenticating, signIn, SignIn, Expire, logout, Logout, Record, Drop,
           purge, Purge, Seeding, SeedPermissions, WritePermissions, SeedFindRole,
           SeedFindPermissions, SeedSaveRole, SeedFindUser, SeedFindRoles, SeedSaveUser,
           SeedExit, Seeds, vars
  <1>7. CASE Crash
    <2>1. req'[q] = IF q \in UnderWay THEN Over("cut") ELSE req[q]
      BY <1>7 DEF Crash
    <2> QED BY <1>2, <2>1 DEF Over, Unasked
  <1> QED BY <1>3, <1>4, <1>5, <1>6, <1>7 DEF Next

LEMMA FreshKept ==
    ASSUME IInv, [Next]_vars, NEW q \in Requests,
           req[q].op \in {"updateUser", "assignRole", "assignPermission"},
           req[q].pc = "saving", req'[q].pc = "ok", Fresh(q)
    PROVE  LET u == req[q].user
           IN  user[u].roles \subseteq user'[u].roles /\ user[u].perms \subseteq user'[u].perms
  <1> DEFINE u == req[q].user
  <1>1. user \in [Users -> UserRows] /\ u \in Users /\ user[u] \in UserRows
    BY DEF IInv, BaseInv, TableInv, ReqInv, ReqRecs
  <1>2. user[u].roles = req[q].roles /\ user[u].perms = req[q].perms
    BY DEF Fresh
  <1>3. ASSUME NEW row, SaveUser(q, row) PROVE UNCHANGED user \/ user' = [user EXCEPT ![u] = row]
    BY <1>3 DEF SaveUser
  <1>4. CASE SaveUpdated(q)
    BY <1>1, <1>2, <1>3, <1>4 DEF SaveUpdated
  <1>5. CASE SaveAssigned(q)
    BY <1>1, <1>2, <1>3, <1>5 DEF SaveAssigned
  <1>6. CASE SavePermission(q)
    BY <1>1, <1>2, <1>3, <1>6 DEF SavePermission, UserRows
  <1> QED BY <1>4, <1>5, <1>6, SaversAnswer DEF IInv, BaseInv

\* A request whose reading of a user is still true saves nothing away, although it writes
\* all roles and permissions again.
THEOREM FreshSaves == Spec => FreshSavesOnlyAdd
  <1>1. IInv /\ [Next]_vars =>
          [\A q \in Requests :
              /\ req[q].op \in {"updateUser", "assignRole", "assignPermission"}
              /\ req[q].pc = "saving" /\ req'[q].pc = "ok" /\ Fresh(q)
              => LET u == req[q].user
                 IN  user[u].roles \subseteq user'[u].roles /\ user[u].perms \subseteq user'[u].perms]_vars
    BY FreshKept
  <1> QED BY <1>1, Inductive, PTL DEF Spec, FreshSavesOnlyAdd
=============================================================================
