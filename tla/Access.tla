-------------------------------- MODULE Access --------------------------------
(***************************************************************************)
(* Users, roles, permissions and the audit trail.  A session is a token    *)
(* that carries the permissions its user had when signing in.  A request   *)
(* passes the guards on its token, reads rows, and saves what it read with *)
(* its change: each await is a step, and requests interleave with each     *)
(* other and with a run of the database seeds, which is a process of its   *)
(* own.  An answered mutation leaves an entry in the audit log, written    *)
(* after the answer by nobody who waits for it.                            *)
(***************************************************************************)
EXTENDS FiniteSets, Naturals

CONSTANTS
    PERMISSIONS,    \* the names the seed inserts
    Roles, Admin,   \* roles by name; Admin is super-admin
    Users, Root,    \* accounts by name; Root is the seeded one
    Deployed,       \* bound: the permissions the database may begin with
    Payloads,       \* bound: the permission sets a role request may carry
    Browsers,       \* bound: tokens held at once
    Requests,       \* bound: mutations in one behaviour
    MaxActive,      \* bound: mutations and seeds under way at once
    MaxFaults       \* bound: crashes of the server and rejected log entries

ASSUME SeededNames == Admin \in Roles /\ Root \in Users
ASSUME PermissionSets == Payloads \cup Deployed \subseteq SUBSET PERMISSIONS
ASSUME BoundsAreNat == MaxActive \in Nat /\ MaxFaults \in Nat

VARIABLES
    permission, \* rows of the permission table
    role,       \* rows of the role table, with their permissions
    user,       \* rows of the user table, with their roles and own permissions
    session,    \* the token each browser holds
    req,        \* mutations: where each stands and what it has read
    log,        \* the audit entry of each mutation
    seed,       \* the run of the seeds
    faults

tables == <<permission, role, user>>
vars   == <<permission, role, user, session, req, log, seed, faults>>

\* A row is new until inserted; a name whose row is gone is not registered again
\* (bound), so "gone" rows are those whose identifier requests may still hold.
Row == {"new", "live", "gone"}

RoleRows == [row : Row, perms : SUBSET PERMISSIONS]
UserRows == [row : Row, roles : SUBSET Roles, perms : SUBSET PERMISSIONS]
NoRole   == [row |-> "gone", perms |-> {}]
NoUser   == [row |-> "gone", roles |-> {}, perms |-> {}]

LiveRoles == {r \in Roles : role[r].row = "live"}

\* What the permissions of a user come to: their own and those of their roles.
Effective(u) == user[u].perms \cup UNION {role[r].perms : r \in user[u].roles}

NoToken  == [pc |-> "out", user |-> Root, perms |-> {}]
Sessions == [pc : {"out", "in"}, user : Users, perms : SUBSET PERMISSIONS]

Ops == {"signUp", "createUser", "updateUser", "deleteUser", "changePassword", "assignRole",
        "assignPermission", "createRole", "updateRole", "deleteRole", "none"}

ReqRecs ==
    [pc : {"new", "reading", "saving", "rereading", "ok", "signedUp", "failed", "cut"},
     op : Ops, user : Users, role : Roles,
     given : SUBSET PERMISSIONS,                            \* in the payload
     adds : SUBSET Roles,                                   \* found for the payload
     roles : SUBSET Roles, perms : SUBSET PERMISSIONS]      \* of the user, as read
Unasked == [pc |-> "new", op |-> "none", user |-> Root, role |-> Admin,
            given |-> {}, adds |-> {}, roles |-> {}, perms |-> {}]
Over(pc) == [Unasked EXCEPT !.pc = pc]

Entries == {"none", "writing", "kept", "purged", "dropped"}

SeedRecs ==
    [pc : {"off", "role", "perms", "saveRole", "user", "roles", "saveUser", "done"},
     drafted : SUBSET PERMISSIONS, writing : BOOLEAN, found : BOOLEAN,
     perms : SUBSET PERMISSIONS, roles : SUBSET Roles]
SeedOff == [pc |-> "off", drafted |-> {}, writing |-> FALSE, found |-> FALSE,
            perms |-> {}, roles |-> {}]

TypeOK ==
    /\ permission \subseteq PERMISSIONS
    /\ role \in [Roles -> RoleRows]
    /\ user \in [Users -> UserRows]
    /\ session \in [Browsers -> Sessions]
    /\ req \in [Requests -> ReqRecs]
    /\ log \in [Requests -> Entries]
    /\ seed \in SeedRecs
    /\ faults \in 0 .. MaxFaults
    /\ \A r \in Roles : role[r].perms \subseteq permission      \* foreign keys
    /\ \A u \in Users : user[u].roles \subseteq LiveRoles /\ user[u].perms \subseteq permission
-----------------------------------------------------------------------------
(* Signing in and out *)

\* The user is read with roles and permissions; the password is compared and the token
\* signed without looking at the tables again.
SignIn(b, u) ==
    /\ user[u].row = "live"
    /\ session' = [session EXCEPT ![b] = [pc |-> "in", user |-> u, perms |-> Effective(u)]]
    /\ UNCHANGED <<tables, req, log, seed, faults>>

\* Seeded bug: a session ends only where its user has lost nothing.
ExpireUnchanged(b) ==
    /\ session[b].pc = "in" /\ session[b].perms \subseteq Effective(session[b].user)
    /\ session' = [session EXCEPT ![b] = NoToken]
    /\ UNCHANGED <<tables, req, log, seed, faults>>

\* The token and its cookie last for an hour.
Expire(b) ==
    /\ session[b].pc = "in"
    /\ session' = [session EXCEPT ![b] = NoToken]
    /\ UNCHANGED <<tables, req, log, seed, faults>>

Logout(b) ==
    /\ session' = [session EXCEPT ![b] = NoToken]
    /\ UNCHANGED <<tables, req, log, seed, faults>>

\* AuthGuard takes the user out of the token, PermissionGuard looks there only.
Authenticated(b) == session[b].pc = "in"

Allowed(perm) == \E b \in Browsers : Authenticated(b) /\ perm \in session[b].perms
-----------------------------------------------------------------------------
(* A mutation, from the guards to the answer and its entry in the log *)

UnderWay == {q \in Requests : req[q].pc \in {"reading", "saving", "rereading"}}
Room == Cardinality(UnderWay) + (IF seed.pc = "off" THEN 0 ELSE 1) < MaxActive

Asks(q, r) ==
    /\ req[q].pc = "new" /\ Room
    /\ req' = [req EXCEPT ![q] = r]
    /\ UNCHANGED <<tables, session, log, seed, faults>>

\* Seeded bug: mutations without an identifier in their route leave no entry.
SucceedsUnlogged(q) ==
    /\ req' = [req EXCEPT ![q] = Over("ok")]
    /\ log' = [log EXCEPT ![q] = IF req[q].op \in {"updateUser", "deleteUser", "updateRole", "deleteRole"}
                                  THEN "writing" ELSE @]

\* The interceptor starts the entry when the handler has succeeded.
Succeeds(q) ==
    /\ req' = [req EXCEPT ![q] = Over("ok")]
    /\ log' = [log EXCEPT ![q] = "writing"]

\* It leaves the routes of authentication alone.
SignsUp(q) ==
    /\ req' = [req EXCEPT ![q] = Over("signedUp")]
    /\ UNCHANGED log

Fails(q) ==
    /\ req' = [req EXCEPT ![q] = Over("failed")]
    /\ UNCHANGED log

Proceeds(q, r) == req' = [req EXCEPT ![q] = r] /\ UNCHANGED log

At(q, op, pc) == req[q].op = op /\ req[q].pc = pc /\ UNCHANGED <<session, seed, faults>>

Record(q) ==
    /\ log[q] = "writing"
    /\ log' = [log EXCEPT ![q] = "kept"]
    /\ UNCHANGED <<tables, session, req, seed, faults>>

\* A rejected insert is swallowed.
Drop(q) ==
    /\ log[q] = "writing" /\ faults < MaxFaults
    /\ log' = [log EXCEPT ![q] = "dropped"]
    /\ faults' = faults + 1
    /\ UNCHANGED <<tables, session, req, seed>>

\* Entries older than the days asked for are deleted; this leaves no entry.
Purge(qs) ==
    /\ \A q \in qs : log[q] = "kept"
    /\ log' = [q \in Requests |-> IF q \in qs THEN "purged" ELSE log[q]]
    /\ UNCHANGED <<tables, session, req, seed, faults>>

Crash ==
    /\ faults < MaxFaults
    /\ faults' = faults + 1
    /\ req' = [q \in Requests |->
                 IF q \in UnderWay
                   THEN Over("cut") ELSE req[q]]
    /\ log' = [q \in Requests |-> IF log[q] = "writing" THEN "dropped" ELSE log[q]]
    /\ UNCHANGED <<tables, session, seed>>
-----------------------------------------------------------------------------
(* UsersService *)

\* Seeded bug: an account whose row is gone is inserted again.
SaveUserAgain(q, row) ==
    IF row.roles \subseteq LiveRoles
      THEN user' = [user EXCEPT ![req[q].user] = row] /\ Succeeds(q)
      ELSE Fails(q) /\ UNCHANGED user

\* Saving an entity writes every column and relation it was loaded with.  The
\* password is never loaded, so a user whose row is gone cannot be inserted again.
SaveUser(q, row) ==
    LET u == req[q].user IN
    IF user[u].row = "live" /\ row.roles \subseteq LiveRoles
      THEN user' = [user EXCEPT ![u] = row] /\ Succeeds(q)
      ELSE Fails(q) /\ UNCHANGED user

\* By an administrator, or by signing up, under any name, that of the seeded account
\* included; a known name is answered as it is.
CreateUser(q, op, u) == Asks(q, [Unasked EXCEPT !.pc = "reading", !.op = op, !.user = u])

Created(q) == IF req[q].op = "signUp" THEN SignsUp(q) ELSE Succeeds(q)

FindExisting(q) ==
    /\ req[q].op \in {"signUp", "createUser"}
    /\ At(q, req[q].op, "reading")
    /\ IF user[req[q].user].row = "live" THEN Created(q)
         ELSE Proceeds(q, [req[q] EXCEPT !.pc = "saving"])
    /\ UNCHANGED tables

InsertUser(q) ==
    /\ req[q].op \in {"signUp", "createUser"}
    /\ At(q, req[q].op, "saving")
    /\ IF user[req[q].user].row = "new"
         THEN /\ user' = [user EXCEPT ![req[q].user].row = "live"]
              /\ Created(q)
         ELSE Fails(q) /\ UNCHANGED user
    /\ UNCHANGED <<permission, role>>

\* A user is loaded with roles and permissions, or not at all.
Loads(q, u, r) ==
    /\ user[u].row = "live"
    /\ Asks(q, [r EXCEPT !.user = u, !.roles = user[u].roles, !.perms = user[u].perms])

UpdateUser(q, u) ==
    Loads(q, u, [Unasked EXCEPT !.pc = "saving", !.op = "updateUser"])

\* The relations are saved with the new names, whatever was assigned meanwhile.
SaveUpdated(q) ==
    /\ At(q, "updateUser", "saving")
    /\ SaveUser(q, [row |-> "live", roles |-> req[q].roles, perms |-> req[q].perms])
    /\ UNCHANGED <<permission, role>>

DeleteUser(q, u) ==
    Loads(q, u, [Unasked EXCEPT !.pc = "saving", !.op = "deleteUser"])

EraseUser(q) ==
    /\ At(q, "deleteUser", "saving")
    /\ user' = [user EXCEPT ![req[q].user] = NoUser]
    /\ Succeeds(q)
    /\ UNCHANGED <<permission, role>>

\* The current password is compared and the new one hashed before it is written; which
\* password an account has is not kept, and an UPDATE of no row passes.
ChangePassword(q, u) ==
    \/ Loads(q, u, [Unasked EXCEPT !.pc = "saving", !.op = "changePassword"])
    \/ Asks(q, Over("failed"))

WritePassword(q) ==
    /\ At(q, "changePassword", "saving")
    /\ Succeeds(q)
    /\ UNCHANGED tables

AssignRole(q, u, r) ==
    Loads(q, u, [Unasked EXCEPT !.pc = "reading", !.op = "assignRole", !.role = r])

\* Seeded bug: only those who have the super-admin role are refused.
CheckRoleHeld(q) ==
    /\ At(q, "assignRole", "reading")
    /\ IF Admin \in req[q].roles THEN Fails(q)
         ELSE Proceeds(q, [req[q] EXCEPT !.pc = "saving", !.adds = {req[q].role} \cap LiveRoles])
    /\ UNCHANGED tables

\* The roles to assign are read.  The super-admin role cannot be given; whoever has
\* it can be given nothing else, for the roles to assign would lack it.
CheckRole(q) ==
    /\ At(q, "assignRole", "reading")
    /\ LET found == {req[q].role} \cap LiveRoles IN
       IF Admin \in found \cup req[q].roles THEN Fails(q)
         ELSE Proceeds(q, [req[q] EXCEPT !.pc = "saving", !.adds = found])
    /\ UNCHANGED tables

SaveAssigned(q) ==
    /\ At(q, "assignRole", "saving")
    /\ SaveUser(q, [row |-> "live", roles |-> req[q].roles \cup req[q].adds,
                    perms |-> req[q].perms])
    /\ UNCHANGED <<permission, role>>

\* assignPermissionAsync loads the permissions of the user, and saves no roles.
AssignPermission(q, u, p) ==
    Loads(q, u, [Unasked EXCEPT !.pc = "reading", !.op = "assignPermission", !.given = {p}])

CheckPermission(q) ==
    /\ At(q, "assignPermission", "reading")
    /\ \/ ~ req[q].given \subseteq permission /\ Fails(q)
       \/ req[q].given \subseteq permission \cap req[q].perms /\ Succeeds(q)
       \/ /\ req[q].given \subseteq permission \ req[q].perms
          /\ Proceeds(q, [req[q] EXCEPT !.pc = "saving"])
    /\ UNCHANGED tables

\* Seeded bug: the permission replaces those the user has.
SaveOnlyPermission(q) ==
    /\ At(q, "assignPermission", "saving")
    /\ SaveUser(q, [user[req[q].user] EXCEPT !.perms = req[q].given])
    /\ UNCHANGED <<permission, role>>

SavePermission(q) ==
    /\ At(q, "assignPermission", "saving")
    /\ SaveUser(q, [user[req[q].user] EXCEPT !.perms = req[q].perms \cup req[q].given])
    /\ UNCHANGED <<permission, role>>
-----------------------------------------------------------------------------
(* RolesService *)

CreateRole(q, r, ps) ==
    /\ role[r].row # "gone"
    /\ Asks(q, IF role[r].row = "live" THEN Over("failed")
                 ELSE [Unasked EXCEPT !.pc = "saving", !.op = "createRole",
                                      !.role = r, !.given = ps])

\* Names are unique, and permissions are referred to by their rows.
InsertRole(q) ==
    /\ At(q, "createRole", "saving")
    /\ IF role[req[q].role].row = "new" /\ req[q].given \subseteq permission
         THEN /\ role' = [role EXCEPT ![req[q].role] = [row |-> "live", perms |-> req[q].given]]
              /\ Proceeds(q, [req[q] EXCEPT !.pc = "rereading"])
         ELSE Fails(q) /\ UNCHANGED role
    /\ UNCHANGED <<permission, user>>

\* Seeded bug: the super-admin role is updated like any other.
UpdateAnyRole(q, r, ps) ==
    Asks(q, IF role[r].row # "live" THEN Over("failed")
              ELSE [Unasked EXCEPT !.pc = "saving", !.op = "updateRole", !.role = r, !.given = ps])

UpdateRole(q, r, ps) ==
    Asks(q, IF role[r].row # "live" \/ r = Admin THEN Over("failed")
              ELSE [Unasked EXCEPT !.pc = "saving", !.op = "updateRole", !.role = r, !.given = ps])

\* Seeded bug: the permissions of the payload need not exist.
SaveRoleUnchecked(q) ==
    /\ At(q, "updateRole", "saving")
    /\ role' = [role EXCEPT ![req[q].role] = [row |-> "live", perms |-> req[q].given]]
    /\ Proceeds(q, [req[q] EXCEPT !.pc = "rereading"])
    /\ UNCHANGED <<permission, user>>

\* A role deleted meanwhile is inserted again, held by nobody.
SaveRole(q) ==
    /\ At(q, "updateRole", "saving")
    /\ IF req[q].given \subseteq permission
         THEN /\ role' = [role EXCEPT ![req[q].role] = [row |-> "live", perms |-> req[q].given]]
              /\ Proceeds(q, [req[q] EXCEPT !.pc = "rereading"])
         ELSE Fails(q) /\ UNCHANGED role
    /\ UNCHANGED <<permission, user>>

\* Both answer with the role as it is read once more, and fail when it is gone.
Reread(q) ==
    /\ req[q].op \in {"createRole", "updateRole"}
    /\ At(q, req[q].op, "rereading")
    /\ IF role[req[q].role].row = "live" THEN Succeeds(q) ELSE Fails(q)
    /\ UNCHANGED tables

DeleteRole(q, r) ==
    Asks(q, IF role[r].row # "live" \/ r = Admin THEN Over("failed")
              ELSE [Unasked EXCEPT !.pc = "saving", !.op = "deleteRole", !.role = r])

\* The schema decides whether a role someone has can be deleted.
EraseRole(q) ==
    LET r == req[q].role
        held == \E u \in Users : r \in user[u].roles
    IN  /\ At(q, "deleteRole", "saving")
        /\ \/ /\ role' = [role EXCEPT ![r] = NoRole]
              /\ user' = [u \in Users |-> [user[u] EXCEPT !.roles = @ \ {r}]]
              /\ Succeeds(q)
           \/ held /\ Fails(q) /\ UNCHANGED <<role, user>>
        /\ UNCHANGED permission
-----------------------------------------------------------------------------
(* The seeds: permissions, then the super-admin role, then its user *)

Seeds(pc) == seed.pc = pc /\ UNCHANGED <<session, req, log, faults>>

\* The missing permissions are drafted and their save is not waited for.
SeedPermissions ==
    /\ Seeds("off") /\ Room
    /\ seed' = [SeedOff EXCEPT !.pc = "role", !.drafted = PERMISSIONS \ permission,
                               !.writing = permission # PERMISSIONS]
    /\ UNCHANGED tables

WritePermissions ==
    /\ seed.writing
    /\ permission' = permission \cup seed.drafted
    /\ seed' = [seed EXCEPT !.writing = FALSE]
    /\ UNCHANGED <<role, user, session, req, log, faults>>

SeedFindRole ==
    /\ Seeds("role")
    /\ seed' = [seed EXCEPT !.pc = "perms", !.found = role[Admin].row = "live",
                            !.perms = role[Admin].perms]
    /\ UNCHANGED tables

\* Seeded bug: the role keeps the permissions it has.
SeedKeepPermissions ==
    /\ Seeds("perms")
    /\ seed' = [seed EXCEPT !.pc = "saveRole"]
    /\ UNCHANGED tables

SeedFindPermissions ==
    /\ Seeds("perms")
    /\ seed' = [seed EXCEPT !.pc = "saveRole", !.perms = @ \cup permission]
    /\ UNCHANGED tables

\* An error ends the process, with what it had not written.
SeedSaveRole ==
    /\ Seeds("saveRole")
    /\ IF seed.found = (role[Admin].row = "live")
         THEN /\ role' = [role EXCEPT ![Admin] = [row |-> "live", perms |-> seed.perms]]
              /\ seed' = [seed EXCEPT !.pc = "user", !.found = FALSE]
         ELSE seed' = SeedOff /\ UNCHANGED role
    /\ UNCHANGED <<permission, user>>

SeedFindUser ==
    /\ Seeds("user")
    /\ seed' = [seed EXCEPT !.pc = "roles", !.found = user[Root].row = "live",
                            !.roles = user[Root].roles]
    /\ UNCHANGED tables

SeedFindRoles ==
    /\ Seeds("roles")
    /\ seed' = [seed EXCEPT !.pc = "saveUser", !.roles = @ \cup LiveRoles]
    /\ UNCHANGED tables

\* Only the relation to roles was loaded; an account that was not there is inserted.
SeedSaveUser ==
    /\ Seeds("saveUser")
    /\ IF seed.found = (user[Root].row = "live") /\ seed.roles \subseteq LiveRoles
         THEN /\ user' = [user EXCEPT ![Root].row = "live", ![Root].roles = seed.roles]
              /\ seed' = [seed EXCEPT !.pc = "done", !.found = FALSE, !.roles = {}]
         ELSE seed' = SeedOff /\ UNCHANGED user
    /\ UNCHANGED <<permission, role>>

\* The process exits; a save still on its way may not make it.
SeedExit ==
    /\ Seeds("done")
    /\ seed' = SeedOff
    /\ UNCHANGED tables
-----------------------------------------------------------------------------
\* Before the first run of the seeds, or in use with an older set of permissions.
Init ==
    /\ permission \in Deployed
    /\ role \in [Roles -> {[row |-> "new", perms |-> {}], [row |-> "live", perms |-> permission]}
                            \cup {[row |-> "live", perms |-> ps] :
                                      ps \in Payloads \cap SUBSET permission}]
    /\ role[Admin] = [row |-> IF permission = {} THEN "new" ELSE "live", perms |-> permission]
    /\ user \in [Users -> [row : {"new", "live"}, roles : SUBSET LiveRoles, perms : {{}}]]
    /\ \A u \in Users : user[u].row = "new" => user[u].roles = {}
    /\ \A u \in Users : Admin \in user[u].roles <=> u = Root /\ user[Root].row = "live"
    /\ user[Root].row = role[Admin].row
    /\ session = [b \in Browsers |-> NoToken]
    /\ req = [q \in Requests |-> Unasked]
    /\ log = [q \in Requests |-> "none"]
    /\ seed = SeedOff
    /\ faults = 0

(* The routes *)

signIn(b) == \E u \in Users : SignIn(b, u)
logout(b) == Logout(b)
signup(q) == \E u \in Users : CreateUser(q, "signUp", u)

createUser(q) == Allowed("user.create") /\ \E u \in Users : CreateUser(q, "createUser", u)
updateUser(q) == Allowed("user.update") /\ \E u \in Users : UpdateUser(q, u)
deleteUser(q) == Allowed("user.delete") /\ \E u \in Users : DeleteUser(q, u)
changePassword(q) == Allowed("user.update") /\ \E u \in Users : ChangePassword(q, u)
assignRole(q) == Allowed("user.update") /\ \E u \in Users, r \in Roles : AssignRole(q, u, r)
assignPermission(q) ==
    Allowed("user.update") /\ \E u \in Users, p \in UNION Payloads : AssignPermission(q, u, p)

createRole(q) ==
    Allowed("role.create") /\ \E r \in Roles, ps \in Payloads : CreateRole(q, r, ps)
updateRole(q) ==
    Allowed("role.update") /\ \E r \in Roles, ps \in Payloads : UpdateRole(q, r, ps)
deleteRole(q) == Allowed("role.delete") /\ \E r \in Roles : DeleteRole(q, r)

purge == Allowed("audit-log.delete") /\ \E qs \in SUBSET Requests : Purge(qs)

Authenticating(b) == signIn(b) \/ Expire(b) \/ logout(b)

Asking(q) ==
    \/ signup(q) \/ createUser(q) \/ updateUser(q) \/ deleteUser(q) \/ changePassword(q)
    \/ assignRole(q) \/ assignPermission(q)
    \/ createRole(q) \/ updateRole(q) \/ deleteRole(q)

Handling(q) ==
    \/ FindExisting(q) \/ InsertUser(q) \/ SaveUpdated(q) \/ EraseUser(q) \/ WritePassword(q)
    \/ CheckRole(q) \/ SaveAssigned(q) \/ CheckPermission(q) \/ SavePermission(q)
    \/ InsertRole(q) \/ SaveRole(q) \/ Reread(q) \/ EraseRole(q)

Seeding ==
    \/ SeedPermissions \/ WritePermissions \/ SeedFindRole \/ SeedFindPermissions
    \/ SeedSaveRole \/ SeedFindUser \/ SeedFindRoles \/ SeedSaveUser \/ SeedExit

Next ==
    \/ \E b \in Browsers : Authenticating(b)
    \/ \E q \in Requests : Asking(q) \/ Handling(q) \/ Record(q) \/ Drop(q)
    \/ purge
    \/ Seeding
    \/ Crash

Spec == Init /\ [][Next]_vars

\* Tokens run out, and what the server has begun goes on.
Fairness ==
    /\ \A b \in Browsers : WF_vars(Expire(b))
    /\ \A q \in Requests : WF_vars(Handling(q)) /\ WF_vars(Record(q))

FairSpec == Spec /\ Fairness
-----------------------------------------------------------------------------
\* The account of the seeded name has the super-admin role, through every mix of requests
\* and seeds, and nobody else ever gets it.  Whoever signs up under that name before the
\* first run of the seeds waits for it, in a system where nobody may do anything yet.
AdminIsRoots ==
    /\ \A u \in Users : Admin \in user[u].roles => u = Root /\ user[u].row = "live"
    /\ user[Root].row = "live" /\ Admin \notin user[Root].roles
          => \A u \in Users : Effective(u) = {}

\* The super-admin role survives them too: once there it stays and loses no permission.
AdminNeverShrinks ==
    [][role[Admin].row = "live" =>
          role'[Admin].row = "live" /\ role[Admin].perms \subseteq role'[Admin].perms]_vars

\* "The super-admin role has all permissions", once the seeds ran on a database that
\* had them all: a first run may give the role what it found while they were written.
ReseedGivesAll ==
    seed.pc \in {"user", "roles", "saveUser", "done"} /\ seed.drafted = {}
        => role[Admin].perms = PERMISSIONS

\* An account that was deleted is not brought back by a request that had read it; only
\* the seeds make theirs anew.
DeletedStaysDeleted ==
    [][\A u \in Users : user[u].row = "gone"
           => user'[u].row = "gone" \/ (u = Root /\ seed.pc = "saveUser")]_vars

\* A request on a user that nothing else has touched since it was read takes none of the
\* user's roles and permissions away, although all of them are written again.
Fresh(q) ==
    LET u == user[req[q].user]
    IN  req[q].roles = u.roles /\ req[q].perms = u.perms
FreshSavesOnlyAdd ==
    [][\A q \in Requests :
          /\ req[q].op \in {"updateUser", "assignRole", "assignPermission"}
          /\ req[q].pc = "saving" /\ req'[q].pc = "ok" /\ Fresh(q)
          => LET u == req[q].user
             IN  user[u].roles \subseteq user'[u].roles /\ user[u].perms \subseteq user'[u].perms]_vars

\* A token that allows what its user may no longer do comes to an end, unless the user
\* gets the permission back.
RevocationArrives ==
    \A b \in Browsers, p \in PERMISSIONS :
        LET stale == p \in session[b].perms \ Effective(session[b].user)
        IN  stale ~> ~ stale

\* An answered mutation, a registration aside, gets its entry, unless the server crashes or the insert is rejected.
AnsweredIsRecorded ==
    \A q \in Requests : req[q].pc = "ok" ~> log[q] \in {"kept", "purged"} \/ faults > 0
=============================================================================
