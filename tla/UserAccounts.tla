---------------------------- MODULE UserAccounts ----------------------------
(***************************************************************************)
(* The users table and the requests that decide who administers the hub:   *)
(* setup (authroutes.go), and creating, patching and deleting users        *)
(* (admin_users.go).  Handlers run concurrently; a step is one statement,  *)
(* since the database has one connection.  The guard of the last           *)
(* administrator reads the user in one statement, counts in another and    *)
(* writes in a third.  Any statement may fail, which ends the handler but  *)
(* for the count of the setup.                                             *)
(***************************************************************************)
EXTENDS Naturals, FiniteSets

CONSTANTS
  CallIds,    \* requests that may be in flight at once
  MaxUsers,   \* bound on the users ever created
  Bodies      \* bodies of patch requests

Roles == {"admin", "user"}

\* What a body may ask for; "other" stands for a role there is not.
Body == [role : Roles \cup {"other", "none"}, enabled : {"on", "off", "none"}]

ASSUME AccountAssumptions ==
  /\ MaxUsers \in Nat \ {0}
  /\ Bodies \subseteq Body

VARIABLES
  bootstrap, \* the configuration names an administrator to seed
  users,     \* the table, by id
  lastUser,  \* AUTOINCREMENT: ids are never given twice
  seeded,    \* the id of the user with the configured name, or 0
  calls,     \* requests in flight
  hadAdmin,  \* history: there was an administrator who could log in
  raced      \* history: a request removed one after what it had read was overtaken

userVars == <<bootstrap, users, lastUser, seeded, calls, hadAdmin, raced>>

Account == [role : Roles, enabled : BOOLEAN]

Calls ==
  [id        : CallIds,
   op        : {"setup", "create", "patch", "delete"},
   target    : 0..MaxUsers,
   body      : Body,
   step      : {"check", "insert", "read", "count", "role", "enable", "delete"},
   overtaken : BOOLEAN]  \* history: Admins changed under its decision

\* Steps between the first read of a decision and the last write that follows from it.
Decided == {"count", "role", "enable", "delete"}

Admins == {u \in DOMAIN users : users[u].role = "admin" /\ users[u].enabled}

\* Mutant: administrators who cannot log in are counted too.
CountAll == Cardinality({u \in DOMAIN users : users[u].role = "admin"})

AdminCount == Cardinality(Admins)

UsersInit ==
  /\ bootstrap \in BOOLEAN
  /\ seeded = IF bootstrap THEN 1 ELSE 0
  /\ lastUser = seeded
  /\ users = [u \in 1..lastUser |-> [role |-> "admin", enabled |-> TRUE]]
  /\ calls = {}
  /\ hadAdmin = bootstrap
  /\ raced = FALSE

-----------------------------------------------------------------------------
Begin(id, op, target, body, step) ==
  /\ \A c \in calls : c.id # id
  /\ calls' = calls \cup
       {[id |-> id, op |-> op, target |-> target, body |-> body, step |-> step,
         overtaken |-> FALSE]}
  /\ UNCHANGED <<bootstrap, users, lastUser, seeded, hadAdmin, raced>>

NewUser(role) == [role |-> role, enabled |-> "on"]
Empty == [role |-> "none", enabled |-> "none"]

\* Anyone may ask for the setup; the rest takes an administrator, mwAdmin.
ArriveSetup(id) == Begin(id, "setup", 0, NewUser("admin"), "check")

ArriveCreate(id) ==
  /\ Admins # {}
  /\ \E role \in Roles : Begin(id, "create", 0, NewUser(role), "insert")

ArrivePatch(id) ==
  /\ Admins # {}
  /\ \E u \in 1..lastUser, body \in Bodies : Begin(id, "patch", u, body, "read")

ArriveDelete(id) ==
  /\ Admins # {}
  /\ \E u \in 1..lastUser : Begin(id, "delete", u, Empty, "read")

\* The handler goes on at a step, or answers.
GoOn(c, step) ==
  /\ calls' = (calls \ {c}) \cup {[c EXCEPT !.step = step]}
  /\ UNCHANGED <<bootstrap, users, lastUser, seeded, hadAdmin, raced>>

Answer(c) ==
  /\ calls' = calls \ {c}
  /\ UNCHANGED <<bootstrap, users, lastUser, seeded, hadAdmin, raced>>

\* A statement of c changed the table: who has decided on Admins is overtaken when they
\* are others now, and c stays in flight as one of rest.
Written(c, rest) ==
  /\ calls' =
       {IF k.step \in Decided /\ Admins' # Admins THEN [k EXCEPT !.overtaken = TRUE] ELSE k :
          k \in calls \ {c}} \cup rest
  /\ hadAdmin' = (hadAdmin \/ Admins' # {})
  /\ raced' = (raced \/ (c.overtaken /\ ~(Admins \subseteq Admins')))

\* CreateUser: a new row, enabled.
InsertRow(role) ==
  /\ lastUser < MaxUsers
  /\ lastUser' = lastUser + 1
  /\ users' = [u \in DOMAIN users \cup {lastUser'} |->
                 IF u = lastUser' THEN [role |-> role, enabled |-> TRUE] ELSE users[u]]

\* AdminExists takes a count that failed for none.
CheckSetup(c) ==
  /\ c.step = "check"
  /\ GoOn(c, "insert") \/ (AdminCount # 0 /\ Answer(c))

\* Any name that is free, the configured one among them.
InsertUser(c) ==
  /\ c.step = "insert"
  /\ InsertRow(c.body.role)
  /\ seeded' \in {seeded} \cup {u \in {lastUser'} : bootstrap /\ seeded \notin DOMAIN users}
  /\ Written(c, {})
  /\ UNCHANGED bootstrap

\* What of the request is to be written, its guard being passed.
WriteNext(c) ==
  IF c.op = "delete" THEN GoOn(c, "delete")
  ELSE IF c.body.role \in Roles THEN GoOn(c, "role")
  ELSE IF c.body.enabled # "none" THEN GoOn(c, "enable")
  ELSE Answer(c)

Demoting(c) == c.op = "patch" /\ c.body.role \notin {"admin", "none"}
Disabling(c) == c.op = "patch" /\ c.body.enabled = "off"
Removing(c) == c.op = "delete" \/ Demoting(c) \/ Disabling(c)

ReadUser(c) ==
  /\ c.step = "read"
  /\ IF c.target \notin DOMAIN users THEN Answer(c)
     ELSE IF users[c.target].role = "admin" /\ Removing(c) THEN GoOn(c, "count")
     ELSE WriteNext(c)

CountAdmins(c) ==
  /\ c.step = "count"
  /\ IF AdminCount <= 1 THEN Answer(c) ELSE WriteNext(c)

\* An UPDATE, of no row when the user is gone.
Update(u, account) ==
  users' = [x \in DOMAIN users |-> IF x = u THEN account ELSE users[x]]

SetRole(c) ==
  /\ c.step = "role"
  /\ Update(c.target,
       [role |-> c.body.role, enabled |-> c.target \in DOMAIN users /\ users[c.target].enabled])
  /\ Written(c, IF c.body.enabled = "none" THEN {} ELSE {[c EXCEPT !.step = "enable"]})
  /\ UNCHANGED <<bootstrap, lastUser, seeded>>

SetUserEnabled(c) ==
  /\ c.step = "enable"
  /\ c.target \in DOMAIN users
  /\ Update(c.target, [role |-> users[c.target].role, enabled |-> c.body.enabled = "on"])
  /\ Written(c, {})
  /\ UNCHANGED <<bootstrap, lastUser, seeded>>

DeleteUser(c) ==
  /\ c.step = "delete"
  /\ users' = [u \in DOMAIN users \ {c.target} |-> users[u]]
  /\ Written(c, {})
  /\ UNCHANGED <<bootstrap, lastUser, seeded>>

\* A statement fails, a field is refused, a name is taken, or the user is gone.
FailCall(c) == Answer(c)

\* The hub stops, and at its next boot seeds the administrator it is told of, when no
\* user has that name.
Restart ==
  /\ calls' = {}
  /\ IF bootstrap /\ seeded \notin DOMAIN users
       THEN InsertRow("admin") /\ seeded' = lastUser' /\ hadAdmin' = TRUE
       ELSE UNCHANGED <<users, lastUser, seeded, hadAdmin>>
  /\ UNCHANGED <<bootstrap, raced>>

UsersNext ==
  \/ \E id \in CallIds :
       ArriveSetup(id) \/ ArriveCreate(id) \/ ArrivePatch(id) \/ ArriveDelete(id)
  \/ \E c \in calls :
       \/ CheckSetup(c) \/ InsertUser(c)
       \/ ReadUser(c) \/ CountAdmins(c)
       \/ SetRole(c) \/ SetUserEnabled(c) \/ DeleteUser(c)
       \/ FailCall(c)
  \/ Restart

UsersSpec == UsersInit /\ [][UsersNext]_userVars

-----------------------------------------------------------------------------
\* The state is well formed.
UsersTypeOK ==
  /\ bootstrap \in BOOLEAN
  /\ lastUser \in 0..MaxUsers
  /\ DOMAIN users \subseteq 1..lastUser
  /\ users \in [DOMAIN users -> Account]
  /\ seeded \in 0..MaxUsers
  /\ calls \subseteq Calls
  /\ hadAdmin \in BOOLEAN
  /\ raced \in BOOLEAN

\* "Guard the last admin against demotion/disable": once there is an administrator who
\* can log in there always is one, however patches, deletions, promotions, failures and
\* restarts follow each other, unless a request wrote after its decision was overtaken.
AdminRemainsUnlessRaced == hadAdmin /\ ~raced => Admins # {}

=============================================================================
