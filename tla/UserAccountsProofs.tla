------------------------- MODULE UserAccountsProofs -------------------------
(***************************************************************************)
(* The hub keeps an administrator, for any number of users and requests.   *)
(* The guard holds by a fact about each decision under way (Spared): while *)
(* nobody overtook it, some administrator is not its target.               *)
(***************************************************************************)
EXTENDS UserAccounts, FiniteSetTheorems, TLAPS

\* What a request has passed when it stands at its step.
PassedBy(c) ==
  /\ c.step \notin {"check", "insert"} => hadAdmin /\ c.op \in {"patch", "delete"}
  /\ c.step \in {"check", "insert", "role"} => c.body.role \in Roles
  /\ c.step \in {"role", "enable"} => c.op = "patch"
  /\ c.step = "enable" => c.body.enabled # "none"
  /\ c.step = "delete" => c.op = "delete"

Passed == \A c \in calls : PassedBy(c)

\* A request that is about to remove an administrator leaves another one.
Writing == {"role", "enable", "delete"}

Leaves(c) == Removing(c) /\ ~c.overtaken /\ ~raced => \E u \in Admins : u # c.target

Spared == \A c \in calls : c.step \in Writing => Leaves(c)

AdminsKnown == Admins # {} => hadAdmin

UsersInv ==
  /\ UsersTypeOK
  /\ Passed
  /\ Spared
  /\ AdminsKnown
  /\ AdminRemainsUnlessRaced

-----------------------------------------------------------------------------
\* A finite set of more than one element has one besides any given element.
LEMMA AnotherOne ==
  ASSUME NEW S, IsFiniteSet(S), Cardinality(S) > 1, NEW t
  PROVE  \E u \in S : u # t
<1>1. SUFFICES ASSUME S \subseteq {t}
               PROVE  FALSE
  OBVIOUS
<1>2. IsFiniteSet({t}) /\ Cardinality({t}) = 1
  BY FS_Singleton
<1>3. Cardinality(S) <= Cardinality({t})
  BY <1>1, <1>2, FS_Subset
<1>4. Cardinality(S) \in Nat
  BY FS_CardinalityType
<1> QED
  BY <1>2, <1>3, <1>4

\* There are finitely many administrators.
LEMMA AdminsFinite ==
  ASSUME UsersTypeOK
  PROVE  IsFiniteSet(Admins)
<1>1. lastUser \in Int
  BY AccountAssumptions DEF UsersTypeOK
<1>2. IsFiniteSet(1..lastUser)
  BY <1>1, FS_Interval
<1>3. Admins \subseteq 1..lastUser
  BY DEF Admins, UsersTypeOK
<1> QED
  BY <1>2, <1>3, FS_Subset

\* The state is typed and the invariant holds at first.
LEMMA UsersInitInv == UsersInit => UsersInv
<1> SUFFICES ASSUME UsersInit
             PROVE  UsersInv
  OBVIOUS
<1>1. UsersTypeOK
  <2>1. seeded \in 0..1 /\ lastUser = seeded /\ 1 \in 0..MaxUsers
    BY AccountAssumptions DEF UsersInit
  <2>2. users \in [1..lastUser -> Account] /\ DOMAIN users = 1..lastUser
    BY DEF UsersInit, Account, Roles
  <2>3. bootstrap \in BOOLEAN /\ hadAdmin \in BOOLEAN /\ raced \in BOOLEAN /\ calls = {}
    BY DEF UsersInit
  <2> QED
    BY <2>1, <2>2, <2>3, AccountAssumptions DEF UsersTypeOK
<1>2. Admins = DOMAIN users
  BY DEF UsersInit, Admins
<1>3. AdminsKnown /\ AdminRemainsUnlessRaced
  BY <1>2 DEF UsersInit, AdminsKnown, AdminRemainsUnlessRaced
<1> QED
  BY <1>1, <1>3 DEF UsersInv, UsersInit, Passed, Spared

-----------------------------------------------------------------------------
\* A step that leaves the table alone, and adds to the requests only such as have
\* passed what their step says.
LEMMA TableKept ==
  ASSUME UsersInv,
         UNCHANGED <<bootstrap, users, lastUser, seeded, hadAdmin, raced>>,
         calls' \subseteq Calls,
         \A c \in calls' \ calls : PassedBy(c) /\ (c.step \in Writing => Leaves(c))
  PROVE  UsersInv'
<1>1. UsersTypeOK'
  BY DEF UsersInv, UsersTypeOK
<1>2. Admins' = Admins
  BY DEF Admins
<1>3. Passed'
  BY DEF UsersInv, Passed, PassedBy
<1>4. Spared'
  BY <1>2 DEF UsersInv, Spared, Leaves, Removing, Demoting, Disabling
<1>5. AdminsKnown' /\ AdminRemainsUnlessRaced'
  BY <1>2 DEF UsersInv, AdminsKnown, AdminRemainsUnlessRaced
<1> QED
  BY <1>1, <1>3, <1>4, <1>5 DEF UsersInv

\* A request begins.
LEMMA ArriveInv ==
  ASSUME UsersInv, NEW id \in CallIds,
         \/ ArriveSetup(id) \/ ArriveCreate(id) \/ ArrivePatch(id) \/ ArriveDelete(id)
  PROVE  UsersInv'
<1>1. lastUser \in 0..MaxUsers /\ MaxUsers \in Nat
  BY AccountAssumptions DEF UsersInv, UsersTypeOK
<1>2. NewUser("admin") \in Body /\ NewUser("user") \in Body /\ Empty \in Body
  BY DEF NewUser, Empty, Body, Roles
<1>3. ASSUME NEW op \in {"setup", "create", "patch", "delete"}, NEW u \in 0..MaxUsers,
             NEW body \in Body, NEW step \in {"check", "insert", "read"},
             step # "read" => body.role \in Roles,
             step = "read" => hadAdmin /\ op \in {"patch", "delete"},
             Begin(id, op, u, body, step)
      PROVE  UsersInv'
  <2> DEFINE new == [id |-> id, op |-> op, target |-> u, body |-> body, step |-> step,
                     overtaken |-> FALSE]
  <2>1. new \in Calls
    BY DEF Calls
  <2>2. calls' = calls \cup {new}
    BY <1>3 DEF Begin
  <2>3. calls' \subseteq Calls
    BY <2>1, <2>2 DEF UsersInv, UsersTypeOK
  <2>4. UNCHANGED <<bootstrap, users, lastUser, seeded, hadAdmin, raced>>
    BY <1>3 DEF Begin
  <2>5. \A c \in calls' \ calls : c.step = step /\ c.body = body /\ c.op = op
    BY <2>2
  <2>6. \A c \in calls' \ calls : PassedBy(c) /\ c.step \notin Writing
    BY <1>3, <2>5 DEF PassedBy, Writing
  <2> QED
    BY <2>3, <2>4, <2>6, TableKept
<1>4. CASE ArriveSetup(id)
  BY <1>1, <1>2, <1>3, <1>4 DEF ArriveSetup, NewUser, Roles
<1>5. CASE ArriveCreate(id)
  <2>1. PICK role \in Roles : Begin(id, "create", 0, NewUser(role), "insert")
    BY <1>5 DEF ArriveCreate
  <2>2. NewUser(role) \in Body /\ NewUser(role).role \in Roles
    BY DEF NewUser, Body, Roles
  <2> QED
    BY <1>1, <1>3, <2>1, <2>2
<1>6. ASSUME Admins # {}
      PROVE  hadAdmin
  BY <1>6 DEF UsersInv, AdminsKnown
<1>7. CASE ArrivePatch(id)
  <2>1. PICK u \in 1..lastUser, body \in Bodies : Begin(id, "patch", u, body, "read")
    BY <1>7 DEF ArrivePatch
  <2>2. u \in 0..MaxUsers /\ body \in Body
    BY <1>1, AccountAssumptions
  <2>3. hadAdmin
    BY <1>6, <1>7 DEF ArrivePatch
  <2> QED
    BY <1>3, <2>1, <2>2, <2>3
<1>8. CASE ArriveDelete(id)
  <2>1. PICK u \in 1..lastUser : Begin(id, "delete", u, Empty, "read")
    BY <1>8 DEF ArriveDelete
  <2>2. u \in 0..MaxUsers
    BY <1>1
  <2>3. hadAdmin
    BY <1>6, <1>8 DEF ArriveDelete
  <2> QED
    BY <1>2, <1>3, <2>1, <2>2, <2>3
<1> QED
  BY <1>4, <1>5, <1>7, <1>8

\* A handler answers.
LEMMA AnswerInv ==
  ASSUME UsersInv, NEW c \in calls, Answer(c)
  PROVE  UsersInv'
<1>1. calls' \subseteq Calls /\ calls' \ calls = {}
  BY DEF UsersInv, UsersTypeOK, Answer
<1> QED
  BY <1>1, TableKept DEF Answer

\* A handler goes on, having passed what its next step says.
LEMMA GoOnInv ==
  ASSUME UsersInv, NEW c \in calls, NEW step \in {"insert", "count", "role", "enable", "delete"},
         GoOn(c, step),
         PassedBy([c EXCEPT !.step = step]),
         step \in Writing => Leaves(c)
  PROVE  UsersInv'
<1> DEFINE d == [c EXCEPT !.step = step]
<1>1. c \in Calls
  BY DEF UsersInv, UsersTypeOK
<1>2. d \in Calls /\ d.op = c.op /\ d.target = c.target /\ d.body = c.body
      /\ d.overtaken = c.overtaken /\ d.step = step
  BY <1>1 DEF Calls
<1>3. calls' = (calls \ {c}) \cup {d}
  BY DEF GoOn
<1>4. calls' \subseteq Calls
  BY <1>2, <1>3 DEF UsersInv, UsersTypeOK
<1>5. step \in Writing => Leaves(d)
  BY <1>2 DEF Leaves, Removing, Demoting, Disabling
<1>6. \A k \in calls' \ calls : k = d
  BY <1>3
<1> HIDE DEF d
<1>7. \A k \in calls' \ calls : PassedBy(k) /\ (k.step \in Writing => Leaves(k))
  <2>1. PassedBy(d)
    BY DEF d
  <2> QED
    BY <1>2, <1>5, <1>6, <2>1
<1> QED
  BY <1>4, <1>7, TableKept DEF GoOn

\* A handler whose guard is passed goes on to its first write.
LEMMA WriteNextInv ==
  ASSUME UsersInv, NEW c \in calls, c.step \in {"read", "count"}, WriteNext(c), Leaves(c)
  PROVE  UsersInv'
<1>1. c \in Calls /\ PassedBy(c)
  BY DEF UsersInv, UsersTypeOK, Passed
<1>2. hadAdmin /\ c.op \in {"patch", "delete"}
  BY <1>1 DEF PassedBy
<1>3. \A step : LET d == [c EXCEPT !.step = step]
                IN  d.step = step /\ d.op = c.op /\ d.body = c.body
  BY <1>1 DEF Calls
<1>4. CASE c.op = "delete"
  <2>1. GoOn(c, "delete")
    BY <1>4 DEF WriteNext
  <2>2. PassedBy([c EXCEPT !.step = "delete"])
    BY <1>2, <1>3, <1>4 DEF PassedBy
  <2> QED
    BY <2>1, <2>2, GoOnInv
<1>5. CASE c.op = "patch" /\ c.body.role \in Roles
  <2>1. GoOn(c, "role")
    BY <1>5 DEF WriteNext
  <2>2. PassedBy([c EXCEPT !.step = "role"])
    BY <1>2, <1>3, <1>5 DEF PassedBy
  <2> QED
    BY <2>1, <2>2, GoOnInv
<1>6. CASE c.op = "patch" /\ c.body.role \notin Roles /\ c.body.enabled # "none"
  <2>1. GoOn(c, "enable")
    BY <1>6 DEF WriteNext
  <2>2. PassedBy([c EXCEPT !.step = "enable"])
    BY <1>2, <1>3, <1>6 DEF PassedBy
  <2> QED
    BY <2>1, <2>2, GoOnInv
<1>7. CASE Answer(c)
  BY <1>7, AnswerInv
<1> QED
  BY <1>2, <1>4, <1>5, <1>6, <1>7 DEF WriteNext

\* The statements that only read.
LEMMA CheckSetupInv ==
  ASSUME UsersInv, NEW c \in calls, CheckSetup(c)
  PROVE  UsersInv'
<1>1. c \in Calls /\ PassedBy(c) /\ c.step = "check"
  BY DEF UsersInv, UsersTypeOK, Passed, CheckSetup
<1>2. CASE GoOn(c, "insert")
  <2>1. PassedBy([c EXCEPT !.step = "insert"])
    BY <1>1 DEF PassedBy, Calls
  <2> QED
    BY <1>2, <2>1, GoOnInv DEF Writing
<1>3. CASE Answer(c)
  BY <1>3, AnswerInv
<1> QED
  BY <1>2, <1>3 DEF CheckSetup

LEMMA ReadUserInv ==
  ASSUME UsersInv, NEW c \in calls, ReadUser(c)
  PROVE  UsersInv'
<1>1. c \in Calls /\ PassedBy(c) /\ c.step = "read"
  BY DEF UsersInv, UsersTypeOK, Passed, ReadUser
<1>2. CASE Answer(c)
  BY <1>2, AnswerInv
<1>3. CASE GoOn(c, "count")
  <2>1. PassedBy([c EXCEPT !.step = "count"])
    BY <1>1 DEF PassedBy, Calls
  <2> QED
    BY <1>3, <2>1, GoOnInv DEF Writing
<1>4. CASE WriteNext(c) /\ ~(users[c.target].role = "admin" /\ Removing(c))
  <2>1. Removing(c) => c.target \notin Admins
    BY <1>4 DEF Admins
  <2>2. ~raced => Admins # {}
    BY <1>1 DEF UsersInv, PassedBy, AdminRemainsUnlessRaced
  <2>3. Leaves(c)
    BY <2>1, <2>2 DEF Leaves
  <2> QED
    BY <1>1, <1>4, <2>3, WriteNextInv
<1> QED
  BY <1>2, <1>3, <1>4 DEF ReadUser

LEMMA CountAdminsInv ==
  ASSUME UsersInv, NEW c \in calls, CountAdmins(c)
  PROVE  UsersInv'
<1>1. CASE AdminCount <= 1
  BY <1>1, AnswerInv DEF CountAdmins
<1>2. CASE ~(AdminCount <= 1)
  <2>1. IsFiniteSet(Admins)
    BY AdminsFinite DEF UsersInv
  <2>2. Cardinality(Admins) \in Nat
    BY <2>1, FS_CardinalityType
  <2>3. Cardinality(Admins) > 1
    BY <1>2, <2>2 DEF AdminCount
  <2>4. \E u \in Admins : u # c.target
    BY <2>1, <2>3, AnotherOne
  <2> QED
    BY <1>2, <2>4, WriteNextInv DEF CountAdmins, Leaves
<1> QED
  BY <1>1, <1>2

-----------------------------------------------------------------------------
\* A statement that writes, and can take no administrator but its target.
LEMMA WrittenInv ==
  ASSUME UsersInv, NEW c \in calls, NEW rest,
         Written(c, rest),
         \/ rest = {}
         \/ /\ rest = {[c EXCEPT !.step = "enable"]}
            /\ c.step = "role" /\ c.body.enabled # "none",
         UNCHANGED bootstrap,
         lastUser' \in 0..MaxUsers,
         DOMAIN users' \subseteq 1..lastUser',
         users' \in [DOMAIN users' -> Account],
         seeded' \in 0..MaxUsers,
         \A u \in Admins : u # c.target => u \in Admins',
         Admins \subseteq Admins' \/ (c.step \in Writing /\ Removing(c))
  PROVE  UsersInv'
<1> DEFINE On(k) == IF k.step \in Decided /\ Admins' # Admins
                      THEN [k EXCEPT !.overtaken = TRUE] ELSE k
<1>1. c \in Calls /\ PassedBy(c) /\ (c.step \in Writing => Leaves(c))
  BY DEF UsersInv, UsersTypeOK, Passed, Spared
<1>2. \A k \in calls : /\ On(k) \in Calls
                       /\ On(k).step = k.step /\ On(k).op = k.op
                       /\ On(k).target = k.target /\ On(k).body = k.body
                       /\ ~On(k).overtaken => ~k.overtaken
                       /\ ~On(k).overtaken /\ k.step \in Writing => Admins' = Admins
  BY DEF UsersInv, UsersTypeOK, Calls, Decided, Writing
<1>3. \A r \in rest : /\ r \in Calls
                      /\ r.step = "enable" /\ c.step = "role" /\ r.op = c.op
                      /\ r.target = c.target /\ r.body = c.body
                      /\ r.overtaken = c.overtaken /\ c.body.enabled # "none"
  BY <1>1 DEF Calls
<1>4. calls' = {On(k) : k \in calls \ {c}} \cup rest
  BY DEF Written
<1>5. hadAdmin' = (hadAdmin \/ Admins' # {})
      /\ raced' = (raced \/ (c.overtaken /\ ~(Admins \subseteq Admins')))
  BY DEF Written
<1> HIDE DEF On
<1>6. UsersTypeOK'
  <2>1. calls' \subseteq Calls
    BY <1>2, <1>3, <1>4
  <2>2. hadAdmin' \in BOOLEAN /\ raced' \in BOOLEAN
    BY <1>1, <1>5 DEF UsersInv, UsersTypeOK, Calls
  <2> QED
    BY <2>1, <2>2 DEF UsersInv, UsersTypeOK
<1>7. Passed'
  <2>1. ASSUME NEW k \in calls, NEW d, d = On(k)
        PROVE  PassedBy(d)'
    <3>1. PassedBy(k)
      BY DEF UsersInv, Passed
    <3> QED
      BY <1>2, <1>5, <2>1, <3>1 DEF PassedBy
  <2>2. \A r \in rest : PassedBy(r)'
    BY <1>1, <1>3, <1>5 DEF PassedBy
  <2>3. ASSUME NEW d \in calls'
        PROVE  PassedBy(d)'
    BY <1>4, <2>1, <2>2
  <2> QED
    BY <2>3 DEF Passed
<1>8. Spared'
  <2>1. ASSUME NEW k \in calls, NEW d, d = On(k), d.step \in Writing
        PROVE  Leaves(d)'
    <3>1. k.step \in Writing
      BY <1>2, <2>1
    <3>2. Leaves(k)
      BY <3>1 DEF UsersInv, Spared
    <3> QED
      BY <1>2, <1>5, <2>1, <3>1, <3>2 DEF Leaves, Removing, Demoting, Disabling
  <2>2. ASSUME NEW r \in rest
        PROVE  Leaves(r)'
    <3>1. Leaves(c)
      BY <1>1, <1>3, <2>2 DEF Writing
    <3> QED
      BY <1>3, <1>5, <2>2, <3>1 DEF Leaves, Removing, Demoting, Disabling
  <2>3. ASSUME NEW d \in calls', d.step \in Writing
        PROVE  Leaves(d)'
    BY <1>4, <2>1, <2>2, <2>3
  <2> QED
    BY <2>3 DEF Spared, Writing
<1>9. AdminsKnown'
  BY <1>5 DEF AdminsKnown
<1>10. AdminRemainsUnlessRaced'
  <2>1. CASE Admins \subseteq Admins'
    BY <1>5, <2>1 DEF UsersInv, AdminRemainsUnlessRaced
  <2>2. CASE ~(Admins \subseteq Admins') /\ ~raced'
    <3>1. Leaves(c) /\ Removing(c) /\ ~c.overtaken /\ ~raced
      BY <1>1, <1>5, <2>2
    <3> QED
      BY <3>1 DEF Leaves, AdminRemainsUnlessRaced
  <2> QED
    BY <2>1, <2>2 DEF AdminRemainsUnlessRaced
<1> QED
  BY <1>6, <1>7, <1>8, <1>9, <1>10 DEF UsersInv

\* A new user takes nobody's place.
LEMMA Inserted ==
  ASSUME UsersTypeOK, NEW role \in Roles, InsertRow(role)
  PROVE  /\ lastUser' \in 0..MaxUsers
         /\ DOMAIN users' \subseteq 1..lastUser'
         /\ users' \in [DOMAIN users' -> Account]
         /\ Admins \subseteq Admins'
         /\ role = "admin" => lastUser' \in Admins'
<1>1. lastUser \in 0..MaxUsers /\ MaxUsers \in Nat /\ lastUser < MaxUsers
      /\ lastUser' = lastUser + 1
  BY AccountAssumptions DEF UsersTypeOK, InsertRow
<1>2. DOMAIN users' = DOMAIN users \cup {lastUser'} /\ lastUser' \notin DOMAIN users
  BY <1>1 DEF InsertRow, UsersTypeOK
<1>3. users'[lastUser'] = [role |-> role, enabled |-> TRUE]
      /\ \A u \in DOMAIN users : users'[u] = users[u]
  BY <1>1, <1>2 DEF InsertRow
<1>4. DOMAIN users' \subseteq 1..lastUser'
  BY <1>1, <1>2 DEF UsersTypeOK
<1>5. \A u \in DOMAIN users' : users'[u] \in Account
  <2>1. [role |-> role, enabled |-> TRUE] \in Account
    BY DEF Account
  <2>2. \A u \in DOMAIN users : users[u] \in Account
    BY DEF UsersTypeOK
  <2> QED
    BY <1>2, <1>3, <2>1, <2>2
<1>6. users' \in [DOMAIN users' -> Account]
  <2>1. users' = [u \in DOMAIN users' |-> users'[u]]
    BY DEF InsertRow
  <2> QED
    BY <1>5, <2>1
<1> QED
  BY <1>1, <1>2, <1>3, <1>4, <1>6 DEF Admins

LEMMA InsertUserInv ==
  ASSUME UsersInv, NEW c \in calls, InsertUser(c)
  PROVE  UsersInv'
<1>1. PassedBy(c) /\ c.step = "insert"
  BY DEF UsersInv, Passed, InsertUser
<1>2. InsertRow(c.body.role) /\ c.body.role \in Roles /\ Written(c, {})
      /\ seeded' \in {seeded, lastUser'} /\ UNCHANGED bootstrap
  BY <1>1 DEF InsertUser, PassedBy
<1>3. UsersTypeOK
  BY DEF UsersInv
<1>4. /\ lastUser' \in 0..MaxUsers
      /\ DOMAIN users' \subseteq 1..lastUser'
      /\ users' \in [DOMAIN users' -> Account]
      /\ Admins \subseteq Admins'
  BY <1>2, <1>3, Inserted
<1>5. seeded' \in 0..MaxUsers
  BY <1>2, <1>3, <1>4 DEF UsersTypeOK
<1> QED
  BY <1>2, <1>4, <1>5, WrittenInv

\* An update changes its target only.
LEMMA Updated ==
  ASSUME UsersTypeOK, NEW u, NEW account, Update(u, account),
         u \in DOMAIN users => account \in Account
  PROVE  /\ DOMAIN users' = DOMAIN users
         /\ users' \in [DOMAIN users' -> Account]
         /\ \A x \in DOMAIN users : users'[x] = IF x = u THEN account ELSE users[x]
<1>1. DOMAIN users' = DOMAIN users
      /\ \A x \in DOMAIN users : users'[x] = IF x = u THEN account ELSE users[x]
  BY DEF Update
<1>2. \A x \in DOMAIN users' : users'[x] \in Account
  BY <1>1 DEF UsersTypeOK
<1>3. users' = [x \in DOMAIN users' |-> users'[x]]
  BY DEF Update
<1> QED
  BY <1>1, <1>2, <1>3

LEMMA SetRoleInv ==
  ASSUME UsersInv, NEW c \in calls, SetRole(c)
  PROVE  UsersInv'
<1> DEFINE account == [role |-> c.body.role,
                       enabled |-> c.target \in DOMAIN users /\ users[c.target].enabled]
           rest == IF c.body.enabled = "none" THEN {} ELSE {[c EXCEPT !.step = "enable"]}
<1>1. c \in Calls /\ PassedBy(c) /\ c.step = "role" /\ c.body.role \in Roles /\ c.op = "patch"
  BY DEF UsersInv, UsersTypeOK, Passed, PassedBy, SetRole
<1>2. UsersTypeOK
  BY DEF UsersInv
<1>3. Update(c.target, account) /\ Written(c, rest) /\ UNCHANGED <<bootstrap, lastUser, seeded>>
  BY DEF SetRole
<1>4. c.target \in DOMAIN users => account \in Account
  BY <1>1, <1>2 DEF UsersTypeOK, Account
<1>5. account.role = c.body.role
      /\ (c.target \in DOMAIN users => account.enabled = users[c.target].enabled)
  BY <1>2 DEF UsersTypeOK, Account
<1>6. \/ rest = {}
      \/ rest = {[c EXCEPT !.step = "enable"]} /\ c.body.enabled # "none"
  OBVIOUS
<1> HIDE DEF account, rest
<1>7. /\ DOMAIN users' = DOMAIN users
      /\ users' \in [DOMAIN users' -> Account]
      /\ \A x \in DOMAIN users : users'[x] = IF x = c.target THEN account ELSE users[x]
  BY <1>2, <1>3, <1>4, Updated
<1>8. \A u \in Admins : u # c.target => u \in Admins'
  BY <1>7 DEF Admins
<1>9. c.body.role = "admin" => Admins \subseteq Admins'
  BY <1>5, <1>7 DEF Admins
<1>10. c.body.role # "admin" => Removing(c) /\ c.step \in Writing
  BY <1>1 DEF Removing, Demoting, Roles, Writing
<1>11. lastUser' \in 0..MaxUsers /\ DOMAIN users' \subseteq 1..lastUser' /\ seeded' \in 0..MaxUsers
  BY <1>2, <1>3, <1>7 DEF UsersTypeOK
<1> QED
  BY <1>1, <1>3, <1>6, <1>7, <1>8, <1>9, <1>10, <1>11, WrittenInv

LEMMA SetUserEnabledInv ==
  ASSUME UsersInv, NEW c \in calls, SetUserEnabled(c)
  PROVE  UsersInv'
<1> DEFINE account == [role |-> users[c.target].role, enabled |-> c.body.enabled = "on"]
<1>1. /\ c \in Calls /\ PassedBy(c) /\ c.step = "enable" /\ c.op = "patch"
      /\ c.body.enabled # "none" /\ c.target \in DOMAIN users
  BY DEF UsersInv, UsersTypeOK, Passed, PassedBy, SetUserEnabled
<1>2. UsersTypeOK
  BY DEF UsersInv
<1>3. Update(c.target, account) /\ Written(c, {}) /\ UNCHANGED <<bootstrap, lastUser, seeded>>
  BY DEF SetUserEnabled
<1>4. account \in Account
  BY <1>1, <1>2 DEF UsersTypeOK, Account
<1>5. account.role = users[c.target].role /\ account.enabled = (c.body.enabled = "on")
  OBVIOUS
<1> HIDE DEF account
<1>6. /\ DOMAIN users' = DOMAIN users
      /\ users' \in [DOMAIN users' -> Account]
      /\ \A x \in DOMAIN users : users'[x] = IF x = c.target THEN account ELSE users[x]
  BY <1>2, <1>3, <1>4, Updated
<1>7. \A u \in Admins : u # c.target => u \in Admins'
  BY <1>6 DEF Admins
<1>8. c.body.enabled = "on" => Admins \subseteq Admins'
  BY <1>5, <1>6 DEF Admins
<1>9. c.body.enabled # "on" => Removing(c) /\ c.step \in Writing
  <2>1. c.body.enabled \in {"on", "off", "none"}
    BY <1>1 DEF Calls, Body
  <2> QED
    BY <1>1, <2>1 DEF Removing, Disabling, Writing
<1>10. lastUser' \in 0..MaxUsers /\ DOMAIN users' \subseteq 1..lastUser' /\ seeded' \in 0..MaxUsers
  BY <1>2, <1>3, <1>6 DEF UsersTypeOK
<1> QED
  BY <1>3, <1>6, <1>7, <1>8, <1>9, <1>10, WrittenInv

LEMMA DeleteUserInv ==
  ASSUME UsersInv, NEW c \in calls, DeleteUser(c)
  PROVE  UsersInv'
<1>1. PassedBy(c) /\ c.step = "delete" /\ c.op = "delete"
  BY DEF UsersInv, Passed, PassedBy, DeleteUser
<1>2. users' = [u \in DOMAIN users \ {c.target} |-> users[u]] /\ Written(c, {})
      /\ UNCHANGED <<bootstrap, lastUser, seeded>>
  BY DEF DeleteUser
<1>3. DOMAIN users' = DOMAIN users \ {c.target}
      /\ \A u \in DOMAIN users' : users'[u] = users[u]
  BY <1>2
<1>4. lastUser' \in 0..MaxUsers /\ DOMAIN users' \subseteq 1..lastUser' /\ seeded' \in 0..MaxUsers
      /\ users' \in [DOMAIN users' -> Account]
  BY <1>2, <1>3 DEF UsersInv, UsersTypeOK
<1>5. \A u \in Admins : u # c.target => u \in Admins'
  BY <1>3 DEF Admins
<1>6. Removing(c) /\ c.step \in Writing
  BY <1>1 DEF Removing, Writing
<1> QED
  BY <1>2, <1>4, <1>5, <1>6, WrittenInv

\* A restart ends the requests, and may seed an administrator.
LEMMA RestartInv ==
  ASSUME UsersInv, Restart
  PROVE  UsersInv'
<1>1. UsersTypeOK /\ calls' = {} /\ UNCHANGED <<bootstrap, raced>>
  BY DEF UsersInv, Restart
<1>2. CASE UNCHANGED <<users, lastUser, seeded, hadAdmin>>
  BY <1>1, <1>2, TableKept
<1>3. CASE InsertRow("admin") /\ seeded' = lastUser' /\ hadAdmin' = TRUE
  <2>1. /\ lastUser' \in 0..MaxUsers
        /\ DOMAIN users' \subseteq 1..lastUser'
        /\ users' \in [DOMAIN users' -> Account]
        /\ Admins' # {}
    BY <1>1, <1>3, Inserted DEF Roles
  <2>2. UsersTypeOK'
    BY <1>1, <1>3, <2>1 DEF UsersTypeOK
  <2> QED
    BY <1>1, <1>3, <2>1, <2>2
       DEF UsersInv, Passed, Spared, AdminsKnown, AdminRemainsUnlessRaced
<1> QED
  BY <1>2, <1>3 DEF Restart

\* The invariant is inductive.
LEMMA UsersStep == UsersInv /\ [UsersNext]_userVars => UsersInv'
<1> SUFFICES ASSUME UsersInv, [UsersNext]_userVars
             PROVE  UsersInv'
  OBVIOUS
<1>1. CASE UNCHANGED userVars
  BY <1>1, TableKept DEF userVars, UsersInv, UsersTypeOK
<1>2. ASSUME NEW id \in CallIds,
             ArriveSetup(id) \/ ArriveCreate(id) \/ ArrivePatch(id) \/ ArriveDelete(id)
      PROVE  UsersInv'
  BY <1>2, ArriveInv
<1>3. ASSUME NEW c \in calls,
             \/ CheckSetup(c) \/ InsertUser(c)
             \/ ReadUser(c) \/ CountAdmins(c)
             \/ SetRole(c) \/ SetUserEnabled(c) \/ DeleteUser(c)
             \/ FailCall(c)
      PROVE  UsersInv'
  BY <1>3, CheckSetupInv, InsertUserInv, ReadUserInv, CountAdminsInv, SetRoleInv,
     SetUserEnabledInv, DeleteUserInv, AnswerInv DEF FailCall
<1>4. CASE Restart
  BY <1>4, RestartInv
<1> QED
  BY <1>1, <1>2, <1>3, <1>4 DEF UsersNext

\* The state of the users table and of the requests is well formed.
THEOREM UsersTyped == UsersSpec => []UsersTypeOK
<1>1. UsersInv => UsersTypeOK
  BY DEF UsersInv
<1> QED
  BY UsersInitInv, UsersStep, <1>1, PTL DEF UsersSpec

\* The guards of PATCH and DELETE keep an administrator who can log in
\* (admin_users.go:102, 148): once there was one there is one, unless a request
\* wrote on a count that another request had made out of date.
THEOREM UsersKeepAdmin == UsersSpec => []AdminRemainsUnlessRaced
<1>1. UsersInv => AdminRemainsUnlessRaced
  BY DEF UsersInv
<1> QED
  BY UsersInitInv, UsersStep, <1>1, PTL DEF UsersSpec

=============================================================================
