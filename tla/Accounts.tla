------------------------------- MODULE Accounts -------------------------------
(***************************************************************************)
(* The accounts of the administration (controller/user.go, model/user.go)   *)
(* and the sessions that act on them (middleware/auth.go).  Most handlers   *)
(* read a row, decide, and write in a second statement; other requests come *)
(* in between.  A session keeps the role its account had at login.          *)
(***************************************************************************)
EXTENDS Integers

CONSTANTS
  Id,         \* user ids
  Client,     \* browsers, with one session and one request under way each
  NoRow,      \* no row has this id; no session; no request
  ReuseIds,   \* may the id of a deleted account be given to a new one?
  MaxBirth,   \* bound: how many accounts are ever created
  MaxSecret   \* bound: how many different passwords there are

ASSUME BoundAssumption ==
  /\ ReuseIds \in BOOLEAN
  /\ MaxBirth \in Nat \ {0} /\ MaxSecret \in Nat \ {0}

\* constants.go; 0 is a field that is not sent or, to gorm, not set.
Common == 1
Admin == 10
Root == 100
Role == {Common, Admin, Root}
Enabled == 1
Disabled == 2

VARIABLES
  users,    \* table users
  session,  \* the session cookie of each browser
  pc,       \* the statement each request goes on with
  arg,      \* what the request has read or been sent
  usedIds,  \* history: ids given to an account so far
  births,   \* history: accounts created so far
  appointed \* history: accounts that root has made administrators

history == <<usedIds, births, appointed>>
accountsVars == <<users, session, pc, arg, usedIds, births, appointed>>

User ==
  [role : Role, status : {Enabled, Disabled},
   password : 1..MaxSecret, birth : 1..MaxBirth]

\* What User.Update is called with.
Fields ==
  [role : Role \cup {0}, status : {0, Enabled, Disabled},
   password : 0..MaxSecret]

Session ==
  [id : Id, birth : 1..MaxBirth, role : Role, status : {Enabled}]

Place == {"idle", "manage", "manage delete", "edit", "delete", "own row"}

AccountsTypeOK ==
  /\ users \in [Id -> User \cup {NoRow}]
  /\ session \in [Client -> Session \cup {NoRow}]
  /\ pc \in [Client -> Place]
  /\ arg \in [Client -> [id : Id, by : Role, fields : Fields] \cup {NoRow}]
  /\ usedIds \subseteq Id
  /\ births \in 1..MaxBirth
  /\ appointed \subseteq 1..MaxBirth

NewAccount(role, birth) ==
  [role |-> role, status |-> Enabled, password |-> 1, birth |-> birth]

\* The first start has created the root account.
AccountsInit ==
  /\ \E i \in Id :
       /\ users = [j \in Id |-> IF j = i THEN NewAccount(Root, 1) ELSE NoRow]
       /\ usedIds = {i}
  /\ session = [c \in Client |-> NoRow]
  /\ pc = [c \in Client |-> "idle"]
  /\ arg = [c \in Client |-> NoRow]
  /\ births = 1
  /\ appointed = {}

-------------------------------------------------------------------------------
\* The statements of model/user.go.

\* User.Insert, with the default status.
Insert(i, role) ==
  /\ users[i] = NoRow
  /\ ReuseIds \/ i \notin usedIds
  /\ births < MaxBirth
  /\ users' = [users EXCEPT ![i] = NewAccount(role, births + 1)]
  /\ usedIds' = usedIds \cup {i}
  /\ births' = births + 1

Delete(i) == users' = [users EXCEPT ![i] = NoRow]

\* gorm leaves a field alone when the new value is zero.
Given(new, old) == IF new = 0 THEN old ELSE new

\* Mutant: User.Update creates the row that is missing (gorm's Save).
UpdateOrCreate(i, f) ==
  users' = [users EXCEPT ![i] =
    IF @ = NoRow THEN NewAccount(Common, births)
    ELSE [role |-> Given(f.role, @.role), status |-> Given(f.status, @.status),
          password |-> Given(f.password, @.password), birth |-> @.birth]]

\* User.Update: nothing happens when the row has gone.
Update(i, f) ==
  users' = [users EXCEPT ![i] =
    IF @ = NoRow THEN NoRow
    ELSE [role |-> Given(f.role, @.role), status |-> Given(f.status, @.status),
          password |-> Given(f.password, @.password), birth |-> @.birth]]

\* The row as a handler holds it that has read all of it.
Loaded(u) ==
  [role |-> u.role, status |-> u.status, password |-> u.password]

NoFields == [role |-> 0, status |-> 0, password |-> 0]

-------------------------------------------------------------------------------
\* Requests.

\* authHelper: the session, not the table, says who may do what.
May(c, minRole) ==
  /\ pc[c] = "idle"
  /\ session[c] # NoRow
  /\ session[c].role >= minRole

\* The request goes on with its second statement.
GoOn(c, place, i, f) ==
  /\ pc' = [pc EXCEPT ![c] = place]
  /\ arg' = [arg EXCEPT ![c] = [id |-> i, by |-> session[c].role, fields |-> f]]

Done(c) ==
  /\ pc' = [pc EXCEPT ![c] = "idle"]
  /\ arg' = [arg EXCEPT ![c] = NoRow]

\* Login with the right password, GitHub or WeChat; setupLogin.
Login(c, i) ==
  /\ pc[c] = "idle"
  /\ users[i] # NoRow
  /\ users[i].status = Enabled
  /\ session' = [session EXCEPT ![c] =
       [id |-> i, birth |-> users[i].birth, role |-> users[i].role,
        status |-> users[i].status]]
  /\ UNCHANGED <<users, pc, arg, history>>

Logout(c) ==
  /\ pc[c] = "idle"
  /\ session' = [session EXCEPT ![c] = NoRow]
  /\ UNCHANGED <<users, pc, arg, history>>

\* Register and CreateUser: the role that the body names is not taken over.
Register(i) ==
  /\ Insert(i, Common)
  /\ UNCHANGED <<session, pc, arg, appointed>>

\* The role of the body only has to be lower than one's own.
CreateUser(c, i, role) ==
  /\ May(c, Admin)
  /\ role < session[c].role
  /\ Insert(i, Common)
  /\ UNCHANGED <<session, pc, arg, appointed>>

\* UpdateSelf: of what is sent only the password and the names are written.
UpdateSelf(c, secret) ==
  /\ May(c, Common)
  /\ Update(session[c].id, [NoFields EXCEPT !.password = secret])
  /\ UNCHANGED <<session, pc, arg, history>>

DeleteSelf(c) ==
  /\ May(c, Common)
  /\ Delete(session[c].id)
  /\ UNCHANGED <<session, pc, arg, history>>

\* ResetPassword, for whoever was mailed the code.
ResetPassword(i, secret) ==
  /\ Update(i, [NoFields EXCEPT !.password = secret])
  /\ UNCHANGED <<session, pc, arg, history>>

\* GenerateToken, EmailBind, GitHubBind, WeChatBind: the row of the account is
\* read, and all of it will be written with one field changed that is not modelled
\* here.  Without a row nothing will be written.
ReadOwnRow(c) ==
  LET u == users[session[c].id]
  IN  /\ May(c, Common)
      /\ GoOn(c, "own row", session[c].id,
              IF u = NoRow THEN NoFields ELSE Loaded(u))
      /\ UNCHANGED <<users, session, history>>

WriteOwnRow(c) ==
  /\ pc[c] = "own row"
  /\ Update(arg[c].id, arg[c].fields)
  /\ Done(c)
  /\ UNCHANGED <<session, history>>

-------------------------------------------------------------------------------
\* ManageUser: the row is read, the role of the session compared with it, and the
\* action made on what was read.
Manage(c, i, place, f) ==
  LET u == users[i]
  IN  /\ May(c, Admin)
      /\ u # NoRow
      /\ session[c].role > u.role \/ session[c].role = Root
      /\ GoOn(c, place, i, f)
      /\ UNCHANGED <<users, session, history>>

ManageDisable(c, i) ==
  /\ users[i] # NoRow /\ users[i].role # Root
  /\ Manage(c, i, "manage", [Loaded(users[i]) EXCEPT !.status = Disabled])

ManageEnable(c, i) ==
  /\ users[i] # NoRow
  /\ Manage(c, i, "manage", [Loaded(users[i]) EXCEPT !.status = Enabled])

ManageRemove(c, i) ==
  /\ users[i] # NoRow /\ users[i].role # Root
  /\ Manage(c, i, "manage delete", Loaded(users[i]))

\* Mutant: any administrator promotes.
ManagePromoteByAnyone(c, i) ==
  /\ users[i] # NoRow /\ users[i].role < Admin
  /\ Manage(c, i, "manage", [Loaded(users[i]) EXCEPT !.role = Admin])

ManagePromote(c, i) ==
  /\ users[i] # NoRow /\ users[i].role < Admin
  /\ session[c] # NoRow /\ session[c].role = Root
  /\ Manage(c, i, "manage", [Loaded(users[i]) EXCEPT !.role = Admin])

ManageDemote(c, i) ==
  /\ users[i] # NoRow /\ users[i].role \notin {Root, Common}
  /\ Manage(c, i, "manage", [Loaded(users[i]) EXCEPT !.role = Common])

\* History: root makes an account an administrator.
Appoint(c, i) ==
  appointed' = IF users[i] # NoRow /\ arg[c].by = Root /\ arg[c].fields.role = Admin
               THEN appointed \cup {users[i].birth}
               ELSE appointed

ManageWrite(c) ==
  /\ pc[c] = "manage"
  /\ Update(arg[c].id, arg[c].fields)
  /\ Appoint(c, arg[c].id)
  /\ Done(c)
  /\ UNCHANGED <<session, usedIds, births>>

\* After the delete the row is updated all the same.
ManageDelete(c) ==
  /\ pc[c] = "manage delete"
  /\ Delete(arg[c].id)
  /\ pc' = [pc EXCEPT ![c] = "manage"]
  /\ UNCHANGED <<session, arg, history>>

\* Mutant: the new role may be the editor's own.
UpdateUserToPeer(c, i, role, status, secret) ==
  /\ May(c, Admin)
  /\ users[i] # NoRow
  /\ session[c].role > users[i].role
  /\ session[c].role >= role
  /\ GoOn(c, "edit", i, [role |-> role, status |-> status, password |-> secret])
  /\ UNCHANGED <<users, session, history>>

\* UpdateUser: the form of EditUser.js, which sends all it has loaded.
UpdateUser(c, i, role, status, secret) ==
  /\ May(c, Admin)
  /\ users[i] # NoRow
  /\ session[c].role > users[i].role
  /\ session[c].role > role
  /\ GoOn(c, "edit", i, [role |-> role, status |-> status, password |-> secret])
  /\ UNCHANGED <<users, session, history>>

UpdateUserWrite(c) ==
  /\ pc[c] = "edit"
  /\ Update(arg[c].id, arg[c].fields)
  /\ Appoint(c, arg[c].id)
  /\ Done(c)
  /\ UNCHANGED <<session, usedIds, births>>

DeleteUser(c, i) ==
  /\ May(c, Admin)
  /\ users[i] # NoRow
  /\ session[c].role > users[i].role
  /\ GoOn(c, "delete", i, NoFields)
  /\ UNCHANGED <<users, session, history>>

DeleteUserWrite(c) ==
  /\ pc[c] = "delete"
  /\ Delete(arg[c].id)
  /\ Done(c)
  /\ UNCHANGED <<session, history>>

-------------------------------------------------------------------------------
\* The process dies and starts again: requests are lost, sessions are kept, and
\* createRootAccountIfNeed makes a root account if there is no account at all.
Restart ==
  /\ pc' = [c \in Client |-> "idle"]
  /\ arg' = [c \in Client |-> NoRow]
  /\ IF \A i \in Id : users[i] = NoRow
     THEN /\ \E i \in Id : Insert(i, Root)
          /\ UNCHANGED appointed
     ELSE UNCHANGED <<users, history>>
  /\ UNCHANGED session

Secret == 1..MaxSecret

AccountsNext ==
  \/ \E i \in Id : Register(i) \/ \E s \in Secret : ResetPassword(i, s)
  \/ \E c \in Client :
       \/ Logout(c) \/ DeleteSelf(c) \/ ReadOwnRow(c)
       \/ \E s \in Secret \cup {0} : UpdateSelf(c, s)
       \/ WriteOwnRow(c) \/ ManageWrite(c) \/ ManageDelete(c)
       \/ UpdateUserWrite(c) \/ DeleteUserWrite(c)
       \/ \E i \in Id :
            \/ Login(c, i)
            \/ \E role \in Role \cup {0} : CreateUser(c, i, role)
            \/ ManageDisable(c, i) \/ ManageEnable(c, i) \/ ManageRemove(c, i)
            \/ ManagePromote(c, i) \/ ManageDemote(c, i)
            \/ \E role \in Role \cup {0}, status \in {0, Enabled, Disabled},
                  s \in {0} \cup (2..MaxSecret) : UpdateUser(c, i, role, status, s)
            \/ DeleteUser(c, i)
  \/ Restart

AccountsSpec == AccountsInit /\ [][AccountsNext]_accountsVars

-------------------------------------------------------------------------------
\* Properties.

\* Whatever is sent and however requests overlap, every administrator was once
\* made one by root: no request raises anyone on its own.
AdminsWereAppointed ==
  \A i \in Id :
    users[i] # NoRow /\ users[i].role = Admin => users[i].birth \in appointed

\* There is never a second root account, and root is never shut out.
OneRoot ==
  \A i, j \in Id :
    users[i] # NoRow /\ users[i].role = Root =>
      /\ users[i].status = Enabled
      /\ users[j] # NoRow /\ users[j].role = Root => i = j

\* An account that was deleted stays deleted: the write of a request that had
\* read it before does not bring it back.
DeletedStaysDeleted ==
  [][\A i \in Id :
       users[i] = NoRow /\ users'[i] # NoRow => users'[i].birth > births]_accountsVars
===============================================================================
