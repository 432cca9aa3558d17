------------------------------ MODULE AccessProofs ------------------------------
(***************************************************************************)
(* Proofs about what lets a request through to a handler: the accounts and  *)
(* sessions that authHelper asks (Accounts), for every set of ids and       *)
(* browsers, and the limiter in memory that comes before it (RateLimit),    *)
(* for all keys, limits, expirations and delays.                            *)
(***************************************************************************)
EXTENDS Accounts, RateLimit, TLAPS

-------------------------------------------------------------------------------
\* Accounts.

Argument == [id : Id, by : Role, fields : Fields]

\* A request under way holds what its handler has read.
HeldType == \A c \in Client : pc[c] # "idle" => arg[c] \in Argument

TypeInv == AccountsTypeOK /\ HeldType

LEMMA UpdateType ==
  ASSUME TypeInv, NEW i \in Id, NEW f \in Fields, Update(i, f)
  PROVE  /\ users' \in [Id -> User \cup {NoRow}]
         /\ \A j \in Id : users[j] = NoRow => users'[j] = NoRow
BY DEF TypeInv, AccountsTypeOK, Update, Fields, User, Given

LEMMA LoadedType ==
  ASSUME NEW u \in User
  PROVE  /\ Loaded(u) \in Fields
         /\ [Loaded(u) EXCEPT !.status = Disabled] \in Fields
         /\ [Loaded(u) EXCEPT !.status = Enabled] \in Fields
         /\ [Loaded(u) EXCEPT !.role = Admin] \in Fields
         /\ [Loaded(u) EXCEPT !.role = Common] \in Fields
<1>1. 1..MaxSecret \subseteq 0..MaxSecret
  BY BoundAssumption
<1> QED
  BY <1>1 DEF Loaded, User, Fields, Role, Common, Admin, Root, Enabled, Disabled

LEMMA NoFieldsType ==
  /\ NoFields \in Fields
  /\ \A secret \in Secret \cup {0} : [NoFields EXCEPT !.password = secret] \in Fields
BY BoundAssumption DEF NoFields, Fields, Secret

\* A request goes on with typed fields, or ends.
LEMMA GoOnType ==
  ASSUME TypeInv, NEW c \in Client, NEW place \in Place, NEW i \in Id,
         NEW f \in Fields, session[c] # NoRow, GoOn(c, place, i, f)
  PROVE  /\ pc' \in [Client -> Place]
         /\ arg' \in [Client -> Argument \cup {NoRow}]
         /\ HeldType'
BY DEF TypeInv, AccountsTypeOK, HeldType, GoOn, Argument, Session

LEMMA DoneType ==
  ASSUME TypeInv, NEW c \in Client, Done(c)
  PROVE  /\ pc' \in [Client -> Place]
         /\ arg' \in [Client -> Argument \cup {NoRow}]
         /\ HeldType'
BY DEF TypeInv, AccountsTypeOK, HeldType, Done, Argument, Place

LEMMA InsertType ==
  ASSUME TypeInv, NEW i \in Id, NEW role \in Role, Insert(i, role)
  PROVE  /\ users' \in [Id -> User \cup {NoRow}]
         /\ usedIds' \subseteq Id
         /\ births' \in 1..MaxBirth
BY BoundAssumption
DEF TypeInv, AccountsTypeOK, Insert, NewAccount, User, Enabled, Disabled

LEMMA AppointType ==
  ASSUME TypeInv, NEW c \in Client, NEW i \in Id, Appoint(c, i)
  PROVE  appointed' \subseteq 1..MaxBirth
BY DEF TypeInv, AccountsTypeOK, Appoint, User

LEMMA TypeInit == AccountsInit => TypeInv
<1> SUFFICES ASSUME AccountsInit PROVE TypeInv
  OBVIOUS
<1>1. PICK i \in Id :
        /\ users = [j \in Id |-> IF j = i THEN NewAccount(Root, 1) ELSE NoRow]
        /\ usedIds = {i}
  BY DEF AccountsInit
<1>2. NewAccount(Root, 1) \in User
  BY BoundAssumption DEF NewAccount, User, Role, Enabled
<1> QED
  BY <1>1, <1>2, BoundAssumption DEF AccountsInit, TypeInv, AccountsTypeOK, HeldType, Place

\* An action of a session, with what the actions of its request need of it.
LEMMA SessionType ==
  ASSUME TypeInv, NEW c \in Client, session[c] # NoRow
  PROVE  session[c].id \in Id /\ session[c].role \in Role
BY DEF TypeInv, AccountsTypeOK, Session

\* Requests that do their work in one statement.
LEMMA OneStatementType ==
  ASSUME TypeInv,
         \/ \E i \in Id : Register(i) \/ \E s \in Secret : ResetPassword(i, s)
         \/ \E c \in Client :
              \/ Logout(c) \/ DeleteSelf(c)
              \/ \E s \in Secret \cup {0} : UpdateSelf(c, s)
              \/ \E i \in Id : Login(c, i) \/ \E role \in Role \cup {0} : CreateUser(c, i, role)
  PROVE  TypeInv'
<1> USE DEF TypeInv, AccountsTypeOK, HeldType, history
<1>1. ASSUME NEW i \in Id, Register(i) PROVE TypeInv'
  BY <1>1, InsertType DEF Register, Role
<1>2. ASSUME NEW i \in Id, NEW s \in Secret, ResetPassword(i, s) PROVE TypeInv'
  BY <1>2, UpdateType, NoFieldsType DEF ResetPassword
<1>3. ASSUME NEW c \in Client, Logout(c) PROVE TypeInv'
  BY <1>3 DEF Logout
<1>4. ASSUME NEW c \in Client, DeleteSelf(c) PROVE TypeInv'
  BY <1>4 DEF DeleteSelf, Delete
<1>5. ASSUME NEW c \in Client, NEW s \in Secret \cup {0}, UpdateSelf(c, s) PROVE TypeInv'
  BY <1>5, UpdateType, NoFieldsType, SessionType DEF UpdateSelf, May
<1>6. ASSUME NEW c \in Client, NEW i \in Id, Login(c, i) PROVE TypeInv'
  BY <1>6 DEF Login, Session, User
<1>7. ASSUME NEW c \in Client, NEW i \in Id, NEW role \in Role \cup {0},
             CreateUser(c, i, role)
      PROVE  TypeInv'
  BY <1>7, InsertType DEF CreateUser, Role
<1> QED
  BY <1>1, <1>2, <1>3, <1>4, <1>5, <1>6, <1>7

\* Requests that read a row and will write it.
ReadOf(c) ==
  \/ ReadOwnRow(c)
  \/ \E i \in Id :
       \/ ManageDisable(c, i) \/ ManageEnable(c, i) \/ ManageRemove(c, i)
       \/ ManagePromote(c, i) \/ ManageDemote(c, i)
       \/ \E role \in Role \cup {0}, status \in {0, Enabled, Disabled},
             s \in {0} \cup (2..MaxSecret) : UpdateUser(c, i, role, status, s)
       \/ DeleteUser(c, i)

LEMMA ReadType ==
  ASSUME TypeInv, NEW c \in Client, ReadOf(c)
  PROVE  TypeInv'
<1>1. ASSUME NEW place \in Place, NEW i \in Id, NEW f \in Fields,
             session[c] # NoRow, GoOn(c, place, i, f),
             UNCHANGED <<users, session, history>>
      PROVE  TypeInv'
  BY <1>1, GoOnType DEF TypeInv, AccountsTypeOK, Argument, history
<1>2. \A i \in Id : users[i] # NoRow => users[i] \in User
  BY DEF TypeInv, AccountsTypeOK
<1>3. CASE ReadOwnRow(c)
  BY <1>1, <1>2, <1>3, LoadedType, NoFieldsType, SessionType
  DEF ReadOwnRow, May, Place
<1>4. ASSUME NEW i \in Id, ManageDisable(c, i) PROVE TypeInv'
  BY <1>1, <1>2, <1>4, LoadedType DEF ManageDisable, Manage, May, Place
<1>5. ASSUME NEW i \in Id, ManageEnable(c, i) PROVE TypeInv'
  BY <1>1, <1>2, <1>5, LoadedType DEF ManageEnable, Manage, May, Place
<1>6. ASSUME NEW i \in Id, ManageRemove(c, i) PROVE TypeInv'
  BY <1>1, <1>2, <1>6, LoadedType DEF ManageRemove, Manage, May, Place
<1>7. ASSUME NEW i \in Id, ManagePromote(c, i) PROVE TypeInv'
  BY <1>1, <1>2, <1>7, LoadedType DEF ManagePromote, Manage, May, Place
<1>8. ASSUME NEW i \in Id, ManageDemote(c, i) PROVE TypeInv'
  BY <1>1, <1>2, <1>8, LoadedType DEF ManageDemote, Manage, May, Place
<1>9. ASSUME NEW i \in Id, NEW role \in Role \cup {0},
             NEW status \in {0, Enabled, Disabled},
             NEW s \in {0} \cup (2..MaxSecret), UpdateUser(c, i, role, status, s)
      PROVE  TypeInv'
  <2>1. [role |-> role, status |-> status, password |-> s] \in Fields
    BY BoundAssumption DEF Fields
  <2> QED
    BY <1>1, <1>9, <2>1 DEF UpdateUser, May, Place
<1>10. ASSUME NEW i \in Id, DeleteUser(c, i) PROVE TypeInv'
  BY <1>1, <1>10, NoFieldsType DEF DeleteUser, May, Place
<1> QED
  BY <1>3, <1>4, <1>5, <1>6, <1>7, <1>8, <1>9, <1>10 DEF ReadOf

\* The second statement of a request.
WriteOf(c) ==
  \/ WriteOwnRow(c) \/ ManageWrite(c) \/ ManageDelete(c)
  \/ UpdateUserWrite(c) \/ DeleteUserWrite(c)

LEMMA WriteType ==
  ASSUME TypeInv, NEW c \in Client, WriteOf(c)
  PROVE  TypeInv'
<1> USE DEF TypeInv, AccountsTypeOK, history
<1>1. pc[c] # "idle" /\ arg[c].id \in Id /\ arg[c].fields \in Fields
  BY DEF WriteOf, WriteOwnRow, ManageWrite, ManageDelete, UpdateUserWrite,
         DeleteUserWrite, HeldType, Argument
<1>2. CASE WriteOwnRow(c)
  BY <1>1, <1>2, UpdateType, DoneType DEF WriteOwnRow, Argument
<1>3. CASE ManageWrite(c)
  BY <1>1, <1>3, UpdateType, DoneType, AppointType DEF ManageWrite, Argument
<1>4. CASE ManageDelete(c)
  BY <1>1, <1>4 DEF ManageDelete, Delete, HeldType, Place
<1>5. CASE UpdateUserWrite(c)
  BY <1>1, <1>5, UpdateType, DoneType, AppointType DEF UpdateUserWrite, Argument
<1>6. CASE DeleteUserWrite(c)
  BY <1>1, <1>6, DoneType DEF DeleteUserWrite, Delete, Argument
<1> QED
  BY <1>2, <1>3, <1>4, <1>5, <1>6 DEF WriteOf

LEMMA RestartType ==
  ASSUME TypeInv, Restart
  PROVE  TypeInv'
<1>1. /\ users' \in [Id -> User \cup {NoRow}]
      /\ usedIds' \subseteq Id
      /\ births' \in 1..MaxBirth
      /\ appointed' = appointed
  BY InsertType DEF Restart, TypeInv, AccountsTypeOK, history, Role
<1> QED
  BY <1>1 DEF Restart, TypeInv, AccountsTypeOK, HeldType, Place

LEMMA TypeStep == TypeInv /\ [AccountsNext]_accountsVars => TypeInv'
<1> SUFFICES ASSUME TypeInv, [AccountsNext]_accountsVars PROVE TypeInv'
  OBVIOUS
<1>1. CASE UNCHANGED accountsVars
  BY <1>1 DEF accountsVars, TypeInv, AccountsTypeOK, HeldType
<1>2. CASE AccountsNext
  BY <1>2, OneStatementType, ReadType, WriteType, RestartType
  DEF AccountsNext, ReadOf, WriteOf
<1> QED
  BY <1>1, <1>2

LEMMA TypeInvariance == AccountsSpec => []TypeInv
BY TypeInit, TypeStep, PTL DEF AccountsSpec

\* Every row, session and request of an execution has its type (AccountsTypeOK).
THEOREM AccountsTypeCorrect == AccountsSpec => []AccountsTypeOK
<1>1. TypeInv => AccountsTypeOK
  BY DEF TypeInv
<1> QED
  BY <1>1, TypeInvariance, PTL

-------------------------------------------------------------------------------
\* An account that was deleted stays deleted (DeletedStaysDeleted): only the two
\* inserts make a row, and they make a new account of it.
THEOREM NobodyComesBack == AccountsSpec => DeletedStaysDeleted
<1> DEFINE P == \A i \in Id :
                  users[i] = NoRow /\ users'[i] # NoRow => users'[i].birth > births
<1>1. TypeInv /\ [AccountsNext]_accountsVars => P
  <2> SUFFICES ASSUME TypeInv, [AccountsNext]_accountsVars PROVE P
    OBVIOUS
  <2> USE DEF TypeInv, AccountsTypeOK, history
  <2>1. ASSUME NEW i \in Id, NEW role \in Role, Insert(i, role) PROVE P
    BY <2>1 DEF Insert, NewAccount
  <2>2. ASSUME NEW i \in Id, Delete(i) PROVE P
    BY <2>2 DEF Delete
  <2>3. ASSUME NEW i, NEW f, Update(i, f) PROVE P
    BY <2>3 DEF Update
  <2>4. CASE UNCHANGED users
    BY <2>4
  <2>5. AccountsNext =>
          \/ \E i \in Id, role \in Role : Insert(i, role)
          \/ \E i \in Id : Delete(i)
          \/ \E i, f : Update(i, f)
          \/ UNCHANGED users
    <3> SUFFICES ASSUME AccountsNext
                 PROVE  \/ \E i \in Id, role \in Role : Insert(i, role)
                        \/ \E i \in Id : Delete(i)
                        \/ \E i, f : Update(i, f)
                        \/ UNCHANGED users
      OBVIOUS
    <3>1. ASSUME NEW c \in Client, WriteOf(c)
          PROVE  \/ \E i \in Id : Delete(i)
                 \/ \E i, f : Update(i, f)
      BY <3>1 DEF WriteOf, WriteOwnRow, ManageWrite, ManageDelete,
                  UpdateUserWrite, DeleteUserWrite, HeldType, Argument
    <3>2. ASSUME NEW c \in Client, ReadOf(c) PROVE UNCHANGED users
      BY <3>2 DEF ReadOf, ReadOwnRow, ManageDisable, ManageEnable, ManageRemove,
                  ManagePromote, ManageDemote, Manage, UpdateUser, DeleteUser
    <3>3. ASSUME NEW c \in Client, DeleteSelf(c) PROVE \E i \in Id : Delete(i)
      BY <3>3, SessionType DEF DeleteSelf, May
    <3>4. Restart => UNCHANGED users \/ \E i \in Id, role \in Role : Insert(i, role)
      BY DEF Restart, Role
    <3>5. ASSUME NEW i \in Id, Register(i) PROVE \E role \in Role : Insert(i, role)
      BY <3>5 DEF Register, Role
    <3>6. ASSUME NEW c \in Client, NEW i \in Id, NEW role, CreateUser(c, i, role)
          PROVE  \E r \in Role : Insert(i, r)
      BY <3>6 DEF CreateUser, Role
    <3>7. ASSUME NEW i, NEW s, ResetPassword(i, s) PROVE \E j, f : Update(j, f)
      BY <3>7 DEF ResetPassword
    <3>8. ASSUME NEW c, NEW s, UpdateSelf(c, s) PROVE \E j, f : Update(j, f)
      BY <3>8 DEF UpdateSelf
    <3> QED
      BY <3>1, <3>2, <3>3, <3>4, <3>5, <3>6, <3>7, <3>8
      DEF AccountsNext, ReadOf, WriteOf, Login, Logout
  <2> QED
    BY <2>1, <2>2, <2>3, <2>4, <2>5 DEF accountsVars
<1>2. TypeInv /\ [AccountsNext]_accountsVars => [P]_accountsVars
  BY <1>1
<1> QED
  BY <1>2, TypeInvariance, PTL DEF AccountsSpec, DeletedStaysDeleted

-------------------------------------------------------------------------------
\* The ids that rows, sessions and requests name have been given to an account.
KnownIds ==
  /\ \A i \in Id : users[i] # NoRow => i \in usedIds
  /\ \A c \in Client : session[c] # NoRow => session[c].id \in usedIds
  /\ \A c \in Client : pc[c] # "idle" => arg[c].id \in usedIds

\* What request c may write into row i: it makes nobody an administrator but on
\* root's behalf, and leaves root what it is.
Harmless(c, i) ==
  users[i] # NoRow =>
    /\ arg[c].fields.role = Admin =>
         \/ users[i].birth \in appointed
         \/ pc[c] \in {"manage", "edit"} /\ arg[c].by = Root
    /\ users[i].role = Root =>
         arg[c].fields.role \in {0, Root} /\ arg[c].fields.status \in {0, Enabled}
    /\ arg[c].fields.role = Root => users[i].role = Root

HeldInv == \A c \in Client : pc[c] # "idle" => Harmless(c, arg[c].id)

RankInv == TypeInv /\ KnownIds /\ HeldInv /\ AdminsWereAppointed /\ OneRoot

LEMMA RankInit == AccountsInit => RankInv
<1> SUFFICES ASSUME AccountsInit PROVE RankInv
  OBVIOUS
<1>1. PICK i \in Id :
        /\ users = [j \in Id |-> IF j = i THEN NewAccount(Root, 1) ELSE NoRow]
        /\ usedIds = {i}
  BY DEF AccountsInit
<1>2. KnownIds /\ HeldInv
  BY <1>1 DEF AccountsInit, KnownIds, HeldInv
<1>3. AdminsWereAppointed /\ OneRoot
  BY <1>1 DEF AdminsWereAppointed, OneRoot, NewAccount, Admin, Root
<1> QED
  BY <1>2, <1>3, TypeInit DEF RankInv

\* How rows may change: one that was known keeps its owner and whether it is
\* root's, one that was not is no root's, and everything else holds of the new rows.
Evolves ==
  /\ usedIds \subseteq usedIds' /\ appointed \subseteq appointed'
  /\ \A j \in Id : users'[j] # NoRow =>
       /\ j \in usedIds'
       /\ j \in usedIds => users[j] # NoRow /\ users'[j].birth = users[j].birth
       /\ users'[j].role = Root =>
            users[j] # NoRow /\ users[j].role = Root /\ users'[j].status = Enabled
       /\ j \in usedIds /\ users[j].role = Root => users'[j].role = Root
       /\ users'[j].role = Admin => users'[j].birth \in appointed'

\* What follows when rows change that way and one request goes on or ends.
LEMMA Evolution ==
  ASSUME RankInv, TypeInv', Evolves, NEW c \in Client,
         \A d \in Client \ {c} : pc'[d] = pc[d] /\ arg'[d] = arg[d],
         \A d \in Client : session'[d] # NoRow => session'[d].id \in usedIds',
         pc'[c] # "idle" => arg'[c].id \in usedIds' /\ Harmless(c, arg[c].id)'
  PROVE  RankInv'
<1> USE DEF RankInv
<1>1. KnownIds'
  BY DEF Evolves, KnownIds
<1>2. HeldInv'
  <2>1. ASSUME NEW d \in Client \ {c}, pc[d] # "idle"
        PROVE  Harmless(d, arg[d].id)'
    <3>1. arg[d].id \in usedIds /\ arg[d].id \in Id /\ Harmless(d, arg[d].id)
      BY <2>1 DEF KnownIds, HeldInv, TypeInv, HeldType, Argument
    <3> QED
      BY <2>1, <3>1 DEF Evolves, Harmless
  <2> QED
    BY <2>1 DEF HeldInv
<1>3. AdminsWereAppointed' /\ OneRoot'
  BY DEF Evolves, AdminsWereAppointed, OneRoot
<1> QED
  BY <1>1, <1>2, <1>3

LEMMA StandingStill ==
  ASSUME RankInv, UNCHANGED <<users, usedIds, appointed>>
  PROVE  Evolves
BY DEF RankInv, KnownIds, AdminsWereAppointed, OneRoot, Evolves

LEMMA UpdateEvolves ==
  ASSUME RankInv, NEW i \in Id, NEW f \in Fields, Update(i, f),
         usedIds' = usedIds, appointed \subseteq appointed',
         users[i] # NoRow =>
           /\ f.role = Admin => users[i].birth \in appointed'
           /\ users[i].role = Root => f.role \in {0, Root} /\ f.status \in {0, Enabled}
           /\ f.role = Root => users[i].role = Root
  PROVE  Evolves
<1>1. ASSUME NEW j \in Id, users'[j] # NoRow
      PROVE  /\ j \in usedIds /\ users[j] # NoRow
             /\ users'[j].birth = users[j].birth
             /\ users'[j].role = Root =>
                  users[j].role = Root /\ users'[j].status = Enabled
             /\ users[j].role = Root => users'[j].role = Root
             /\ users'[j].role = Admin => users'[j].birth \in appointed'
  <2> USE DEF RankInv, TypeInv, AccountsTypeOK, KnownIds, AdminsWereAppointed, OneRoot
  <2>1. users[j] # NoRow /\ users[j] \in User
    BY <1>1 DEF Update
  <2>2. CASE i = j
    BY <1>1, <2>1, <2>2
    DEF Update, Given, User, Role, Root, Admin, Common, Enabled, Disabled
  <2>3. CASE i # j
    BY <1>1, <2>1, <2>3 DEF Update
  <2> QED
    BY <2>2, <2>3
<1> QED
  BY <1>1 DEF Evolves

LEMMA InsertEvolves ==
  ASSUME RankInv, ~ ReuseIds, NEW i \in Id, Insert(i, Common), appointed' = appointed
  PROVE  Evolves
BY DEF RankInv, TypeInv, AccountsTypeOK, KnownIds, AdminsWereAppointed, OneRoot, Evolves,
       Insert, NewAccount, Common, Admin, Root

LEMMA DeleteEvolves ==
  ASSUME RankInv, NEW i \in Id, Delete(i), UNCHANGED <<usedIds, appointed>>
  PROVE  Evolves
BY DEF RankInv, TypeInv, AccountsTypeOK, KnownIds, AdminsWereAppointed, OneRoot, Evolves,
       Delete

\* Where no request goes on, Evolves is enough.
LEMMA RowsOnly ==
  ASSUME RankInv, TypeInv', Evolves, UNCHANGED <<session, pc, arg>>
  PROVE  RankInv'
<1> USE DEF RankInv
<1>1. KnownIds'
  BY DEF Evolves, KnownIds
<1>2. HeldInv'
  <2>1. ASSUME NEW d \in Client, pc[d] # "idle"
        PROVE  Harmless(d, arg[d].id)'
    <3>1. arg[d].id \in usedIds /\ arg[d].id \in Id /\ Harmless(d, arg[d].id)
      BY <2>1 DEF KnownIds, HeldInv, TypeInv, HeldType, Argument
    <3> QED
      BY <2>1, <3>1 DEF Evolves, Harmless
  <2> QED
    BY <2>1 DEF HeldInv
<1>3. AdminsWereAppointed' /\ OneRoot'
  BY DEF Evolves, AdminsWereAppointed, OneRoot
<1> QED
  BY <1>1, <1>2, <1>3

LEMMA OneStatementRank ==
  ASSUME RankInv, TypeInv', ~ ReuseIds,
         \/ \E i \in Id : Register(i) \/ \E s \in Secret : ResetPassword(i, s)
         \/ \E c \in Client :
              \/ Logout(c) \/ DeleteSelf(c)
              \/ \E s \in Secret \cup {0} : UpdateSelf(c, s)
              \/ \E i \in Id : Login(c, i) \/ \E role \in Role \cup {0} : CreateUser(c, i, role)
  PROVE  RankInv'
<1> USE DEF history
<1>1. ASSUME NEW i \in Id, Register(i) PROVE RankInv'
  BY <1>1, InsertEvolves, RowsOnly DEF Register
<1>2. ASSUME NEW i \in Id, NEW s \in Secret \cup {0},
             Update(i, [NoFields EXCEPT !.password = s]),
             UNCHANGED <<session, pc, arg, history>>
      PROVE  RankInv'
  <2>1. PICK f \in Fields :
          f = [NoFields EXCEPT !.password = s] /\ f.role = 0 /\ f.status = 0
    BY NoFieldsType DEF NoFields
  <2>2. /\ Update(i, f) /\ usedIds' = usedIds /\ appointed' = appointed
        /\ f.role = 0 /\ f.status = 0
    BY <1>2, <2>1
  <2>3. Evolves
    BY <2>2, UpdateEvolves DEF Admin, Root
  <2> QED
    BY <1>2, <2>3, RowsOnly
<1>3. ASSUME NEW i \in Id, NEW s \in Secret, ResetPassword(i, s) PROVE RankInv'
  BY <1>2, <1>3 DEF ResetPassword
<1>4. ASSUME NEW c \in Client, NEW s \in Secret \cup {0}, UpdateSelf(c, s) PROVE RankInv'
  BY <1>2, <1>4, SessionType DEF UpdateSelf, May, RankInv
<1>5. ASSUME NEW c \in Client, DeleteSelf(c) PROVE RankInv'
  BY <1>5, SessionType, DeleteEvolves, RowsOnly DEF DeleteSelf, May, RankInv
<1>6. ASSUME NEW c \in Client, Logout(c) PROVE RankInv'
  BY <1>6 DEF Logout, RankInv, KnownIds, HeldInv, Harmless, TypeInv, AccountsTypeOK,
              AdminsWereAppointed, OneRoot
<1>7. ASSUME NEW c \in Client, NEW i \in Id, Login(c, i) PROVE RankInv'
  BY <1>7 DEF Login, RankInv, KnownIds, HeldInv, Harmless, TypeInv, AccountsTypeOK,
              AdminsWereAppointed, OneRoot
<1>8. ASSUME NEW c \in Client, NEW i \in Id, NEW role \in Role \cup {0},
             CreateUser(c, i, role)
      PROVE  RankInv'
  BY <1>8, InsertEvolves, RowsOnly DEF CreateUser
<1> QED
  BY <1>1, <1>3, <1>4, <1>5, <1>6, <1>7, <1>8

\* A request goes on with what it may write.
LEMMA GoOnRank ==
  ASSUME RankInv, TypeInv', NEW c \in Client, NEW place, NEW i \in usedIds, NEW f,
         session[c] # NoRow, GoOn(c, place, i, f),
         UNCHANGED <<users, session, history>>,
         users[i] # NoRow =>
           /\ f.role = Admin =>
                \/ users[i].birth \in appointed
                \/ place \in {"manage", "edit"} /\ session[c].role = Root
           /\ users[i].role = Root => f.role \in {0, Root} /\ f.status \in {0, Enabled}
           /\ f.role = Root => users[i].role = Root
  PROVE  RankInv'
<1> USE DEF RankInv, TypeInv, AccountsTypeOK, history
<1>1. Evolves
  BY StandingStill
<1>2. /\ \A d \in Client \ {c} : pc'[d] = pc[d] /\ arg'[d] = arg[d]
      /\ pc'[c] = place
      /\ arg'[c] = [id |-> i, by |-> session[c].role, fields |-> f]
  BY DEF GoOn
<1>3. Harmless(c, arg[c].id)'
  BY <1>2 DEF Harmless
<1>4. \A d \in Client : session'[d] # NoRow => session'[d].id \in usedIds'
  BY DEF KnownIds
<1>5. arg'[c].id \in usedIds'
  BY <1>2
<1> HIDE DEF RankInv, TypeInv, AccountsTypeOK, history
<1> QED
  BY <1>1, <1>2, <1>3, <1>4, <1>5, Evolution

\* What loading a row and changing one field of it gives.
LEMMA LoadedFields ==
  ASSUME NEW u \in User
  PROVE  /\ Loaded(u).role = u.role /\ Loaded(u).status = u.status
         /\ \A x : /\ [Loaded(u) EXCEPT !.status = x].role = u.role
                   /\ [Loaded(u) EXCEPT !.status = x].status = x
                   /\ [Loaded(u) EXCEPT !.role = x].role = x
                   /\ [Loaded(u) EXCEPT !.role = x].status = u.status
BY DEF Loaded

LEMMA ReadRank ==
  ASSUME RankInv, TypeInv', NEW c \in Client, ReadOf(c)
  PROVE  RankInv'
<1> USE DEF history
<1>1. \A i \in Id : users[i] # NoRow =>
        /\ users[i] \in User /\ i \in usedIds
        /\ users[i].role = Admin => users[i].birth \in appointed
        /\ users[i].role = Root => users[i].status = Enabled
  BY DEF RankInv, TypeInv, AccountsTypeOK, KnownIds, AdminsWereAppointed, OneRoot
<1>2. session[c] # NoRow =>
        session[c].id \in usedIds /\ session[c].id \in Id /\ session[c].role \in Role
  BY SessionType DEF RankInv, KnownIds
<1>3. CASE ReadOwnRow(c)
  <2> DEFINE i == session[c].id
             f == IF users[i] = NoRow THEN NoFields ELSE Loaded(users[i])
  <2>1. /\ session[c] # NoRow /\ i \in usedIds
        /\ GoOn(c, "own row", i, f) /\ UNCHANGED <<users, session, history>>
    BY <1>2, <1>3 DEF ReadOwnRow, May
  <2>2. users[i] # NoRow => f.role = users[i].role /\ f.status = users[i].status
    BY <1>1, <1>2, <2>1, LoadedFields
  <2> HIDE DEF f
  <2>3. users[i] # NoRow =>
          /\ f.role = Admin => users[i].birth \in appointed
          /\ users[i].role = Root => f.role \in {0, Root} /\ f.status \in {0, Enabled}
          /\ f.role = Root => users[i].role = Root
    BY <1>1, <1>2, <2>1, <2>2
  <2> HIDE DEF i
  <2> QED
    BY <2>1, <2>3, GoOnRank
<1>4. ASSUME NEW i \in Id, ManageDisable(c, i) PROVE RankInv'
  <2> DEFINE f == [Loaded(users[i]) EXCEPT !.status = Disabled]
  <2>1. /\ session[c] # NoRow /\ users[i] # NoRow /\ users[i].role # Root
        /\ GoOn(c, "manage", i, f) /\ UNCHANGED <<users, session, history>>
    BY <1>4 DEF ManageDisable, Manage, May
  <2>2. f.role = users[i].role
    BY <1>1, <2>1, LoadedFields
  <2> HIDE DEF f
  <2> QED
    BY <1>1, <2>1, <2>2, GoOnRank
<1>5. ASSUME NEW i \in Id, ManageEnable(c, i) PROVE RankInv'
  <2> DEFINE f == [Loaded(users[i]) EXCEPT !.status = Enabled]
  <2>1. /\ session[c] # NoRow /\ users[i] # NoRow
        /\ GoOn(c, "manage", i, f) /\ UNCHANGED <<users, session, history>>
    BY <1>5 DEF ManageEnable, Manage, May
  <2>2. f.role = users[i].role /\ f.status = Enabled
    BY <1>1, <2>1, LoadedFields
  <2> HIDE DEF f
  <2> QED
    BY <1>1, <2>1, <2>2, GoOnRank
<1>6. ASSUME NEW i \in Id, ManageRemove(c, i) PROVE RankInv'
  <2> DEFINE f == Loaded(users[i])
  <2>1. /\ session[c] # NoRow /\ users[i] # NoRow /\ users[i].role # Root
        /\ GoOn(c, "manage delete", i, f) /\ UNCHANGED <<users, session, history>>
    BY <1>6 DEF ManageRemove, Manage, May
  <2>2. f.role = users[i].role
    BY <1>1, <2>1, LoadedFields
  <2> HIDE DEF f
  <2> QED
    BY <1>1, <2>1, <2>2, GoOnRank
<1>7. ASSUME NEW i \in Id, ManagePromote(c, i) PROVE RankInv'
  <2> DEFINE f == [Loaded(users[i]) EXCEPT !.role = Admin]
  <2>1. /\ session[c] # NoRow /\ session[c].role = Root
        /\ users[i] # NoRow /\ users[i].role < Admin
        /\ GoOn(c, "manage", i, f) /\ UNCHANGED <<users, session, history>>
    BY <1>7 DEF ManagePromote, Manage, May
  <2>2. f.role = Admin
    BY <1>1, <2>1, LoadedFields
  <2> HIDE DEF f
  <2>3. users[i].role # Root /\ f.role # Root
    BY <2>1, <2>2 DEF Admin, Root
  <2> QED
    BY <1>1, <2>1, <2>2, <2>3, GoOnRank
<1>8. ASSUME NEW i \in Id, ManageDemote(c, i) PROVE RankInv'
  <2> DEFINE f == [Loaded(users[i]) EXCEPT !.role = Common]
  <2>1. /\ session[c] # NoRow /\ users[i] # NoRow /\ users[i].role # Root
        /\ GoOn(c, "manage", i, f) /\ UNCHANGED <<users, session, history>>
    BY <1>8 DEF ManageDemote, Manage, May
  <2>2. f.role = Common
    BY <1>1, <2>1, LoadedFields
  <2> HIDE DEF f
  <2>3. f.role # Root /\ f.role # Admin
    BY <2>2 DEF Common, Admin, Root
  <2> QED
    BY <1>1, <2>1, <2>3, GoOnRank
<1>9. ASSUME NEW i \in Id, NEW role \in Role \cup {0},
             NEW status \in {0, Enabled, Disabled},
             NEW s \in {0} \cup (2..MaxSecret), UpdateUser(c, i, role, status, s)
      PROVE  RankInv'
  <2> DEFINE f == [role |-> role, status |-> status, password |-> s]
  <2>1. /\ session[c] # NoRow /\ users[i] # NoRow
        /\ session[c].role > users[i].role /\ session[c].role > role
        /\ GoOn(c, "edit", i, f) /\ UNCHANGED <<users, session, history>>
    BY <1>9 DEF UpdateUser, May
  <2>2. f.role = role
    OBVIOUS
  <2> HIDE DEF f
  <2>3. /\ users[i].role # Root /\ f.role # Root
        /\ f.role = Admin => session[c].role = Root
    BY <1>1, <1>2, <2>1, <2>2 DEF User, Role, Common, Admin, Root
  <2> QED
    BY <1>1, <2>1, <2>3, GoOnRank
<1>10. ASSUME NEW i \in Id, DeleteUser(c, i) PROVE RankInv'
  <2>1. /\ session[c] # NoRow /\ users[i] # NoRow
        /\ session[c].role > users[i].role
        /\ GoOn(c, "delete", i, NoFields) /\ UNCHANGED <<users, session, history>>
    BY <1>10 DEF DeleteUser, May
  <2>2. users[i].role # Root /\ NoFields.role = 0
    BY <1>1, <1>2, <2>1 DEF User, Role, Common, Admin, Root, NoFields
  <2> QED
    BY <1>1, <2>1, <2>2, GoOnRank DEF Admin, Root
<1> QED
  BY <1>3, <1>4, <1>5, <1>6, <1>7, <1>8, <1>9, <1>10 DEF ReadOf

\* What a request writes is harmless, and so is that it ends.
LEMMA WriteEvolves ==
  ASSUME RankInv, TypeInv', NEW c \in Client, Update(arg[c].id, arg[c].fields),
         pc[c] # "idle", Done(c), UNCHANGED <<session, usedIds, births>>,
         \/ appointed' = appointed /\ pc[c] \notin {"manage", "edit"}
         \/ Appoint(c, arg[c].id)
  PROVE  RankInv'
<1> DEFINE i == arg[c].id
           f == arg[c].fields
<1>1. i \in Id /\ i \in usedIds /\ f \in Fields /\ Harmless(c, i)
  BY DEF RankInv, TypeInv, HeldType, KnownIds, HeldInv, Argument
<1>2. /\ appointed \subseteq appointed'
      /\ users[i] # NoRow /\ f.role = Admin => users[i].birth \in appointed'
  BY <1>1 DEF Appoint, Harmless
<1>3. users[i] # NoRow =>
        /\ users[i].role = Root => f.role \in {0, Root} /\ f.status \in {0, Enabled}
        /\ f.role = Root => users[i].role = Root
  BY <1>1 DEF Harmless
<1>4. Update(i, f) /\ usedIds' = usedIds
  OBVIOUS
<1>5. Evolves
  <2> HIDE DEF i, f
  <2> QED
    BY <1>1, <1>2, <1>3, <1>4, UpdateEvolves
<1>6. /\ \A d \in Client \ {c} : pc'[d] = pc[d] /\ arg'[d] = arg[d]
      /\ pc'[c] = "idle"
  BY DEF Done, RankInv, TypeInv, AccountsTypeOK
<1>7. \A d \in Client : session'[d] # NoRow => session'[d].id \in usedIds'
  BY DEF RankInv, KnownIds
<1> QED
  BY <1>5, <1>6, <1>7, Evolution

LEMMA WriteRank ==
  ASSUME RankInv, TypeInv', NEW c \in Client, WriteOf(c)
  PROVE  RankInv'
<1> USE DEF history
<1>1. CASE WriteOwnRow(c)
  BY <1>1, WriteEvolves DEF WriteOwnRow
<1>2. CASE ManageWrite(c)
  BY <1>2, WriteEvolves DEF ManageWrite
<1>3. CASE UpdateUserWrite(c)
  BY <1>3, WriteEvolves DEF UpdateUserWrite
<1>4. arg[c].id \in Id /\ arg[c].id \in usedIds
  BY DEF WriteOf, WriteOwnRow, ManageWrite, ManageDelete, UpdateUserWrite,
         DeleteUserWrite, RankInv, TypeInv, HeldType, Argument, KnownIds
<1>5. \A d \in Client : session[d] # NoRow => session[d].id \in usedIds
  BY DEF RankInv, KnownIds
<1>6. CASE ManageDelete(c)
  <2>1. Evolves
    BY <1>4, <1>6, DeleteEvolves DEF ManageDelete
  <2>2. /\ \A d \in Client \ {c} : pc'[d] = pc[d] /\ arg'[d] = arg[d]
        /\ arg'[c].id \in usedIds' /\ users'[arg'[c].id] = NoRow
    BY <1>4, <1>6 DEF ManageDelete, Delete, RankInv, TypeInv, AccountsTypeOK
  <2>3. Harmless(c, arg[c].id)'
    BY <2>2 DEF Harmless
  <2> QED
    BY <1>5, <1>6, <2>1, <2>2, <2>3, Evolution DEF ManageDelete
<1>7. CASE DeleteUserWrite(c)
  <2>1. Evolves
    BY <1>4, <1>7, DeleteEvolves DEF DeleteUserWrite
  <2>2. /\ \A d \in Client \ {c} : pc'[d] = pc[d] /\ arg'[d] = arg[d]
        /\ pc'[c] = "idle"
    BY <1>7 DEF DeleteUserWrite, Done, RankInv, TypeInv, AccountsTypeOK
  <2> QED
    BY <1>5, <1>7, <2>1, <2>2, Evolution DEF DeleteUserWrite
<1> QED
  BY <1>1, <1>2, <1>3, <1>6, <1>7 DEF WriteOf

\* A restart makes a root account only where there is none.
LEMMA RestartRank ==
  ASSUME RankInv, TypeInv', Restart
  PROVE  RankInv'
<1>1. \A c \in Client : pc'[c] = "idle"
  BY DEF Restart
<1>2. CASE UNCHANGED <<users, history>>
  BY <1>1, <1>2
  DEF Restart, history, RankInv, KnownIds, HeldInv, AdminsWereAppointed, OneRoot
<1>3. CASE /\ \A i \in Id : users[i] = NoRow
           /\ \E i \in Id : Insert(i, Root)
           /\ UNCHANGED appointed
  <2>1. PICK i \in Id : Insert(i, Root)
    BY <1>3
  <2>2. /\ \A j \in Id : j # i => users'[j] = NoRow
        /\ users'[i] # NoRow =>
             users'[i].role = Root /\ users'[i].status = Enabled
        /\ usedIds' = usedIds \cup {i}
    BY <1>3, <2>1 DEF Insert, NewAccount, RankInv, TypeInv, AccountsTypeOK
  <2> QED
    BY <1>1, <1>3, <2>2
    DEF Restart, RankInv, KnownIds, HeldInv, AdminsWereAppointed, OneRoot, Admin, Root
<1> QED
  BY <1>2, <1>3 DEF Restart

LEMMA RankStep ==
  ASSUME ~ ReuseIds
  PROVE  RankInv /\ [AccountsNext]_accountsVars => RankInv'
<1> SUFFICES ASSUME RankInv, [AccountsNext]_accountsVars PROVE RankInv'
  OBVIOUS
<1>1. TypeInv'
  BY TypeStep DEF RankInv
<1>2. CASE UNCHANGED accountsVars
  BY <1>1, <1>2
  DEF accountsVars, RankInv, KnownIds, HeldInv, Harmless, AdminsWereAppointed, OneRoot
<1>3. CASE AccountsNext
  BY <1>1, <1>3, OneStatementRank, ReadRank, WriteRank, RestartRank
  DEF AccountsNext, ReadOf, WriteOf
<1> QED
  BY <1>2, <1>3

LEMMA RankInvariance ==
  ASSUME ~ ReuseIds
  PROVE  AccountsSpec => []RankInv
BY RankInit, RankStep, PTL DEF AccountsSpec

\* While ids are not given out again, nobody becomes an administrator but by
\* root's hand (AdminsWereAppointed), whatever requests, stale sessions and
\* writes of whole rows overlap.
THEOREM RanksAreAppointed ==
  ASSUME ~ ReuseIds
  PROVE  AccountsSpec => []AdminsWereAppointed
<1>1. RankInv => AdminsWereAppointed
  BY DEF RankInv
<1> QED
  BY <1>1, RankInvariance, PTL

\* While ids are not given out again, there is one root at most, and it is enabled
\* (OneRoot).
THEOREM RootIsSafe ==
  ASSUME ~ ReuseIds
  PROVE  AccountsSpec => []OneRoot
<1>1. RankInv => OneRoot
  BY DEF RankInv
<1> QED
  BY <1>1, RankInvariance, PTL

-------------------------------------------------------------------------------
\* The limiter in memory.

\* Facts about appending a time to a history.

\* r is p with x at its end.
Extends(r, p, x) ==
  /\ p \in Seq(Nat) /\ r \in Seq(Nat) /\ x \in Nat
  /\ Len(r) = Len(p) + 1
  /\ \A i \in 1..Len(p) : r[i] = p[i]
  /\ r[Len(p) + 1] = x

LEMMA AppendExtends ==
  ASSUME NEW p \in Seq(Nat), NEW x \in Nat
  PROVE  Extends(Append(p, x), p, x)
BY DEF Extends

\* An index into the longer history is the last one or one of the shorter.
LEMMA ExtendsIndex ==
  ASSUME NEW r, NEW p, NEW x, Extends(r, p, x), NEW i \in 1..Len(r)
  PROVE  \/ i = Len(p) + 1 /\ r[i] = x
         \/ i \in 1..Len(p) /\ r[i] = p[i] /\ p[i] \in Nat
<1>1. Len(p) \in Nat /\ Len(r) = Len(p) + 1
  BY DEF Extends
<1>2. i = Len(p) + 1 \/ i \in 1..Len(p)
  BY <1>1
<1> QED
  BY <1>2 DEF Extends

Sorted(p) == \A i, j \in 1..Len(p) : i <= j => p[i] <= p[j]

LEMMA ExtendsSorted ==
  ASSUME NEW r, NEW p, NEW x, Extends(r, p, x), Sorted(p),
         \A i \in 1..Len(p) : p[i] <= x
  PROVE  Sorted(r) /\ \A i \in 1..Len(r) : r[i] <= x
<1>1. x \in Nat /\ Len(p) \in Nat /\ Len(r) = Len(p) + 1
  BY DEF Extends
<1>2. ASSUME NEW i \in 1..Len(r) PROVE r[i] <= x
  BY <1>1, ExtendsIndex
<1>3. ASSUME NEW i \in 1..Len(r), NEW j \in 1..Len(r), i <= j PROVE r[i] <= r[j]
  <2>1. CASE j = Len(p) + 1
    BY <1>2, <2>1 DEF Extends
  <2>2. CASE j # Len(p) + 1
    <3>1. i \in 1..Len(p) /\ j \in 1..Len(p)
      BY <1>1, <1>3, <2>2
    <3> QED
      BY <1>3, <3>1 DEF Extends, Sorted
  <2> QED
    BY <2>1, <2>2
<1> QED
  BY <1>2, <1>3 DEF Sorted

\* n apart in the history is d apart in time.
Spaced(p, n, d) == \A i \in 1..(Len(p) - n) : p[i + n] - p[i] >= d

LEMMA ExtendsSpaced ==
  ASSUME NEW r, NEW p, NEW x, Extends(r, p, x),
         NEW n \in Nat \ {0}, NEW d \in Nat, Spaced(p, n, d),
         Len(p) >= n => x - p[Len(p) - n + 1] >= d
  PROVE  Spaced(r, n, d)
<1> SUFFICES ASSUME NEW i \in 1..(Len(r) - n) PROVE r[i + n] - r[i] >= d
  BY DEF Spaced
<1>1. Len(p) \in Nat /\ Len(r) = Len(p) + 1
  BY DEF Extends
<1>2. i \in 1..Len(p) /\ r[i] = p[i]
  <2>1. i \in 1..Len(p)
    BY <1>1
  <2> QED
    BY <2>1 DEF Extends
<1>3. CASE i + n <= Len(p)
  <2>1. i \in 1..(Len(p) - n) /\ i + n \in 1..Len(p)
    BY <1>1, <1>3
  <2>2. r[i + n] = p[i + n] /\ p[i + n] - p[i] >= d
    BY <2>1 DEF Extends, Spaced
  <2> QED
    BY <1>2, <2>2
<1>4. CASE i + n > Len(p)
  <2>1. i = Len(p) - n + 1 /\ Len(p) >= n /\ i + n = Len(p) + 1
    BY <1>1, <1>4
  <2> QED
    BY <1>2, <2>1 DEF Extends
<1> QED
  BY <1>1, <1>3, <1>4

\* q is the end of p.
EndOf(q, p) ==
  /\ Len(p) - Len(q) >= 0
  /\ \A j \in 1..Len(q) : q[j] = p[Len(p) - Len(q) + j]

\* Appending to both, and dropping the oldest, leaves it the end.
LEMMA EndOfAppend ==
  ASSUME NEW r, NEW p, NEW s, NEW q, NEW x,
         Extends(r, p, x), Extends(s, q, x), EndOf(q, p)
  PROVE  EndOf(s, r)
<1>1. /\ Len(p) \in Nat /\ Len(q) \in Nat /\ Len(p) - Len(q) >= 0
      /\ Len(r) = Len(p) + 1 /\ Len(s) = Len(q) + 1
  BY DEF Extends, EndOf
<1>2. ASSUME NEW j \in 1..Len(s) PROVE s[j] = r[Len(r) - Len(s) + j]
  <2>1. CASE j = Len(q) + 1
    <3>1. Len(r) - Len(s) + j = Len(p) + 1
      BY <1>1, <2>1
    <3> QED
      BY <2>1, <3>1 DEF Extends
  <2>2. CASE j \in 1..Len(q)
    <3>1. Len(r) - Len(s) + j = Len(p) - Len(q) + j
          /\ Len(p) - Len(q) + j \in 1..Len(p)
      BY <1>1, <2>2
    <3>2. s[j] = q[j] /\ q[j] = p[Len(p) - Len(q) + j]
      BY <2>2 DEF Extends, EndOf
    <3> QED
      BY <3>1, <3>2 DEF Extends
  <2> QED
    BY <1>1, <2>1, <2>2
<1> QED
  BY <1>1, <1>2 DEF EndOf

LEMMA EndOfTail ==
  ASSUME NEW p \in Seq(Nat), NEW q \in Seq(Nat), EndOf(q, p), Len(q) >= 1
  PROVE  /\ Tail(q) \in Seq(Nat) /\ Len(Tail(q)) = Len(q) - 1
         /\ EndOf(Tail(q), p)
<1>1. /\ Tail(q) \in Seq(Nat) /\ Len(Tail(q)) = Len(q) - 1
      /\ \A j \in 1..(Len(q) - 1) : Tail(q)[j] = q[j + 1]
  OBVIOUS
<1>2. Len(p) \in Nat /\ Len(q) \in Nat /\ Len(p) - Len(q) >= 0
  BY DEF EndOf
<1>3. ASSUME NEW j \in 1..Len(Tail(q))
      PROVE  Tail(q)[j] = p[Len(p) - Len(Tail(q)) + j]
  <2>1. j \in 1..(Len(q) - 1) /\ j + 1 \in 1..Len(q)
    BY <1>1, <1>2
  <2>2. q[j + 1] = p[Len(p) - Len(q) + (j + 1)]
    BY <2>1 DEF EndOf
  <2>3. Len(p) - Len(q) + (j + 1) = Len(p) - Len(Tail(q)) + j
    BY <1>1, <1>2, <2>1
  <2> QED
    BY <1>1, <2>1, <2>2, <2>3
<1> QED
  BY <1>1, <1>2, <1>3 DEF EndOf

\* q is the end of the history p, at most n long, and if it is shorter, what was
\* forgotten is at least d older than its first time.
Kept(q, p, n, d) ==
  /\ Len(q) \in 1..n
  /\ EndOf(q, p)
  /\ Len(q) < n => \A i \in 1..(Len(p) - Len(q)) : p[i] + d <= q[1]

LEMMA KeptFirst ==
  ASSUME NEW r, NEW p, NEW x, Extends(r, p, x), NEW n \in Nat \ {0},
         NEW d \in Nat, \A i \in 1..Len(p) : p[i] + d <= x
  PROVE  Kept(<<x>>, r, n, d)
<1>1. Len(p) \in Nat /\ Len(r) = Len(p) + 1 /\ r[Len(p) + 1] = x
  BY DEF Extends
<1>2. Len(<<x>>) = 1 /\ <<x>>[1] = x
  OBVIOUS
<1>3. EndOf(<<x>>, r)
  BY <1>1, <1>2 DEF EndOf
<1>4. ASSUME NEW i \in 1..(Len(r) - 1) PROVE r[i] + d <= x
  <2>1. i \in 1..Len(p)
    BY <1>1
  <2>2. r[i] = p[i] /\ p[i] + d <= x
    BY <2>1 DEF Extends
  <2> QED
    BY <2>2
<1> QED
  BY <1>2, <1>3, <1>4 DEF Kept

LEMMA KeptRoom ==
  ASSUME NEW r, NEW p, NEW s, NEW q, NEW x, Extends(r, p, x), Extends(s, q, x),
         NEW n \in Nat \ {0}, NEW d \in Nat, Kept(q, p, n, d), Len(q) < n
  PROVE  Kept(s, r, n, d)
<1>1. /\ Len(p) \in Nat /\ Len(r) = Len(p) + 1
      /\ Len(q) \in Nat /\ Len(s) = Len(q) + 1
      /\ Len(q) >= 1 /\ Len(p) - Len(q) >= 0
  <2>1. /\ Len(p) \in Nat /\ Len(r) = Len(p) + 1
        /\ Len(q) \in Nat /\ Len(s) = Len(q) + 1
    BY DEF Extends
  <2>2. Len(q) \in 1..n /\ Len(p) - Len(q) >= 0
    BY DEF Kept, EndOf
  <2> QED
    BY <2>1, <2>2
<1>2. EndOf(s, r)
  BY EndOfAppend DEF Kept
<1>3. ASSUME NEW i \in 1..(Len(r) - Len(s)) PROVE r[i] + d <= s[1]
  <2>1. i \in 1..(Len(p) - Len(q)) /\ i \in 1..Len(p) /\ 1 \in 1..Len(q)
    BY <1>1
  <2>2. p[i] + d <= q[1]
    BY <2>1 DEF Kept
  <2>3. r[i] = p[i] /\ s[1] = q[1]
    BY <2>1 DEF Extends
  <2> QED
    BY <2>2, <2>3
<1>4. Len(s) \in 1..n
  BY <1>1
<1> QED
  BY <1>2, <1>3, <1>4 DEF Kept

LEMMA KeptSlide ==
  ASSUME NEW r, NEW p, NEW s, NEW q \in Seq(Nat), NEW x,
         Extends(r, p, x), Extends(s, Tail(q), x),
         NEW n \in Nat \ {0}, NEW d \in Nat, Kept(q, p, n, d), Len(q) = n
  PROVE  Kept(s, r, n, d)
<1>1. Len(Tail(q)) = n - 1 /\ EndOf(Tail(q), p)
  BY EndOfTail DEF Kept, Extends
<1>2. EndOf(s, r)
  BY <1>1, EndOfAppend
<1>3. Len(s) = n
  BY <1>1 DEF Extends
<1> QED
  BY <1>2, <1>3 DEF Kept

-------------------------------------------------------------------------------
\* The clock and the goroutine.
ClockInv ==
  /\ now \in Nat /\ swept \in Nat
  /\ swept <= now
  /\ now <= swept + Expiration + Late

\* The requests let through, oldest first, none in the future.
PassedInv ==
  \A k \in Key :
    /\ Sorted(passed[k])
    /\ \A i \in 1..Len(passed[k]) : passed[k][i] <= now

\* The queue of a key keeps all that counts; without a queue nothing counts.
Remembers(k) ==
  /\ store[k] = None =>
       \A i \in 1..Len(passed[k]) : passed[k][i] + Limit[k].duration <= now
  /\ store[k] # None =>
       /\ Kept(store[k], passed[k], Limit[k].num, Limit[k].duration)
       /\ store[k][Len(store[k])] + Expiration >= swept

WindowInv ==
  /\ TypeOK
  /\ ClockInv
  /\ PassedInv
  /\ \A k \in Key : Remembers(k)
  /\ AtMostNumPerDuration

-------------------------------------------------------------------------------
LEMMA WindowInit == Init => WindowInv
<1> SUFFICES ASSUME Init PROVE WindowInv
  OBVIOUS
<1> USE DEF Init
<1>1. TypeOK
  BY DEF TypeOK
<1>2. ClockInv
  BY ClockAssumption DEF ClockInv
<1>3. PassedInv /\ \A k \in Key : Remembers(k)
  BY DEF PassedInv, Sorted, Remembers
<1>4. AtMostNumPerDuration
  BY LimitAssumption DEF AtMostNumPerDuration
<1> QED
  BY <1>1, <1>2, <1>3, <1>4 DEF WindowInv

\* The types of what concerns one key.
LEMMA KeyTypes ==
  ASSUME WindowInv, NEW k \in Key
  PROVE  /\ Limit[k].num \in Nat \ {0}
         /\ Limit[k].duration \in Nat /\ Limit[k].duration <= Expiration
         /\ passed[k] \in Seq(Nat)
         /\ \A i \in 1..Len(passed[k]) : passed[k][i] \in Nat
         /\ now \in Nat
         /\ store[k] # None =>
              /\ store[k] \in Seq(Nat)
              /\ Len(store[k]) \in 1..Limit[k].num
              /\ \A i \in 1..Len(store[k]) : store[k][i] \in Nat
BY LimitAssumption DEF WindowInv, TypeOK

\* The queue decides what the whole history decides.
LEMMA QueueDecides ==
  ASSUME WindowInv, NEW k \in Key
  PROVE  Window!Full(k) <=> /\ store[k] # None
                            /\ Len(store[k]) >= Limit[k].num
                            /\ now - store[k][1] < Limit[k].duration
<1> DEFINE p == passed[k]
           q == store[k]
           n == Limit[k].num
           d == Limit[k].duration
<1>1. /\ n \in Nat \ {0} /\ d \in Nat /\ now \in Nat /\ Len(p) \in Nat
      /\ \A i \in 1..Len(p) : p[i] \in Nat /\ p[i] <= now
  BY KeyTypes DEF WindowInv, PassedInv
<1>2. Window!Full(k) <=> Len(p) >= n /\ now - p[Len(p) - n + 1] < d
  BY DEF Window!Full
<1>3. Remembers(k)
  BY DEF WindowInv
<1>4. CASE q = None
  <2>1. \A i \in 1..Len(p) : p[i] + d <= now
    BY <1>3, <1>4 DEF Remembers
  <2> HIDE DEF p, q, n, d
  <2> QED
    BY <1>1, <1>2, <1>4, <2>1 DEF q
<1>5. CASE q # None
  <2>1. /\ Len(q) \in 1..n
        /\ Len(p) - Len(q) >= 0
        /\ \A j \in 1..Len(q) : q[j] = p[Len(p) - Len(q) + j]
        /\ Len(q) < n => \A i \in 1..(Len(p) - Len(q)) : p[i] + d <= q[1]
    BY <1>3, <1>5 DEF Remembers, Kept, EndOf
  <2> HIDE DEF p, q, n, d
  <2>2. CASE Len(q) < n
    <3>1. q[1] = p[Len(p) - Len(q) + 1] /\ q[1] <= now /\ q[1] \in Nat
      BY <1>1, <2>1
    <3>2. ASSUME Len(p) >= n PROVE p[Len(p) - n + 1] + d <= now
      <4>1. Len(p) - n + 1 \in 1..(Len(p) - Len(q))
        BY <1>1, <2>1, <2>2, <3>2
      <4>2. p[Len(p) - n + 1] + d <= q[1]
        BY <2>1, <2>2, <4>1
      <4>3. p[Len(p) - n + 1] \in Nat
        BY <1>1, <2>1, <4>1
      <4> QED
        BY <1>1, <3>1, <4>2, <4>3
    <3>3. ~ Window!Full(k)
      BY <1>1, <1>2, <3>2
    <3> QED
      BY <1>1, <2>1, <2>2, <3>3 DEF q, n
  <2>3. CASE Len(q) = n
    <3>1. q[1] = p[Len(p) - n + 1] /\ Len(p) >= n
      BY <1>1, <2>1, <2>3
    <3> QED
      BY <1>1, <1>2, <1>5, <2>3, <3>1 DEF q, n, d
  <2> QED
    BY <1>1, <2>1, <2>2, <2>3
<1> QED
  BY <1>4, <1>5

-------------------------------------------------------------------------------
\* One lemma per action.

LEMMA AllowStep ==
  ASSUME WindowInv, NEW k \in Key, NEW queue \in Seq(Nat),
         ~ Window!Full(k), Allow(k, queue),
         Kept(queue, Append(passed[k], now), Limit[k].num, Limit[k].duration),
         queue[Len(queue)] = now
  PROVE  WindowInv'
<1> DEFINE p == passed[k]
           r == Append(p, now)
           n == Limit[k].num
           d == Limit[k].duration
<1>1. /\ n \in Nat \ {0} /\ d \in Nat /\ now \in Nat /\ p \in Seq(Nat)
      /\ swept \in Nat /\ swept <= now
      /\ passed \in [Key -> Seq(Nat)] /\ store \in [Key -> Seq(Nat) \cup {None}]
  BY KeyTypes DEF WindowInv, TypeOK, ClockInv
<1>2. /\ store' = [store EXCEPT ![k] = queue]
      /\ passed' = [passed EXCEPT ![k] = r]
      /\ verdict' = [key |-> k, at |-> now, allowed |-> TRUE]
      /\ now' = now /\ swept' = swept
  BY DEF Allow
<1>3. Extends(r, p, now) /\ r \in Seq(Nat)
  BY <1>1, AppendExtends
<1>4. queue # None
  BY NoneAssumption
<1>5. store'[k] = queue /\ passed'[k] = r
  BY <1>1, <1>2
<1>6. \A j \in Key \ {k} : store'[j] = store[j] /\ passed'[j] = passed[j]
  BY <1>1, <1>2
<1>7. TypeOK'
  <2>1. store' \in [Key -> Seq(Nat) \cup {None}]
    BY <1>1, <1>2
  <2>2. passed' \in [Key -> Seq(Nat)]
    BY <1>1, <1>2, <1>3
  <2>3. ASSUME NEW j \in Key, store'[j] # None
        PROVE  Len(store'[j]) \in 1..Limit[j].num
    <3>1. CASE j = k
      BY <1>5, <3>1 DEF Kept
    <3>2. CASE j # k
      BY <1>6, <2>3, <3>2 DEF WindowInv, TypeOK
    <3> QED
      BY <3>1, <3>2
  <2>4. now' \in Nat /\ swept' \in Nat
    BY <1>1, <1>2
  <2>5. verdict' \in [key : Key, at : Nat, allowed : BOOLEAN] \cup {None}
    BY <1>1, <1>2
  <2> QED
    BY <2>1, <2>2, <2>3, <2>4, <2>5 DEF TypeOK
<1>8. ClockInv'
  BY <1>2 DEF WindowInv, ClockInv
<1>9. PassedInv'
  <2>1. Sorted(p) /\ \A i \in 1..Len(p) : p[i] <= now
    BY DEF WindowInv, PassedInv
  <2>2. Sorted(r) /\ \A i \in 1..Len(r) : r[i] <= now
    <3> HIDE DEF p, r
    <3> QED
      BY <1>3, <2>1, ExtendsSorted
  <2>3. ASSUME NEW j \in Key
        PROVE  /\ Sorted(passed'[j])
               /\ \A i \in 1..Len(passed'[j]) : passed'[j][i] <= now'
    <3>1. CASE j = k
      BY <1>2, <1>5, <2>2, <3>1
    <3>2. CASE j # k
      BY <1>2, <1>6, <3>2 DEF WindowInv, PassedInv
    <3> QED
      BY <3>1, <3>2
  <2> QED
    BY <2>3 DEF PassedInv, Sorted
<1>10. ASSUME NEW j \in Key PROVE Remembers(j)'
  <2>1. CASE j = k
    <3>1. now + Expiration >= swept
      BY <1>1, ClockAssumption
    <3>2. /\ Kept(store'[k], passed'[k], n, d)
          /\ store'[k][Len(store'[k])] + Expiration >= swept'
      BY <1>2, <1>5, <3>1
    <3> QED
      BY <1>4, <1>5, <2>1, <3>2 DEF Remembers, Kept, EndOf
  <2>2. CASE j # k
    <3>1. Remembers(j)
      BY DEF WindowInv
    <3>2. store'[j] = store[j] /\ passed'[j] = passed[j]
      BY <1>6, <2>2
    <3> QED
      BY <1>2, <3>1, <3>2 DEF Remembers, Kept, EndOf
  <2> QED
    BY <2>1, <2>2
<1>11. AtMostNumPerDuration'
  <2>1. Spaced(p, n, d)
    BY DEF WindowInv, AtMostNumPerDuration, Spaced
  <2>2. Len(p) >= n => now - p[Len(p) - n + 1] >= d
    <3>1. ASSUME Len(p) >= n PROVE ~ (now - p[Len(p) - n + 1] < d)
      BY <3>1 DEF Window!Full
    <3>2. ASSUME Len(p) >= n PROVE p[Len(p) - n + 1] \in Nat
      BY <1>1, <3>2
    <3> HIDE DEF p, n, d
    <3> QED
      BY <1>1, <3>1, <3>2
  <2>3. Spaced(r, n, d)
    <3> HIDE DEF p, r, n, d
    <3> QED
      BY <1>1, <1>3, <2>1, <2>2, ExtendsSpaced
  <2>4. ASSUME NEW j \in Key
        PROVE  Spaced(passed'[j], Limit[j].num, Limit[j].duration)
    <3>1. CASE j = k
      BY <1>5, <2>3, <3>1
    <3>2. CASE j # k
      BY <1>6, <3>2 DEF WindowInv, AtMostNumPerDuration, Spaced
    <3> QED
      BY <3>1, <3>2
  <2> QED
    BY <2>4 DEF AtMostNumPerDuration, Spaced
<1> QED
  BY <1>7, <1>8, <1>9, <1>10, <1>11 DEF WindowInv

\* A request that is let through: the window is not full, and the new queue keeps
\* what counts.
LEMMA RequestAllowed ==
  ASSUME WindowInv, NEW k \in Key,
         RequestFirst(k) \/ RequestRoom(k) \/ RequestSlide(k)
  PROVE  WindowInv' /\ Window!Allow(k)
<1> DEFINE p == passed[k]
           q == store[k]
           n == Limit[k].num
           d == Limit[k].duration
<1>1. /\ n \in Nat \ {0} /\ d \in Nat /\ now \in Nat /\ p \in Seq(Nat)
      /\ q # None => q \in Seq(Nat) /\ Len(q) \in 1..n
  BY KeyTypes
<1>2. Remembers(k)
  BY DEF WindowInv
<1>3. Extends(Append(p, now), p, now)
  BY <1>1, AppendExtends
<1>4. SUFFICES \E queue \in Seq(Nat) :
                 /\ Allow(k, queue)
                 /\ ~ Window!Full(k)
                 /\ Kept(queue, Append(p, now), n, d)
                 /\ queue[Len(queue)] = now
  <2>1. PICK queue \in Seq(Nat) : /\ Allow(k, queue)
                                  /\ ~ Window!Full(k)
                                  /\ Kept(queue, Append(p, now), n, d)
                                  /\ queue[Len(queue)] = now
    BY <1>4
  <2>2. WindowInv'
    BY <2>1, AllowStep
  <2> QED
    BY <2>1, <2>2 DEF Allow, Window!Allow
<1>5. CASE RequestFirst(k)
  <2>1. q = None /\ Allow(k, <<now>>)
    BY <1>5 DEF RequestFirst
  <2>2. ~ Window!Full(k)
    BY <2>1, QueueDecides
  <2>3. \A i \in 1..Len(p) : p[i] + d <= now
    BY <1>2, <2>1 DEF Remembers
  <2>4. Kept(<<now>>, Append(p, now), n, d)
    <3> HIDE DEF p, n, d
    <3> QED
      BY <1>1, <1>3, <2>3, KeptFirst
  <2>5. <<now>> \in Seq(Nat) /\ <<now>>[Len(<<now>>)] = now
    BY <1>1
  <2> QED
    BY <2>1, <2>2, <2>4, <2>5
<1>6. CASE RequestRoom(k)
  <2>1. q # None /\ Len(q) < n /\ Allow(k, Append(q, now))
    BY <1>6 DEF RequestRoom
  <2>2. ~ Window!Full(k)
    <3>1. ~ (Len(q) >= n)
      BY <1>1, <2>1
    <3> QED
      BY <3>1, QueueDecides
  <2>3. Extends(Append(q, now), q, now)
    BY <1>1, <2>1, AppendExtends
  <2>4. Kept(q, p, n, d)
    BY <1>2, <2>1 DEF Remembers
  <2>5. Kept(Append(q, now), Append(p, now), n, d)
    <3> HIDE DEF p, q, n, d
    <3> QED
      BY <1>1, <1>3, <2>1, <2>3, <2>4, KeptRoom
  <2>6. Append(q, now) \in Seq(Nat) /\ Append(q, now)[Len(Append(q, now))] = now
    BY <2>3 DEF Extends
  <2> QED
    BY <2>1, <2>2, <2>5, <2>6
<1>7. CASE RequestSlide(k)
  <2>1. /\ q # None /\ Len(q) >= n /\ now - q[1] >= d
        /\ Allow(k, Append(Tail(q), now))
    BY <1>7 DEF RequestSlide
  <2>2. q \in Seq(Nat) /\ Len(q) = n /\ q[1] \in Nat /\ Tail(q) \in Seq(Nat)
    BY <1>1, <2>1
  <2>3. ~ Window!Full(k)
    <3>1. ~ (now - q[1] < d)
      BY <1>1, <2>1, <2>2
    <3> QED
      BY <3>1, QueueDecides
  <2>4. Extends(Append(Tail(q), now), Tail(q), now)
    BY <1>1, <2>2, AppendExtends
  <2>5. Kept(q, p, n, d)
    BY <1>2, <2>1 DEF Remembers
  <2>6. Kept(Append(Tail(q), now), Append(p, now), n, d)
    <3> HIDE DEF p, q, n, d
    <3> QED
      BY <1>1, <1>3, <2>2, <2>4, <2>5, KeptSlide
  <2>7. /\ Append(Tail(q), now) \in Seq(Nat)
        /\ Append(Tail(q), now)[Len(Append(Tail(q), now))] = now
    BY <2>4 DEF Extends
  <2> QED
    BY <2>1, <2>3, <2>6, <2>7
<1> QED
  BY <1>5, <1>6, <1>7

LEMMA RequestTurnedAway ==
  ASSUME WindowInv, NEW k \in Key, RequestDenied(k)
  PROVE  WindowInv' /\ Window!Deny(k)
<1>1. Window!Full(k)
  BY QueueDecides DEF RequestDenied
<1>2. UNCHANGED <<store, now, swept, passed>>
  BY DEF RequestDenied
<1>3. verdict' = [key |-> k, at |-> now, allowed |-> FALSE]
  BY DEF RequestDenied
<1>4. TypeOK'
  BY <1>2, <1>3 DEF WindowInv, TypeOK
<1>5. ClockInv' /\ PassedInv' /\ AtMostNumPerDuration'
  BY <1>2 DEF WindowInv, ClockInv, PassedInv, Sorted, AtMostNumPerDuration
<1>6. ASSUME NEW j \in Key PROVE Remembers(j)'
  BY <1>2 DEF WindowInv, Remembers, Kept, EndOf
<1> QED
  BY <1>1, <1>2, <1>3, <1>4, <1>5, <1>6 DEF WindowInv, Window!Deny

\* What the goroutine deletes no longer counts; what it leaves is younger than
\* the time at which it goes back to sleep less Expiration.
LEMMA ClearStep ==
  ASSUME WindowInv, ClearExpiredItems
  PROVE  WindowInv'
<1>1. /\ now' = now /\ swept' = now /\ passed' = passed /\ verdict' = verdict
      /\ \A k \in Key : store'[k] =
           IF store[k] # None /\ Expired(store[k]) THEN None ELSE store[k]
  BY DEF ClearExpiredItems
<1>2. TypeOK'
  <2>1. store' \in [Key -> Seq(Nat) \cup {None}]
    BY DEF WindowInv, TypeOK, ClearExpiredItems
  <2> QED
    BY <1>1, <2>1 DEF WindowInv, TypeOK
<1>3. ClockInv'
  BY <1>1, ClockAssumption DEF WindowInv, ClockInv
<1>4. PassedInv' /\ AtMostNumPerDuration'
  BY <1>1 DEF WindowInv, PassedInv, Sorted, AtMostNumPerDuration
<1>5. ASSUME NEW k \in Key PROVE Remembers(k)'
  <2>1. Remembers(k)
    BY DEF WindowInv
  <2>2. CASE store[k] = None
    BY <1>1, <2>1, <2>2 DEF Remembers
  <2>3. CASE store[k] # None /\ ~ Expired(store[k])
    <3>1. store'[k] = store[k]
      BY <1>1, <2>3
    <3>2. Len(store[k]) \in 1..Len(store[k]) /\ store[k][Len(store[k])] \in Nat
      BY <2>3, KeyTypes
    <3>3. store[k][Len(store[k])] + Expiration >= now
      BY <2>3, <3>2, KeyTypes, ClockAssumption DEF Expired
    <3> QED
      BY <1>1, <2>1, <2>3, <3>1, <3>3 DEF Remembers, Kept, EndOf
  <2>4. CASE store[k] # None /\ Expired(store[k])
    <3> DEFINE p == passed[k]
               q == store[k]
               d == Limit[k].duration
    <3>1. /\ q # None /\ d \in Nat /\ d <= Expiration /\ now \in Nat
          /\ Len(q) \in Nat /\ Len(q) >= 1 /\ Len(p) \in Nat
          /\ \A i \in 1..Len(p) : p[i] \in Nat
      BY <2>4, KeyTypes
    <3>2. Sorted(p) /\ EndOf(q, p) /\ (Len(q) = 0 \/ now - q[Len(q)] > Expiration)
      BY <2>1, <2>4 DEF WindowInv, PassedInv, Remembers, Kept, Expired
    <3>3. store'[k] = None
      BY <1>1, <2>4
    <3>4. SUFFICES \A i \in 1..Len(p) : p[i] + d <= now
      BY <1>1, <3>3, <3>4 DEF Remembers
    <3> HIDE DEF p, q, d
    <3>5. q[Len(q)] = p[Len(p)] /\ Len(p) \in 1..Len(p)
      BY <3>1, <3>2 DEF EndOf
    <3>6. ASSUME NEW i \in 1..Len(p) PROVE p[i] <= p[Len(p)]
      BY <3>1, <3>2, <3>5 DEF Sorted
    <3> QED
      BY <3>1, <3>2, <3>5, <3>6, ClockAssumption
  <2> QED
    BY <2>2, <2>3, <2>4
<1> QED
  BY <1>2, <1>3, <1>4, <1>5 DEF WindowInv

LEMMA TickStep ==
  ASSUME WindowInv, Tick
  PROVE  WindowInv' /\ Window!Tick
<1>1. /\ now' = now + 1 /\ now < swept + Expiration + Late
      /\ UNCHANGED <<store, swept, passed, verdict>>
  BY DEF Tick
<1>2. now \in Nat /\ now' > now /\ now' \in Nat
  BY <1>1 DEF WindowInv, ClockInv
<1>3. TypeOK'
  BY <1>1, <1>2 DEF WindowInv, TypeOK
<1>4. ClockInv'
  BY <1>1, ClockAssumption DEF WindowInv, ClockInv
<1>5. ASSUME NEW k \in Key, NEW i \in 1..Len(passed[k])
      PROVE  /\ passed[k][i] <= now'
             /\ passed[k][i] + Limit[k].duration <= now =>
                  passed[k][i] + Limit[k].duration <= now'
  <2>1. /\ passed[k][i] \in Nat /\ Limit[k].duration \in Nat
        /\ passed[k][i] <= now
    BY KeyTypes DEF WindowInv, PassedInv
  <2> QED
    BY <1>2, <2>1
<1>6. PassedInv' /\ AtMostNumPerDuration'
  BY <1>1, <1>5 DEF WindowInv, PassedInv, Sorted, AtMostNumPerDuration
<1>7. ASSUME NEW k \in Key PROVE Remembers(k)'
  BY <1>1, <1>5 DEF WindowInv, Remembers, Kept, EndOf
<1> QED
  BY <1>1, <1>2, <1>3, <1>4, <1>6, <1>7 DEF WindowInv, Window!Tick

-------------------------------------------------------------------------------
\* Every step keeps the invariant and is a step of SlidingWindow, or one that
\* SlidingWindow does not see.
LEMMA WindowStep ==
  ASSUME WindowInv, [Next]_vars
  PROVE  WindowInv' /\ [Window!Next]_(Window!vars)
<1>1. ASSUME NEW k \in Key, Request(k)
      PROVE  WindowInv' /\ (Window!Allow(k) \/ Window!Deny(k))
  BY <1>1, RequestAllowed, RequestTurnedAway DEF Request
<1>2. CASE ClearExpiredItems
  <2>1. UNCHANGED Window!vars
    BY <1>2 DEF ClearExpiredItems, Window!vars
  <2> QED
    BY <1>2, <2>1, ClearStep
<1>3. CASE Tick
  BY <1>3, TickStep DEF Window!Next
<1>4. CASE UNCHANGED vars
  <2>1. UNCHANGED Window!vars
    BY <1>4 DEF vars, Window!vars
  <2>2. WindowInv'
    BY <1>4 DEF vars, WindowInv, TypeOK, ClockInv, PassedInv, Sorted, Remembers,
                Kept, EndOf, AtMostNumPerDuration
  <2> QED
    BY <2>1, <2>2
<1>5. CASE \E k \in Key : Request(k)
  <2>1. PICK k \in Key : Request(k)
    BY <1>5
  <2> QED
    BY <1>1, <2>1 DEF Window!Next
<1> QED
  BY <1>2, <1>3, <1>4, <1>5 DEF Next

THEOREM WindowInvariant == Spec => []WindowInv
<1>1. WindowInv /\ [Next]_vars => WindowInv'
  BY WindowStep
<1> QED
  BY WindowInit, <1>1, PTL DEF Spec

\* The variables keep their types, and a queue its length: never empty, never
\* more than maxRequestNum times (common/rate-limit.go:51).
THEOREM TypeCorrect == Spec => []TypeOK
<1>1. WindowInv => TypeOK
  BY DEF WindowInv
<1> QED
  BY WindowInvariant, <1>1, PTL

\* No key gets more than maxRequestNum requests through in `duration` seconds,
\* although the goroutine deletes queues (common/rate-limit.go:28-70).
THEOREM WindowIsKept == Spec => []AtMostNumPerDuration
<1>1. WindowInv => AtMostNumPerDuration
  BY DEF WindowInv
<1> QED
  BY WindowInvariant, <1>1, PTL

\* The map forgets keys: a queue that is still there had a request within two
\* periods of the goroutine and its delay (common/rate-limit.go:28-42).
THEOREM MapShrinks == Spec => []QuietKeysAreForgotten
<1>1. ASSUME WindowInv PROVE QuietKeysAreForgotten
  <2> SUFFICES ASSUME NEW k \in Key, store[k] # None
               PROVE  now - store[k][Len(store[k])] <= 2 * Expiration + Late
    BY DEF QuietKeysAreForgotten
  <2>1. store[k][Len(store[k])] + Expiration >= swept
    BY <1>1 DEF WindowInv, Remembers
  <2>2. store[k][Len(store[k])] \in Nat
    BY <1>1, KeyTypes
  <2> QED
    BY <1>1, <2>1, <2>2, ClockAssumption DEF WindowInv, ClockInv
<1> QED
  BY WindowInvariant, <1>1, PTL

\* The limiter decides as one that remembers every request it let through: each
\* of its steps is a step of SlidingWindow or invisible there.
THEOREM Implementation == Spec => ImplementsSlidingWindow
<1>1. Init => Window!Init
  BY DEF Init, Window!Init
<1>2. WindowInv /\ [Next]_vars => [Window!Next]_(Window!vars)
  BY WindowStep
<1> QED
  BY <1>1, <1>2, WindowInvariant, PTL
     DEF Spec, ImplementsSlidingWindow, Window!Spec
===============================================================================
