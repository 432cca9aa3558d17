-------------------------------- MODULE SignUp --------------------------------
(***************************************************************************)
(* How accounts come by a mail address and by an identity at GitHub or      *)
(* WeChat: the codes of common/verification.go, the mails of                *)
(* controller/misc.go, and the handlers that check first and write in a     *)
(* later statement (controller/user.go, github.go, wechat.go).              *)
(***************************************************************************)
EXTENDS Integers, FiniteSets, FiniteSetsExt

CONSTANTS
  Email,       \* mail addresses
  GitHubEmail, \* those that GitHub reports with an identity
  Provider,    \* "github", "wechat"
  Identity,    \* what a provider calls its users
  Client,      \* requests under way
  Valid,       \* VerificationValidMinutes, in ticks
  MaxSize,     \* verificationMapMaxSize
  MaxId,       \* bound: how many accounts are ever created
  MaxCode,     \* bound: how many codes are ever drawn
  Horizon,     \* bound: where the clock stops
  None         \* no row, no address, no identity, no name, no code, no request

ASSUME EmailAssumption == GitHubEmail \subseteq Email /\ None \notin Email
ASSUME NoneAssumption == None \notin [code : Nat, time : Nat]
ASSUME BoundAssumption ==
  /\ Valid \in Nat \ {0} /\ MaxSize \in Nat
  /\ MaxId \in Nat /\ MaxCode \in Nat /\ Horizon \in Nat

Purpose == {"v", "r"}   \* EmailVerificationPurpose, PasswordResetPurpose
Id == 1..MaxId

VARIABLES
  users,   \* table users: address, bound identities, generated user name
  lastId,  \* the id given last
  codes,   \* verificationMap
  drawn,   \* how many codes were drawn so far; they are all different
  inbox,   \* the codes that arrived, by purpose and address
  now,     \* the clock
  pc,      \* what each request does next
  arg,     \* what it was sent or has read
  swept,   \* history: when a code was registered last
  used,    \* history: codes with which a password reset was completed
  mixed    \* history: have requests on identities or rows overlapped?

table == <<users, lastId>>
verification == <<codes, drawn, inbox, swept>>
vars == <<table, verification, now, pc, arg, used, mixed>>

User ==
  [email : Email \cup {None},
   bound : [Provider -> Identity \cup {None}],
   name : (Provider \X Nat) \cup {None}]

Place ==
  {"idle", "register code", "mail", "reset", "delete key", "insert",
   "fill to bind", "update", "name", "insert identity"}

Argument ==
  [purpose : Purpose, email : Email, code : 0..MaxCode]
    \cup [id : Id, row : User \cup {None}, email : Email \cup {None},
          bound : [Provider -> Identity \cup {None}]]
    \cup [provider : Provider, identity : Identity,
          name : (Provider \X Nat) \cup {None}]

TypeOK ==
  /\ users \in [Id -> User \cup {None}]
  /\ lastId \in 0..MaxId
  /\ codes \in [Purpose \X Email -> [code : 1..MaxCode, time : Nat] \cup {None}]
  /\ drawn \in 0..MaxCode
  /\ inbox \in [Purpose \X Email -> SUBSET (1..MaxCode)]
  /\ now \in 0..Horizon
  /\ pc \in [Client -> Place]
  /\ arg \in [Client -> Argument \cup {None}]
  /\ swept \in 0..Horizon
  /\ used \subseteq 1..MaxCode
  /\ mixed \in BOOLEAN

NoIdentity == [p \in Provider |-> None]

Init ==
  /\ users = [i \in Id |-> None]
  /\ lastId = 0
  /\ codes = [key \in Purpose \X Email |-> None]
  /\ drawn = 0
  /\ inbox = [key \in Purpose \X Email |-> {}]
  /\ now = 0
  /\ pc = [c \in Client |-> "idle"]
  /\ arg = [c \in Client |-> None]
  /\ swept = 0
  /\ used = {}
  /\ mixed = FALSE

-------------------------------------------------------------------------------
\* The statements of model/user.go.

Rows == {i \in Id : users[i] # None}

\* IsEmailAlreadyTaken and the like: exactly one row has it.
IsEmailAlreadyTaken(e) == Cardinality({i \in Rows : users[i].email = e}) = 1

IsIdentityAlreadyTaken(p, x) ==
  Cardinality({i \in Rows : users[i].bound[p] = x}) = 1

\* User.Insert.  Ids are not given out again; the user name is unique, and the
\* names of password accounts are none of the generated ones.
Insert(row) ==
  /\ lastId < MaxId
  /\ lastId' = lastId + 1
  /\ users' = [users EXCEPT ![lastId + 1] = row]

NameTaken(name) == name # None /\ \E i \in Rows : users[i].name = name

GetMaxUserId == IF Rows = {} THEN 0 ELSE Max(Rows)

Given(new, old) == IF new = None THEN old ELSE new

\* User.Update: the fields of the new row that are set; nothing when the row has
\* gone.
Update(i, email, bound) ==
  users' = [users EXCEPT ![i] =
    IF @ = None THEN None
    ELSE [email |-> Given(email, @.email), name |-> @.name,
          bound |-> [p \in Provider |-> Given(bound[p], @.bound[p])]]]

-------------------------------------------------------------------------------
\* common/verification.go; every function holds the mutex.

Expired(entry) == now - entry.time >= Valid

\* Mutants: the comparison the wrong way round; no sweep.
RemoveUnexpiredPairs(map) ==
  [key \in DOMAIN map |->
     IF map[key] # None /\ Expired(map[key]) THEN map[key] ELSE None]

RemoveNothing(map) == map

RemoveExpiredPairs(map) ==
  [key \in DOMAIN map |->
     IF map[key] # None /\ Expired(map[key]) THEN None ELSE map[key]]

Size(map) == Cardinality({key \in DOMAIN map : map[key] # None})

RegisterVerificationCodeWithKey(key, code) ==
  LET map == [codes EXCEPT ![key] = [code |-> code, time |-> now]]
  IN  /\ codes' = IF Size(map) > MaxSize THEN RemoveExpiredPairs(map) ELSE map
      /\ swept' = now

VerifyCodeWithKey(key, code) ==
  codes[key] # None /\ ~ Expired(codes[key]) /\ codes[key].code = code

-------------------------------------------------------------------------------
\* Requests.

\* Requests that check identities or write rows back.
Writing(place) ==
  place \in {"insert", "fill to bind", "update", "name", "insert identity"}

Proceed(c, place, data) ==
  /\ pc' = [pc EXCEPT ![c] = place]
  /\ arg' = [arg EXCEPT ![c] = data]
  /\ mixed' = \/ mixed
              \/ Writing(place) /\ \E d \in Client \ {c} : Writing(pc[d])

Done(c) == Proceed(c, "idle", None)

\* SendEmailVerification is for addresses nobody has, SendPasswordResetEmail for
\* those somebody has.
Addressed(p, e) == IF p = "r" THEN IsEmailAlreadyTaken(e) ELSE ~ IsEmailAlreadyTaken(e)

SendCode(c, p, e) ==
  /\ pc[c] = "idle"
  /\ Addressed(p, e)
  /\ Proceed(c, "register code", [purpose |-> p, email |-> e, code |-> 0])
  /\ UNCHANGED <<table, verification, now, used>>

RegisterCode(c) ==
  /\ pc[c] = "register code"
  /\ drawn < MaxCode
  /\ drawn' = drawn + 1
  /\ RegisterVerificationCodeWithKey(<<arg[c].purpose, arg[c].email>>, drawn')
  /\ Proceed(c, "mail", [arg[c] EXCEPT !.code = drawn'])
  /\ UNCHANGED <<table, inbox, now, used>>

\* SendEmail, which may fail; the code stays registered.
Mail(c) ==
  /\ pc[c] = "mail"
  /\ inbox' = [inbox EXCEPT ![<<arg[c].purpose, arg[c].email>>] =
                 @ \cup {arg[c].code}]
  /\ Done(c)
  /\ UNCHANGED <<table, codes, drawn, swept, now, used>>

MailFail(c) ==
  /\ pc[c] = "mail"
  /\ Done(c)
  /\ UNCHANGED <<table, verification, now, used>>

\* What may be sent as a code: any that arrived somewhere, or a wrong one.
Known == {0} \cup UNION {inbox[key] : key \in DOMAIN inbox}

\* ResetPassword: check the code, set the passwords, delete the key.
VerifyReset(c, e, code) ==
  /\ pc[c] = "idle"
  /\ VerifyCodeWithKey(<<"r", e>>, code)
  /\ Proceed(c, "reset", [purpose |-> "r", email |-> e, code |-> code])
  /\ UNCHANGED <<table, verification, now, used>>

\* ResetUserPasswordByEmail, in every row that has the address (the passwords are
\* in Accounts).  When it fails the code stays good.
ResetUserPassword(c) ==
  /\ pc[c] = "reset"
  /\ \/ Proceed(c, "delete key", arg[c])
     \/ Done(c)
  /\ UNCHANGED <<table, verification, now, used>>

\* Mutant: the key is not deleted.
DeleteKeyNever(c) ==
  /\ pc[c] = "delete key"
  /\ used' = used \cup {arg[c].code}
  /\ Done(c)
  /\ UNCHANGED <<table, verification, now>>

\* DeleteKey removes what is registered for the address by now.
DeleteKey(c) ==
  /\ pc[c] = "delete key"
  /\ codes' = [codes EXCEPT ![<<"r", arg[c].email>>] = None]
  /\ used' = used \cup {arg[c].code}
  /\ Done(c)
  /\ UNCHANGED <<table, drawn, inbox, swept, now>>

\* Register, while EmailVerificationEnabled: check the code, insert.
VerifyRegister(c, e, code) ==
  /\ pc[c] = "idle"
  /\ VerifyCodeWithKey(<<"v", e>>, code)
  /\ Proceed(c, "insert", [purpose |-> "v", email |-> e, code |-> code])
  /\ UNCHANGED <<table, verification, now, used>>

InsertRegistered(c) ==
  /\ pc[c] = "insert"
  /\ \/ Insert([email |-> arg[c].email, bound |-> NoIdentity, name |-> None])
     \/ UNCHANGED table   \* the name is taken
  /\ Done(c)
  /\ UNCHANGED <<verification, now, used>>

\* The rest of a bind: what to write into which row.
Bind(c, i, email, bound) ==
  Proceed(c, "fill to bind",
    [id |-> i, row |-> None, email |-> email, bound |-> bound])

\* Mutant: the code is not checked.
EmailBindUnchecked(c, i, e, code) ==
  /\ pc[c] = "idle"
  /\ Bind(c, i, e, NoIdentity)
  /\ UNCHANGED <<table, verification, now, used>>

\* EmailBind: check the code, read the row, write it back with the address.
EmailBind(c, i, e, code) ==
  /\ pc[c] = "idle"
  /\ VerifyCodeWithKey(<<"v", e>>, code)
  /\ Bind(c, i, e, NoIdentity)
  /\ UNCHANGED <<table, verification, now, used>>

\* Mutant: the identity is not looked up.
IdentityBindUnchecked(c, i, p, x) ==
  /\ pc[c] = "idle"
  /\ Bind(c, i, None, [NoIdentity EXCEPT ![p] = x])
  /\ UNCHANGED <<table, verification, now, used>>

\* GitHubBind and WeChatBind: look the identity up, read the row, write it back.
IdentityBind(c, i, p, x) ==
  /\ pc[c] = "idle"
  /\ ~ IsIdentityAlreadyTaken(p, x)
  /\ Bind(c, i, None, [NoIdentity EXCEPT ![p] = x])
  /\ UNCHANGED <<table, verification, now, used>>

FillUserById(c) ==
  /\ pc[c] = "fill to bind"
  /\ Proceed(c, "update", [arg[c] EXCEPT !.row = users[arg[c].id]])
  /\ UNCHANGED <<table, verification, now, used>>

\* User.Update(false) with the whole row as it was read.
UpdateBound(c) ==
  LET a == arg[c]
      read == IF a.row = None THEN [email |-> None, bound |-> NoIdentity]
              ELSE [email |-> a.row.email, bound |-> a.row.bound]
  IN  /\ pc[c] = "update"
      /\ Update(a.id, Given(a.email, read.email),
           [p \in Provider |-> Given(a.bound[p], read.bound[p])])
      /\ Done(c)
      /\ UNCHANGED <<lastId, verification, now, used>>

\* GitHubOAuth and WeChatAuth of somebody who is not logged in.  An identity that
\* is taken logs in, which changes no row; one that is free gets an account:
\* look it up, make a name, insert.
IdentityLogin(c, p, x) ==
  /\ pc[c] = "idle"
  /\ ~ IsIdentityAlreadyTaken(p, x)
  /\ Proceed(c, "name", [provider |-> p, identity |-> x, name |-> None])
  /\ UNCHANGED <<table, verification, now, used>>

MakeName(c) ==
  /\ pc[c] = "name"
  /\ Proceed(c, "insert identity",
       [arg[c] EXCEPT !.name = <<arg[c].provider, GetMaxUserId + 1>>])
  /\ UNCHANGED <<table, verification, now, used>>

\* GitHub may report an address, which is stored as it is.  A name that is taken
\* is answered with an error.
InsertIdentity(c, e) ==
  LET a == arg[c]
  IN  /\ pc[c] = "insert identity"
      /\ e \in {None} \cup (IF a.provider = "github" THEN GitHubEmail ELSE {})
      /\ IF NameTaken(a.name) THEN UNCHANGED table
         ELSE Insert([email |-> e, name |-> a.name,
                      bound |-> [NoIdentity EXCEPT ![a.provider] = a.identity]])
      /\ Done(c)
      /\ UNCHANGED <<verification, now, used>>

-------------------------------------------------------------------------------
\* DeleteUser, DeleteSelf, ManageUser (Accounts): the row goes.
DeleteUser(i) ==
  /\ users[i] # None
  /\ users' = [users EXCEPT ![i] = None]
  /\ UNCHANGED <<lastId, verification, now, pc, arg, used, mixed>>

Tick ==
  /\ now < Horizon
  /\ now' = now + 1
  /\ UNCHANGED <<table, verification, pc, arg, used, mixed>>

\* The map of codes is in memory, and so are the requests.
Restart ==
  /\ codes' = [key \in Purpose \X Email |-> None]
  /\ pc' = [c \in Client |-> "idle"]
  /\ arg' = [c \in Client |-> None]
  /\ UNCHANGED <<table, drawn, inbox, swept, now, used, mixed>>

Next ==
  \/ \E c \in Client :
       \/ \E p \in Purpose, e \in Email : SendCode(c, p, e)
       \/ RegisterCode(c)
       \/ Mail(c)
       \/ MailFail(c)
       \/ \E e \in Email, code \in Known :
            \/ VerifyReset(c, e, code)
            \/ VerifyRegister(c, e, code)
            \/ \E i \in 1..lastId : EmailBind(c, i, e, code)
       \/ ResetUserPassword(c)
       \/ DeleteKey(c)
       \/ InsertRegistered(c)
       \/ \E p \in Provider, x \in Identity :
            \/ \E i \in 1..lastId : IdentityBind(c, i, p, x)
            \/ IdentityLogin(c, p, x)
       \/ FillUserById(c)
       \/ UpdateBound(c)
       \/ MakeName(c)
       \/ \E e \in Email \cup {None} : InsertIdentity(c, e)
  \/ \E i \in Id : DeleteUser(i)
  \/ Tick
  \/ Restart

Spec == Init /\ [][Next]_vars

-------------------------------------------------------------------------------
\* Properties.

\* An address in the table was proved by a code that arrived there, or comes from
\* GitHub.
EmailsWereProved ==
  \A i \in Rows :
    users[i].email # None /\ users[i].email \notin GitHubEmail
      => inbox[<<"v", users[i].email>>] # {}

\* Once a reset was answered, its code is good for no request that comes later,
\* whatever was mailed, failed or restarted in between.
ResetCodeIsSpent ==
  [][\A c \in Client :
       pc[c] = "idle" /\ pc'[c] = "reset" => arg'[c].code \notin used]_vars

\* A code is good until it expires, another one is registered for the same
\* purpose and address, a reset for the address is completed, or the process
\* restarts: the sweep removes nothing else.
CodesStayGood ==
  [][\A key \in Purpose \X Email :
       codes[key] # None /\ ~ Expired(codes[key]) /\ codes'[key] = None
         => \/ \E c \in Client : pc[c] = "delete key" /\ key = <<"r", arg[c].email>>
            \/ \A c \in Client : pc'[c] = "idle"]_vars

\* The map outgrows MaxSize only with codes that were good when it was swept.
MapIsSwept ==
  Size(codes) > MaxSize =>
    \A key \in DOMAIN codes : codes[key] # None => swept - codes[key].time < Valid

\* While requests that check identities or write rows come one after the other,
\* no identity is bound to two accounts.
OneAccountPerIdentity ==
  mixed \/ \A i, j \in Rows, p \in Provider :
             users[i].bound[p] = users[j].bound[p] /\ users[i].bound[p] # None
               => i = j
===============================================================================
