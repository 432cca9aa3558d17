----------------------------- MODULE SignUpProofs -----------------------------
(***************************************************************************)
(* Proofs about SignUp for every set of addresses, identities and requests, *)
(* every size of the map and every validity of a code.                      *)
(***************************************************************************)
EXTENDS SignUp, FiniteSetTheorems, WellFoundedInduction, TLAPS

Key == Purpose \X Email
Entry == [code : 1..MaxCode, time : Nat]
Bound == [Provider -> Identity \cup {None}]

CodeArgument == [purpose : Purpose, email : Email, code : 0..MaxCode]
BindArgument ==
  [id : Id, row : User \cup {None}, email : Email \cup {None}, bound : Bound]
IdentityArgument ==
  [provider : Provider, identity : Identity, name : (Provider \X Nat) \cup {None}]

\* What a request holds at its place.
Fits(place, a) ==
  /\ place \in {"register code", "mail", "reset", "delete key", "insert"} =>
       a \in CodeArgument
  /\ place \in {"mail", "reset", "delete key"} => a.code # 0
  /\ place \in {"reset", "delete key"} => a.purpose = "r"
  /\ place \in {"fill to bind", "update"} => a \in BindArgument
  /\ place \in {"name", "insert identity"} => a \in IdentityArgument

ArgumentInv == \A c \in Client : Fits(pc[c], arg[c])

TypeInv == TypeOK /\ ArgumentInv

\* A set of ids that is not empty has a greatest element, which GetMaxUserId finds.
LEMMA MaxUserId == TypeOK => GetMaxUserId \in Nat
<1> SUFFICES ASSUME TypeOK, Rows # {} PROVE Max(Rows) \in Nat
  BY DEF GetMaxUserId
<1>1. MaxId \in Nat /\ \A i \in Rows : i \in Nat /\ i <= MaxId
  BY BoundAssumption DEF Rows, Id
<1> DEFINE below == {MaxId - i : i \in Rows}
           less == {pair \in Nat \X Nat : pair[1] < pair[2]}
<1>2. below \subseteq Nat
  BY <1>1
<1>3. below # {}
  OBVIOUS
<1>4. IsWellFoundedOn(less, Nat)
  BY NatLessThanWellFounded DEF OpToRel
<1>5. PICK m \in below : \A n \in below : ~ (<<n, m>> \in less)
  <2> HIDE DEF below
  <2> QED
    BY <1>2, <1>3, <1>4, WFMin
<1>6. \A n \in below : ~ (n < m)
  BY <1>2, <1>5
<1>7. PICK i \in Rows : \A j \in Rows : i >= j
  <2>1. PICK i \in Rows : m = MaxId - i
    OBVIOUS
  <2>2. ASSUME NEW j \in Rows PROVE i >= j
    <3>1. MaxId - j \in below
      OBVIOUS
    <3>2. ~ (MaxId - j < m)
      BY <1>6, <3>1
    <3> HIDE DEF below
    <3> QED
      BY <1>1, <2>1, <3>2
  <2> QED
    BY <2>2
<1>8. Max(Rows) \in Rows
  BY <1>7 DEF Max
<1> QED
  BY <1>1, <1>8

LEMMA TypeInit == Init => TypeInv
<1> SUFFICES ASSUME Init PROVE TypeInv
  OBVIOUS
<1>1. /\ users \in [Id -> User \cup {None}]
      /\ codes \in [Key -> Entry \cup {None}]
      /\ inbox \in [Key -> SUBSET (1..MaxCode)]
      /\ arg \in [Client -> Argument \cup {None}]
  BY DEF Init, Key
<1>2. pc \in [Client -> Place] /\ ArgumentInv
  BY DEF Init, Place, ArgumentInv, Fits
<1>3. /\ lastId \in 0..MaxId /\ drawn \in 0..MaxCode
      /\ now \in 0..Horizon /\ swept \in 0..Horizon
      /\ used \subseteq 1..MaxCode
  BY BoundAssumption DEF Init
<1>4. mixed \in BOOLEAN
  BY DEF Init
<1> QED
  BY <1>1, <1>2, <1>3, <1>4 DEF TypeInv, TypeOK, Key, Entry

LEMMA ProceedType ==
  ASSUME TypeInv, NEW c \in Client, NEW place \in Place, NEW a \in Argument \cup {None},
         Fits(place, a), Proceed(c, place, a)
  PROVE  /\ pc' \in [Client -> Place]
         /\ arg' \in [Client -> Argument \cup {None}]
         /\ mixed' \in BOOLEAN
         /\ ArgumentInv'
<1>1. /\ pc' \in [Client -> Place]
      /\ arg' \in [Client -> Argument \cup {None}]
  BY DEF TypeInv, TypeOK, Proceed
<1>2. mixed' \in BOOLEAN
  BY DEF TypeInv, TypeOK, Proceed
<1>3. /\ pc'[c] = place /\ arg'[c] = a
      /\ \A d \in Client \ {c} : pc'[d] = pc[d] /\ arg'[d] = arg[d]
  BY DEF TypeInv, TypeOK, Proceed
<1>4. ArgumentInv'
  BY <1>3 DEF ArgumentInv, TypeInv
<1> QED
  BY <1>1, <1>2, <1>4

LEMMA DoneType ==
  ASSUME TypeInv, NEW c \in Client, Done(c)
  PROVE  /\ pc' \in [Client -> Place]
         /\ arg' \in [Client -> Argument \cup {None}]
         /\ mixed' \in BOOLEAN
         /\ ArgumentInv'
BY ProceedType DEF Done, Place, Fits

LEMMA ArgumentTypes ==
  /\ CodeArgument \subseteq Argument
  /\ BindArgument \subseteq Argument
  /\ IdentityArgument \subseteq Argument
BY DEF CodeArgument, BindArgument, IdentityArgument, Bound, Argument

\* The map after one entry is made, and swept if it is too large.
LEMMA RegisterType ==
  ASSUME TypeInv, NEW key \in Key, NEW code \in 1..MaxCode,
         RegisterVerificationCodeWithKey(key, code)
  PROVE  codes' \in [Key -> Entry \cup {None}] /\ swept' \in 0..Horizon
<1> DEFINE map == [codes EXCEPT ![key] = [code |-> code, time |-> now]]
<1>1. map \in [Key -> Entry \cup {None}]
  BY DEF TypeInv, TypeOK, Key, Entry
<1>2. DOMAIN map = Key
  BY <1>1
<1>3. codes' \in {map, RemoveExpiredPairs(map)}
  BY DEF RegisterVerificationCodeWithKey
<1> HIDE DEF map
<1>4. RemoveExpiredPairs(map) \in [Key -> Entry \cup {None}]
  BY <1>1, <1>2 DEF RemoveExpiredPairs
<1> QED
  BY <1>1, <1>3, <1>4 DEF RegisterVerificationCodeWithKey, TypeInv, TypeOK

LEMMA InsertType ==
  ASSUME TypeInv, NEW row \in User, Insert(row)
  PROVE  users' \in [Id -> User \cup {None}] /\ lastId' \in 0..MaxId
BY BoundAssumption DEF TypeInv, TypeOK, Insert, Id

LEMMA UpdateType ==
  ASSUME TypeInv, NEW i \in Id, NEW email \in Email \cup {None}, NEW bound \in Bound,
         Update(i, email, bound)
  PROVE  users' \in [Id -> User \cup {None}]
<1>1. users[i] # None => users[i] \in User
  BY DEF TypeInv, TypeOK
<1> QED
  BY <1>1 DEF Update, TypeInv, TypeOK, User, Given, Bound

LEMMA NoIdentityType ==
  /\ NoIdentity \in Bound
  /\ \A p \in Provider, x \in Identity : [NoIdentity EXCEPT ![p] = x] \in Bound
BY DEF NoIdentity, Bound

LEMMA VerifiedCode ==
  ASSUME TypeInv, NEW key \in Key, NEW code, VerifyCodeWithKey(key, code)
  PROVE  code \in 1..MaxCode
BY DEF VerifyCodeWithKey, TypeInv, TypeOK, Key

LEMMA NewCode ==
  ASSUME NEW a \in CodeArgument, NEW code \in 1..MaxCode
  PROVE  /\ [a EXCEPT !.code = code] \in CodeArgument
         /\ [a EXCEPT !.code = code].code = code
         /\ [a EXCEPT !.code = code].purpose = a.purpose
         /\ [a EXCEPT !.code = code].email = a.email
BY BoundAssumption DEF CodeArgument

\* The actions that touch the map of codes and the mails.
LEMMA CodeType ==
  ASSUME TypeInv, NEW c \in Client,
         \/ \E p \in Purpose, e \in Email : SendCode(c, p, e)
         \/ RegisterCode(c) \/ Mail(c) \/ MailFail(c)
         \/ \E e \in Email, code \in Known : VerifyReset(c, e, code) \/ VerifyRegister(c, e, code)
         \/ ResetUserPassword(c) \/ DeleteKey(c)
  PROVE  TypeInv'
<1> USE DEF table, verification
<1>1. ASSUME NEW p \in Purpose, NEW e \in Email, SendCode(c, p, e) PROVE TypeInv'
  <2>1. [purpose |-> p, email |-> e, code |-> 0] \in CodeArgument
    BY BoundAssumption DEF CodeArgument
  <2> QED
    BY <1>1, <2>1, ProceedType, ArgumentTypes
    DEF SendCode, TypeInv, TypeOK, Place, Fits
<1>2. CASE RegisterCode(c)
  <2> DEFINE a == [arg[c] EXCEPT !.code = drawn']
  <2>1. arg[c] \in CodeArgument /\ pc[c] = "register code"
    BY <1>2 DEF RegisterCode, TypeInv, ArgumentInv, Fits
  <2>2. /\ drawn < MaxCode /\ drawn' = drawn + 1
        /\ RegisterVerificationCodeWithKey(<<arg[c].purpose, arg[c].email>>, drawn')
        /\ Proceed(c, "mail", a)
        /\ UNCHANGED <<table, inbox, now, used>>
    BY <1>2, Zenon DEF RegisterCode
  <2>3. drawn' \in 1..MaxCode
    BY <2>2, BoundAssumption DEF TypeInv, TypeOK
  <2>4. <<arg[c].purpose, arg[c].email>> \in Key
    BY <2>1 DEF CodeArgument, Key
  <2>5. codes' \in [Key -> Entry \cup {None}] /\ swept' \in 0..Horizon
    BY <2>2, <2>3, <2>4, RegisterType
  <2>6. a \in CodeArgument /\ a.code = drawn'
    BY <2>1, <2>3, NewCode
  <2> HIDE DEF a
  <2>7. Fits("mail", a) /\ a \in Argument
    BY <2>3, <2>6, ArgumentTypes DEF Fits
  <2>8. /\ pc' \in [Client -> Place]
        /\ arg' \in [Client -> Argument \cup {None}]
        /\ mixed' \in BOOLEAN
        /\ ArgumentInv'
    BY <2>2, <2>7, ProceedType DEF Place
  <2> QED
    BY <2>2, <2>3, <2>5, <2>8 DEF TypeInv, TypeOK, Key, Entry
<1>3. CASE Mail(c)
  <2>1. arg[c] \in CodeArgument /\ arg[c].code # 0
    BY <1>3 DEF Mail, TypeInv, ArgumentInv, Fits
  <2>2. <<arg[c].purpose, arg[c].email>> \in Key /\ arg[c].code \in 1..MaxCode
    BY <2>1, BoundAssumption DEF CodeArgument, Key
  <2> QED
    BY <1>3, <2>2, DoneType DEF Mail, TypeInv, TypeOK, Key
<1>4. CASE MailFail(c)
  BY <1>4, DoneType DEF MailFail, TypeInv, TypeOK
<1>5. ASSUME NEW e \in Email, NEW code, VerifyReset(c, e, code) PROVE TypeInv'
  <2>1. code \in 1..MaxCode
    BY <1>5, VerifiedCode DEF VerifyReset, Key, Purpose
  <2> DEFINE a == [purpose |-> "r", email |-> e, code |-> code]
  <2>2. a \in CodeArgument /\ a.code # 0 /\ a.purpose = "r"
    BY <2>1 DEF CodeArgument, Purpose
  <2>3. Proceed(c, "reset", a) /\ UNCHANGED <<table, verification, now, used>>
    BY <1>5 DEF VerifyReset
  <2> HIDE DEF a
  <2> QED
    BY <2>2, <2>3, ProceedType, ArgumentTypes DEF TypeInv, TypeOK, Place, Fits
<1>6. ASSUME NEW e \in Email, NEW code, VerifyRegister(c, e, code) PROVE TypeInv'
  <2>1. code \in 1..MaxCode
    BY <1>6, VerifiedCode DEF VerifyRegister, Key, Purpose
  <2> DEFINE a == [purpose |-> "v", email |-> e, code |-> code]
  <2>2. a \in CodeArgument
    BY <2>1 DEF CodeArgument, Purpose
  <2>3. Proceed(c, "insert", a) /\ UNCHANGED <<table, verification, now, used>>
    BY <1>6 DEF VerifyRegister
  <2> HIDE DEF a
  <2> QED
    BY <2>2, <2>3, ProceedType, ArgumentTypes DEF TypeInv, TypeOK, Place, Fits
<1>7. CASE ResetUserPassword(c)
  <2>1. Fits("reset", arg[c]) /\ Fits("delete key", arg[c]) /\ arg[c] \in Argument
    BY <1>7, ArgumentTypes DEF ResetUserPassword, TypeInv, ArgumentInv, Fits
  <2> QED
    BY <1>7, <2>1, ProceedType, DoneType DEF ResetUserPassword, TypeInv, TypeOK, Place
<1>8. CASE DeleteKey(c)
  <2>1. arg[c] \in CodeArgument /\ arg[c].code # 0
    BY <1>8 DEF DeleteKey, TypeInv, ArgumentInv, Fits
  <2>2. arg[c].code \in 1..MaxCode
    BY <2>1, BoundAssumption DEF CodeArgument
  <2> QED
    BY <1>8, <2>2, DoneType DEF DeleteKey, TypeInv, TypeOK
<1> QED
  BY <1>1, <1>2, <1>3, <1>4, <1>5, <1>6, <1>7, <1>8

\* The actions that write rows of the table of accounts.
RowAction(c) ==
  \/ InsertRegistered(c)
  \/ \E e \in Email, code \in Known, i \in 1..lastId : EmailBind(c, i, e, code)
  \/ \E p \in Provider, x \in Identity :
       \/ \E i \in 1..lastId : IdentityBind(c, i, p, x)
       \/ IdentityLogin(c, p, x)
  \/ FillUserById(c) \/ UpdateBound(c) \/ MakeName(c)
  \/ \E e \in Email \cup {None} : InsertIdentity(c, e)

LEMMA KnownIds == TypeOK => 1..lastId \subseteq Id
BY BoundAssumption DEF TypeOK, Id

LEMMA BindType ==
  ASSUME TypeInv, NEW c \in Client, NEW i \in Id, NEW email \in Email \cup {None},
         NEW bound \in Bound, Bind(c, i, email, bound),
         UNCHANGED <<table, verification, now, used>>
  PROVE  TypeInv'
<1> DEFINE a == [id |-> i, row |-> None, email |-> email, bound |-> bound]
<1>1. a \in BindArgument
  BY DEF BindArgument
<1>2. Fits("fill to bind", a) /\ a \in Argument
  BY <1>1, ArgumentTypes DEF Fits
<1>3. Proceed(c, "fill to bind", a)
  BY DEF Bind
<1> HIDE DEF a
<1> QED
  BY <1>2, <1>3, ProceedType DEF Place, TypeInv, TypeOK, table, verification

\* The row as a bind writes it back.
ReadFields(a) ==
  IF a.row = None THEN [email |-> None, bound |-> NoIdentity]
  ELSE [email |-> a.row.email, bound |-> a.row.bound]

WrittenEmail(a) == Given(a.email, ReadFields(a).email)
WrittenBound(a) == [p \in Provider |-> Given(a.bound[p], ReadFields(a).bound[p])]

LEMMA WrittenType ==
  ASSUME NEW a \in BindArgument
  PROVE  WrittenEmail(a) \in Email \cup {None} /\ WrittenBound(a) \in Bound
BY NoIdentityType
DEF BindArgument, WrittenEmail, WrittenBound, ReadFields, Given, Bound, User

LEMMA UpdateBoundIs ==
  ASSUME NEW c \in Client, UpdateBound(c)
  PROVE  /\ pc[c] = "update"
         /\ Update(arg[c].id, WrittenEmail(arg[c]), WrittenBound(arg[c]))
         /\ Done(c)
         /\ UNCHANGED <<lastId, verification, now, used>>
BY DEF UpdateBound, WrittenEmail, WrittenBound, ReadFields

\* What FillUserById and MakeName change in an argument.
LEMMA FilledType ==
  ASSUME NEW a \in BindArgument, NEW row \in User \cup {None}
  PROVE  /\ [a EXCEPT !.row = row] \in BindArgument
         /\ [a EXCEPT !.row = row].row = row
         /\ [a EXCEPT !.row = row].id = a.id
         /\ [a EXCEPT !.row = row].email = a.email
         /\ [a EXCEPT !.row = row].bound = a.bound
BY DEF BindArgument

LEMMA NamedType ==
  ASSUME NEW a \in IdentityArgument, NEW name \in Provider \X Nat
  PROVE  /\ [a EXCEPT !.name = name] \in IdentityArgument
         /\ [a EXCEPT !.name = name].provider = a.provider
         /\ [a EXCEPT !.name = name].identity = a.identity
BY DEF IdentityArgument

LEMMA RowType ==
  ASSUME TypeInv, NEW c \in Client, RowAction(c)
  PROVE  TypeInv'
<1> USE DEF table, verification
<1>1. CASE InsertRegistered(c)
  <2>1. arg[c] \in CodeArgument
    BY <1>1 DEF InsertRegistered, TypeInv, ArgumentInv, Fits
  <2>2. [email |-> arg[c].email, bound |-> NoIdentity, name |-> None] \in User
    BY <2>1, NoIdentityType DEF CodeArgument, User, Bound
  <2> QED
    BY <1>1, <2>2, InsertType, DoneType DEF InsertRegistered, TypeInv, TypeOK
<1>2. ASSUME NEW e \in Email, NEW code, NEW i \in 1..lastId, EmailBind(c, i, e, code)
      PROVE  TypeInv'
  BY <1>2, KnownIds, BindType, NoIdentityType DEF EmailBind, TypeInv
<1>3. ASSUME NEW p \in Provider, NEW x \in Identity, NEW i \in 1..lastId,
             IdentityBind(c, i, p, x)
      PROVE  TypeInv'
  <2> DEFINE bound == [NoIdentity EXCEPT ![p] = x]
  <2>1. bound \in Bound /\ i \in Id
    BY KnownIds, NoIdentityType DEF TypeInv
  <2>2. Bind(c, i, None, bound) /\ UNCHANGED <<table, verification, now, used>>
    BY <1>3 DEF IdentityBind
  <2> HIDE DEF bound
  <2> QED
    BY <2>1, <2>2, BindType
<1>4. ASSUME NEW p \in Provider, NEW x \in Identity, IdentityLogin(c, p, x)
      PROVE  TypeInv'
  <2> DEFINE a == [provider |-> p, identity |-> x, name |-> None]
  <2>1. a \in IdentityArgument
    BY DEF IdentityArgument
  <2>2. Proceed(c, "name", a) /\ UNCHANGED <<table, verification, now, used>>
    BY <1>4 DEF IdentityLogin
  <2> HIDE DEF a
  <2> QED
    BY <2>1, <2>2, ProceedType, ArgumentTypes DEF Place, Fits, TypeInv, TypeOK
<1>5. CASE FillUserById(c)
  <2> DEFINE a == [arg[c] EXCEPT !.row = users[arg[c].id]]
  <2>1. arg[c] \in BindArgument
    BY <1>5 DEF FillUserById, TypeInv, ArgumentInv, Fits
  <2>2. users[arg[c].id] \in User \cup {None}
    BY <2>1 DEF BindArgument, TypeInv, TypeOK
  <2>3. a \in BindArgument
    BY <2>1, <2>2, FilledType
  <2>4. Proceed(c, "update", a) /\ UNCHANGED <<table, verification, now, used>>
    BY <1>5, Zenon DEF FillUserById
  <2> HIDE DEF a
  <2> QED
    BY <2>3, <2>4, ProceedType, ArgumentTypes DEF Place, Fits, TypeInv, TypeOK
<1>6. CASE UpdateBound(c)
  <2>1. arg[c] \in BindArgument
    BY <1>6, UpdateBoundIs DEF TypeInv, ArgumentInv, Fits
  <2>2. arg[c].id \in Id
    BY <2>1 DEF BindArgument
  <2>3. users' \in [Id -> User \cup {None}]
    BY <1>6, <2>1, <2>2, UpdateBoundIs, WrittenType, UpdateType
  <2> QED
    BY <1>6, <2>3, UpdateBoundIs, DoneType DEF TypeInv, TypeOK
<1>7. CASE MakeName(c)
  <2> DEFINE name == <<arg[c].provider, GetMaxUserId + 1>>
             a == [arg[c] EXCEPT !.name = name]
  <2>1. arg[c] \in IdentityArgument
    BY <1>7 DEF MakeName, TypeInv, ArgumentInv, Fits
  <2>2. name \in Provider \X Nat
    BY <2>1, MaxUserId DEF IdentityArgument, TypeInv
  <2>3. a \in IdentityArgument
    BY <2>1, <2>2, NamedType
  <2>4. Proceed(c, "insert identity", a) /\ UNCHANGED <<table, verification, now, used>>
    BY <1>7, Zenon DEF MakeName
  <2> HIDE DEF a
  <2> QED
    BY <2>3, <2>4, ProceedType, ArgumentTypes DEF Place, Fits, TypeInv, TypeOK
<1>8. ASSUME NEW e \in Email \cup {None}, InsertIdentity(c, e) PROVE TypeInv'
  <2> DEFINE row == [email |-> e, name |-> arg[c].name,
                     bound |-> [NoIdentity EXCEPT ![arg[c].provider] = arg[c].identity]]
  <2>1. arg[c] \in IdentityArgument
    BY <1>8 DEF InsertIdentity, TypeInv, ArgumentInv, Fits
  <2>2. row \in User
    BY <2>1, NoIdentityType DEF IdentityArgument, User, Bound
  <2>3. /\ UNCHANGED table \/ Insert(row)
        /\ Done(c) /\ UNCHANGED <<verification, now, used>>
    BY <1>8, Zenon DEF InsertIdentity
  <2> HIDE DEF row
  <2> QED
    BY <2>2, <2>3, InsertType, DoneType DEF TypeInv, TypeOK
<1> QED
  BY <1>1, <1>2, <1>3, <1>4, <1>5, <1>6, <1>7, <1>8 DEF RowAction

LEMMA OtherType ==
  ASSUME TypeInv, (\E i \in Id : DeleteUser(i)) \/ Tick \/ Restart
  PROVE  TypeInv'
<1> USE DEF table, verification
<1>1. ASSUME NEW i \in Id, DeleteUser(i) PROVE TypeInv'
  BY <1>1 DEF DeleteUser, TypeInv, TypeOK, ArgumentInv
<1>2. CASE Tick
  <2>1. now' \in 0..Horizon
    BY <1>2, BoundAssumption DEF Tick, TypeInv, TypeOK
  <2> QED
    BY <1>2, <2>1 DEF Tick, TypeInv, TypeOK, ArgumentInv
<1>3. CASE Restart
  BY <1>3 DEF Restart, TypeInv, TypeOK, ArgumentInv, Fits, Place
<1> QED
  BY <1>1, <1>2, <1>3

CodeAction(c) ==
  \/ \E p \in Purpose, e \in Email : SendCode(c, p, e)
  \/ RegisterCode(c) \/ Mail(c) \/ MailFail(c)
  \/ \E e \in Email, code \in Known : VerifyReset(c, e, code) \/ VerifyRegister(c, e, code)
  \/ ResetUserPassword(c) \/ DeleteKey(c)

\* Who takes a step.
LEMMA Steps ==
  Next => \/ \E c \in Client : CodeAction(c) \/ RowAction(c)
          \/ (\E i \in Id : DeleteUser(i)) \/ Tick \/ Restart
<1>1. ASSUME NEW c \in Client, NEW e \in Email, NEW code \in Known, NEW i \in 1..lastId,
             EmailBind(c, i, e, code)
      PROVE  RowAction(c)
  BY <1>1 DEF RowAction
<1> QED
  BY <1>1 DEF Next, CodeAction, RowAction

LEMMA TypeStep == TypeInv /\ [Next]_vars => TypeInv'
<1> SUFFICES ASSUME TypeInv, [Next]_vars PROVE TypeInv'
  OBVIOUS
<1>1. CASE UNCHANGED vars
  BY <1>1 DEF vars, table, verification, TypeInv, TypeOK, ArgumentInv
<1>2. CASE Next
  BY <1>2, Steps, CodeType, RowType, OtherType DEF CodeAction
<1> QED
  BY <1>1, <1>2

LEMMA TypeInvariance == Spec => []TypeInv
BY TypeInit, TypeStep, PTL DEF Spec

\* Rows, codes, mails and requests have their types in every execution (TypeOK).
THEOREM TypeCorrect == Spec => []TypeOK
<1>1. TypeInv => TypeOK
  BY DEF TypeInv
<1> QED
  BY <1>1, TypeInvariance, PTL

-------------------------------------------------------------------------------
\* Codes are all different: one that is registered for a key was mailed to nobody
\* else, is registered for no other key, and was not used before.

Carries(place) == place \in {"mail", "reset", "delete key"}
KeyOf(a) == <<a.purpose, a.email>>

CodeInv ==
  /\ used \subseteq 1..drawn
  /\ \A k \in Key : inbox[k] \subseteq 1..drawn
  /\ \A k \in Key : codes[k] # None =>
       codes[k].code \in 1..drawn /\ codes[k].code \notin used
  /\ \A k, l \in Key : codes[k] # None =>
       /\ codes[k].code \in inbox[l] => l = k
       /\ codes[l] # None /\ codes[l].code = codes[k].code => l = k
  /\ \A c \in Client : Carries(pc[c]) =>
       /\ arg[c].code \in 1..drawn
       /\ \A k \in Key :
            codes[k] # None /\ codes[k].code = arg[c].code => k = KeyOf(arg[c])

LEMMA Idle ==
  ~ Carries("idle") /\ ~ Carries("register code") /\ ~ Carries("insert")
BY DEF Carries

LEMMA CodeInit == Init => CodeInv
BY DEF Init, CodeInv, Carries, Key

\* Requests go on with the code they had, or with one that is registered for them.
LEMMA CodesShrink ==
  ASSUME TypeInv, CodeInv, UNCHANGED <<drawn, inbox, used>>,
         \A k \in Key : codes'[k] \in {codes[k], None},
         \A d \in Client : Carries(pc'[d]) =>
           \/ Carries(pc[d]) /\ arg'[d] = arg[d]
           \/ LET k == KeyOf(arg'[d])
              IN  k \in Key /\ codes[k] # None /\ codes[k].code = arg'[d].code
  PROVE  CodeInv'
<1>1. /\ used' \subseteq 1..drawn'
      /\ \A k \in Key : inbox'[k] \subseteq 1..drawn'
      /\ \A k \in Key : codes'[k] # None =>
           codes'[k].code \in 1..drawn' /\ codes'[k].code \notin used'
  BY DEF CodeInv
<1>2. ASSUME NEW k \in Key, NEW l \in Key, codes'[k] # None
      PROVE  /\ codes'[k].code \in inbox'[l] => l = k
             /\ codes'[l] # None /\ codes'[l].code = codes'[k].code => l = k
  BY <1>2 DEF CodeInv
<1>3. ASSUME NEW d \in Client, Carries(pc'[d])
      PROVE  /\ arg'[d].code \in 1..drawn'
             /\ \A k \in Key :
                  codes'[k] # None /\ codes'[k].code = arg'[d].code => k = KeyOf(arg'[d])
  BY <1>3 DEF CodeInv
<1> QED
  BY <1>1, <1>2, <1>3 DEF CodeInv

\* What a step of one request leaves alone.
LEMMA Others ==
  ASSUME TypeInv, NEW c \in Client, NEW place, NEW a, Proceed(c, place, a)
  PROVE  /\ pc'[c] = place /\ arg'[c] = a
         /\ \A d \in Client \ {c} : pc'[d] = pc[d] /\ arg'[d] = arg[d]
BY DEF Proceed, TypeInv, TypeOK

LEMMA RowsNotCodes ==
  ASSUME TypeInv, NEW c \in Client, RowAction(c)
  PROVE  /\ UNCHANGED <<verification, now, used>>
         /\ ~ Carries(pc'[c])
         /\ \A d \in Client \ {c} : pc'[d] = pc[d] /\ arg'[d] = arg[d]
<1>1. \E place \in Place : \E a : Proceed(c, place, a) /\ ~ Carries(place)
  <2> USE DEF Place, Carries
  <2>1. CASE InsertRegistered(c)
    BY <2>1 DEF InsertRegistered, Done
  <2>2. ASSUME NEW i, NEW email, NEW bound, Bind(c, i, email, bound)
        PROVE  \E place \in Place : \E a : Proceed(c, place, a) /\ ~ Carries(place)
    BY <2>2 DEF Bind
  <2>3. ASSUME NEW p, NEW x, IdentityLogin(c, p, x)
        PROVE  \E place \in Place : \E a : Proceed(c, place, a) /\ ~ Carries(place)
    BY <2>3 DEF IdentityLogin
  <2>4. CASE FillUserById(c)
    BY <2>4, Zenon DEF FillUserById
  <2>5. CASE UpdateBound(c)
    BY <2>5, UpdateBoundIs DEF Done
  <2>6. CASE MakeName(c)
    BY <2>6, Zenon DEF MakeName
  <2>7. ASSUME NEW e, InsertIdentity(c, e)
        PROVE  \E place \in Place : \E a : Proceed(c, place, a) /\ ~ Carries(place)
    BY <2>7, Zenon DEF InsertIdentity, Done
  <2>8. (\E e \in Email, code \in Known, i \in 1..lastId : EmailBind(c, i, e, code)) =>
          \E i, email, bound : Bind(c, i, email, bound)
    BY DEF EmailBind
  <2>9. ASSUME NEW i, NEW p, NEW x, IdentityBind(c, i, p, x)
        PROVE  \E email, bound : Bind(c, i, email, bound)
    BY <2>9, Zenon DEF IdentityBind
  <2> QED
    BY <2>1, <2>2, <2>3, <2>4, <2>5, <2>6, <2>7, <2>8, <2>9, Zenon DEF RowAction
<1>2. UNCHANGED <<verification, now, used>>
  BY Zenon DEF RowAction, InsertRegistered, EmailBind, IdentityBind, IdentityLogin, FillUserById,
            UpdateBound, MakeName, InsertIdentity
<1> QED
  BY <1>1, <1>2, Others

LEMMA RegisterIs ==
  ASSUME TypeInv, NEW key \in Key, NEW code, RegisterVerificationCodeWithKey(key, code)
  PROVE  /\ codes'[key] \in {[code |-> code, time |-> now], None}
         /\ \A k \in Key \ {key} : codes'[k] \in {codes[k], None}
<1> DEFINE map == [codes EXCEPT ![key] = [code |-> code, time |-> now]]
<1>1. /\ DOMAIN map = Key /\ map[key] = [code |-> code, time |-> now]
      /\ \A k \in Key \ {key} : map[k] = codes[k]
  BY DEF TypeInv, TypeOK, Key
<1>2. codes' \in {map, RemoveExpiredPairs(map)}
  BY DEF RegisterVerificationCodeWithKey
<1> HIDE DEF map
<1>3. \A k \in Key : RemoveExpiredPairs(map)[k] \in {map[k], None}
  BY <1>1 DEF RemoveExpiredPairs
<1> QED
  BY <1>1, <1>2, <1>3

LEMMA RegisterCodeIs ==
  ASSUME TypeInv, NEW c \in Client, RegisterCode(c)
  PROVE  /\ pc[c] = "register code" /\ drawn < MaxCode /\ drawn' = drawn + 1
         /\ KeyOf(arg[c]) \in Key
         /\ RegisterVerificationCodeWithKey(KeyOf(arg[c]), drawn')
         /\ pc'[c] = "mail" /\ arg'[c].code = drawn' /\ KeyOf(arg'[c]) = KeyOf(arg[c])
         /\ \A d \in Client \ {c} : pc'[d] = pc[d] /\ arg'[d] = arg[d]
         /\ UNCHANGED <<table, inbox, now, used>>
<1> DEFINE a == [arg[c] EXCEPT !.code = drawn']
<1>1. /\ pc[c] = "register code" /\ drawn < MaxCode /\ drawn' = drawn + 1
      /\ RegisterVerificationCodeWithKey(KeyOf(arg[c]), drawn')
      /\ Proceed(c, "mail", a)
      /\ UNCHANGED <<table, inbox, now, used>>
  BY Zenon DEF RegisterCode, KeyOf
<1>2. arg[c] \in CodeArgument
  BY <1>1 DEF TypeInv, ArgumentInv, Fits
<1>3. drawn' \in 1..MaxCode
  <2>1. drawn < MaxCode /\ drawn' = drawn + 1
    BY <1>1, Zenon
  <2>2. drawn \in 0..MaxCode
    BY Zenon DEF TypeInv, TypeOK
  <2> QED
    BY <2>1, <2>2, BoundAssumption
<1>4. a.code = drawn' /\ a.purpose = arg[c].purpose /\ a.email = arg[c].email
  BY <1>2, <1>3, NewCode
<1>5. KeyOf(arg[c]) \in Key
  BY <1>2 DEF CodeArgument, KeyOf, Key
<1> HIDE DEF a
<1> QED
  BY <1>1, <1>4, <1>5, Others DEF KeyOf

LEMMA RegisterCodes ==
  ASSUME TypeInv, CodeInv, NEW c \in Client, RegisterCode(c)
  PROVE  CodeInv'
<1> DEFINE key == KeyOf(arg[c])
<1>1. /\ drawn' = drawn + 1 /\ drawn \in Nat /\ key \in Key
      /\ UNCHANGED <<inbox, used>>
  <2>1. drawn \in Nat
    BY BoundAssumption DEF TypeInv, TypeOK
  <2>2. /\ drawn' = drawn + 1 /\ key \in Key
        /\ UNCHANGED <<inbox, used>>
    BY RegisterCodeIs, Zenon
  <2> QED
    BY <2>1, <2>2
<1>2. /\ codes'[key] # None => codes'[key].code = drawn'
      /\ \A k \in Key \ {key} : codes'[k] \in {codes[k], None}
  <2>1. key \in Key /\ RegisterVerificationCodeWithKey(key, drawn')
    BY RegisterCodeIs, Zenon
  <2> HIDE DEF key
  <2>2. /\ codes'[key] \in {[code |-> drawn', time |-> now], None}
        /\ \A k \in Key \ {key} : codes'[k] \in {codes[k], None}
    BY <2>1, RegisterIs, Zenon
  <2> QED
    BY <2>2
<1>3. /\ pc'[c] = "mail" /\ arg'[c].code = drawn' /\ KeyOf(arg'[c]) = key
      /\ \A d \in Client \ {c} : pc'[d] = pc[d] /\ arg'[d] = arg[d]
  BY RegisterCodeIs
<1>4. 1..drawn \subseteq 1..drawn' /\ drawn' \in 1..drawn' /\ drawn' \notin 1..drawn
  BY <1>1
<1> HIDE DEF key
<1>5. /\ used' \subseteq 1..drawn'
      /\ \A k \in Key : inbox'[k] \subseteq 1..drawn'
  BY <1>1, <1>4 DEF CodeInv
<1>6. \A k \in Key : codes'[k] # None =>
        /\ codes'[k].code \in 1..drawn' /\ codes'[k].code \notin used'
        /\ codes'[k].code = drawn' <=> k = key
        /\ k # key => codes[k] # None /\ codes'[k] = codes[k]
  BY <1>1, <1>2, <1>4 DEF CodeInv
<1>7. ASSUME NEW k \in Key, NEW l \in Key, codes'[k] # None
      PROVE  /\ codes'[k].code \in inbox'[l] => l = k
             /\ codes'[l] # None /\ codes'[l].code = codes'[k].code => l = k
  <2>1. CASE k = key
    BY <1>1, <1>4, <1>6, <1>7, <2>1 DEF CodeInv
  <2>2. CASE k # key
    BY <1>1, <1>6, <1>7, <2>2 DEF CodeInv
  <2> QED
    BY <2>1, <2>2
<1>8. ASSUME NEW d \in Client, Carries(pc'[d])
      PROVE  /\ arg'[d].code \in 1..drawn'
             /\ \A k \in Key :
                  codes'[k] # None /\ codes'[k].code = arg'[d].code => k = KeyOf(arg'[d])
  <2>1. CASE d = c
    BY <1>3, <1>4, <1>6, <2>1
  <2>2. CASE d # c
    BY <1>3, <1>4, <1>6, <1>8, <2>2 DEF CodeInv
  <2> QED
    BY <2>1, <2>2
<1> QED
  BY <1>5, <1>6, <1>7, <1>8 DEF CodeInv

LEMMA MailIs ==
  ASSUME TypeInv, NEW c \in Client, Mail(c)
  PROVE  /\ pc[c] = "mail" /\ pc'[c] = "idle" /\ KeyOf(arg[c]) \in Key
         /\ inbox'[KeyOf(arg[c])] = inbox[KeyOf(arg[c])] \cup {arg[c].code}
         /\ \A k \in Key \ {KeyOf(arg[c])} : inbox'[k] = inbox[k]
         /\ \A d \in Client \ {c} : pc'[d] = pc[d] /\ arg'[d] = arg[d]
         /\ UNCHANGED <<table, codes, drawn, swept, now, used>>
<1>1. arg[c] \in CodeArgument
  BY DEF Mail, TypeInv, ArgumentInv, Fits
<1>2. KeyOf(arg[c]) \in Key
  BY <1>1 DEF CodeArgument, KeyOf, Key
<1>3. /\ inbox'[KeyOf(arg[c])] = inbox[KeyOf(arg[c])] \cup {arg[c].code}
      /\ \A k \in Key \ {KeyOf(arg[c])} : inbox'[k] = inbox[k]
  BY <1>2 DEF Mail, TypeInv, TypeOK, Key, KeyOf
<1> QED
  BY <1>2, <1>3, Others DEF Mail, Done

LEMMA MailCodes ==
  ASSUME TypeInv, CodeInv, NEW c \in Client, Mail(c)
  PROVE  CodeInv'
<1> DEFINE key == KeyOf(arg[c])
<1>1. /\ UNCHANGED <<codes, drawn, used>> /\ key \in Key
      /\ inbox'[key] = inbox[key] \cup {arg[c].code}
      /\ \A k \in Key \ {key} : inbox'[k] = inbox[k]
      /\ \A d \in Client : Carries(pc'[d]) => Carries(pc[d]) /\ arg'[d] = arg[d]
  BY MailIs DEF Carries
<1>2. /\ arg[c].code \in 1..drawn
      /\ \A k \in Key : codes[k] # None /\ codes[k].code = arg[c].code => k = key
  BY MailIs DEF CodeInv, Carries
<1> HIDE DEF key
<1>3. \A k \in Key : inbox'[k] \subseteq 1..drawn'
  BY <1>1, <1>2 DEF CodeInv
<1>4. ASSUME NEW k \in Key, NEW l \in Key, codes'[k] # None
      PROVE  /\ codes'[k].code \in inbox'[l] => l = k
             /\ codes'[l] # None /\ codes'[l].code = codes'[k].code => l = k
  BY <1>1, <1>2, <1>4 DEF CodeInv
<1> QED
  BY <1>1, <1>3, <1>4 DEF CodeInv

LEMMA DeleteKeyIs ==
  ASSUME TypeInv, NEW c \in Client, DeleteKey(c)
  PROVE  /\ pc[c] = "delete key" /\ pc'[c] = "idle"
         /\ KeyOf(arg[c]) \in Key /\ codes'[KeyOf(arg[c])] = None
         /\ \A k \in Key \ {KeyOf(arg[c])} : codes'[k] = codes[k]
         /\ used' = used \cup {arg[c].code}
         /\ \A d \in Client \ {c} : pc'[d] = pc[d] /\ arg'[d] = arg[d]
         /\ UNCHANGED <<table, drawn, inbox, swept, now>>
<1>1. arg[c] \in CodeArgument /\ arg[c].purpose = "r"
  BY DEF DeleteKey, TypeInv, ArgumentInv, Fits
<1>2. KeyOf(arg[c]) \in Key /\ KeyOf(arg[c]) = <<"r", arg[c].email>>
  BY <1>1 DEF CodeArgument, KeyOf, Key
<1>3. /\ codes'[KeyOf(arg[c])] = None
      /\ \A k \in Key \ {KeyOf(arg[c])} : codes'[k] = codes[k]
  BY <1>2 DEF DeleteKey, TypeInv, TypeOK, Key
<1> QED
  BY <1>2, <1>3, Others DEF DeleteKey, Done

LEMMA DeleteKeyCodes ==
  ASSUME TypeInv, CodeInv, NEW c \in Client, DeleteKey(c)
  PROVE  CodeInv'
<1> DEFINE key == KeyOf(arg[c])
<1>1. /\ UNCHANGED <<drawn, inbox>> /\ key \in Key /\ used' = used \cup {arg[c].code}
      /\ codes'[key] = None /\ \A k \in Key \ {key} : codes'[k] = codes[k]
      /\ \A d \in Client : Carries(pc'[d]) => Carries(pc[d]) /\ arg'[d] = arg[d]
  BY DeleteKeyIs DEF Carries
<1>2. /\ arg[c].code \in 1..drawn
      /\ \A k \in Key : codes[k] # None /\ codes[k].code = arg[c].code => k = key
  BY DeleteKeyIs DEF CodeInv, Carries
<1> HIDE DEF key
<1>3. /\ used' \subseteq 1..drawn'
      /\ \A k \in Key : codes'[k] # None =>
           /\ k # key /\ codes'[k] = codes[k]
           /\ codes'[k].code \in 1..drawn' /\ codes'[k].code \notin used'
  BY <1>1, <1>2 DEF CodeInv
<1> QED
  BY <1>1, <1>3 DEF CodeInv

\* The other actions on codes.
LEMMA QuietCarry ==
  ASSUME TypeInv, NEW c \in Client, CodeAction(c),
         ~ RegisterCode(c), ~ Mail(c), ~ DeleteKey(c)
  PROVE  /\ UNCHANGED <<verification, used>>
         /\ \A d \in Client : Carries(pc'[d]) =>
              \/ Carries(pc[d]) /\ arg'[d] = arg[d]
              \/ LET k == KeyOf(arg'[d])
                 IN  k \in Key /\ codes[k] # None /\ codes[k].code = arg'[d].code
<1> USE DEF verification
<1> DEFINE carries(place, a) ==
      \/ ~ Carries(place)
      \/ Carries(pc[c]) /\ a = arg[c]
      \/ KeyOf(a) \in Key /\ codes[KeyOf(a)] # None /\ codes[KeyOf(a)].code = a.code
    goesOn == \E place, a : Proceed(c, place, a) /\ carries(place, a)
<1>1. UNCHANGED <<verification, used>>
  BY DEF CodeAction, SendCode, MailFail, VerifyReset, VerifyRegister, ResetUserPassword
<1>2. ASSUME NEW p, NEW e, SendCode(c, p, e) PROVE goesOn
  <2>1. Proceed(c, "register code", [purpose |-> p, email |-> e, code |-> 0])
    BY <1>2, Zenon DEF SendCode
  <2> QED
    BY <2>1, Idle, Zenon
<1>3. ASSUME MailFail(c) PROVE goesOn
  BY <1>3, Idle, Zenon DEF MailFail, Done
<1>4. ASSUME NEW e \in Email, NEW code, VerifyReset(c, e, code) PROVE goesOn
  <2> DEFINE a == [purpose |-> "r", email |-> e, code |-> code]
  <2>1. Proceed(c, "reset", a) /\ KeyOf(a) = <<"r", e>> /\ a.code = code
    BY <1>4 DEF VerifyReset, KeyOf
  <2>2. <<"r", e>> \in Key /\ codes[<<"r", e>>] # None /\ codes[<<"r", e>>].code = code
    BY <1>4 DEF VerifyReset, VerifyCodeWithKey, Key, Purpose
  <2> HIDE DEF a
  <2> QED
    BY <2>1, <2>2
<1>5. ASSUME NEW e, NEW code, VerifyRegister(c, e, code) PROVE goesOn
  <2>1. Proceed(c, "insert", [purpose |-> "v", email |-> e, code |-> code])
    BY <1>5, Zenon DEF VerifyRegister
  <2> QED
    BY <2>1, Idle, Zenon
<1>6. ASSUME ResetUserPassword(c) PROVE goesOn
  <2>1. \/ Proceed(c, "delete key", arg[c]) /\ Carries(pc[c])
        \/ Proceed(c, "idle", None)
    BY <1>6 DEF ResetUserPassword, Done, Carries
  <2> QED
    BY <2>1, Idle, Zenon
<1>7. PICK place, a : Proceed(c, place, a) /\ carries(place, a)
  BY <1>2, <1>3, <1>4, <1>5, <1>6 DEF CodeAction
<1>8. /\ pc'[c] = place /\ arg'[c] = a
      /\ \A d \in Client \ {c} : pc'[d] = pc[d] /\ arg'[d] = arg[d]
  BY <1>7, Others
<1>9. ASSUME NEW d \in Client, Carries(pc'[d])
      PROVE  \/ Carries(pc[d]) /\ arg'[d] = arg[d]
             \/ LET k == KeyOf(arg'[d])
                IN  k \in Key /\ codes[k] # None /\ codes[k].code = arg'[d].code
  BY <1>7, <1>8, <1>9
<1> QED
  BY <1>1, <1>9

LEMMA QuietCodes ==
  ASSUME TypeInv, CodeInv, NEW c \in Client, CodeAction(c),
         ~ RegisterCode(c), ~ Mail(c), ~ DeleteKey(c)
  PROVE  CodeInv'
BY QuietCarry, CodesShrink DEF verification

LEMMA CodeStep == TypeInv /\ CodeInv /\ [Next]_vars => CodeInv'
<1> SUFFICES ASSUME TypeInv, CodeInv, [Next]_vars PROVE CodeInv'
  OBVIOUS
<1> USE DEF verification
<1>1. CASE UNCHANGED vars
  BY <1>1, CodesShrink DEF vars
<1>2. ASSUME NEW c \in Client, CodeAction(c) PROVE CodeInv'
  BY <1>2, RegisterCodes, MailCodes, DeleteKeyCodes, QuietCodes
<1>3. ASSUME NEW c \in Client, RowAction(c) PROVE CodeInv'
  <2>1. /\ UNCHANGED <<codes, drawn, inbox, used>>
        /\ \A d \in Client : Carries(pc'[d]) => Carries(pc[d]) /\ arg'[d] = arg[d]
    BY <1>3, RowsNotCodes
  <2> QED
    BY <2>1, CodesShrink
<1>4. ASSUME NEW i \in Id, DeleteUser(i) PROVE CodeInv'
  BY <1>4, CodesShrink DEF DeleteUser
<1>5. CASE Tick
  BY <1>5, CodesShrink DEF Tick
<1>6. CASE Restart
  BY <1>6, CodesShrink DEF Restart, Carries, Key
<1> QED
  BY <1>1, <1>2, <1>3, <1>4, <1>5, <1>6, Steps

LEMMA CodeInvariance == Spec => [](TypeInv /\ CodeInv)
<1>1. Init => TypeInv /\ CodeInv
  BY TypeInit, CodeInit
<1>2. TypeInv /\ CodeInv /\ [Next]_vars => (TypeInv /\ CodeInv)'
  BY TypeStep, CodeStep
<1> QED
  BY <1>1, <1>2, PTL DEF Spec

\* A request that starts to carry a code carries one that is registered.
LEMMA Started ==
  ASSUME TypeInv, [Next]_vars, NEW d \in Client, pc[d] = "idle", pc'[d] = "reset"
  PROVE  LET k == KeyOf(arg'[d])
         IN  k \in Key /\ codes[k] # None /\ codes[k].code = arg'[d].code
<1>1. Carries(pc'[d]) /\ ~ Carries(pc[d])
  BY DEF Carries
<1>2. pc'[d] # pc[d]
  OBVIOUS
<1>3. PICK c \in Client : CodeAction(c) \/ RowAction(c)
  BY <1>2, Steps DEF vars, DeleteUser, Tick, Restart
<1>4. ~ RowAction(c)
  BY <1>1, RowsNotCodes
<1>5. ~ RegisterCode(c) /\ ~ Mail(c) /\ ~ DeleteKey(c)
  <2>1. RegisterCode(c) => pc'[c] = "mail" /\ \A e \in Client \ {c} : pc'[e] = pc[e]
    BY RegisterCodeIs, Zenon
  <2>2. Mail(c) => pc'[c] = "idle" /\ \A e \in Client \ {c} : pc'[e] = pc[e]
    BY MailIs, Zenon
  <2>3. DeleteKey(c) => pc'[c] = "idle" /\ \A e \in Client \ {c} : pc'[e] = pc[e]
    BY DeleteKeyIs, Zenon
  <2> QED
    BY <2>1, <2>2, <2>3
<1> QED
  BY <1>1, <1>3, <1>4, <1>5, QuietCarry

\* Once a reset was answered, its code is good for no later one, whoever asked for
\* the next code, however many accounts have the address and whatever failed in
\* between (ResetPassword, controller/misc.go).
THEOREM ResetIsOnce == Spec => ResetCodeIsSpent
<1>1. TypeInv /\ CodeInv /\ [Next]_vars =>
        [\A c \in Client :
           pc[c] = "idle" /\ pc'[c] = "reset" => arg'[c].code \notin used]_vars
  <2> SUFFICES ASSUME TypeInv, CodeInv, [Next]_vars, NEW c \in Client,
                      pc[c] = "idle", pc'[c] = "reset"
               PROVE  arg'[c].code \notin used
    OBVIOUS
  <2> QED
    BY Started DEF CodeInv
<1> QED
  BY <1>1, CodeInvariance, PTL DEF Spec, ResetCodeIsSpent

-------------------------------------------------------------------------------
\* Addresses on their way into the table were proved when the request checked its
\* code, or stood in the table before.

Proved(e) ==
  \/ e \in GitHubEmail \cup {None}
  \/ e \in Email /\ inbox[<<"v", e>>] # {}

HoldsProved(place, a) ==
  /\ place \in {"insert", "fill to bind", "update"} => Proved(a.email)
  /\ place = "update" /\ a.row # None => Proved(a.row.email)

EmailInv ==
  /\ \A i \in Id : users[i] # None => Proved(users[i].email)
  /\ \A c \in Client : HoldsProved(pc[c], arg[c])

LEMMA EmailInit == Init => EmailInv
BY DEF Init, EmailInv, HoldsProved

\* A code that is accepted arrived, and it arrived where it was sent to.
LEMMA CodeArrived ==
  ASSUME TypeInv, CodeInv, NEW e \in Email, NEW code \in Known,
         VerifyCodeWithKey(<<"v", e>>, code)
  PROVE  Proved(e)
<1>1. <<"v", e>> \in Key /\ codes[<<"v", e>>] # None /\ codes[<<"v", e>>].code = code
  BY DEF VerifyCodeWithKey, Key, Purpose
<1>2. code \in 1..drawn
  BY <1>1 DEF CodeInv
<1>3. drawn \in Nat
  BY BoundAssumption DEF TypeInv, TypeOK
<1>4. PICK key \in DOMAIN inbox : code \in inbox[key]
  BY <1>2, <1>3 DEF Known
<1>5. key \in Key
  BY DEF TypeInv, TypeOK, Key
<1>6. key = <<"v", e>>
  BY <1>1, <1>4, <1>5 DEF CodeInv
<1> QED
  BY <1>4, <1>6 DEF Proved

\* Mails only add to what has arrived.
LEMMA EmailKeeps ==
  ASSUME \A k \in Key : inbox[k] \subseteq inbox'[k],
         \A i \in Id : users'[i] # None => Proved(users'[i].email),
         \A d \in Client : HoldsProved(pc'[d], arg'[d])
  PROVE  EmailInv'
<1>1. ASSUME NEW e, Proved(e)
      PROVE  \/ e \in GitHubEmail \cup {None}
             \/ e \in Email /\ inbox'[<<"v", e>>] # {}
  <2>1. e \in Email => <<"v", e>> \in Key
    BY DEF Key, Purpose
  <2> QED
    BY <1>1, <2>1 DEF Proved
<1>2. ASSUME NEW i \in Id, users'[i] # None
      PROVE  \/ users'[i].email \in GitHubEmail \cup {None}
             \/ users'[i].email \in Email /\ inbox'[<<"v", users'[i].email>>] # {}
  BY <1>1, <1>2
<1>3. ASSUME NEW d \in Client
      PROVE  HoldsProved(pc[d], arg[d])'
  BY <1>1 DEF HoldsProved, Proved
<1> QED
  BY <1>2, <1>3 DEF EmailInv, Proved

LEMMA EmailProceed ==
  ASSUME TypeInv, EmailInv, NEW c \in Client, NEW place, NEW a,
         Proceed(c, place, a), HoldsProved(place, a), UNCHANGED inbox,
         \A i \in Id : users'[i] # None =>
           users'[i] = users[i] \/ Proved(users'[i].email)
  PROVE  EmailInv'
<1>1. \A d \in Client : HoldsProved(pc'[d], arg'[d])
  <2>1. /\ pc'[c] = place /\ arg'[c] = a
        /\ \A d \in Client \ {c} : pc'[d] = pc[d] /\ arg'[d] = arg[d]
    BY Others
  <2>2. \A d \in Client : HoldsProved(pc[d], arg[d])
    BY DEF EmailInv
  <2> QED
    BY <2>1, <2>2
<1>2. \A i \in Id : users'[i] # None => Proved(users'[i].email)
  BY DEF EmailInv
<1> QED
  BY <1>1, <1>2, EmailKeeps

\* What User.Update leaves in the rows.
LEMMA UpdatedEmail ==
  ASSUME TypeInv, NEW i \in Id, NEW email, NEW bound, Update(i, email, bound)
  PROVE  /\ \A j \in Id \ {i} : users'[j] = users[j]
         /\ users[i] = None => users'[i] = None
         /\ users[i] # None =>
              users'[i].email = IF email = None THEN users[i].email ELSE email
BY DEF Update, TypeInv, TypeOK, Given

LEMMA EmailsOfCodes ==
  ASSUME TypeInv, CodeInv, EmailInv, NEW c \in Client, CodeAction(c)
  PROVE  EmailInv'
<1> USE DEF table, verification
<1>1. UNCHANGED users
  BY Zenon DEF CodeAction, SendCode, RegisterCode, Mail, MailFail, VerifyReset,
               VerifyRegister, ResetUserPassword, DeleteKey
<1> DEFINE goesOn == \E place, a : Proceed(c, place, a) /\ HoldsProved(place, a)
<1>2. ASSUME NEW place, NEW a, Proceed(c, place, a),
             place \notin {"insert", "fill to bind", "update"}
      PROVE  goesOn
  BY <1>2 DEF HoldsProved
<1>3. Done(c) => goesOn
  BY <1>2 DEF Done
<1>4. ASSUME NEW p, NEW e, SendCode(c, p, e) PROVE goesOn /\ UNCHANGED inbox
  <2>1. \E a : Proceed(c, "register code", a)
    BY <1>4, Zenon DEF SendCode
  <2> QED
    BY <1>2, <1>4, <2>1 DEF SendCode
<1>5. ASSUME RegisterCode(c) PROVE goesOn /\ UNCHANGED inbox
  <2>1. (\E a : Proceed(c, "mail", a)) /\ UNCHANGED inbox
    BY <1>5, Zenon DEF RegisterCode
  <2> QED
    BY <1>2, <2>1
<1>6. ASSUME MailFail(c) PROVE goesOn /\ UNCHANGED inbox
  BY <1>3, <1>6 DEF MailFail
<1>7. ASSUME NEW e, NEW code, VerifyReset(c, e, code) PROVE goesOn /\ UNCHANGED inbox
  <2>1. (\E a : Proceed(c, "reset", a)) /\ UNCHANGED inbox
    BY <1>7, Zenon DEF VerifyReset
  <2> QED
    BY <1>2, <2>1
<1>8. ASSUME NEW e \in Email, NEW code \in Known, VerifyRegister(c, e, code)
      PROVE  goesOn /\ UNCHANGED inbox
  <2> DEFINE a == [purpose |-> "v", email |-> e, code |-> code]
  <2>1. Proceed(c, "insert", a) /\ a.email = e /\ Proved(e) /\ UNCHANGED inbox
    BY <1>8, CodeArrived DEF VerifyRegister
  <2> HIDE DEF a
  <2>2. HoldsProved("insert", a)
    BY <2>1 DEF HoldsProved
  <2> QED
    BY <2>1, <2>2, Zenon
<1>9. ASSUME ResetUserPassword(c) PROVE goesOn /\ UNCHANGED inbox
  <2>1. Proceed(c, "delete key", arg[c]) \/ Done(c)
    BY <1>9, Zenon DEF ResetUserPassword
  <2> QED
    BY <1>2, <1>3, <1>9, <2>1 DEF ResetUserPassword
<1>10. ASSUME DeleteKey(c) PROVE goesOn /\ UNCHANGED inbox
  BY <1>3, <1>10 DEF DeleteKey
<1>11. ASSUME Mail(c) PROVE EmailInv'
  <2>1. \A k \in Key : inbox[k] \subseteq inbox'[k]
    BY <1>11, MailIs
  <2>2. \A d \in Client : HoldsProved(pc'[d], arg'[d])
    BY <1>11, MailIs DEF EmailInv, HoldsProved
  <2> QED
    BY <1>1, <2>1, <2>2, EmailKeeps DEF EmailInv
<1>12. (goesOn /\ UNCHANGED inbox) \/ Mail(c)
  BY <1>4, <1>5, <1>6, <1>7, <1>8, <1>9, <1>10 DEF CodeAction
<1> QED
  BY <1>1, <1>11, <1>12, EmailProceed

LEMMA EmailsOfRows ==
  ASSUME TypeInv, CodeInv, EmailInv, NEW c \in Client, RowAction(c)
  PROVE  EmailInv'
<1> USE DEF table, verification
<1>1. UNCHANGED inbox
  BY RowsNotCodes
<1> DEFINE rows == \A i \in Id : users'[i] # None =>
                     users'[i] = users[i] \/ Proved(users'[i].email)
           goesOn == rows /\ \E place, a : Proceed(c, place, a) /\ HoldsProved(place, a)
<1>1a. ASSUME rows, NEW place, NEW a, Proceed(c, place, a), HoldsProved(place, a)
       PROVE  goesOn
  BY <1>1a, Zenon
<1>1b. ASSUME rows, NEW place, NEW a, Proceed(c, place, a),
              place \notin {"insert", "fill to bind", "update"}
       PROVE  goesOn
  BY <1>1a, <1>1b DEF HoldsProved
<1>2. Done(c) /\ rows => goesOn
  BY <1>1b DEF Done
<1>3. UNCHANGED users => rows
  OBVIOUS
<1>4. ASSUME NEW row \in User, Insert(row), Proved(row.email) PROVE rows
  <2>1. /\ lastId + 1 \in Id /\ users'[lastId + 1] = row
        /\ \A i \in Id \ {lastId + 1} : users'[i] = users[i]
    BY <1>4, BoundAssumption DEF Insert, TypeInv, TypeOK, Id
  <2> QED
    BY <1>4, <2>1
<1>5. ASSUME InsertRegistered(c) PROVE goesOn
  <2> DEFINE row == [email |-> arg[c].email, bound |-> NoIdentity, name |-> None]
  <2>1. arg[c] \in CodeArgument /\ Proved(arg[c].email)
    BY <1>5 DEF InsertRegistered, TypeInv, ArgumentInv, Fits, EmailInv, HoldsProved
  <2>2. row \in User /\ row.email = arg[c].email
    BY <2>1, NoIdentityType DEF CodeArgument, User, Bound
  <2>3. (Insert(row) \/ UNCHANGED users) /\ Done(c)
    BY <1>5 DEF InsertRegistered
  <2> HIDE DEF row
  <2> QED
    BY <1>2, <1>3, <1>4, <2>1, <2>2, <2>3, Zenon
<1>6. ASSUME NEW i, NEW email, NEW bound, Proved(email), Bind(c, i, email, bound),
             UNCHANGED users
      PROVE  goesOn
  <2> DEFINE a == [id |-> i, row |-> None, email |-> email, bound |-> bound]
  <2>1. Proceed(c, "fill to bind", a) /\ a.email = email
    BY <1>6 DEF Bind
  <2> HIDE DEF a
  <2>2. HoldsProved("fill to bind", a)
    BY <1>6, <2>1 DEF HoldsProved
  <2> QED
    BY <1>1a, <1>3, <1>6, <2>1, <2>2, Zenon
<1>7. ASSUME NEW e \in Email, NEW code \in Known, NEW i, EmailBind(c, i, e, code)
      PROVE  goesOn
  BY <1>6, <1>7, CodeArrived DEF EmailBind
<1>8. ASSUME NEW p, NEW x, NEW i, IdentityBind(c, i, p, x) PROVE goesOn
  <2>1. (\E bound : Bind(c, i, None, bound)) /\ UNCHANGED users
    BY <1>8, Zenon DEF IdentityBind
  <2> QED
    BY <1>6, <2>1 DEF Proved
<1>9. ASSUME NEW p, NEW x, IdentityLogin(c, p, x) PROVE goesOn
  <2>1. (\E a : Proceed(c, "name", a)) /\ UNCHANGED users
    BY <1>9, Zenon DEF IdentityLogin
  <2> QED
    BY <1>1b, <1>3, <2>1
<1>10. ASSUME FillUserById(c) PROVE goesOn
  <2> DEFINE a == [arg[c] EXCEPT !.row = users[arg[c].id]]
  <2>1. arg[c] \in BindArgument /\ Proved(arg[c].email)
    BY <1>10 DEF FillUserById, TypeInv, ArgumentInv, Fits, EmailInv, HoldsProved
  <2>2. arg[c].id \in Id /\ users[arg[c].id] \in User \cup {None}
    BY <2>1 DEF BindArgument, TypeInv, TypeOK
  <2>3. a.row = users[arg[c].id] /\ a.email = arg[c].email
    BY <2>1, <2>2, FilledType
  <2>4. Proceed(c, "update", a) /\ UNCHANGED users
    BY <1>10, Zenon DEF FillUserById
  <2> HIDE DEF a
  <2>5. HoldsProved("update", a)
    BY <2>1, <2>2, <2>3 DEF HoldsProved, EmailInv
  <2> QED
    BY <1>1a, <1>3, <2>4, <2>5, Zenon
<1>11. ASSUME UpdateBound(c) PROVE goesOn
  <2>1. arg[c] \in BindArgument /\ HoldsProved("update", arg[c])
    BY <1>11, UpdateBoundIs DEF TypeInv, ArgumentInv, Fits, EmailInv
  <2>2. Proved(WrittenEmail(arg[c]))
    BY <2>1 DEF WrittenEmail, ReadFields, Given, HoldsProved, Proved
  <2>3. Update(arg[c].id, WrittenEmail(arg[c]), WrittenBound(arg[c])) /\ Done(c)
    BY <1>11, UpdateBoundIs
  <2>4. rows
    BY <2>1, <2>2, <2>3, UpdatedEmail DEF BindArgument, EmailInv
  <2> QED
    BY <1>2, <2>3, <2>4, Zenon
<1>12. ASSUME MakeName(c) PROVE goesOn
  <2>1. (\E a : Proceed(c, "insert identity", a)) /\ UNCHANGED users
    BY <1>12, Zenon DEF MakeName
  <2> QED
    BY <1>1b, <1>3, <2>1
<1>13. ASSUME NEW e \in Email \cup {None}, InsertIdentity(c, e) PROVE goesOn
  <2> DEFINE row == [email |-> e, name |-> arg[c].name,
                     bound |-> [NoIdentity EXCEPT ![arg[c].provider] = arg[c].identity]]
  <2>1. arg[c] \in IdentityArgument /\ e \in GitHubEmail \cup {None}
    BY <1>13 DEF InsertIdentity, TypeInv, ArgumentInv, Fits
  <2>2. row \in User /\ row.email = e
    BY <2>1, NoIdentityType DEF IdentityArgument, User, Bound
  <2>3. (UNCHANGED users \/ Insert(row)) /\ Done(c)
    BY <1>13, Zenon DEF InsertIdentity
  <2> HIDE DEF row
  <2> QED
    BY <1>2, <1>3, <1>4, <2>1, <2>2, <2>3 DEF Proved
<1>14. goesOn
  BY <1>5, <1>7, <1>8, <1>9, <1>10, <1>11, <1>12, <1>13, Zenon DEF RowAction
<1> QED
  BY <1>1, <1>14, EmailProceed

LEMMA EmailStep == TypeInv /\ CodeInv /\ EmailInv /\ [Next]_vars => EmailInv'
<1> SUFFICES ASSUME TypeInv, CodeInv, EmailInv, [Next]_vars PROVE EmailInv'
  OBVIOUS
<1> USE DEF table, verification
<1>1. CASE UNCHANGED vars
  BY <1>1, EmailKeeps DEF vars, EmailInv
<1>2. ASSUME NEW i \in Id, DeleteUser(i) PROVE EmailInv'
  <2>1. \A j \in Id : users'[j] \in {users[j], None}
    BY <1>2 DEF DeleteUser, TypeInv, TypeOK
  <2> QED
    BY <1>2, <2>1, EmailKeeps DEF DeleteUser, EmailInv
<1>3. CASE Tick
  BY <1>3, EmailKeeps DEF Tick, EmailInv
<1>4. CASE Restart
  <2>1. \A d \in Client : HoldsProved(pc'[d], arg'[d])
    BY <1>4 DEF Restart, HoldsProved
  <2> QED
    BY <1>4, <2>1, EmailKeeps DEF Restart, EmailInv
<1> QED
  BY <1>1, <1>2, <1>3, <1>4, EmailsOfCodes, EmailsOfRows, Steps

\* No handler and no interleaving of handlers stores an address that nobody
\* proved: Register and EmailBind write the one whose code they checked, and what a
\* bind reads and writes back was in the table (controller/user.go).
THEOREM AddressesWereProved == Spec => []EmailsWereProved
<1>1. Init => EmailInv
  BY EmailInit
<1>2. EmailInv => EmailsWereProved
  BY DEF EmailInv, Proved, EmailsWereProved, Rows
<1> QED
  BY <1>1, <1>2, CodeInvariance, EmailStep, PTL DEF Spec

-------------------------------------------------------------------------------
\* While requests on identities and rows do not overlap, what the one under way has
\* looked up is still true.

NobodyHas(p, x) == \A i \in Id : users[i] # None => users[i].bound[p] # x

HoldsTrue(place, a) ==
  /\ place \in {"fill to bind", "update"} =>
       \A p \in Provider : a.bound[p] # None => NobodyHas(p, a.bound[p])
  /\ place = "update" => a.id \in Id /\ users[a.id] \in {a.row, None}
  /\ place \in {"name", "insert identity"} /\ a.identity # None =>
       NobodyHas(a.provider, a.identity)

Distinct ==
  \A i, j \in Id : users[i] # None /\ users[j] # None =>
    \A p \in Provider : users[i].bound[p] = users[j].bound[p]
                           /\ users[i].bound[p] # None => i = j

Alone ==
  /\ \A c, d \in Client : Writing(pc[c]) /\ Writing(pc[d]) => c = d
  /\ \A c \in Client : HoldsTrue(pc[c], arg[c])
  /\ Distinct

AloneInv == mixed \/ Alone

LEMMA AloneInit == Init => AloneInv
BY DEF Init, AloneInv, Alone, Writing, HoldsTrue, Distinct

\* Nobody has an identity, or exactly one row has it; the look-up tells which.
LEMMA LookUp ==
  ASSUME TypeInv, Distinct, NEW p \in Provider, NEW x \in Identity, x # None,
         ~ IsIdentityAlreadyTaken(p, x)
  PROVE  NobodyHas(p, x)
<1> SUFFICES ASSUME NEW i \in Id, users[i] # None, users[i].bound[p] = x PROVE FALSE
  BY DEF NobodyHas
<1>1. {j \in Rows : users[j].bound[p] = x} = {i}
  BY DEF Distinct, Rows
<1>2. Cardinality({i}) = 1
  BY FS_Singleton
<1> QED
  BY <1>1, <1>2 DEF IsIdentityAlreadyTaken

\* Rows that go leave what was looked up true.
LEMMA AloneKeeps ==
  ASSUME Alone, \A i \in Id : users'[i] \in {users[i], None},
         \A c, d \in Client : Writing(pc'[c]) /\ Writing(pc'[d]) => c = d,
         \A d \in Client : HoldsTrue(pc'[d], arg'[d])
  PROVE  Alone'
<1>1. \A p, x : NobodyHas(p, x) =>
        \A i \in Id : users'[i] # None => users'[i].bound[p] # x
  BY DEF NobodyHas
<1>2. ASSUME NEW d \in Client PROVE HoldsTrue(pc[d], arg[d])'
  <2>1. HoldsTrue(pc'[d], arg'[d])
    OBVIOUS
  <2>2. ASSUME NEW p, NEW x, NobodyHas(p, x) PROVE NobodyHas(p, x)'
    BY <1>1, <2>2 DEF NobodyHas
  <2>3. ASSUME pc'[d] \in {"fill to bind", "update"}, NEW p \in Provider,
               arg'[d].bound[p] # None
        PROVE  NobodyHas(p, arg[d].bound[p])'
    <3>1. NobodyHas(p, arg'[d].bound[p])
      BY <2>1, <2>3 DEF HoldsTrue
    <3> QED
      BY <1>1, <3>1 DEF NobodyHas
  <2>4. pc'[d] = "update" => arg'[d].id \in Id /\ users'[arg'[d].id] \in {arg'[d].row, None}
    BY <2>1 DEF HoldsTrue
  <2>5. ASSUME pc'[d] \in {"name", "insert identity"}, arg'[d].identity # None
        PROVE  NobodyHas(arg[d].provider, arg[d].identity)'
    <3>1. NobodyHas(arg'[d].provider, arg'[d].identity)
      BY <2>1, <2>5 DEF HoldsTrue
    <3> QED
      BY <1>1, <3>1 DEF NobodyHas
  <2> QED
    BY <2>3, <2>4, <2>5 DEF HoldsTrue
<1>3. Distinct'
  BY DEF Alone, Distinct
<1> QED
  BY <1>2, <1>3 DEF Alone

\* A request that starts or goes on with what is true.
LEMMA AloneProceed ==
  ASSUME TypeInv, Alone, NEW c \in Client, NEW place, NEW a, Proceed(c, place, a),
         ~ mixed', HoldsTrue(place, a), UNCHANGED users
  PROVE  Alone'
<1>1. /\ pc'[c] = place /\ arg'[c] = a
      /\ \A d \in Client \ {c} : pc'[d] = pc[d] /\ arg'[d] = arg[d]
  BY Others
<1>2. Writing(place) => \A d \in Client \ {c} : ~ Writing(pc[d])
  BY DEF Proceed
<1>3. \A d, e \in Client : Writing(pc'[d]) /\ Writing(pc'[e]) => d = e
  BY <1>1, <1>2 DEF Alone
<1>4. \A d \in Client : HoldsTrue(pc'[d], arg'[d])
  BY <1>1 DEF Alone
<1> QED
  BY <1>3, <1>4, AloneKeeps

\* The request under way writes and ends; no other one holds anything.
LEMMA AloneDone ==
  ASSUME TypeInv, Alone, NEW c \in Client, Done(c), Writing(pc[c]), Distinct'
  PROVE  Alone'
<1>1. /\ pc'[c] = "idle"
      /\ \A d \in Client \ {c} : pc'[d] = pc[d] /\ arg'[d] = arg[d]
  BY Others DEF Done
<1>2. \A d \in Client : ~ Writing(pc'[d])
  BY <1>1 DEF Alone, Writing
<1>3. ASSUME NEW d \in Client PROVE HoldsTrue(pc[d], arg[d])'
  BY <1>2 DEF HoldsTrue, Writing
<1> QED
  BY <1>2, <1>3 DEF Alone

LEMMA InsertDistinct ==
  ASSUME TypeInv, Distinct, NEW row \in User, Insert(row),
         \A p \in Provider : row.bound[p] # None => NobodyHas(p, row.bound[p])
  PROVE  Distinct'
<1>1. /\ lastId + 1 \in Id /\ users'[lastId + 1] = row
      /\ \A i \in Id \ {lastId + 1} : users'[i] = users[i]
  BY BoundAssumption DEF Insert, TypeInv, TypeOK, Id
<1>2. ASSUME NEW i \in Id, NEW j \in Id, users'[i] # None, users'[j] # None,
             NEW p \in Provider, users'[i].bound[p] = users'[j].bound[p],
             users'[i].bound[p] # None
      PROVE  i = j
  BY <1>1, <1>2 DEF Distinct, NobodyHas
<1> QED
  BY <1>2 DEF Distinct

LEMMA UpdateDistinct ==
  ASSUME TypeInv, Distinct, NEW i \in Id, NEW email, NEW bound, Update(i, email, bound),
         \A p \in Provider : bound[p] # None =>
           \/ users[i] # None => users[i].bound[p] = bound[p]
           \/ NobodyHas(p, bound[p])
  PROVE  Distinct'
<1>1. /\ \A j \in Id \ {i} : users'[j] = users[j]
      /\ users[i] = None => users'[i] = None
      /\ users[i] # None =>
           \A p \in Provider :
             users'[i].bound[p] = IF bound[p] = None THEN users[i].bound[p] ELSE bound[p]
  BY DEF Update, TypeInv, TypeOK, Given
<1>2. ASSUME NEW k \in Id, NEW j \in Id, users'[k] # None, users'[j] # None,
             NEW p \in Provider, users'[k].bound[p] = users'[j].bound[p],
             users'[k].bound[p] # None
      PROVE  k = j
  BY <1>1, <1>2 DEF Distinct, NobodyHas
<1> QED
  BY <1>2 DEF Distinct

LEMMA AloneOfCodes ==
  ASSUME TypeInv, Alone, NEW c \in Client, CodeAction(c), ~ mixed'
  PROVE  Alone'
<1> USE DEF table, verification
<1> DEFINE goesOn == UNCHANGED users /\ \E place, a : Proceed(c, place, a) /\ HoldsTrue(place, a)
<1>1. ASSUME NEW place, NEW a, Proceed(c, place, a), UNCHANGED users,
             place \notin {"fill to bind", "update", "name", "insert identity"}
      PROVE  goesOn
  <2>1. HoldsTrue(place, a)
    BY <1>1 DEF HoldsTrue
  <2> QED
    BY <1>1, <2>1, Zenon
<1>2. Done(c) /\ UNCHANGED users => goesOn
  BY <1>1 DEF Done
<1> HIDE DEF goesOn
<1>3. ASSUME NEW p, NEW e, SendCode(c, p, e) PROVE goesOn
  <2>1. (\E a : Proceed(c, "register code", a)) /\ UNCHANGED users
    BY <1>3, Zenon DEF SendCode
  <2> QED
    BY <1>1, <2>1
<1>4. ASSUME RegisterCode(c) PROVE goesOn
  <2>1. (\E a : Proceed(c, "mail", a)) /\ UNCHANGED users
    BY <1>4, Zenon DEF RegisterCode
  <2> QED
    BY <1>1, <2>1
<1>5. Mail(c) \/ MailFail(c) \/ DeleteKey(c) => goesOn
  BY <1>2 DEF Mail, MailFail, DeleteKey
<1>6. ASSUME NEW e, NEW code, VerifyReset(c, e, code) PROVE goesOn
  <2>1. (\E a : Proceed(c, "reset", a)) /\ UNCHANGED users
    BY <1>6, Zenon DEF VerifyReset
  <2> QED
    BY <1>1, <2>1
<1>7. ASSUME NEW e, NEW code, VerifyRegister(c, e, code) PROVE goesOn
  <2>1. (\E a : Proceed(c, "insert", a)) /\ UNCHANGED users
    BY <1>7, Zenon DEF VerifyRegister
  <2> QED
    BY <1>1, <2>1
<1>8. ASSUME ResetUserPassword(c) PROVE goesOn
  <2>1. (Proceed(c, "delete key", arg[c]) \/ Done(c)) /\ UNCHANGED users
    BY <1>8, Zenon DEF ResetUserPassword
  <2> QED
    BY <1>1, <1>2, <2>1
<1>9. goesOn
  BY <1>3, <1>4, <1>5, <1>6, <1>7, <1>8 DEF CodeAction
<1> QED
  BY <1>9, AloneProceed DEF goesOn

LEMMA AloneOfRows ==
  ASSUME TypeInv, Alone, NEW c \in Client, RowAction(c), ~ mixed'
  PROVE  Alone'
<1> USE DEF table, verification
<1>1. ASSUME InsertRegistered(c) PROVE Alone'
  <2> DEFINE row == [email |-> arg[c].email, bound |-> NoIdentity, name |-> None]
  <2>1. arg[c] \in CodeArgument /\ Writing(pc[c])
    BY <1>1 DEF InsertRegistered, TypeInv, ArgumentInv, Fits, Writing
  <2>2. row \in User /\ \A p \in Provider : row.bound[p] = None
    BY <2>1, NoIdentityType DEF CodeArgument, User, Bound, NoIdentity
  <2>3. (Insert(row) \/ UNCHANGED users) /\ Done(c)
    BY <1>1 DEF InsertRegistered
  <2> HIDE DEF row
  <2>4. Distinct'
    BY <2>2, <2>3, InsertDistinct DEF Alone, Distinct
  <2> QED
    BY <2>1, <2>3, <2>4, AloneDone
<1>2. ASSUME NEW i \in 1..lastId, NEW email, NEW bound, Bind(c, i, email, bound),
             UNCHANGED users,
             \A p \in Provider : bound[p] # None => NobodyHas(p, bound[p])
      PROVE  Alone'
  <2> DEFINE a == [id |-> i, row |-> None, email |-> email, bound |-> bound]
  <2>1. Proceed(c, "fill to bind", a) /\ a.bound = bound
    BY <1>2 DEF Bind
  <2> HIDE DEF a
  <2>2. HoldsTrue("fill to bind", a)
    BY <1>2, <2>1 DEF HoldsTrue
  <2> QED
    BY <1>2, <2>1, <2>2, AloneProceed
<1>3. ASSUME NEW e, NEW code, NEW i \in 1..lastId, EmailBind(c, i, e, code) PROVE Alone'
  BY <1>2, <1>3 DEF EmailBind, NoIdentity
<1>4. ASSUME NEW p \in Provider, NEW x \in Identity, NEW i \in 1..lastId,
             IdentityBind(c, i, p, x)
      PROVE  Alone'
  <2> DEFINE bound == [NoIdentity EXCEPT ![p] = x]
  <2>1. \A q \in Provider : bound[q] # None => q = p /\ bound[q] = x
    BY DEF NoIdentity
  <2>2. ~ IsIdentityAlreadyTaken(p, x) /\ Bind(c, i, None, bound) /\ UNCHANGED users
    BY <1>4 DEF IdentityBind
  <2> HIDE DEF bound
  <2>3. \A q \in Provider : bound[q] # None => NobodyHas(q, bound[q])
    BY <2>1, <2>2, LookUp DEF Alone
  <2> QED
    BY <1>2, <2>2, <2>3
<1>5. ASSUME NEW p \in Provider, NEW x \in Identity, IdentityLogin(c, p, x) PROVE Alone'
  <2> DEFINE a == [provider |-> p, identity |-> x, name |-> None]
  <2>1. a.provider = p /\ a.identity = x
    OBVIOUS
  <2>2. ~ IsIdentityAlreadyTaken(p, x) /\ Proceed(c, "name", a) /\ UNCHANGED users
    BY <1>5 DEF IdentityLogin
  <2> HIDE DEF a
  <2>3. HoldsTrue("name", a)
    BY <2>1, <2>2, LookUp DEF HoldsTrue, Alone
  <2> QED
    BY <2>2, <2>3, AloneProceed
<1>6. ASSUME FillUserById(c) PROVE Alone'
  <2> DEFINE a == [arg[c] EXCEPT !.row = users[arg[c].id]]
  <2>1. arg[c] \in BindArgument /\ HoldsTrue("fill to bind", arg[c])
    BY <1>6 DEF FillUserById, TypeInv, ArgumentInv, Fits, Alone
  <2>2. arg[c].id \in Id /\ users[arg[c].id] \in User \cup {None}
    BY <2>1 DEF BindArgument, TypeInv, TypeOK
  <2>3. a.row = users[arg[c].id] /\ a.id = arg[c].id /\ a.bound = arg[c].bound
    BY <2>1, <2>2, FilledType
  <2>4. Proceed(c, "update", a) /\ UNCHANGED users
    BY <1>6, Zenon DEF FillUserById
  <2> HIDE DEF a
  <2>5. HoldsTrue("update", a)
    BY <2>1, <2>2, <2>3 DEF HoldsTrue
  <2> QED
    BY <2>4, <2>5, AloneProceed
<1>7. ASSUME UpdateBound(c) PROVE Alone'
  <2>1. arg[c] \in BindArgument /\ HoldsTrue("update", arg[c]) /\ Writing(pc[c])
    BY <1>7, UpdateBoundIs DEF TypeInv, ArgumentInv, Fits, Alone, Writing
  <2>2. arg[c].id \in Id /\ arg[c].row \in User \cup {None}
    BY <2>1 DEF BindArgument
  <2>3. \A p \in Provider : WrittenBound(arg[c])[p] # None =>
          \/ users[arg[c].id] # None => users[arg[c].id].bound[p] = WrittenBound(arg[c])[p]
          \/ NobodyHas(p, WrittenBound(arg[c])[p])
    BY <2>1, <2>2 DEF HoldsTrue, WrittenBound, ReadFields, Given, NoIdentity
  <2>4. Update(arg[c].id, WrittenEmail(arg[c]), WrittenBound(arg[c])) /\ Done(c)
    BY <1>7, UpdateBoundIs
  <2>5. Distinct'
    BY <2>2, <2>3, <2>4, UpdateDistinct DEF Alone
  <2> QED
    BY <2>1, <2>4, <2>5, AloneDone
<1>8. ASSUME MakeName(c) PROVE Alone'
  <2> DEFINE name == <<arg[c].provider, GetMaxUserId + 1>>
             a == [arg[c] EXCEPT !.name = name]
  <2>1. arg[c] \in IdentityArgument /\ HoldsTrue("name", arg[c])
    BY <1>8 DEF MakeName, TypeInv, ArgumentInv, Fits, Alone
  <2>2. name \in Provider \X Nat
    BY <2>1, MaxUserId DEF IdentityArgument, TypeInv
  <2>3. a.provider = arg[c].provider /\ a.identity = arg[c].identity
    BY <2>1, <2>2, NamedType
  <2>4. Proceed(c, "insert identity", a) /\ UNCHANGED users
    BY <1>8, Zenon DEF MakeName
  <2> HIDE DEF a
  <2>5. HoldsTrue("insert identity", a)
    BY <2>1, <2>3 DEF HoldsTrue
  <2> QED
    BY <2>4, <2>5, AloneProceed
<1>9. ASSUME NEW e \in Email \cup {None}, InsertIdentity(c, e) PROVE Alone'
  <2> DEFINE row == [email |-> e, name |-> arg[c].name,
                     bound |-> [NoIdentity EXCEPT ![arg[c].provider] = arg[c].identity]]
  <2>1. /\ arg[c] \in IdentityArgument /\ HoldsTrue("insert identity", arg[c])
        /\ Writing(pc[c])
    BY <1>9 DEF InsertIdentity, TypeInv, ArgumentInv, Fits, Alone, Writing
  <2>2. row \in User
    BY <2>1, NoIdentityType DEF IdentityArgument, User, Bound
  <2>3. \A p \in Provider : row.bound[p] # None =>
          p = arg[c].provider /\ row.bound[p] = arg[c].identity
    BY DEF NoIdentity
  <2>4. (UNCHANGED users \/ Insert(row)) /\ Done(c)
    BY <1>9, Zenon DEF InsertIdentity
  <2> HIDE DEF row
  <2>5. \A p \in Provider : row.bound[p] # None => NobodyHas(p, row.bound[p])
    BY <2>1, <2>3 DEF HoldsTrue
  <2>6. Distinct'
    BY <2>2, <2>4, <2>5, InsertDistinct DEF Alone, Distinct
  <2> QED
    BY <2>1, <2>4, <2>6, AloneDone
<1> QED
  BY <1>1, <1>3, <1>4, <1>5, <1>6, <1>7, <1>8, <1>9, Zenon DEF RowAction

LEMMA Mixing ==
  ASSUME NEW c \in Client, CodeAction(c) \/ RowAction(c), mixed
  PROVE  mixed'
<1>1. \E place, a : Proceed(c, place, a)
  BY Zenon DEF CodeAction, SendCode, RegisterCode, Mail, MailFail, VerifyReset,
    VerifyRegister, ResetUserPassword, DeleteKey, RowAction, InsertRegistered, EmailBind,
    IdentityBind, Bind, IdentityLogin, FillUserById, UpdateBound, MakeName, InsertIdentity,
    Done
<1> QED
  BY <1>1, Zenon DEF Proceed

LEMMA AloneStep == TypeInv /\ AloneInv /\ [Next]_vars => AloneInv'
<1> SUFFICES ASSUME TypeInv, Alone, ~ mixed, [Next]_vars, ~ mixed' PROVE Alone'
  <2>1. mixed /\ [Next]_vars => mixed'
    BY Mixing, Steps, Zenon DEF vars, DeleteUser, Tick, Restart
  <2> QED
    BY <2>1, Zenon DEF AloneInv
<1> USE DEF table, verification
<1>1. CASE UNCHANGED vars
  BY <1>1, AloneKeeps DEF vars, Alone
<1>2. ASSUME NEW i \in Id, DeleteUser(i) PROVE Alone'
  <2>1. /\ UNCHANGED <<pc, arg>>
        /\ \A j \in Id : users'[j] \in {users[j], None}
    BY <1>2 DEF DeleteUser, TypeInv, TypeOK
  <2> QED
    BY <2>1, AloneKeeps DEF Alone
<1>3. CASE Tick
  BY <1>3, AloneKeeps DEF Tick, Alone
<1>4. CASE Restart
  <2>1. \A d \in Client : ~ Writing(pc'[d]) /\ HoldsTrue(pc'[d], arg'[d])
    BY <1>4 DEF Restart, Writing, HoldsTrue
  <2> QED
    BY <1>4, <2>1, AloneKeeps DEF Restart
<1> QED
  BY <1>1, <1>2, <1>3, <1>4, AloneOfCodes, AloneOfRows, Steps

\* GitHubBind, WeChatBind, GitHubOAuth and WeChatAuth give no identity to two
\* accounts as long as the requests that look identities up or write rows back come
\* one after the other: looking up and writing later is safe only then.
THEOREM IdentitiesAreDistinct == Spec => []OneAccountPerIdentity
<1>1. Init => AloneInv
  BY AloneInit
<1>2. AloneInv => OneAccountPerIdentity
  BY DEF AloneInv, Alone, Distinct, OneAccountPerIdentity, Rows
<1> QED
  BY <1>1, <1>2, TypeInvariance, AloneStep, PTL DEF Spec

-------------------------------------------------------------------------------
\* The map of codes is finite, so that removing an entry makes it smaller.

Registered == {key \in DOMAIN codes : codes[key] # None}

SweepInv == IsFiniteSet(Registered) /\ MapIsSwept

LEMMA SweepInit == Init => SweepInv
<1> SUFFICES ASSUME Init PROVE SweepInv
  OBVIOUS
<1>1. Registered = {}
  BY DEF Init, Registered
<1> QED
  BY <1>1, FS_EmptySet DEF SweepInv, MapIsSwept, Registered

\* Registering a code sweeps the map when it has become too large.
LEMMA SweepRegister ==
  ASSUME TypeInv, SweepInv, NEW key \in Key, NEW code,
         RegisterVerificationCodeWithKey(key, code)
  PROVE  SweepInv'
<1> DEFINE map == [codes EXCEPT ![key] = [code |-> code, time |-> now]]
<1>1. /\ DOMAIN map = Key /\ map[key] = [code |-> code, time |-> now]
      /\ \A k \in Key \ {key} : map[k] = codes[k]
      /\ DOMAIN codes = Key
  BY DEF TypeInv, TypeOK, Key
<1>2. /\ codes' = IF Size(map) > MaxSize THEN RemoveExpiredPairs(map) ELSE map
      /\ swept' = now
  BY DEF RegisterVerificationCodeWithKey
<1>3. \A k \in Key : map[k] # None => k = key \/ codes[k] # None
  BY <1>1
<1> HIDE DEF map
<1>4. /\ DOMAIN RemoveExpiredPairs(map) = Key
      /\ \A k \in Key : RemoveExpiredPairs(map)[k] =
           IF map[k] # None /\ Expired(map[k]) THEN None ELSE map[k]
  BY <1>1, Zenon DEF RemoveExpiredPairs
<1>5. DOMAIN codes' = Key /\ Registered' \subseteq Registered \cup {key}
  BY <1>1, <1>2, <1>3, <1>4 DEF Registered
<1>6. IsFiniteSet(Registered')
  BY <1>5, FS_AddElement, FS_Subset DEF SweepInv
<1>7. ASSUME Size(codes') > MaxSize, NEW k \in Key, codes'[k] # None
      PROVE  now - codes'[k].time < Valid
  <2>1. codes' = RemoveExpiredPairs(map)
    BY <1>2, <1>7
  <2>2. codes'[k] = map[k] /\ map[k] # None /\ ~ Expired(map[k])
    BY <1>4, <1>7, <2>1
  <2>3. map[k].time \in Nat /\ now \in Nat
    BY <1>1, <2>2, BoundAssumption DEF TypeInv, TypeOK, Key
  <2> QED
    BY <2>2, <2>3, BoundAssumption DEF Expired
<1> QED
  BY <1>2, <1>5, <1>6, <1>7, Zenon DEF SweepInv, MapIsSwept, Size

\* What makes the map smaller keeps it swept.
LEMMA SweepShrinks ==
  ASSUME TypeInv, SweepInv, UNCHANGED swept, codes' \in [Key -> Entry \cup {None}],
         \A k \in Key : codes'[k] \in {codes[k], None}
  PROVE  SweepInv'
<1>1. DOMAIN codes = Key /\ DOMAIN codes' = Key
  BY DEF TypeInv, TypeOK, Key
<1>2. Registered' \subseteq Registered
  BY <1>1 DEF Registered
<1>3. IsFiniteSet(Registered') /\ Cardinality(Registered') <= Cardinality(Registered)
  BY <1>2, FS_Subset DEF SweepInv
<1>4. Cardinality(Registered') \in Nat /\ Cardinality(Registered) \in Nat
  BY <1>3, FS_CardinalityType DEF SweepInv
<1>5. /\ Size(codes') = Cardinality(Registered')
      /\ Size(codes) = Cardinality(Registered)
  BY DEF Size, Registered
<1>6. Size(codes') > MaxSize => Size(codes) > MaxSize
  BY <1>3, <1>4, <1>5, BoundAssumption
<1>7. MapIsSwept'
  BY <1>1, <1>6 DEF SweepInv, MapIsSwept
<1> QED
  BY <1>3, <1>7 DEF SweepInv

LEMMA SweepStep == TypeInv /\ SweepInv /\ [Next]_vars => SweepInv'
<1> SUFFICES ASSUME TypeInv, SweepInv, [Next]_vars PROVE SweepInv'
  OBVIOUS
<1> USE DEF table, verification
<1>1. TypeInv'
  BY TypeStep
<1>2. codes \in [Key -> Entry \cup {None}] /\ codes' \in [Key -> Entry \cup {None}]
  BY <1>1 DEF TypeInv, TypeOK, Key, Entry
<1>3. UNCHANGED <<codes, swept>> => SweepInv'
  BY <1>2, SweepShrinks
<1>4. ASSUME NEW c \in Client, RegisterCode(c) PROVE SweepInv'
  <2>1. KeyOf(arg[c]) \in Key /\ RegisterVerificationCodeWithKey(KeyOf(arg[c]), drawn')
    BY <1>4, RegisterCodeIs, Zenon
  <2> QED
    BY <2>1, SweepRegister, Zenon
<1>5. ASSUME NEW c \in Client, DeleteKey(c) PROVE SweepInv'
  <2>1. UNCHANGED swept /\ \A k \in Key : codes'[k] \in {codes[k], None}
    BY <1>5, DeleteKeyIs
  <2> QED
    BY <1>2, <2>1, SweepShrinks
<1>6. ASSUME NEW c \in Client, Mail(c) PROVE SweepInv'
  BY <1>3, <1>6, MailIs
<1>7. ASSUME NEW c \in Client, CodeAction(c) \/ RowAction(c),
             ~ RegisterCode(c), ~ Mail(c), ~ DeleteKey(c)
      PROVE  SweepInv'
  BY <1>3, <1>7, QuietCarry, RowsNotCodes
<1>8. ASSUME NEW i \in Id, DeleteUser(i) PROVE SweepInv'
  BY <1>3, <1>8 DEF DeleteUser
<1>9. CASE Tick
  BY <1>3, <1>9 DEF Tick
<1>10. CASE Restart
  <2>1. UNCHANGED swept /\ \A k \in Key : codes'[k] \in {codes[k], None}
    BY <1>10 DEF Restart, Key
  <2> QED
    BY <1>2, <2>1, SweepShrinks
<1>11. CASE UNCHANGED vars
  BY <1>3, <1>11 DEF vars
<1> QED
  BY <1>4, <1>5, <1>6, <1>7, <1>8, <1>9, <1>10, <1>11, Steps

\* The map grows beyond verificationMapMaxSize only with codes that were good when
\* it was swept, however many requests register codes (common/verification.go).
THEOREM CodesAreSwept == Spec => []MapIsSwept
<1>1. Init => SweepInv
  BY SweepInit
<1>2. SweepInv => MapIsSwept
  BY DEF SweepInv
<1> QED
  BY <1>1, <1>2, TypeInvariance, SweepStep, PTL DEF Spec

\* A code stays until it has expired, is replaced, is used up by a reset, or the
\* process restarts: the sweep takes none that is good (common/verification.go).
THEOREM GoodCodesStay == Spec => CodesStayGood
<1> DEFINE gone(key) ==
      codes[key] # None /\ ~ Expired(codes[key]) /\ codes'[key] = None
    reason(key) ==
      \/ \E c \in Client : pc[c] = "delete key" /\ key = <<"r", arg[c].email>>
      \/ \A c \in Client : pc'[c] = "idle"
<1>1. ASSUME TypeInv, [Next]_vars, NEW key \in Key, gone(key) PROVE reason(key)
  <2> USE DEF table, verification
  <2>1. codes'[key] # codes[key]
    BY <1>1
  <2>2. CASE Restart
    BY <2>2 DEF Restart
  <2>3. ASSUME NEW c \in Client, DeleteKey(c) PROVE reason(key)
    <3>1. arg[c] \in CodeArgument /\ arg[c].purpose = "r" /\ pc[c] = "delete key"
      BY <1>1, <2>3 DEF DeleteKey, TypeInv, ArgumentInv, Fits
    <3>2. key = KeyOf(arg[c])
      BY <1>1, <2>1, <2>3, DeleteKeyIs
    <3> QED
      BY <3>1, <3>2 DEF KeyOf
  <2>4. ASSUME NEW c \in Client, RegisterCode(c) PROVE FALSE
    <3> DEFINE entry == [code |-> drawn', time |-> now]
               map == [codes EXCEPT ![KeyOf(arg[c])] = entry]
    <3>1. RegisterVerificationCodeWithKey(KeyOf(arg[c]), drawn') /\ KeyOf(arg[c]) \in Key
      BY <1>1, <2>4, RegisterCodeIs, Zenon
    <3>2. codes' \in {map, RemoveExpiredPairs(map)}
      BY <3>1, Zenon DEF RegisterVerificationCodeWithKey
    <3>3. drawn' \in Nat /\ now \in Nat
      BY <1>1, TypeStep, BoundAssumption DEF TypeInv, TypeOK
    <3>4. entry # None /\ entry.time = now
      BY <3>3, NoneAssumption
    <3> HIDE DEF entry
    <3>5. /\ DOMAIN map = Key /\ map[KeyOf(arg[c])] = entry
          /\ \A k \in Key \ {KeyOf(arg[c])} : map[k] = codes[k]
      BY <1>1, <3>1 DEF TypeInv, TypeOK, Key
    <3> HIDE DEF map
    <3>6. ~ Expired(entry)
      BY <3>3, <3>4, BoundAssumption DEF Expired
    <3>7. map[key] # None /\ ~ Expired(map[key])
      BY <1>1, <3>4, <3>5, <3>6
    <3>8. RemoveExpiredPairs(map)[key] = map[key]
      BY <3>5, <3>7 DEF RemoveExpiredPairs
    <3> QED
      BY <1>1, <3>2, <3>7, <3>8
  <2>5. UNCHANGED codes \/ Restart \/ \E c \in Client : RegisterCode(c) \/ DeleteKey(c)
    <3>1. ASSUME NEW c \in Client, CodeAction(c) \/ RowAction(c),
                 ~ RegisterCode(c), ~ DeleteKey(c)
          PROVE  UNCHANGED codes
      BY <1>1, <3>1, QuietCarry, RowsNotCodes, MailIs
    <3> QED
      BY <1>1, <3>1, Steps DEF vars, DeleteUser, Tick
  <2> QED
    BY <2>1, <2>2, <2>3, <2>4, <2>5
<1>2. TypeInv /\ [Next]_vars =>
        [\A key \in Purpose \X Email : gone(key) => reason(key)]_vars
  BY <1>1 DEF Key
<1> QED
  BY <1>2, TypeInvariance, PTL DEF Spec, CodesStayGood

===============================================================================
