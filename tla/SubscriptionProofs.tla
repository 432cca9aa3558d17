-------------------------- MODULE SubscriptionProofs --------------------------
(***************************************************************************)
(* Proofs about Subscription for every set of profiles, clients, variants   *)
(* and every clock, and about LinkHeaders, which extends it, for every set  *)
(* of bodies and requests.                                                  *)
(***************************************************************************)
EXTENDS LinkHeaders, TLAPS

ProfilesTable == [Id -> Profile \cup {NoRow}]

\* Every statement on the table of profiles leaves a table of profiles.
LEMMA ProfileStatements ==
  ASSUME NEW table \in ProfilesTable, NEW i \in Id
  PROVE  /\ \A token \in Token, url \in Url, mode \in FetchMode \cup {""} :
              Insert(table, i, token, url, mode) \in ProfilesTable
         /\ \A url \in Url, mode \in FetchMode \cup {""} :
              UpdateEditableFields(table, i, url, mode) \in ProfilesTable
         /\ \A status \in Status :
              UpdateProfileStatus(table, i, status) \in ProfilesTable
         /\ \A token \in Token :
              UpdateProfileToken(table, i, token) \in ProfilesTable
         /\ \A time \in Time :
              UpdateProfileFetchResult(table, i, time) \in ProfilesTable
         /\ UpdateProfileFetchError(table, i) \in ProfilesTable
         /\ DeleteProfileRow(table, i) \in ProfilesTable
<1> USE DEF ProfilesTable
<1>1. \A mode \in FetchMode \cup {""} : ValidateProfile(mode) \in FetchMode
  BY DEF ValidateProfile, FetchMode
<1>2. table[i] # NoRow => table[i] \in Profile
  OBVIOUS
<1>3. ASSUME NEW token \in Token, NEW url \in Url, NEW mode \in FetchMode \cup {""}
      PROVE  Insert(table, i, token, url, mode) \in ProfilesTable
  BY <1>1 DEF Insert, Profile, Status
<1>4. ASSUME NEW url \in Url, NEW mode \in FetchMode \cup {""}
      PROVE  UpdateEditableFields(table, i, url, mode) \in ProfilesTable
  BY <1>1, <1>2 DEF UpdateEditableFields, UpdateWhereId, Profile
<1>5. ASSUME NEW status \in Status
      PROVE  UpdateProfileStatus(table, i, status) \in ProfilesTable
  BY <1>2 DEF UpdateProfileStatus, UpdateWhereId, Profile
<1>6. ASSUME NEW token \in Token
      PROVE  UpdateProfileToken(table, i, token) \in ProfilesTable
  BY <1>2 DEF UpdateProfileToken, UpdateWhereId, Profile
<1>7. ASSUME NEW time \in Time
      PROVE  UpdateProfileFetchResult(table, i, time) \in ProfilesTable
  BY <1>2 DEF UpdateProfileFetchResult, UpdateWhereId, Profile
<1>8. UpdateProfileFetchError(table, i) \in ProfilesTable
  BY <1>2 DEF UpdateProfileFetchError, UpdateWhereId, Profile
<1>9. DeleteProfileRow(table, i) \in ProfilesTable
  BY DEF DeleteProfileRow
<1> QED
  BY <1>3, <1>4, <1>5, <1>6, <1>7, <1>8, <1>9

CachesTable == [Id -> [Variant -> ProfileCache \cup {NoRow}]]

\* Every statement on the table of copies leaves a table of copies.
LEMMA CacheStatements ==
  ASSUME NEW table \in CachesTable
  PROVE  /\ \A i \in Id : DeleteCaches(table, i) \in CachesTable
         /\ \A copy \in ProfileCache :
              UpsertProfileCache(table, copy) \in CachesTable
<1>1. ASSUME NEW i \in Id PROVE DeleteCaches(table, i) \in CachesTable
  BY DEF DeleteCaches, CachesTable
<1>2. ASSUME NEW copy \in ProfileCache
      PROVE  UpsertProfileCache(table, copy) \in CachesTable
  <2>1. copy.id \in Id /\ copy.variant \in Variant
    BY DEF ProfileCache
  <2> QED
    BY <2>1 DEF UpsertProfileCache, CachesTable
<1> QED
  BY <1>1, <1>2

-------------------------------------------------------------------------------
\* What the variables of a request hold at each place of the handler.
RequestInv ==
  \A c \in Client :
    /\ pc[c] # "idle" => arg[c] \in Argument
    /\ pc[c] \in {"upsert", "result"} =>
         /\ got[c] \in ProfileCache
         /\ got[c].id = arg[c].id
         /\ got[c].variant = arg[c].variant

TypeInv == TypeOK /\ RequestInv

LEMMA TypeInit == Init => TypeInv
<1> SUFFICES ASSUME Init PROVE TypeInv
  OBVIOUS
<1> QED
  BY DEF Init, TypeInv, TypeOK, RequestInv, Place, Kind, NoReply

LEMMA FetchedType ==
  ASSUME TypeInv, NEW c \in Client, pc[c] # "idle", NEW t \in Time
  PROVE  /\ Fetched(c, t) \in ProfileCache
         /\ Fetched(c, t).id = arg[c].id
         /\ Fetched(c, t).variant = arg[c].variant
         /\ Fetched(c, t).time = t
BY DEF Fetched, TypeInv, RequestInv, Argument, ProfileCache

LEMMA DeliverType ==
  ASSUME TypeInv, NEW copy \in ProfileCache, Deliver(copy)
  PROVE  delivered' \in [Id -> [Variant -> Time \cup {0}]]
BY DEF Deliver, TypeInv, TypeOK, ProfileCache

\* An answer leaves the variables of requests well typed.
LEMMA AnswerType ==
  ASSUME TypeInv, NEW c \in Client, NEW kind \in Kind,
         NEW copy \in ProfileCache \cup {NoRow}, Answer(c, kind, copy)
  PROVE  /\ pc' \in [Client -> Place]
         /\ arg' \in [Client -> Argument \cup {NoRow}]
         /\ got' \in [Client -> ProfileCache \cup {NoRow}]
         /\ reply' \in [Client -> [kind : Kind, copy : ProfileCache \cup {NoRow}]]
         /\ RequestInv'
BY DEF Answer, TypeInv, TypeOK, RequestInv, Place

LEMMA AdministerType ==
  ASSUME TypeInv, Administer
  PROVE  TypeInv'
<1> USE DEF TypeInv, TypeOK, database, request
<1>1. PICK i \in Id :
        \/ \E token \in Token, url \in Url, mode \in FetchMode \cup {""} :
             CreateProfile(i, token, url, mode)
        \/ \E url \in Url, mode \in FetchMode \cup {""} : UpdateProfile(i, url, mode)
        \/ \E status \in Status : UpdateStatusOnly(i, status)
        \/ DeleteProfile(i)
        \/ \E token \in Token : ResetProfile(i, token)
  BY DEF Administer, AdministerProfile
<1>2. profiles \in ProfilesTable /\ caches \in CachesTable
  BY DEF ProfilesTable, CachesTable
<1>3. /\ profiles' \in ProfilesTable
      /\ caches' \in CachesTable
      /\ usedIds' \subseteq Id
      /\ issued' \subseteq Token
      /\ UNCHANGED <<now, lock, request>>
  <2>1. CASE \E token \in Token, url \in Url, mode \in FetchMode \cup {""} :
               CreateProfile(i, token, url, mode)
    <3>1. PICK token \in Token, url \in Url, mode \in FetchMode \cup {""} :
            CreateProfile(i, token, url, mode)
      BY <2>1
    <3>2. Insert(profiles, i, token, url, mode) \in ProfilesTable
      BY <1>2, ProfileStatements
    <3> QED
      BY <1>2, <3>1, <3>2 DEF CreateProfile
  <2>2. CASE \E url \in Url, mode \in FetchMode \cup {""} :
               UpdateProfile(i, url, mode)
    <3>1. PICK url \in Url, mode \in FetchMode \cup {""} : UpdateProfile(i, url, mode)
      BY <2>2
    <3>2. UpdateEditableFields(profiles, i, url, mode) \in ProfilesTable
      BY <1>2, ProfileStatements
    <3> QED
      BY <1>2, <3>1, <3>2 DEF UpdateProfile
  <2>3. CASE \E status \in Status : UpdateStatusOnly(i, status)
    <3>1. PICK status \in Status : UpdateStatusOnly(i, status)
      BY <2>3
    <3>2. UpdateProfileStatus(profiles, i, status) \in ProfilesTable
      BY <1>2, ProfileStatements
    <3> QED
      BY <1>2, <3>1, <3>2 DEF UpdateStatusOnly
  <2>4. CASE DeleteProfile(i)
    BY <2>4, <1>2, ProfileStatements, CacheStatements DEF DeleteProfile
  <2>5. CASE \E token \in Token : ResetProfile(i, token)
    <3>1. PICK token \in Token : ResetProfile(i, token)
      BY <2>5
    <3>2. UpdateProfileToken(profiles, i, token) \in ProfilesTable
      BY <1>2, ProfileStatements
    <3> QED
      BY <1>2, <3>1, <3>2 DEF ResetProfile
  <2> QED
    BY <1>1, <2>1, <2>2, <2>3, <2>4, <2>5
<1>4. RequestInv'
  BY <1>3 DEF RequestInv
<1> QED
  BY <1>3, <1>4 DEF ProfilesTable, CachesTable

LEMMA BeginType ==
  ASSUME TypeInv, NEW c \in Client, Begin(c)
  PROVE  TypeInv'
<1>1. PICK token \in Token :
        \/ LookUpUnknown(c, token)
        \/ LookUpDisabled(c, token)
        \/ \E v \in Variant : LookUp(c, token, v)
  BY DEF Begin
<1>2. CASE LookUpUnknown(c, token) \/ LookUpDisabled(c, token)
  <2>1. PICK kind \in Kind : Answer(c, kind, NoRow)
    BY <1>2 DEF LookUpUnknown, LookUpDisabled, Kind
  <2>2. UNCHANGED <<database, now, lock, delivered>>
    BY <1>2 DEF LookUpUnknown, LookUpDisabled
  <2> QED
    BY <2>1, <2>2, AnswerType DEF TypeInv, TypeOK, database
<1>3. ASSUME NEW v \in Variant, LookUp(c, token, v) PROVE TypeInv'
  <2>1. PICK i \in ProfilesByToken(profiles, token) :
          /\ GoTo(c, IF profiles[i].mode = "proxy" THEN "direct" ELSE "lock")
          /\ arg' = [arg EXCEPT ![c] =
               [id |-> i, birth |-> profiles[i].birth, url |-> profiles[i].url,
                variant |-> v, seen |-> delivered[i][v],
                hadCopy |-> GetProfileCache(caches, i, v) # NoRow]]
    BY <1>3 DEF LookUp
  <2>2. i \in Id /\ profiles[i] \in Profile
    BY DEF ProfilesByToken, TypeInv, TypeOK
  <2>3. arg' \in [Client -> Argument \cup {NoRow}] /\ arg'[c] \in Argument
    BY <2>1, <2>2 DEF TypeInv, TypeOK, Argument, Profile
  <2>4. pc' \in [Client -> Place] /\ pc'[c] \in {"direct", "lock"}
    BY <2>1 DEF GoTo, TypeInv, TypeOK, Place
  <2>5. reply' \in [Client -> [kind : Kind, copy : ProfileCache \cup {NoRow}]]
    BY <1>3 DEF LookUp, TypeInv, TypeOK, NoReply, Kind
  <2>6. UNCHANGED <<database, now, lock, got, delivered>>
    BY <1>3 DEF LookUp
  <2>7. RequestInv'
    BY <2>1, <2>3, <2>4, <2>6 DEF TypeInv, TypeOK, RequestInv, GoTo
  <2> QED
    BY <2>3, <2>4, <2>5, <2>6, <2>7 DEF TypeInv, TypeOK, database
<1> QED
  BY <1>1, <1>2, <1>3

LEMMA AcquireLockType ==
  ASSUME TypeInv, NEW c \in Client, AcquireLock(c)
  PROVE  TypeInv'
<1>1. arg[c] \in Argument
  BY DEF AcquireLock, TypeInv, RequestInv
<1>2. lock' \in [Id -> Client \cup {NoOne}]
  BY <1>1 DEF AcquireLock, TypeInv, TypeOK, Argument
<1>3. pc' \in [Client -> Place] /\ RequestInv'
  BY DEF AcquireLock, TypeInv, TypeOK, RequestInv, GoTo, Place
<1> QED
  BY <1>2, <1>3 DEF AcquireLock, TypeInv, TypeOK, database

\* The steps that keep a request under way change its place and, at a fetch,
\* the copy it holds.
LEMMA GoToType ==
  ASSUME TypeInv, NEW c \in Client, pc[c] # "idle",
         NEW place \in Place, GoTo(c, place), arg' = arg,
         \/ got' = got /\ place # "upsert" /\ (place = "result" => pc[c] = "upsert")
         \/ got' = [got EXCEPT ![c] = NoRow] /\ place \notin {"upsert", "result"}
         \/ \E t \in Time : got' = [got EXCEPT ![c] = Fetched(c, t)]
  PROVE  /\ pc' \in [Client -> Place]
         /\ got' \in [Client -> ProfileCache \cup {NoRow}]
         /\ RequestInv'
<1>1. \A t \in Time : /\ Fetched(c, t) \in ProfileCache
                      /\ Fetched(c, t).id = arg[c].id
                      /\ Fetched(c, t).variant = arg[c].variant
  BY FetchedType
<1>2. pc' \in [Client -> Place]
  BY DEF GoTo, TypeInv, TypeOK
<1>3. got' \in [Client -> ProfileCache \cup {NoRow}]
  BY <1>1 DEF TypeInv, TypeOK
<1>4. RequestInv'
  <2> SUFFICES ASSUME NEW d \in Client
               PROVE  /\ pc'[d] # "idle" => arg'[d] \in Argument
                      /\ pc'[d] \in {"upsert", "result"} =>
                           /\ got'[d] \in ProfileCache
                           /\ got'[d].id = arg'[d].id
                           /\ got'[d].variant = arg'[d].variant
    BY DEF RequestInv
  <2>1. CASE d # c
    BY <2>1 DEF TypeInv, TypeOK, RequestInv, GoTo
  <2>2. CASE d = c
    BY <1>1, <2>2 DEF TypeInv, TypeOK, RequestInv, GoTo
  <2> QED
    BY <2>1, <2>2
<1> QED
  BY <1>2, <1>3, <1>4

LEMMA ServeType ==
  ASSUME TypeInv, NEW c \in Client, Serve(c)
  PROVE  TypeInv'
<1> USE DEF TypeInv, TypeOK, database
<1>1. pc[c] # "idle" /\ arg[c] \in Argument
  BY DEF Serve, FetchDirectOk, FetchDirectFail, FetchOk, FetchFail, RecordError,
         UpsertOk, UpsertFail, RecordResult, ServeCached, RequestInv
<1>2. profiles \in ProfilesTable /\ caches \in CachesTable /\ arg[c].id \in Id
  BY <1>1 DEF ProfilesTable, CachesTable, Argument
<1>3. ASSUME NEW t \in Time, FetchDirectOk(c, t) PROVE TypeInv'
  <2>1. Fetched(c, t) \in ProfileCache
    BY <1>1, FetchedType
  <2>2. now' \in Nat
    BY <1>3, TimeAssumption DEF FetchDirectOk
  <2> QED
    BY <1>3, <2>1, <2>2, AnswerType DEF FetchDirectOk, Kind
<1>4. ASSUME FetchDirectFail(c) PROVE TypeInv'
  BY <1>4, AnswerType DEF FetchDirectFail, Kind
<1>5. ASSUME NEW t \in Time, FetchOk(c, t) PROVE TypeInv'
  <2>1. now' \in Nat
    BY <1>5, TimeAssumption DEF FetchOk
  <2>2. /\ pc' \in [Client -> Place]
        /\ got' \in [Client -> ProfileCache \cup {NoRow}]
        /\ RequestInv'
    BY <1>1, <1>5, GoToType DEF FetchOk, Place
  <2> QED
    BY <1>5, <2>1, <2>2 DEF FetchOk
<1>6. ASSUME FetchFail(c) PROVE TypeInv'
  <2>1. pc' \in [Client -> Place] /\ RequestInv'
    BY <1>1, <1>6, GoToType DEF FetchFail, Place
  <2> QED
    BY <1>6, <2>1 DEF FetchFail
<1>7. ASSUME RecordError(c) PROVE TypeInv'
  <2>1. profiles' \in ProfilesTable
    <3>1. UpdateProfileFetchError(profiles, arg[c].id) \in ProfilesTable
      BY <1>2, ProfileStatements
    <3> QED
      BY <1>2, <1>7, <3>1 DEF RecordError
  <2>2. pc' \in [Client -> Place] /\ RequestInv'
    BY <1>1, <1>7, GoToType DEF RecordError, Place
  <2>3. lock' \in [Id -> Client \cup {NoOne}]
    BY <1>7 DEF RecordError, Unlock
  <2> QED
    BY <1>7, <2>1, <2>2, <2>3 DEF RecordError, ProfilesTable
<1>8. ASSUME UpsertOk(c) PROVE TypeInv'
  <2>1. got[c] \in ProfileCache
    BY <1>8 DEF UpsertOk, RequestInv
  <2>2. caches' \in CachesTable
    BY <1>2, <1>8, <2>1, CacheStatements DEF UpsertOk
  <2>3. pc' \in [Client -> Place] /\ RequestInv'
    BY <1>1, <1>8, GoToType DEF UpsertOk, Place
  <2> QED
    BY <1>8, <2>2, <2>3 DEF UpsertOk, CachesTable
<1>9. ASSUME UpsertFail(c) PROVE TypeInv'
  <2>1. /\ pc' \in [Client -> Place]
        /\ got' \in [Client -> ProfileCache \cup {NoRow}]
        /\ RequestInv'
    BY <1>1, <1>9, GoToType DEF UpsertFail, Place
  <2>2. lock' \in [Id -> Client \cup {NoOne}]
    BY <1>9 DEF UpsertFail, Unlock
  <2> QED
    BY <1>9, <2>1, <2>2 DEF UpsertFail
<1>10. ASSUME RecordResult(c) PROVE TypeInv'
  <2>1. got[c] \in ProfileCache /\ got[c].time \in Time
    BY <1>10 DEF RecordResult, RequestInv, ProfileCache
  <2>2. profiles' \in ProfilesTable
    <3>1. UpdateProfileFetchResult(profiles, arg[c].id, got[c].time) \in ProfilesTable
      BY <1>2, <2>1, ProfileStatements
    <3> QED
      BY <1>2, <1>10, <3>1 DEF RecordResult
  <2>3. lock' \in [Id -> Client \cup {NoOne}]
    BY <1>10 DEF RecordResult, Unlock
  <2>4. delivered' \in [Id -> [Variant -> Time \cup {0}]]
    BY <1>10, <2>1, DeliverType DEF RecordResult
  <2>5. Answer(c, "fresh", got[c])
    BY <1>10 DEF RecordResult
  <2>6. UNCHANGED <<caches, usedIds, issued, now>>
    BY <1>10 DEF RecordResult
  <2> HIDE DEF TypeInv
  <2>7. /\ pc' \in [Client -> Place]
        /\ arg' \in [Client -> Argument \cup {NoRow}]
        /\ got' \in [Client -> ProfileCache \cup {NoRow}]
        /\ reply' \in [Client -> [kind : Kind, copy : ProfileCache \cup {NoRow}]]
        /\ RequestInv'
    BY <2>1, <2>5, AnswerType DEF Kind
  <2> QED
    BY <2>2, <2>3, <2>4, <2>6, <2>7 DEF TypeInv, ProfilesTable
<1>11. ASSUME ServeCached(c) PROVE TypeInv'
  <2> DEFINE copy == GetProfileCache(caches, arg[c].id, arg[c].variant)
  <2>1. copy \in ProfileCache \cup {NoRow}
    BY <1>1 DEF GetProfileCache, Argument
  <2>2. \E kind \in Kind : Answer(c, kind, copy)
    BY <1>11 DEF ServeCached, Kind
  <2>3. delivered' \in [Id -> [Variant -> Time \cup {0}]]
    BY <1>11, <2>1, DeliverType DEF ServeCached
  <2> HIDE DEF copy
  <2> QED
    BY <1>11, <2>1, <2>2, <2>3, AnswerType DEF ServeCached
<1> QED
  BY <1>3, <1>4, <1>5, <1>6, <1>7, <1>8, <1>9, <1>10, <1>11 DEF Serve

LEMMA RestartType == ASSUME TypeInv, Restart PROVE TypeInv'
BY DEF TypeInv, TypeOK, RequestInv, Restart, Place, Kind, NoReply, database

LEMMA TypeStep == TypeInv /\ [Next]_vars => TypeInv'
<1> SUFFICES ASSUME TypeInv, [Next]_vars PROVE TypeInv'
  OBVIOUS
<1>1. CASE UNCHANGED vars
  BY <1>1 DEF vars, TypeInv, TypeOK, RequestInv
<1>2. CASE Next
  BY <1>2, AdministerType, BeginType, AcquireLockType, ServeType, RestartType DEF Next
<1> QED
  BY <1>1, <1>2

THEOREM TypeInvariant == Spec => []TypeInv
<1> QED
  BY TypeInit, TypeStep, PTL DEF Spec

\* In every state of every behaviour the variables have their types.
THEOREM TypeCorrect == Spec => []TypeOK
<1>1. TypeInv => TypeOK
  BY DEF TypeInv
<1> QED
  BY <1>1, TypeInvariant, PTL

-------------------------------------------------------------------------------
\* Mutual exclusion.

LEMMA MutexInit == Init => MutexHeld
BY NoOneAssumption DEF Init, MutexHeld, Critical

LEMMA MutexStep == TypeInv /\ MutexHeld /\ [Next]_vars => MutexHeld'
<1> SUFFICES ASSUME TypeInv, MutexHeld, [Next]_vars PROVE MutexHeld'
  OBVIOUS
<1> USE DEF TypeInv, TypeOK, RequestInv, MutexHeld, Critical
<1>1. CASE UNCHANGED <<pc, arg, lock>>
  BY <1>1
<1>2. ASSUME Administer PROVE UNCHANGED <<pc, arg, lock>>
  BY <1>2 DEF Administer, AdministerProfile, CreateProfile, UpdateProfile, UpdateStatusOnly,
              DeleteProfile, ResetProfile, request
<1>3. ASSUME NEW c \in Client, Begin(c) PROVE MutexHeld'
  <2>1. /\ lock' = lock
        /\ pc[c] = "idle" /\ pc'[c] \in {"idle", "direct", "lock"}
        /\ \A d \in Client : d # c => pc'[d] = pc[d] /\ arg'[d] = arg[d]
    BY <1>3 DEF Begin, LookUpUnknown, LookUpDisabled, LookUp, Answer, GoTo
  <2>2. ASSUME NEW d \in Client, Critical(d)'
        PROVE  arg'[d] # NoRow /\ lock'[arg'[d].id] = d
    BY <2>1, <2>2
  <2>3. ASSUME NEW i \in Id, lock'[i] # NoOne
        PROVE  Critical(lock[i])' /\ arg'[lock'[i]].id = i
    <3>1. lock[i] \in Client /\ Critical(lock[i]) /\ arg[lock[i]].id = i
      BY <2>1, <2>3
    <3>2. lock[i] # c
      BY <2>1, <3>1
    <3> QED
      BY <2>1, <3>1, <3>2
  <2> QED
    BY <2>2, <2>3
<1>4. ASSUME NEW c \in Client, AcquireLock(c) PROVE MutexHeld'
  <2>1. arg[c] \in Argument /\ arg[c].id \in Id /\ arg[c] # NoRow
    BY <1>4, NoArgumentAssumption DEF AcquireLock, Argument
  <2>2. /\ pc[c] = "lock" /\ pc'[c] = "fetch"
        /\ arg' = arg
        /\ lock[arg[c].id] = NoOne
        /\ lock' = [lock EXCEPT ![arg[c].id] = c]
        /\ \A d \in Client : d # c => pc'[d] = pc[d]
    BY <1>4 DEF AcquireLock, GoTo
  <2> QED
    BY <2>1, <2>2, NoOneAssumption
<1>5. ASSUME NEW c \in Client, Serve(c) PROVE MutexHeld'
  <2> DEFINE release == lock' = [lock EXCEPT ![arg[c].id] = NoOne]
  <2>1. /\ \A d \in Client : d # c => pc'[d] = pc[d] /\ arg'[d] = arg[d]
        /\ \/ /\ pc[c] \in {"direct", "cached"} /\ pc'[c] = "idle" /\ lock' = lock
           \/ /\ pc[c] \in {"fetch", "upsert"} /\ arg' = arg /\ lock' = lock
              /\ pc'[c] \in {"error", "upsert", "result"}
           \/ /\ pc[c] \in {"error", "upsert", "result"} /\ release
              /\ pc'[c] \in {"cached", "idle"}
    BY <1>5 DEF Serve, FetchDirectOk, FetchDirectFail, FetchOk, FetchFail,
                RecordError, UpsertOk, UpsertFail, RecordResult, ServeCached,
                Answer, GoTo, Unlock
  <2>2. arg[c] \in Argument /\ arg[c].id \in Id
    BY <2>1 DEF Argument
  <2>3. CASE pc[c] \in {"direct", "cached"}
    <3>1. ~ Critical(c) /\ ~ Critical(c)' /\ lock' = lock
      BY <2>1, <2>3
    <3>2. ASSUME NEW d \in Client, Critical(d)'
          PROVE  arg'[d] # NoRow /\ lock'[arg'[d].id] = d
      BY <2>1, <3>1, <3>2
    <3>3. ASSUME NEW i \in Id, lock'[i] # NoOne
          PROVE  Critical(lock[i])' /\ arg'[lock'[i]].id = i
      <4>1. lock[i] \in Client /\ Critical(lock[i]) /\ arg[lock[i]].id = i
        BY <3>1, <3>3
      <4>2. lock[i] # c
        BY <3>1, <4>1
      <4> QED
        BY <2>1, <3>1, <4>1, <4>2
    <3> QED
      BY <3>2, <3>3
  <2>4. CASE pc[c] \in {"fetch", "upsert"} /\ lock' = lock
    <3>1. Critical(c) /\ lock[arg[c].id] = c /\ c # NoOne
      BY <2>4, NoOneAssumption
    <3>2. Critical(c)' /\ arg' = arg
      BY <2>1, <2>2, <2>4, <3>1
    <3>3. \A d \in Client : Critical(d)' = Critical(d)
      BY <2>1, <3>1, <3>2
    <3> HIDE DEF Critical
    <3> QED
      BY <2>4, <3>2, <3>3
  <2>5. CASE pc[c] \in {"error", "upsert", "result"} /\ release
    <3>1. Critical(c) /\ lock[arg[c].id] = c /\ c # NoOne
      BY <2>5, NoOneAssumption
    <3>1a. ~ Critical(c)'
      BY <2>1, <2>2, <2>5, <3>1
    <3>2. ASSUME NEW d \in Client, Critical(d)'
          PROVE  arg'[d] # NoRow /\ lock'[arg'[d].id] = d
      <4>1. d # c /\ arg'[d] = arg[d] /\ Critical(d)
        BY <2>1, <3>1a, <3>2
      <4>2. arg[d] # NoRow /\ lock[arg[d].id] = d /\ arg[d].id \in Id
        BY <4>1 DEF Argument
      <4>3. arg[d].id # arg[c].id
        BY <3>1, <4>1, <4>2
      <4> QED
        BY <2>2, <2>5, <4>1, <4>2, <4>3
    <3>3. ASSUME NEW i \in Id, lock'[i] # NoOne
          PROVE  Critical(lock[i])' /\ arg'[lock'[i]].id = i
      <4>1. i # arg[c].id /\ lock'[i] = lock[i]
        BY <2>2, <2>5, <3>3
      <4>2. lock[i] \in Client /\ Critical(lock[i]) /\ arg[lock[i]].id = i
        BY <3>3, <4>1
      <4>3. lock[i] # c
        BY <3>1, <4>1, <4>2
      <4> QED
        BY <2>1, <4>1, <4>2, <4>3
    <3> QED
      BY <3>2, <3>3
  <2> QED
    BY <2>1, <2>3, <2>4, <2>5
<1>6. ASSUME Restart PROVE MutexHeld'
  BY <1>6 DEF Restart
<1>7. CASE UNCHANGED vars
  BY <1>7, <1>1 DEF vars
<1> QED
  BY <1>1, <1>2, <1>3, <1>4, <1>5, <1>6, <1>7 DEF Next

\* On every profile at most one request is between Lock and Unlock, whoever else
\* comes, fails or dies.
THEOREM MutualExclusion == Spec => []MutexHeld
<1> QED
  BY TypeInvariant, MutexInit, MutexStep, PTL DEF Spec

-------------------------------------------------------------------------------
\* The ages of copies.  No stored copy comes from the future or is older than
\* one already delivered ...
StoredInv ==
  \A i \in Id, v \in Variant :
    /\ delivered[i][v] <= now
    /\ caches[i][v] # NoRow =>
         /\ caches[i][v].id = i
         /\ caches[i][v].variant = v
         /\ caches[i][v].time <= now
         /\ delivered[i][v] <= caches[i][v].time

\* ... and what a request has fetched is at least as new as what is stored and
\* delivered, from the fetch to the end of its turn: nobody else stores or
\* delivers a newer one meanwhile.
FetchedBy(c) ==
  LET row == caches[arg[c].id][arg[c].variant]
      newest == delivered[arg[c].id][arg[c].variant]
  IN  /\ pc[c] # "idle" => arg[c].seen <= newest
      /\ pc[c] \in {"upsert", "result"} =>
           got[c].time <= now /\ newest <= got[c].time
      /\ pc[c] = "upsert" /\ row # NoRow => row.time <= got[c].time
      /\ pc[c] = "result" => row \in {NoRow, got[c]}

FetchedInv == \A c \in Client : FetchedBy(c)

SafetyInv == TypeInv /\ MutexHeld /\ StoredInv /\ FetchedInv

LEMMA SafetyInit == Init => SafetyInv
<1> SUFFICES ASSUME Init PROVE SafetyInv
  OBVIOUS
<1>1. StoredInv
  BY DEF Init, StoredInv
<1>2. FetchedInv
  BY DEF Init, FetchedInv, FetchedBy
<1> QED
  BY <1>1, <1>2, TypeInit, MutexInit DEF SafetyInv

\* The types of the ages of a request under way.
LEMMA Ages ==
  ASSUME TypeInv, NEW c \in Client, pc[c] # "idle"
  PROVE  /\ arg[c] \in Argument /\ arg[c].id \in Id /\ arg[c].variant \in Variant
         /\ arg[c].seen \in Nat
         /\ delivered[arg[c].id][arg[c].variant] \in Nat
         /\ now \in Nat
         /\ caches[arg[c].id][arg[c].variant] \in ProfileCache \cup {NoRow}
         /\ pc[c] \in {"upsert", "result"} =>
              got[c] \in ProfileCache /\ got[c].time \in Nat
<1>1. arg[c] \in Argument
  BY DEF TypeInv, RequestInv
<1>2. arg[c].id \in Id /\ arg[c].variant \in Variant /\ arg[c].seen \in Time \cup {0}
  BY <1>1 DEF Argument
<1>3. delivered[arg[c].id][arg[c].variant] \in Time \cup {0}
  BY <1>2 DEF TypeInv, TypeOK
<1>4. caches[arg[c].id][arg[c].variant] \in ProfileCache \cup {NoRow}
  BY <1>2 DEF TypeInv, TypeOK
<1>5. pc[c] \in {"upsert", "result"} => got[c] \in ProfileCache
  BY DEF TypeInv, RequestInv
<1>6. \A copy \in ProfileCache : copy.time \in Nat
  BY TimeAssumption DEF ProfileCache
<1>7. now \in Nat
  BY DEF TypeInv, TypeOK
<1>8. Time \cup {0} \subseteq Nat
  BY TimeAssumption
<1> QED
  BY <1>1, <1>2, <1>3, <1>4, <1>5, <1>6, <1>7, <1>8

\* A request that does not move keeps its bounds when the clock advances and
\* copies are deleted.
LEMMA FetchedFrame ==
  ASSUME TypeInv, TypeInv', FetchedInv, NEW d \in Client,
         pc'[d] = pc[d], arg'[d] = arg[d], got'[d] = got[d], now <= now',
         delivered' = delivered,
         \A i \in Id, v \in Variant : caches'[i][v] \in {caches[i][v], NoRow}
  PROVE  FetchedBy(d)'
<1>1. CASE pc[d] = "idle"
  BY <1>1 DEF FetchedBy
<1>2. CASE pc[d] # "idle"
  <2>1. FetchedBy(d) /\ now' \in Nat
    BY DEF FetchedInv, TypeInv, TypeOK
  <2> QED
    BY <1>2, <2>1, Ages DEF FetchedBy
<1> QED
  BY <1>1, <1>2

\* What requests that fetched hold excludes each other: two requests with the
\* mutex of one profile are one.
LEMMA OneHolder ==
  ASSUME MutexHeld, NEW c \in Client, NEW d \in Client,
         Critical(c), Critical(d), arg[c].id = arg[d].id
  PROVE  c = d
BY DEF MutexHeld

LEMMA SafetyAdminister ==
  ASSUME SafetyInv, TypeInv', Administer
  PROVE  StoredInv' /\ FetchedInv'
<1> USE DEF SafetyInv
<1>1. UNCHANGED <<pc, arg, got, now, delivered>>
  BY DEF Administer, AdministerProfile, CreateProfile, UpdateProfile, UpdateStatusOnly,
         DeleteProfile, ResetProfile, request
<1>2. \A i \in Id, v \in Variant : caches'[i][v] \in {caches[i][v], NoRow}
  <2>1. ASSUME NEW i \in Id, DeleteProfile(i)
        PROVE \A j \in Id, v \in Variant : caches'[j][v] \in {caches[j][v], NoRow}
    BY <2>1 DEF DeleteProfile, DeleteCaches, TypeInv, TypeOK
  <2>2. caches' = caches \/ \E i \in Id : DeleteProfile(i)
    BY DEF Administer, AdministerProfile, CreateProfile, UpdateProfile, UpdateStatusOnly, ResetProfile
  <2> QED
    BY <2>1, <2>2
<1>3. StoredInv'
  BY <1>1, <1>2 DEF StoredInv
<1>4. now <= now'
  BY <1>1 DEF TypeInv, TypeOK
<1>5. FetchedInv'
  BY <1>1, <1>2, <1>4, FetchedFrame DEF FetchedInv
<1> QED
  BY <1>3, <1>5

LEMMA SafetyBegin ==
  ASSUME SafetyInv, TypeInv', NEW c \in Client, Begin(c)
  PROVE  StoredInv' /\ FetchedInv'
<1> USE DEF SafetyInv
<1> DEFINE onlyC ==
      /\ UNCHANGED <<caches, now, delivered>>
      /\ \A d \in Client : d # c =>
           pc'[d] = pc[d] /\ arg'[d] = arg[d] /\ got'[d] = got[d]
<1>1. onlyC
  <2>1. ASSUME NEW token \in Token, LookUpUnknown(c, token) \/ LookUpDisabled(c, token)
        PROVE  onlyC
    BY <2>1 DEF LookUpUnknown, LookUpDisabled, Answer, database, TypeInv, TypeOK
  <2>2. ASSUME NEW token \in Token, NEW v \in Variant, LookUp(c, token, v)
        PROVE  onlyC
    BY <2>2 DEF LookUp, GoTo, database, TypeInv, TypeOK
  <2> QED
    BY <2>1, <2>2 DEF Begin
<1>2. StoredInv'
  BY <1>1 DEF StoredInv
<1>3. FetchedBy(c)'
  <2>1. CASE pc'[c] = "idle"
    BY <2>1 DEF FetchedBy
  <2>2. CASE pc'[c] # "idle"
    <3>1. PICK token \in Token, v \in Variant : LookUp(c, token, v)
      BY <2>2 DEF Begin, LookUpUnknown, LookUpDisabled, Answer, TypeInv, TypeOK
    <3>2. /\ pc'[c] \in {"direct", "lock"}
          /\ arg'[c].seen = delivered[arg'[c].id][arg'[c].variant]
      BY <3>1 DEF LookUp, GoTo, TypeInv, TypeOK
    <3>3. arg'[c].seen \in Time \cup {0} /\ Time \cup {0} \subseteq Nat
      BY <2>2, TimeAssumption DEF TypeInv, RequestInv, Argument
    <3> QED
      BY <1>1, <3>2, <3>3 DEF FetchedBy
  <2> QED
    BY <2>1, <2>2
<1>4. now <= now' /\ \A i \in Id, v \in Variant : caches'[i][v] = caches[i][v]
  BY <1>1 DEF TypeInv, TypeOK
<1>5. FetchedInv'
  BY <1>1, <1>3, <1>4, FetchedFrame DEF FetchedInv
<1> QED
  BY <1>2, <1>5

\* A step of request c that leaves the stored copies alone and delivers nothing.
LEMMA SafetyQuiet ==
  ASSUME SafetyInv, TypeInv', NEW c \in Client, now <= now',
         UNCHANGED <<caches, delivered>>,
         \A d \in Client : d # c =>
           pc'[d] = pc[d] /\ arg'[d] = arg[d] /\ got'[d] = got[d],
         FetchedBy(c)'
  PROVE  StoredInv' /\ FetchedInv'
<1> USE DEF SafetyInv
<1>1. StoredInv'
  <2>1. UNCHANGED <<caches, delivered>>
    OBVIOUS
  <2>2. ASSUME NEW i \in Id, NEW v \in Variant
        PROVE  delivered[i][v] <= now'
               /\ (caches[i][v] # NoRow => caches[i][v].time <= now')
    <3>1. delivered[i][v] \in Time \cup {0} /\ Time \cup {0} \subseteq Nat
      BY TimeAssumption DEF TypeInv, TypeOK
    <3>2. now \in Nat /\ now' \in Nat
      BY DEF TypeInv, TypeOK
    <3>3. caches[i][v] # NoRow => caches[i][v].time \in Nat
      <4>1. caches[i][v] \in ProfileCache \cup {NoRow}
        BY DEF TypeInv, TypeOK
      <4> QED
        BY <4>1, TimeAssumption DEF ProfileCache
    <3> QED
      BY <3>1, <3>2, <3>3 DEF StoredInv
  <2>3. StoredInv
    OBVIOUS
  <2> HIDE DEF SafetyInv
  <2> QED
    BY <2>1, <2>2, <2>3 DEF StoredInv
<1>2. \A i \in Id, v \in Variant : caches'[i][v] = caches[i][v]
  OBVIOUS
<1>3. \A d \in Client : d # c => FetchedBy(d)'
  BY <1>2, FetchedFrame
<1> QED
  BY <1>1, <1>3 DEF FetchedInv

LEMMA SafetyAcquireLock ==
  ASSUME SafetyInv, TypeInv', NEW c \in Client, AcquireLock(c)
  PROVE  StoredInv' /\ FetchedInv'
<1> USE DEF SafetyInv
<1>1. /\ pc[c] = "lock" /\ pc'[c] = "fetch"
      /\ UNCHANGED <<caches, delivered, now, arg, got>>
      /\ \A d \in Client : d # c => pc'[d] = pc[d]
  BY DEF AcquireLock, GoTo, database, TypeInv, TypeOK
<1>2. FetchedBy(c)'
  BY <1>1 DEF FetchedInv, FetchedBy
<1>3. now <= now'
  BY <1>1 DEF TypeInv, TypeOK
<1> QED
  BY <1>1, <1>2, <1>3, SafetyQuiet

\* A client receives `copy`, which is stored still unless the profile has been
\* deleted, and which nobody who is about to store is behind.
LEMMA SafetyDeliver ==
  ASSUME SafetyInv, TypeInv', NEW c \in Client, NEW copy \in ProfileCache,
         pc'[c] = "idle", UNCHANGED <<caches, now>>, Deliver(copy),
         \A d \in Client : d # c =>
           pc'[d] = pc[d] /\ arg'[d] = arg[d] /\ got'[d] = got[d],
         copy.time <= now,
         caches[copy.id][copy.variant] \in {NoRow, copy},
         \A d \in Client :
           /\ d # c
           /\ pc[d] \in {"upsert", "result"}
           /\ arg[d].id = copy.id
           /\ arg[d].variant = copy.variant
           => copy.time <= got[d].time
  PROVE  StoredInv' /\ FetchedInv'
<1> USE DEF SafetyInv
<1>1. copy.id \in Id /\ copy.variant \in Variant /\ copy.time \in Nat
  BY TimeAssumption DEF ProfileCache
<1>2. \A i \in Id, v \in Variant : delivered[i][v] \in Nat
  <2> SUFFICES ASSUME NEW i \in Id, NEW v \in Variant PROVE delivered[i][v] \in Nat
    OBVIOUS
  <2>1. delivered[i][v] \in Time \cup {0} /\ Time \cup {0} \subseteq Nat
    BY TimeAssumption DEF TypeInv, TypeOK
  <2> QED
    BY <2>1
<1>3. ASSUME NEW i \in Id, NEW v \in Variant
      PROVE  delivered'[i][v] =
               IF i = copy.id /\ v = copy.variant /\ delivered[i][v] < copy.time
               THEN copy.time ELSE delivered[i][v]
  BY <1>1, <1>2 DEF Deliver, TypeInv, TypeOK
<1>4. StoredInv'
  <2> SUFFICES ASSUME NEW i \in Id, NEW v \in Variant
               PROVE  /\ delivered'[i][v] <= now
                      /\ caches[i][v] # NoRow =>
                           delivered'[i][v] <= caches[i][v].time
    BY DEF StoredInv
  <2>1. delivered[i][v] <= now
        /\ (caches[i][v] # NoRow => delivered[i][v] <= caches[i][v].time)
    BY DEF StoredInv
  <2> QED
    BY <1>1, <1>2, <1>3, <2>1
<1>5. ASSUME NEW d \in Client PROVE FetchedBy(d)'
  <2>1. CASE pc'[d] = "idle"
    BY <2>1 DEF FetchedBy
  <2>2. CASE pc'[d] # "idle"
    <3>1. d # c /\ pc[d] # "idle" /\ FetchedBy(d)
      BY <2>2 DEF FetchedInv
    <3> DEFINE i == arg[d].id
               v == arg[d].variant
    <3>2. i \in Id /\ v \in Variant /\ arg[d].seen \in Nat
          /\ (pc[d] \in {"upsert", "result"} => got[d].time \in Nat)
      BY <3>1, Ages
    <3>3. delivered[i][v] <= delivered'[i][v]
      BY <1>1, <1>2, <1>3, <3>2
    <3>4. arg[d].seen <= delivered'[i][v]
      BY <1>1, <1>2, <1>3, <3>1, <3>2, <3>3 DEF FetchedBy
    <3>5. pc[d] \in {"upsert", "result"} => delivered'[i][v] <= got[d].time
      BY <1>1, <1>2, <1>3, <3>1, <3>2 DEF FetchedBy
    <3> QED
      BY <3>1, <3>4, <3>5 DEF FetchedBy
  <2> QED
    BY <2>1, <2>2
<1> QED
  BY <1>4, <1>5 DEF FetchedInv

LEMMA SafetyServe ==
  ASSUME SafetyInv, TypeInv', NEW c \in Client, Serve(c)
  PROVE  StoredInv' /\ FetchedInv'
<1> USE DEF SafetyInv
<1> DEFINE others == \A d \in Client : d # c =>
             pc'[d] = pc[d] /\ arg'[d] = arg[d] /\ got'[d] = got[d]
           row == caches[arg[c].id][arg[c].variant]
<1>1. pc[c] # "idle" /\ now \in Nat
  BY DEF Serve, FetchDirectOk, FetchDirectFail, FetchOk, FetchFail, RecordError,
         UpsertOk, UpsertFail, RecordResult, ServeCached, TypeInv, TypeOK
<1>2. others
  BY DEF Serve, FetchDirectOk, FetchDirectFail, FetchOk, FetchFail, RecordError,
         UpsertOk, UpsertFail, RecordResult, ServeCached, Answer, GoTo,
         TypeInv, TypeOK
<1>3. FetchedBy(c)
  BY DEF FetchedInv
<1> HIDE DEF others
<1>4. ASSUME NEW t \in Time, FetchDirectOk(c, t) PROVE StoredInv' /\ FetchedInv'
  <2>1. pc'[c] = "idle" /\ now <= now' /\ UNCHANGED <<caches, delivered>>
    BY <1>1, <1>4, TimeAssumption
    DEF FetchDirectOk, Answer, database, TypeInv, TypeOK
  <2> QED
    BY <1>2, <2>1, SafetyQuiet DEF others, FetchedBy
<1>5. ASSUME FetchDirectFail(c) PROVE StoredInv' /\ FetchedInv'
  <2>1. pc'[c] = "idle" /\ now <= now' /\ UNCHANGED <<caches, delivered>>
    BY <1>1, <1>5 DEF FetchDirectFail, Answer, database, TypeInv, TypeOK
  <2> QED
    BY <1>2, <2>1, SafetyQuiet DEF others, FetchedBy
<1>6. ASSUME NEW t \in Time, FetchOk(c, t) PROVE StoredInv' /\ FetchedInv'
  <2>1. /\ pc'[c] = "upsert" /\ arg' = arg
        /\ got'[c] = Fetched(c, t) /\ now <= t /\ now' = t /\ t \in Nat
        /\ UNCHANGED <<caches, delivered>>
    BY <1>1, <1>6, TimeAssumption DEF FetchOk, GoTo, database, TypeInv, TypeOK
  <2>2. Fetched(c, t).time = t
    BY DEF Fetched
  <2>3. arg[c].id \in Id /\ arg[c].variant \in Variant
    BY <1>1, Ages
  <2>4. delivered[arg[c].id][arg[c].variant] <= now
        /\ (row # NoRow => row.time <= now)
    BY <2>3 DEF StoredInv
  <2>5. delivered[arg[c].id][arg[c].variant] \in Nat
        /\ (row # NoRow => row.time \in Nat)
    <3>1. row \in ProfileCache \cup {NoRow}
      BY <1>1, Ages
    <3> QED
      BY <1>1, <3>1, Ages, TimeAssumption DEF ProfileCache
  <2>6. FetchedBy(c)'
    BY <1>1, <1>3, <2>1, <2>2, <2>4, <2>5 DEF FetchedBy
  <2> QED
    BY <1>1, <1>2, <2>1, <2>6, SafetyQuiet DEF others
<1>7. ASSUME FetchFail(c) \/ RecordError(c) \/ UpsertFail(c)
      PROVE  StoredInv' /\ FetchedInv'
  <2>1. /\ pc'[c] \in {"error", "cached"} /\ now <= now'
        /\ UNCHANGED <<caches, delivered, arg>>
    BY <1>1, <1>7
    DEF FetchFail, RecordError, UpsertFail, GoTo, database, TypeInv, TypeOK
  <2>2. FetchedBy(c)'
    BY <1>1, <1>3, <2>1 DEF FetchedBy
  <2> QED
    BY <1>2, <2>1, <2>2, SafetyQuiet DEF others
<1>8. ASSUME UpsertOk(c) PROVE StoredInv' /\ FetchedInv'
  <2> DEFINE i == arg[c].id
             v == arg[c].variant
  <2>1. /\ pc[c] = "upsert" /\ pc'[c] = "result"
        /\ UNCHANGED <<delivered, now, arg, got>>
        /\ caches' = UpsertProfileCache(caches, got[c])
    BY <1>8 DEF UpsertOk, GoTo, TypeInv, TypeOK
  <2>2. /\ got[c] \in ProfileCache /\ got[c].id = i /\ got[c].variant = v
        /\ got[c].time \in Nat /\ i \in Id /\ v \in Variant
    BY <1>1, <2>1, Ages DEF TypeInv, RequestInv
  <2>3. /\ got[c] # NoRow
        /\ got[c].time <= now /\ delivered[i][v] <= got[c].time
    BY <1>3, <2>1, <2>2, NoRowAssumption DEF FetchedBy
  <2>4. \A j \in Id, w \in Variant :
          caches'[j][w] = IF j = i /\ w = v THEN got[c] ELSE caches[j][w]
    BY <2>1, <2>2 DEF UpsertProfileCache, TypeInv, TypeOK
  <2>5. StoredInv'
    BY <2>1, <2>2, <2>3, <2>4 DEF StoredInv
  <2>6. FetchedBy(c)'
    BY <1>1, <1>3, <2>1, <2>2, <2>4 DEF FetchedBy
  <2>7. ASSUME NEW d \in Client, d # c PROVE FetchedBy(d)'
    <3>1. pc'[d] = pc[d] /\ arg'[d] = arg[d] /\ got'[d] = got[d]
      BY <1>2, <2>7 DEF others
    <3>2. FetchedBy(d)
      BY DEF FetchedInv
    <3>3. CASE pc[d] \in {"upsert", "result"}
      <4>1. arg[d].id \in Id /\ arg[d].variant \in Variant
        BY <3>3, Ages
      <4>2. arg[d].id # i
        BY <2>1, <2>7, <3>3, OneHolder DEF Critical
      <4> QED
        BY <2>1, <2>4, <3>1, <3>2, <4>1, <4>2 DEF FetchedBy
    <3>4. CASE pc[d] \notin {"upsert", "result"}
      BY <2>1, <3>1, <3>2, <3>4 DEF FetchedBy
    <3> QED
      BY <3>3, <3>4
  <2> QED
    BY <2>5, <2>6, <2>7 DEF FetchedInv
<1>9. ASSUME RecordResult(c) PROVE StoredInv' /\ FetchedInv'
  <2>1. /\ pc[c] = "result" /\ pc'[c] = "idle"
        /\ UNCHANGED <<caches, now>> /\ Deliver(got[c])
    BY <1>9 DEF RecordResult, Answer, TypeInv, TypeOK
  <2>2. got[c] \in ProfileCache /\ got[c].id = arg[c].id
        /\ got[c].variant = arg[c].variant
    BY <2>1 DEF TypeInv, RequestInv
  <2>3. got[c].time <= now /\ row \in {NoRow, got[c]}
    BY <1>3, <2>1 DEF FetchedBy
  <2>4. ASSUME NEW d \in Client, d # c, pc[d] \in {"upsert", "result"}
        PROVE  arg[d].id # got[c].id
    BY <2>1, <2>2, <2>4, OneHolder DEF Critical
  <2> QED
    BY <1>2, <2>1, <2>2, <2>3, <2>4, SafetyDeliver DEF others
<1>10. ASSUME ServeCached(c) PROVE StoredInv' /\ FetchedInv'
  <2>1. pc'[c] = "idle" /\ UNCHANGED <<caches, now>>
    BY <1>10 DEF ServeCached, Answer, database, TypeInv, TypeOK
  <2>2. arg[c].id \in Id /\ arg[c].variant \in Variant
        /\ row \in ProfileCache \cup {NoRow}
    BY <1>1, Ages
  <2>3. CASE row = NoRow
    <3>1. UNCHANGED delivered
      BY <1>10, <2>3 DEF ServeCached, GetProfileCache
    <3>2. FetchedBy(c)' /\ now <= now'
      BY <1>1, <2>1 DEF FetchedBy
    <3> QED
      BY <1>2, <2>1, <3>1, <3>2, SafetyQuiet DEF others
  <2>4. CASE row # NoRow
    <3>1. Deliver(row) /\ row \in ProfileCache
      BY <1>10, <2>2, <2>4 DEF ServeCached, GetProfileCache
    <3>2. row.time <= now /\ row.id = arg[c].id /\ row.variant = arg[c].variant
      BY <2>2, <2>4 DEF StoredInv
    <3>3. ASSUME NEW d \in Client, pc[d] \in {"upsert", "result"},
                 arg[d].id = row.id, arg[d].variant = row.variant
          PROVE  row.time <= got[d].time
      <4>1. FetchedBy(d) /\ row = caches[arg[d].id][arg[d].variant]
        BY <3>2, <3>3 DEF FetchedInv
      <4>2. row.time \in Nat
        BY <3>1, TimeAssumption DEF ProfileCache
      <4> HIDE DEF row
      <4>3. CASE pc[d] = "upsert"
        BY <2>4, <4>1, <4>3 DEF FetchedBy
      <4>4. CASE pc[d] = "result"
        <5>1. row = got[d]
          BY <2>4, <4>1, <4>4 DEF FetchedBy
        <5> QED
          BY <4>2, <5>1
      <4> QED
        BY <3>3, <4>3, <4>4
    <3> HIDE DEF row
    <3>4. caches[row.id][row.variant] \in {NoRow, row}
      BY <3>2 DEF row
    <3> QED
      BY <1>2, <2>1, <3>1, <3>2, <3>3, <3>4, SafetyDeliver DEF others
  <2> QED
    BY <2>3, <2>4
<1> QED
  BY <1>4, <1>5, <1>6, <1>7, <1>8, <1>9, <1>10 DEF Serve

LEMMA SafetyRestart ==
  ASSUME SafetyInv, TypeInv', Restart
  PROVE  StoredInv' /\ FetchedInv'
<1>1. UNCHANGED <<caches, now, delivered>> /\ \A c \in Client : pc'[c] = "idle"
  BY DEF Restart, database
<1>2. StoredInv'
  BY <1>1 DEF SafetyInv, StoredInv
<1>3. FetchedInv'
  BY <1>1 DEF FetchedInv, FetchedBy
<1> QED
  BY <1>2, <1>3

LEMMA SafetyStep == SafetyInv /\ [Next]_vars => SafetyInv'
<1> SUFFICES ASSUME SafetyInv, [Next]_vars PROVE SafetyInv'
  OBVIOUS
<1>1. TypeInv' /\ MutexHeld'
  BY TypeStep, MutexStep DEF SafetyInv
<1>2. CASE UNCHANGED vars
  BY <1>1, <1>2 DEF vars, SafetyInv, StoredInv, FetchedInv, FetchedBy
<1>3. CASE Next
  <2>1. StoredInv' /\ FetchedInv'
    BY <1>1, <1>3, SafetyAdminister, SafetyBegin, SafetyAcquireLock, SafetyServe,
       SafetyRestart DEF Next
  <2> QED
    BY <1>1, <2>1 DEF SafetyInv
<1> QED
  BY <1>2, <1>3

THEOREM SafetyInvariant == Spec => []SafetyInv
<1> QED
  BY SafetyInit, SafetyStep, PTL DEF Spec

-------------------------------------------------------------------------------
\* A stored copy is only replaced by one fetched later.
LEMMA Forward ==
  SafetyInv /\ SafetyInv' /\ [Next]_vars =>
    \A i \in Id, v \in Variant :
      caches[i][v] # NoRow /\ caches'[i][v] # NoRow
        => caches[i][v].time <= caches'[i][v].time
<1> SUFFICES ASSUME SafetyInv, SafetyInv', [Next]_vars,
                    NEW i \in Id, NEW v \in Variant,
                    caches[i][v] # NoRow, caches'[i][v] # NoRow
             PROVE  caches[i][v].time <= caches'[i][v].time
  OBVIOUS
<1> USE DEF SafetyInv
<1>1. caches[i][v].time \in Nat
  <2>1. caches[i][v] \in ProfileCache
    BY DEF TypeInv, TypeOK
  <2> QED
    BY <2>1, TimeAssumption DEF ProfileCache
<1>2. CASE caches'[i][v] = caches[i][v]
  BY <1>1, <1>2
<1>3. CASE caches'[i][v] # caches[i][v]
  <2>1. PICK c \in Client : UpsertOk(c)
    <3>1. caches' # caches
      BY <1>3
    <3>2. ASSUME NEW j \in Id, DeleteProfile(j) PROVE FALSE
      BY <1>3, <3>2 DEF DeleteProfile, DeleteCaches, TypeInv, TypeOK
    <3> QED
      BY <3>1, <3>2
      DEF Next, vars, Administer, AdministerProfile, CreateProfile, UpdateProfile,
          UpdateStatusOnly, ResetProfile, Begin, LookUpUnknown, LookUpDisabled,
          LookUp, AcquireLock, Serve, FetchDirectOk, FetchDirectFail, FetchOk,
          FetchFail, RecordError, UpsertFail, RecordResult, ServeCached,
          Restart, database
  <2>2. got[c] \in ProfileCache /\ got[c].id = arg[c].id
        /\ got[c].variant = arg[c].variant /\ pc[c] = "upsert"
        /\ caches' = UpsertProfileCache(caches, got[c])
    BY <2>1 DEF UpsertOk, TypeInv, RequestInv
  <2>3. arg[c].id \in Id /\ arg[c].variant \in Variant
    BY <2>2 DEF ProfileCache
  <2>4. i = arg[c].id /\ v = arg[c].variant /\ caches'[i][v] = got[c]
    BY <1>3, <2>2, <2>3 DEF UpsertProfileCache, TypeInv, TypeOK
  <2> QED
    BY <2>2, <2>4 DEF FetchedInv, FetchedBy
<1> QED
  BY <1>2, <1>3

\* The stored copy of a variant is only replaced by one fetched later: no answer
\* of a slow source overwrites a newer copy.
THEOREM NeverBack == Spec => CopyNeverGoesBack
<1> DEFINE forward ==
      \A i \in Id, v \in Variant :
        caches[i][v] # NoRow /\ caches'[i][v] # NoRow
          => caches[i][v].time <= caches'[i][v].time
<1>1. SafetyInv /\ SafetyInv' /\ [Next]_vars => forward
  BY Forward
<1>2. forward => [forward]_vars
  OBVIOUS
<1> HIDE DEF forward
<1>3. Spec => [][forward]_vars
  BY <1>1, SafetyInvariant, PTL DEF Spec
<1> QED
  BY <1>3 DEF CopyNeverGoesBack, forward

\* Nobody who asks after a copy was received is given an older one.
THEOREM NeverOlder == Spec => NeverOlderThanDelivered
<1> DEFINE newer ==
      \A c \in Client :
        pc[c] \in {"result", "cached"} /\ pc'[c] = "idle"
          /\ reply'[c].kind \in {"fresh", "stale"}
          => arg[c].seen <= reply'[c].copy.time
<1>1. SafetyInv /\ [Next]_vars => newer
  <2> SUFFICES ASSUME SafetyInv, [Next]_vars, NEW c \in Client,
                      pc[c] \in {"result", "cached"}, pc'[c] = "idle",
                      reply'[c].kind \in {"fresh", "stale"}
               PROVE  arg[c].seen <= reply'[c].copy.time
    OBVIOUS
  <2> USE DEF SafetyInv
  <2>1. RecordResult(c) \/ ServeCached(c)
    <3>1. ~ UNCHANGED pc
      OBVIOUS
    <3>2. ~ Restart
      BY DEF Restart, NoReply
    <3>3. ASSUME NEW d \in Client, d # c, Begin(d) \/ AcquireLock(d) \/ Serve(d)
          PROVE  pc'[c] = pc[c]
      BY <3>3 DEF Begin, LookUpUnknown, LookUpDisabled, LookUp, AcquireLock, Serve,
                  FetchDirectOk, FetchDirectFail, FetchOk, FetchFail, RecordError,
                  UpsertOk, UpsertFail, RecordResult, ServeCached, Answer, GoTo,
                  TypeInv, TypeOK
    <3>4. ~ Begin(c) /\ ~ AcquireLock(c)
      BY DEF Begin, LookUpUnknown, LookUpDisabled, LookUp, AcquireLock
    <3>5. Serve(c)
      BY <3>1, <3>2, <3>3, <3>4 DEF Next, vars, Administer, AdministerProfile, CreateProfile,
         UpdateProfile, UpdateStatusOnly, DeleteProfile, ResetProfile, request
    <3> QED
      BY <3>5 DEF Serve, FetchDirectOk, FetchDirectFail, FetchOk, FetchFail,
                  RecordError, UpsertOk, UpsertFail
  <2>2. /\ arg[c].id \in Id /\ arg[c].variant \in Variant /\ arg[c].seen \in Nat
        /\ delivered[arg[c].id][arg[c].variant] \in Nat
    BY Ages
  <2>3. arg[c].seen <= delivered[arg[c].id][arg[c].variant] /\ FetchedBy(c)
    BY DEF FetchedInv, FetchedBy
  <2>4. CASE RecordResult(c)
    <3>1. reply'[c].copy = got[c] /\ pc[c] = "result"
      BY <2>4 DEF RecordResult, Answer, TypeInv, TypeOK
    <3>2. got[c].time \in Nat /\ delivered[arg[c].id][arg[c].variant] <= got[c].time
      BY <2>3, <3>1, Ages DEF FetchedBy
    <3> QED
      BY <2>2, <2>3, <3>1, <3>2
  <2>5. CASE ServeCached(c)
    <3> DEFINE row == caches[arg[c].id][arg[c].variant]
    <3>1. reply'[c].copy = row /\ row # NoRow
      BY <2>5 DEF ServeCached, GetProfileCache, Answer, TypeInv, TypeOK
    <3>2. row.time \in Nat
      <4>1. row \in ProfileCache
        BY <2>2, <3>1 DEF TypeInv, TypeOK
      <4> QED
        BY <4>1, TimeAssumption DEF ProfileCache
    <3>3. delivered[arg[c].id][arg[c].variant] <= row.time
      BY <2>2, <3>1 DEF StoredInv
    <3> QED
      BY <2>2, <2>3, <3>1, <3>2, <3>3
  <2> QED
    BY <2>1, <2>4, <2>5
<1> HIDE DEF newer
<1>2. Spec => [][newer]_vars
  BY <1>1, SafetyInvariant, PTL DEF Spec
<1> QED
  BY <1>2 DEF NeverOlderThanDelivered, newer

-------------------------------------------------------------------------------
\* Failures do not cost the last copy.

\* Copies go only with their profile.
LEMMA CopiesStay ==
  ASSUME TypeInv, [Next]_vars, NEW i \in Id, profiles'[i] # NoRow,
         NEW v \in Variant, caches[i][v] # NoRow
  PROVE  caches'[i][v] # NoRow
<1>1. CASE UNCHANGED caches
  BY <1>1
<1>2. ASSUME NEW j \in Id, DeleteProfile(j) PROVE caches'[i][v] # NoRow
  BY <1>2 DEF DeleteProfile, DeleteProfileRow, DeleteCaches, TypeInv, TypeOK
<1>3. ASSUME NEW c \in Client, UpsertOk(c) PROVE caches'[i][v] # NoRow
  <2>1. got[c] \in ProfileCache /\ got[c] # NoRow
    BY <1>3, NoRowAssumption DEF UpsertOk, TypeInv, RequestInv
  <2> QED
    BY <1>3, <2>1 DEF UpsertOk, UpsertProfileCache, ProfileCache, TypeInv, TypeOK
<1>4. \/ UNCHANGED caches
      \/ \E j \in Id : DeleteProfile(j)
      \/ \E c \in Client : UpsertOk(c)
  BY DEF Next, vars, Administer, AdministerProfile, CreateProfile, UpdateProfile,
         UpdateStatusOnly, ResetProfile, Begin, LookUpUnknown, LookUpDisabled,
         LookUp, AcquireLock, Serve, FetchDirectOk, FetchDirectFail, FetchOk,
         FetchFail, RecordError, UpsertFail, RecordResult, ServeCached,
         Restart, database
<1> QED
  BY <1>1, <1>2, <1>3, <1>4

\* A request that found a copy finds one again, as long as the profile is the one it
\* found: profiles that come later have tokens of their own.
OutliveInv ==
  /\ TypeInv
  /\ \A i \in Id : profiles[i] # NoRow => profiles[i].birth \in issued
  /\ \A c \in Client : pc[c] # "idle" =>
       /\ arg[c].birth \in issued
       /\ arg[c].hadCopy /\ profiles[arg[c].id] # NoRow
            /\ profiles[arg[c].id].birth = arg[c].birth
          => caches[arg[c].id][arg[c].variant] # NoRow

\* Who a profile is changes with its row alone.
LEMMA BirthsMove ==
  ASSUME TypeInv, [Next]_vars, NEW i \in Id, profiles'[i] # NoRow
  PROVE  /\ issued \subseteq issued'
         /\ \/ profiles[i] # NoRow /\ profiles'[i].birth = profiles[i].birth
            \/ profiles'[i].birth \in issued' \ issued
<1> USE DEF TypeInv, TypeOK
<1>1. CASE UNCHANGED <<profiles, issued>>
  BY <1>1
<1>2. ASSUME NEW j \in Id, AdministerProfile(j)
      PROVE  /\ issued \subseteq issued'
             /\ \/ profiles[i] # NoRow /\ profiles'[i].birth = profiles[i].birth
                \/ profiles'[i].birth \in issued' \ issued
  <2>1. ASSUME NEW token \in Token, NEW url \in Url, NEW mode \in FetchMode \cup {""},
               CreateProfile(j, token, url, mode)
        PROVE  /\ issued \subseteq issued'
               /\ \/ profiles[i] # NoRow /\ profiles'[i].birth = profiles[i].birth
                  \/ profiles'[i].birth \in issued' \ issued
    BY <2>1 DEF CreateProfile, Insert
  <2>2. ASSUME NEW url \in Url, NEW mode \in FetchMode \cup {""}, UpdateProfile(j, url, mode)
        PROVE  issued' = issued /\ profiles[i] # NoRow
                 /\ profiles'[i].birth = profiles[i].birth
    <3>1. CASE i = j
      BY <2>2, <3>1 DEF UpdateProfile, UpdateEditableFields, UpdateWhereId, Profile
    <3>2. CASE i # j
      BY <2>2, <3>2 DEF UpdateProfile, UpdateEditableFields, UpdateWhereId
    <3> QED
      BY <3>1, <3>2
  <2>3. ASSUME NEW status \in Status, UpdateStatusOnly(j, status)
        PROVE  issued' = issued /\ profiles[i] # NoRow
                 /\ profiles'[i].birth = profiles[i].birth
    BY <2>3 DEF UpdateStatusOnly, UpdateProfileStatus, UpdateWhereId, Profile
  <2>4. ASSUME DeleteProfile(j)
        PROVE  issued' = issued /\ profiles[i] # NoRow
                 /\ profiles'[i].birth = profiles[i].birth
    BY <2>4 DEF DeleteProfile, DeleteProfileRow
  <2>5. ASSUME NEW token \in Token, ResetProfile(j, token)
        PROVE  issued \subseteq issued' /\ profiles[i] # NoRow
                 /\ profiles'[i].birth = profiles[i].birth
    BY <2>5 DEF ResetProfile, UpdateProfileToken, UpdateWhereId, Profile
  <2> QED
    BY <1>2, <2>1, <2>2, <2>3, <2>4, <2>5 DEF AdministerProfile
<1>3. ASSUME NEW c \in Client, RecordError(c) \/ RecordResult(c)
      PROVE  issued' = issued /\ profiles[i] # NoRow
               /\ profiles'[i].birth = profiles[i].birth
  <2>1. /\ issued' = issued
        /\ \/ profiles' = UpdateProfileFetchError(profiles, arg[c].id)
           \/ profiles' = UpdateProfileFetchResult(profiles, arg[c].id, got[c].time)
           \/ UNCHANGED profiles
    BY <1>3 DEF RecordError, RecordResult
  <2>2. CASE i = arg[c].id
    BY <2>1, <2>2 DEF UpdateProfileFetchError, UpdateProfileFetchResult, UpdateWhereId,
                      Profile
  <2>3. CASE i # arg[c].id
    BY <2>1, <2>3 DEF UpdateProfileFetchError, UpdateProfileFetchResult, UpdateWhereId
  <2> QED
    BY <2>2, <2>3
<1>4. \/ UNCHANGED <<profiles, issued>>
      \/ \E j \in Id : AdministerProfile(j)
      \/ \E c \in Client : RecordError(c) \/ RecordResult(c)
  BY DEF Next, vars, Administer, Begin, LookUpUnknown, LookUpDisabled, LookUp,
         AcquireLock, Serve, FetchDirectOk, FetchDirectFail, FetchOk, FetchFail,
         UpsertOk, UpsertFail, ServeCached, Restart, database
<1> QED
  BY <1>1, <1>2, <1>3, <1>4

\* A request under way has just been looked up, or is that of before.
LEMMA RequestStays ==
  ASSUME TypeInv, [Next]_vars, NEW d \in Client, pc'[d] # "idle"
  PROVE  \/ pc[d] # "idle" /\ arg'[d] = arg[d]
         \/ \E token \in Token, v \in Variant : LookUp(d, token, v)
<1> USE DEF TypeInv, TypeOK
<1>1. CASE UNCHANGED <<pc, arg>>
  BY <1>1
<1>2. ASSUME NEW c \in Client, c # d, Begin(c) \/ AcquireLock(c) \/ Serve(c)
      PROVE  pc'[d] = pc[d] /\ arg'[d] = arg[d]
  BY <1>2 DEF Begin, LookUpUnknown, LookUpDisabled, LookUp, AcquireLock, Serve,
              FetchDirectOk, FetchDirectFail, FetchOk, FetchFail, RecordError,
              UpsertOk, UpsertFail, RecordResult, ServeCached, Answer, GoTo
<1>3. CASE Begin(d)
  BY <1>3 DEF Begin, LookUpUnknown, LookUpDisabled, Answer
<1>4. CASE AcquireLock(d) \/ Serve(d)
  BY <1>4 DEF AcquireLock, Serve, FetchDirectOk, FetchDirectFail, FetchOk, FetchFail,
              RecordError, UpsertOk, UpsertFail, RecordResult, ServeCached, Answer, GoTo
<1>5. ~ Restart
  BY DEF Restart
<1> QED
  BY <1>1, <1>2, <1>3, <1>4, <1>5
  DEF Next, vars, Administer, AdministerProfile, CreateProfile, UpdateProfile,
      UpdateStatusOnly, DeleteProfile, ResetProfile, request

LEMMA OutliveStep == OutliveInv /\ [Next]_vars => OutliveInv'
<1> SUFFICES ASSUME OutliveInv, [Next]_vars PROVE OutliveInv'
  OBVIOUS
<1>1. TypeInv /\ TypeInv'
  BY TypeStep DEF OutliveInv
<1>2. issued \subseteq issued'
  BY DEF Next, vars, Administer, AdministerProfile, CreateProfile, UpdateProfile,
         UpdateStatusOnly, DeleteProfile, ResetProfile, Begin, LookUpUnknown,
         LookUpDisabled, LookUp, AcquireLock, Serve, FetchDirectOk, FetchDirectFail,
         FetchOk, FetchFail, RecordError, UpsertOk, UpsertFail, RecordResult,
         ServeCached, Restart, database
<1>3. ASSUME NEW i \in Id, profiles'[i] # NoRow PROVE profiles'[i].birth \in issued'
  BY <1>1, <1>2, <1>3, BirthsMove DEF OutliveInv
<1>4. ASSUME NEW d \in Client, pc'[d] # "idle"
      PROVE  /\ arg'[d].birth \in issued'
             /\ arg'[d].hadCopy /\ profiles'[arg'[d].id] # NoRow
                  /\ profiles'[arg'[d].id].birth = arg'[d].birth
                => caches'[arg'[d].id][arg'[d].variant] # NoRow
  <2>1. CASE pc[d] # "idle" /\ arg'[d] = arg[d]
    <3>1. arg[d].id \in Id /\ arg[d].variant \in Variant /\ arg[d].birth \in issued
      BY <1>1, <2>1 DEF OutliveInv, TypeInv, RequestInv, Argument
    <3>2. ASSUME profiles'[arg[d].id] # NoRow, profiles'[arg[d].id].birth = arg[d].birth
          PROVE  profiles[arg[d].id] # NoRow /\ profiles[arg[d].id].birth = arg[d].birth
      BY <1>1, <3>1, <3>2, BirthsMove
    <3> QED
      BY <1>1, <1>2, <2>1, <3>1, <3>2, CopiesStay DEF OutliveInv
  <2>2. ASSUME NEW token \in Token, NEW v \in Variant, LookUp(d, token, v)
        PROVE  /\ arg'[d].birth \in issued'
               /\ arg'[d].hadCopy => caches'[arg'[d].id][arg'[d].variant] # NoRow
    <3>1. PICK i \in ProfilesByToken(profiles, token) :
            arg' = [arg EXCEPT ![d] =
              [id |-> i, birth |-> profiles[i].birth, url |-> profiles[i].url,
               variant |-> v, seen |-> delivered[i][v],
               hadCopy |-> GetProfileCache(caches, i, v) # NoRow]]
      BY <2>2 DEF LookUp
    <3>2. /\ arg'[d].id = i /\ arg'[d].birth = profiles[i].birth /\ arg'[d].variant = v
          /\ arg'[d].hadCopy = (caches[i][v] # NoRow)
      BY <1>1, <3>1 DEF GetProfileCache, TypeInv, TypeOK
    <3>3. i \in Id /\ profiles[i] # NoRow /\ UNCHANGED <<profiles, caches, issued>>
      BY <2>2 DEF ProfilesByToken, LookUp, database
    <3> QED
      BY <3>2, <3>3 DEF OutliveInv
  <2> QED
    BY <1>1, <1>4, <2>1, <2>2, RequestStays
<1> QED
  BY <1>1, <1>3, <1>4 DEF OutliveInv

\* No failed fetch, write or statement keeps a request from the copy that was stored
\* when it began, whether ids are given out again or not (GetProfileByToken).
THEOREM CopyOutlives == Spec => CopyOutlivesFailures
<1>1. Init => OutliveInv
  BY TypeInit DEF Init, OutliveInv
<1>2. ASSUME OutliveInv, [Next]_vars, NEW c \in Client, pc[c] = "cached", pc'[c] = "idle",
             reply'[c].kind = "failed", arg[c].hadCopy
      PROVE  profiles[arg[c].id] = NoRow \/ profiles[arg[c].id].birth # arg[c].birth
  <2>1. CASE ServeCached(c)
    BY <1>2, <2>1
    DEF ServeCached, GetProfileCache, Answer, OutliveInv, TypeInv, TypeOK
  <2>2. CASE Restart
    BY <1>2, <2>2 DEF Restart, NoReply
  <2>3. CASE UNCHANGED pc
    BY <1>2, <2>3
  <2>4. ASSUME NEW d \in Client, d # c, Begin(d) \/ AcquireLock(d) \/ Serve(d)
        PROVE  pc'[c] = pc[c]
    BY <1>2, <2>4
    DEF Begin, LookUpUnknown, LookUpDisabled, LookUp, AcquireLock, Serve,
        FetchDirectOk, FetchDirectFail, FetchOk, FetchFail, RecordError,
        UpsertOk, UpsertFail, RecordResult, ServeCached, Answer, GoTo,
        OutliveInv, TypeInv, TypeOK
  <2>5. CASE Begin(c) \/ AcquireLock(c) \/ Serve(c)
    <3>1. ServeCached(c)
      BY <1>2, <2>5 DEF Begin, LookUpUnknown, LookUpDisabled, LookUp, AcquireLock, Serve,
                        FetchDirectOk, FetchDirectFail, FetchOk, FetchFail, RecordError,
                        UpsertOk, UpsertFail, RecordResult
    <3> QED
      BY <2>1, <3>1
  <2> QED
    BY <1>2, <2>2, <2>3, <2>4, <2>5
    DEF Next, vars, Administer, AdministerProfile, CreateProfile, UpdateProfile,
        UpdateStatusOnly, DeleteProfile, ResetProfile, request
<1>3. OutliveInv /\ [Next]_vars =>
        [\A c \in Client :
           pc[c] = "cached" /\ pc'[c] = "idle" /\ reply'[c].kind = "failed"
             /\ arg[c].hadCopy
             => \/ profiles[arg[c].id] = NoRow
                \/ profiles[arg[c].id].birth # arg[c].birth]_vars
  BY <1>2
<1> QED
  BY <1>1, <1>3, OutliveStep, PTL DEF Spec, CopyOutlivesFailures

-------------------------------------------------------------------------------
\* The fetch time that the list of profiles shows.

\* Profiles and requests have ids that were given out, and a request that has
\* stored its copy still finds one, unless the profile is gone.
RecordedInv ==
  /\ \A i \in Id : profiles[i] # NoRow => i \in usedIds
  /\ \A c \in Client : pc[c] # "idle" => arg[c].id \in usedIds
  /\ \A c \in Client : pc[c] = "result" /\ profiles[arg[c].id] # NoRow =>
       caches[arg[c].id][arg[c].variant] # NoRow

AnnounceInv == SafetyInv /\ RecordedInv /\ FetchTimeMeansCopy

LEMMA AnnounceInit == Init => AnnounceInv
BY SafetyInit DEF Init, AnnounceInv, RecordedInv, FetchTimeMeansCopy

\* The statements that write a row of the table of profiles, or none.
ProfileStatement ==
  \/ \E i \in Id : Administer /\ AdministerProfile(i)
  \/ \E c \in Client : RecordError(c) \/ RecordResult(c)
  \/ UNCHANGED <<profiles, usedIds>>

LEMMA OneStatement == Next => ProfileStatement
<1>1. ASSUME NEW c \in Client, Begin(c) \/ AcquireLock(c) \/ Serve(c)
      PROVE  ProfileStatement
  BY <1>1 DEF ProfileStatement, Begin, LookUpUnknown, LookUpDisabled, LookUp, AcquireLock,
              Serve, FetchDirectOk, FetchDirectFail, FetchOk, FetchFail, UpsertOk,
              UpsertFail, ServeCached, database
<1> QED
  BY <1>1 DEF Next, ProfileStatement, Administer, Restart, database

\* What a step makes of the row of a profile: a new one where none was before, a
\* recorded fetch, or the same fetch time as before.
LEMMA RowsMove ==
  ASSUME AnnounceInv, ~ ReuseIds, [Next]_vars, NEW i \in Id, profiles'[i] # NoRow
  PROVE  /\ i \in usedIds' /\ usedIds \subseteq usedIds'
         /\ \/ profiles[i] = NoRow /\ i \notin usedIds /\ profiles'[i].lastTime = 0
            \/ profiles[i] # NoRow /\ profiles'[i].lastTime = profiles[i].lastTime
            \/ /\ profiles[i] # NoRow
               /\ \E c \in Client :
                    /\ RecordResult(c) /\ i = arg[c].id
                    /\ profiles'[i].lastTime = got[c].time
<1> USE DEF AnnounceInv, SafetyInv, RecordedInv
<1>1. CASE UNCHANGED <<profiles, usedIds>>
  BY <1>1
<1>2. ASSUME NEW j \in Id, AdministerProfile(j)
      PROVE  /\ i \in usedIds' /\ usedIds \subseteq usedIds'
             /\ \/ profiles[i] = NoRow /\ i \notin usedIds /\ profiles'[i].lastTime = 0
                \/ profiles[i] # NoRow /\ profiles'[i].lastTime = profiles[i].lastTime
  <2>1. ASSUME NEW token \in Token, NEW url \in Url, NEW mode \in FetchMode \cup {""},
               CreateProfile(j, token, url, mode)
        PROVE  /\ i \in usedIds' /\ usedIds \subseteq usedIds'
               /\ \/ profiles[i] = NoRow /\ i \notin usedIds /\ profiles'[i].lastTime = 0
                  \/ profiles[i] # NoRow /\ profiles'[i].lastTime = profiles[i].lastTime
    BY <2>1 DEF CreateProfile, Insert, TypeInv, TypeOK
  <2>2. ASSUME NEW url \in Url, NEW mode \in FetchMode \cup {""}, UpdateProfile(j, url, mode)
        PROVE  /\ usedIds' = usedIds
               /\ profiles[i] # NoRow /\ profiles'[i].lastTime = profiles[i].lastTime
    <3>1. CASE i = j
      BY <2>2, <3>1
      DEF UpdateProfile, UpdateEditableFields, UpdateWhereId, TypeInv, TypeOK, Profile
    <3>2. CASE i # j
      BY <2>2, <3>2
      DEF UpdateProfile, UpdateEditableFields, UpdateWhereId, TypeInv, TypeOK
    <3> QED
      BY <3>1, <3>2
  <2>3. ASSUME NEW status \in Status, UpdateStatusOnly(j, status)
        PROVE  /\ usedIds' = usedIds
               /\ profiles[i] # NoRow /\ profiles'[i].lastTime = profiles[i].lastTime
    BY <2>3 DEF UpdateStatusOnly, UpdateProfileStatus, UpdateWhereId, TypeInv, TypeOK, Profile
  <2>4. ASSUME DeleteProfile(j)
        PROVE  /\ usedIds' = usedIds
               /\ profiles[i] # NoRow /\ profiles'[i].lastTime = profiles[i].lastTime
    BY <2>4 DEF DeleteProfile, DeleteProfileRow, TypeInv, TypeOK
  <2>5. ASSUME NEW token \in Token, ResetProfile(j, token)
        PROVE  /\ usedIds' = usedIds
               /\ profiles[i] # NoRow /\ profiles'[i].lastTime = profiles[i].lastTime
    BY <2>5 DEF ResetProfile, UpdateProfileToken, UpdateWhereId, TypeInv, TypeOK, Profile
  <2> QED
    BY <1>2, <2>1, <2>2, <2>3, <2>4, <2>5 DEF AdministerProfile
<1>3. ASSUME NEW c \in Client, RecordError(c)
      PROVE  /\ usedIds' = usedIds
             /\ profiles[i] # NoRow /\ profiles'[i].lastTime = profiles[i].lastTime
  BY <1>3 DEF RecordError, UpdateProfileFetchError, UpdateWhereId, TypeInv, TypeOK, Profile
<1>4. ASSUME NEW c \in Client, RecordResult(c)
      PROVE  /\ usedIds' = usedIds /\ profiles[i] # NoRow
             /\ \/ profiles'[i].lastTime = profiles[i].lastTime
                \/ i = arg[c].id /\ profiles'[i].lastTime = got[c].time
  BY <1>4 DEF RecordResult, UpdateProfileFetchResult, UpdateWhereId, TypeInv, TypeOK, Profile
<1> QED
  BY <1>1, <1>2, <1>3, <1>4, OneStatement DEF ProfileStatement, vars

\* A request keeps its profile, and has stored its copy before it records it.
LEMMA RequestMoves ==
  ASSUME AnnounceInv, [Next]_vars, NEW d \in Client, pc'[d] # "idle"
  PROVE  /\ \/ pc[d] # "idle" /\ arg'[d] = arg[d]
            \/ profiles[arg'[d].id] # NoRow /\ arg'[d].id \in Id
         /\ pc'[d] = "result" =>
              pc[d] # "idle" /\ arg'[d] = arg[d] /\ (pc[d] = "result" \/ UpsertOk(d))
<1> USE DEF AnnounceInv, SafetyInv, TypeInv, TypeOK
<1>1. CASE UNCHANGED <<pc, arg>>
  BY <1>1
<1>2. ASSUME NEW c \in Client, c # d, Begin(c) \/ AcquireLock(c) \/ Serve(c)
      PROVE  pc'[d] = pc[d] /\ arg'[d] = arg[d]
  BY <1>2 DEF Begin, LookUpUnknown, LookUpDisabled, LookUp, AcquireLock, Serve,
              FetchDirectOk, FetchDirectFail, FetchOk, FetchFail, RecordError,
              UpsertOk, UpsertFail, RecordResult, ServeCached, Answer, GoTo
<1>3. CASE Begin(d)
  <2>1. PICK token \in Token, v \in Variant : LookUp(d, token, v)
    BY <1>3 DEF Begin, LookUpUnknown, LookUpDisabled, Answer
  <2>2. PICK i \in ProfilesByToken(profiles, token) :
          /\ GoTo(d, IF profiles[i].mode = "proxy" THEN "direct" ELSE "lock")
          /\ arg' = [arg EXCEPT ![d] =
               [id |-> i, birth |-> profiles[i].birth, url |-> profiles[i].url,
                variant |-> v, seen |-> delivered[i][v],
                hadCopy |-> GetProfileCache(caches, i, v) # NoRow]]
    BY <2>1 DEF LookUp
  <2>3. arg'[d].id = i /\ pc'[d] \in {"direct", "lock"}
    BY <2>2 DEF GoTo
  <2> QED
    BY <2>2, <2>3 DEF ProfilesByToken
<1>4. CASE AcquireLock(d) \/ Serve(d)
  BY <1>4 DEF AcquireLock, Serve, FetchDirectOk, FetchDirectFail, FetchOk, FetchFail,
              RecordError, UpsertOk, UpsertFail, RecordResult, ServeCached, Answer, GoTo
<1>5. ~ Restart
  BY DEF Restart
<1> QED
  BY <1>1, <1>2, <1>3, <1>4, <1>5
  DEF Next, vars, Administer, AdministerProfile, CreateProfile, UpdateProfile,
      UpdateStatusOnly, DeleteProfile, ResetProfile, request

LEMMA AnnounceStep ==
  ASSUME ~ ReuseIds
  PROVE  AnnounceInv /\ [Next]_vars => AnnounceInv'
<1> SUFFICES ASSUME AnnounceInv, [Next]_vars PROVE AnnounceInv'
  OBVIOUS
<1>1. SafetyInv'
  BY SafetyStep DEF AnnounceInv
<1>2. \A i \in Id : profiles'[i] # NoRow => i \in usedIds'
  BY RowsMove
<1>3. usedIds \subseteq usedIds'
  BY DEF Next, vars, Administer, AdministerProfile, CreateProfile, UpdateProfile,
         UpdateStatusOnly, DeleteProfile, ResetProfile, Begin, LookUpUnknown,
         LookUpDisabled, LookUp, AcquireLock, Serve, FetchDirectOk, FetchDirectFail,
         FetchOk, FetchFail, RecordError, UpsertOk, UpsertFail, RecordResult,
         ServeCached, Restart, database
<1>4. ASSUME NEW d \in Client, pc'[d] # "idle" PROVE arg'[d].id \in usedIds'
  BY <1>3, <1>4, RequestMoves DEF AnnounceInv, RecordedInv
<1>5. ASSUME NEW d \in Client, pc'[d] = "result", profiles'[arg'[d].id] # NoRow
      PROVE  caches'[arg'[d].id][arg'[d].variant] # NoRow
  <2>1. pc[d] # "idle" /\ arg'[d] = arg[d] /\ (pc[d] = "result" \/ UpsertOk(d))
    BY <1>5, RequestMoves
  <2>2. arg[d].id \in Id /\ arg[d].variant \in Variant /\ arg[d].id \in usedIds
    BY <2>1, Ages DEF AnnounceInv, SafetyInv, RecordedInv
  <2>3. CASE pc[d] = "result"
    <3>1. profiles[arg[d].id] # NoRow
      BY <1>5, <2>1, <2>2, RowsMove
    <3> QED
      BY <1>5, <2>1, <2>2, <2>3, <3>1, CopiesStay
      DEF AnnounceInv, SafetyInv, RecordedInv
  <2>4. CASE UpsertOk(d)
    <3>1. /\ got[d] \in ProfileCache /\ got[d] # NoRow
          /\ got[d].id = arg[d].id /\ got[d].variant = arg[d].variant
      BY <2>4, NoRowAssumption DEF UpsertOk, AnnounceInv, SafetyInv, TypeInv, RequestInv
    <3> QED
      BY <2>1, <2>2, <2>4, <3>1
      DEF UpsertOk, UpsertProfileCache, AnnounceInv, SafetyInv, TypeInv, TypeOK
  <2> QED
    BY <2>1, <2>3, <2>4
<1>6. FetchTimeMeansCopy'
  <2> SUFFICES ASSUME NEW i \in Id, profiles'[i] # NoRow, profiles'[i].lastTime # 0
               PROVE  \E v \in Variant :
                        caches'[i][v] # NoRow /\ caches'[i][v].time >= profiles'[i].lastTime
    BY DEF FetchTimeMeansCopy
  <2>1. /\ \A v \in Variant : caches[i][v] # NoRow => caches'[i][v] # NoRow
        /\ \A v \in Variant : caches[i][v] # NoRow /\ caches'[i][v] # NoRow =>
             caches[i][v].time <= caches'[i][v].time
    BY <1>1, CopiesStay, Forward DEF AnnounceInv, SafetyInv
  <2>2. /\ \A v \in Variant : caches[i][v] # NoRow => caches[i][v].time \in Nat
        /\ \A v \in Variant : caches'[i][v] # NoRow => caches'[i][v].time \in Nat
    <3>1. \A copy \in ProfileCache : copy.time \in Nat
      BY TimeAssumption DEF ProfileCache
    <3> QED
      BY <1>1, <3>1 DEF AnnounceInv, SafetyInv, TypeInv, TypeOK
  <2>3. profiles'[i].lastTime \in Nat
    <3>1. profiles'[i] \in Profile
      BY <1>1 DEF SafetyInv, TypeInv, TypeOK
    <3> QED
      BY <3>1, TimeAssumption DEF Profile
  <2>4. CASE profiles[i] # NoRow /\ profiles'[i].lastTime = profiles[i].lastTime
    <3>1. PICK v \in Variant :
            caches[i][v] # NoRow /\ caches[i][v].time >= profiles[i].lastTime
      BY <2>4 DEF AnnounceInv, FetchTimeMeansCopy
    <3> QED
      BY <2>1, <2>2, <2>3, <2>4, <3>1
  <2>5. ASSUME NEW c \in Client, RecordResult(c), i = arg[c].id, profiles[i] # NoRow,
               profiles'[i].lastTime = got[c].time
        PROVE  \E v \in Variant :
                 caches'[i][v] # NoRow /\ caches'[i][v].time >= profiles'[i].lastTime
    <3>1. pc[c] = "result"
      BY <2>5 DEF RecordResult
    <3>2. arg[c].variant \in Variant
      BY <3>1, Ages DEF AnnounceInv, SafetyInv
    <3>3. caches[i][arg[c].variant] # NoRow /\ caches[i][arg[c].variant] = got[c]
      BY <2>5, <3>1 DEF AnnounceInv, RecordedInv, SafetyInv, FetchedInv, FetchedBy
    <3> QED
      BY <2>1, <2>2, <2>3, <2>5, <3>2, <3>3
  <2> QED
    BY <2>4, <2>5, RowsMove
<1> QED
  BY <1>1, <1>2, <1>4, <1>5, <1>6 DEF AnnounceInv, RecordedInv

\* While ids are not given out again, a profile that shows a fetch time has a copy
\* at least that new (FetchTimeMeansCopy).
THEOREM FetchTimeIsTrue ==
  ASSUME ~ ReuseIds
  PROVE  Spec => []FetchTimeMeansCopy
<1>1. AnnounceInv => FetchTimeMeansCopy
  BY DEF AnnounceInv
<1>2. Spec => []AnnounceInv
  BY AnnounceInit, AnnounceStep, PTL DEF Spec
<1> QED
  BY <1>1, <1>2, PTL

-------------------------------------------------------------------------------
\* Subscription implements FixedLink.

LEMMA LinkInit == Init => Link!Init
BY DEF Init, Link!Init, LinkAsks, LinkTaken, LinkAnswer, Link!Nothing, NoReply

\* A step that moves one request, in the terms of FixedLink.
LEMMA LinkMove ==
  ASSUME TypeInv, NEW c \in Client,
         \A d \in Client : d # c =>
           pc'[d] = pc[d] /\ arg'[d] = arg[d] /\ got'[d] = got[d]
             /\ reply'[d] = reply[d]
  PROVE  /\ LinkAsks' = [LinkAsks EXCEPT ![c] =
                           IF pc'[c] \in {"idle", "direct"} THEN NoRow
                           ELSE [id |-> arg'[c].id, variant |-> arg'[c].variant]]
         /\ LinkTaken' = [LinkTaken EXCEPT ![c] =
                            IF pc'[c] = "result" THEN got'[c] ELSE NoRow]
         /\ LinkAnswer' = [LinkAnswer EXCEPT ![c] =
                             IF reply'[c].kind \in {"fresh", "stale", "failed"}
                             THEN reply'[c] ELSE NoReply]
BY DEF LinkAsks, LinkTaken, LinkAnswer

LEMMA OnlyOneMoves ==
  ASSUME TypeInv, NEW c \in Client, Begin(c) \/ AcquireLock(c) \/ Serve(c)
  PROVE  \A d \in Client : d # c =>
           pc'[d] = pc[d] /\ arg'[d] = arg[d] /\ got'[d] = got[d]
             /\ reply'[d] = reply[d]
<1> USE DEF TypeInv, TypeOK, Answer, GoTo
<1>1. ASSUME Begin(c)
      PROVE  \A d \in Client : d # c =>
               pc'[d] = pc[d] /\ arg'[d] = arg[d] /\ got'[d] = got[d]
                 /\ reply'[d] = reply[d]
  BY <1>1 DEF Begin, LookUpUnknown, LookUpDisabled, LookUp
<1>2. ASSUME AcquireLock(c)
      PROVE  \A d \in Client : d # c =>
               pc'[d] = pc[d] /\ arg'[d] = arg[d] /\ got'[d] = got[d]
                 /\ reply'[d] = reply[d]
  BY <1>2 DEF AcquireLock
<1>3. ASSUME Serve(c)
      PROVE  \A d \in Client : d # c =>
               pc'[d] = pc[d] /\ arg'[d] = arg[d] /\ got'[d] = got[d]
                 /\ reply'[d] = reply[d]
  BY <1>3 DEF Serve, FetchDirectOk, FetchDirectFail, FetchOk, FetchFail,
              RecordError, UpsertOk, UpsertFail, RecordResult, ServeCached
<1> QED
  BY <1>1, <1>2, <1>3

LEMMA LinkStep ==
  SafetyInv /\ SafetyInv' /\ [Next]_vars => [Link!Next]_(Link!vars)
<1> SUFFICES ASSUME SafetyInv, SafetyInv', [Next]_vars
             PROVE  Link!Next \/ UNCHANGED Link!vars
  OBVIOUS
<1> USE DEF SafetyInv
<1> DEFINE same == UNCHANGED <<caches, LinkAsks, LinkTaken, LinkAnswer>>
<1>1. same => UNCHANGED Link!vars
  BY DEF Link!vars
<1>2. CASE UNCHANGED vars
  BY <1>1, <1>2 DEF vars, LinkAsks, LinkTaken, LinkAnswer
<1>3. CASE Administer
  <2>1. UNCHANGED <<LinkAsks, LinkTaken, LinkAnswer>>
    <3>1. UNCHANGED <<pc, arg, got, reply>>
      BY <1>3 DEF Administer, AdministerProfile, CreateProfile, UpdateProfile, UpdateStatusOnly,
                  DeleteProfile, ResetProfile, request
    <3> QED
      BY <3>1 DEF LinkAsks, LinkTaken, LinkAnswer
  <2>2. caches' = caches \/ \E i \in Id : caches' = DeleteCaches(caches, i)
    BY <1>3 DEF Administer, AdministerProfile, CreateProfile, UpdateProfile, UpdateStatusOnly,
                DeleteProfile, ResetProfile
  <2>3. ASSUME NEW i \in Id, caches' = DeleteCaches(caches, i) PROVE Link!Forget(i)
    BY <2>1, <2>3 DEF Link!Forget, DeleteCaches
  <2> QED
    BY <1>1, <2>1, <2>2, <2>3 DEF Link!Next
<1>4. ASSUME NEW c \in Client, Begin(c) PROVE Link!Next \/ UNCHANGED Link!vars
  <2>1. /\ LinkAsks' = [LinkAsks EXCEPT ![c] =
                           IF pc'[c] \in {"idle", "direct"} THEN NoRow
                           ELSE [id |-> arg'[c].id, variant |-> arg'[c].variant]]
        /\ LinkTaken' = [LinkTaken EXCEPT ![c] =
                            IF pc'[c] = "result" THEN got'[c] ELSE NoRow]
        /\ LinkAnswer' = [LinkAnswer EXCEPT ![c] =
                             IF reply'[c].kind \in {"fresh", "stale", "failed"}
                             THEN reply'[c] ELSE NoReply]
    BY <1>4, OnlyOneMoves, LinkMove
  <2>2. pc[c] = "idle" /\ caches' = caches /\ LinkAsks[c] = NoRow /\ LinkTaken[c] = NoRow
    BY <1>4 DEF Begin, LookUpUnknown, LookUpDisabled, LookUp, database,
                LinkAsks, LinkTaken
  <2>3. LinkAsks = [LinkAsks EXCEPT ![c] = NoRow]
        /\ LinkTaken = [LinkTaken EXCEPT ![c] = NoRow]
    BY <2>2 DEF LinkAsks, LinkTaken
  <2>4. reply'[c].kind \notin {"fresh", "stale", "failed"} /\ pc'[c] # "result"
    BY <1>4 DEF Begin, LookUpUnknown, LookUpDisabled, LookUp, Answer, GoTo, NoReply,
                TypeInv, TypeOK
  <2>5. CASE pc'[c] \in {"idle", "direct"}
    <3>1. Link!Other(c)
      BY <2>1, <2>2, <2>3, <2>4, <2>5 DEF Link!Other, Link!Nothing, NoReply
    <3> QED
      BY <3>1 DEF Link!Next
  <2>6. CASE pc'[c] \notin {"idle", "direct"}
    <3>1. arg'[c].id \in Id /\ arg'[c].variant \in Variant
      BY <2>6 DEF TypeInv, RequestInv, Argument
    <3>2. Link!Ask(c, arg'[c].id, arg'[c].variant)
      BY <2>1, <2>2, <2>3, <2>4, <2>6 DEF Link!Ask, Link!Nothing, NoReply
    <3> QED
      BY <3>1, <3>2 DEF Link!Next
  <2> QED
    BY <2>5, <2>6
<1>5. ASSUME NEW c \in Client, AcquireLock(c) \/ Serve(c)
      PROVE  Link!Next \/ UNCHANGED Link!vars
  <2> DEFINE question == [id |-> arg[c].id, variant |-> arg[c].variant]
  <2>1. /\ LinkAsks' = [LinkAsks EXCEPT ![c] =
                           IF pc'[c] \in {"idle", "direct"} THEN NoRow
                           ELSE [id |-> arg'[c].id, variant |-> arg'[c].variant]]
        /\ LinkTaken' = [LinkTaken EXCEPT ![c] =
                            IF pc'[c] = "result" THEN got'[c] ELSE NoRow]
        /\ LinkAnswer' = [LinkAnswer EXCEPT ![c] =
                             IF reply'[c].kind \in {"fresh", "stale", "failed"}
                             THEN reply'[c] ELSE NoReply]
    BY <1>5, OnlyOneMoves, LinkMove
  <2>2. LinkAsks[c] = (IF pc[c] \in {"idle", "direct"} THEN NoRow ELSE question)
        /\ LinkTaken[c] = (IF pc[c] = "result" THEN got[c] ELSE NoRow)
        /\ LinkAsks = [LinkAsks EXCEPT ![c] = @]
        /\ LinkTaken = [LinkTaken EXCEPT ![c] = @]
        /\ LinkAnswer = [LinkAnswer EXCEPT ![c] = @]
        /\ LinkAnswer[c] = (IF reply[c].kind \in {"fresh", "stale", "failed"}
                            THEN reply[c] ELSE NoReply)
    BY DEF LinkAsks, LinkTaken, LinkAnswer
  <2>3. pc[c] # "idle" => question # NoRow
    <3>1. pc[c] # "idle" => question \in [id : Id, variant : Variant]
      BY Ages
    <3> QED
      BY <3>1, NoQuestionAssumption
  <2>4. ASSUME NEW t \in Time, FetchDirectOk(c, t) PROVE Link!Next
    <3>1. /\ pc[c] = "direct" /\ pc'[c] = "idle" /\ caches' = caches
          /\ reply'[c].kind = "direct"
      BY <2>4 DEF FetchDirectOk, Answer, database, TypeInv, TypeOK
    <3>2. Link!Other(c)
      BY <2>1, <2>2, <3>1 DEF Link!Other, Link!Nothing, NoReply
    <3> QED
      BY <3>2 DEF Link!Next
  <2>5. ASSUME FetchDirectFail(c) PROVE Link!Next
    <3>1. /\ pc[c] = "direct" /\ pc'[c] = "idle" /\ caches' = caches
          /\ reply'[c].kind = "badGateway"
      BY <2>5 DEF FetchDirectFail, Answer, database, TypeInv, TypeOK
    <3>2. Link!Other(c)
      BY <2>1, <2>2, <3>1 DEF Link!Other, Link!Nothing, NoReply
    <3> QED
      BY <3>2 DEF Link!Next
  <2>6. ASSUME \/ AcquireLock(c) \/ (\E t \in Time : FetchOk(c, t))
               \/ FetchFail(c) \/ RecordError(c) \/ UpsertFail(c)
        PROVE  UNCHANGED Link!vars
    <3>1. /\ pc[c] \in {"lock", "fetch", "error", "upsert"}
          /\ pc'[c] \in {"fetch", "error", "upsert", "cached"}
          /\ UNCHANGED <<caches, arg, reply>>
      BY <2>6 DEF AcquireLock, FetchOk, FetchFail, RecordError, UpsertFail, GoTo,
                  database, TypeInv, TypeOK
    <3> QED
      BY <1>1, <2>1, <2>2, <3>1
  <2>7. ASSUME UpsertOk(c) PROVE Link!Next
    <3>1. /\ pc[c] = "upsert" /\ pc'[c] = "result" /\ UNCHANGED <<arg, got, reply>>
          /\ caches' = UpsertProfileCache(caches, got[c])
      BY <2>7 DEF UpsertOk, GoTo, TypeInv, TypeOK
    <3>2. got[c] \in ProfileCache /\ got[c].id = arg[c].id
          /\ got[c].variant = arg[c].variant
      BY <3>1 DEF TypeInv, RequestInv
    <3>3. LET old == caches[got[c].id][got[c].variant]
          IN  old = NoRow \/ old.time <= got[c].time
      BY <3>1, <3>2 DEF FetchedInv, FetchedBy
    <3>4. Link!Refresh(c, got[c])
      BY <2>1, <2>2, <3>1, <3>2, <3>3 DEF Link!Refresh, UpsertProfileCache
    <3>5. got[c] \in Link!ProfileCache
      BY <3>2 DEF ProfileCache, Link!ProfileCache
    <3> QED
      BY <3>4, <3>5 DEF Link!Next
  <2>8. ASSUME RecordResult(c) PROVE Link!Next
    <3>1. /\ pc[c] = "result" /\ pc'[c] = "idle" /\ caches' = caches
          /\ reply'[c] = [kind |-> "fresh", copy |-> got[c]]
      BY <2>8 DEF RecordResult, Answer, TypeInv, TypeOK
    <3>2. got[c] # NoRow
      BY <3>1, NoRowAssumption DEF TypeInv, RequestInv
    <3>3. Link!AnswerFresh(c)
      BY <2>1, <2>2, <3>1, <3>2 DEF Link!AnswerFresh, Link!Finish
    <3> QED
      BY <3>3 DEF Link!Next
  <2>9. ASSUME ServeCached(c) PROVE Link!Next
    <3> DEFINE row == caches[arg[c].id][arg[c].variant]
    <3>1. /\ pc[c] = "cached" /\ pc'[c] = "idle" /\ caches' = caches
          /\ reply'[c] = [kind |-> IF row = NoRow THEN "failed" ELSE "stale",
                          copy |-> row]
      BY <2>9 DEF ServeCached, GetProfileCache, Answer, database, TypeInv, TypeOK
    <3>2. Link!AnswerStored(c)
      BY <2>1, <2>2, <2>3, <3>1 DEF Link!AnswerStored, Link!Finish
    <3> QED
      BY <3>2 DEF Link!Next
  <2> QED
    BY <1>5, <2>4, <2>5, <2>6, <2>7, <2>8, <2>9 DEF Serve
<1>6. ASSUME Restart PROVE Link!Next
  <2> DEFINE lost == {c \in Client : reply'[c] # reply[c]}
  <2>1. /\ caches' = caches
        /\ LinkAsks' = [c \in Client |-> NoRow]
        /\ LinkTaken' = [c \in Client |-> NoRow]
    BY <1>6 DEF Restart, database, LinkAsks, LinkTaken
  <2>2. LinkAnswer' = [c \in Client |-> IF c \in lost THEN NoReply ELSE LinkAnswer[c]]
    BY <1>6 DEF Restart, LinkAnswer, NoReply
  <2>3. Link!Abandon
    BY <2>1, <2>2 DEF Link!Abandon, Link!Nothing, NoReply
  <2> QED
    BY <2>3 DEF Link!Next
<1> QED
  BY <1>2, <1>3, <1>4, <1>5, <1>6 DEF Next

\* Requests in cache mode take effect one at a time, in the order of the ages of
\* their copies.
THEOREM Implementation == Spec => ImplementsFixedLink
<1>1. Spec => [][Link!Next]_(Link!vars)
  BY LinkStep, SafetyInvariant, PTL DEF Spec
<1>2. Spec => Link!Init
  BY LinkInit DEF Spec
<1> QED
  BY <1>1, <1>2 DEF ImplementsFixedLink, Link!Spec

-------------------------------------------------------------------------------
\* LinkHeaders.  Every step of it is one of Subscription, so what is proved of that one
\* holds here.

LEMMA HeaderStepIsStep == HeaderNext => Next
<1> SUFFICES ASSUME HeaderNext PROVE Next
  OBVIOUS
<1>1. CASE \E c \in Client :
             \/ \E token \in Token : Refused(c, token)
             \/ \E token \in Token, v \in Variant, sent \in Request :
                  Asked(c, token, v, sent)
  BY <1>1 DEF Refused, Asked, Next, Begin
<1>2. CASE \E c \in Client :
             \/ \E t \in Time, body \in Body : Direct(c, t, body) \/ Fetch(c, t, body)
             \/ DirectFail(c) \/ Keep(c) \/ KeepFail(c) \/ Fresh(c) \/ Stale(c)
  BY <1>2 DEF Direct, Fetch, DirectFail, Keep, KeepFail, Fresh, Stale, Next, Serve
<1>3. CASE \E i \in Id : Delete(i)
  BY <1>3 DEF Delete, Next, Administer, AdministerProfile
<1>4. CASE Elsewhere
  <2>1. CASE \E i \in Id :
               \/ \E token \in Token, url \in Url, mode \in FetchMode :
                    CreateProfile(i, token, url, mode)
               \/ \E url \in Url, mode \in FetchMode : UpdateProfile(i, url, mode)
               \/ \E status \in Status : UpdateStatusOnly(i, status)
               \/ \E token \in Token : ResetProfile(i, token)
    BY <2>1 DEF Next, Administer, AdministerProfile
  <2>2. CASE \E c \in Client : AcquireLock(c) \/ FetchFail(c) \/ RecordError(c)
    BY <2>2 DEF Next, Serve
  <2> QED
    BY <1>4, <2>1, <2>2 DEF Elsewhere
<1>5. CASE RestartAll
  BY <1>5 DEF RestartAll, Next
<1> QED
  BY <1>1, <1>2, <1>3, <1>4, <1>5 DEF HeaderNext

\* The headers change nothing of what the link does.
THEOREM LinkIsTheSame == HeaderSpec => Spec
<1>1. HeaderInit => Init
  BY DEF HeaderInit
<1>2. [HeaderNext]_<<vars, headers>> => [Next]_vars
  BY HeaderStepIsStep
<1> QED
  BY <1>1, <1>2, PTL DEF HeaderSpec, Spec

-------------------------------------------------------------------------------
\* A content that a fetch may have brought back.
Sound(content) == content.etag = Sum(content.body) /\ content.whole

\* What the headers of a request are at each place of the handler, and what is
\* kept between requests.
AskedInv ==
  \A c \in Client :
    /\ pc[c] # "idle" => asked[c] \in Request
    /\ pc[c] \in {"upsert", "result"} =>
         /\ brought[c] \in Content
         /\ Sound(brought[c])
         /\ brought[c].encoded => "Accept-Encoding" \in asked[c].names

KeptInv ==
  \A i \in Id, v \in Variant : kept[i][v] # NoRow => Sound(kept[i][v])

AnsweredInv ==
  \A c \in Client :
    /\ held[c] # NoRow => Sound(held[c])
    /\ answered[c] # NoRow =>
         /\ Sound(answered[c].content)
         /\ answered[c].status = 304 =>
              held[c] # NoRow /\ held[c].etag = answered[c].content.etag
         /\ reply[c].kind \in {"fresh", "direct"} /\ answered[c].content.encoded
              => "Accept-Encoding" \in answered[c].names

HeaderInv == TypeInv /\ HeaderTypeOK /\ AskedInv /\ KeptInv /\ AnsweredInv

LEMMA HeaderInvInit == HeaderInit => HeaderInv
<1> SUFFICES ASSUME HeaderInit PROVE HeaderInv
  OBVIOUS
<1>1. TypeInv
  BY TypeInit DEF HeaderInit
<1> QED
  BY <1>1 DEF HeaderInit, Init, HeaderInv, HeaderTypeOK, AskedInv, KeptInv,
     AnsweredInv

\* What a fetch brings back is sound, whatever the request asked for.
LEMMA FetchIsSound ==
  ASSUME NEW wish \in Request, NEW body \in Body
  PROVE  /\ fetch(wish, body) \in Content
         /\ Sound(fetch(wish, body))
         /\ fetch(wish, body).encoded => "Accept-Encoding" \in wish.names
<1> DEFINE sent == copyClientHeaders(wish)
           content == [body |-> body, etag |-> Sum(body), whole |-> "Range" \notin sent,
                       encoded |-> "Accept-Encoding" \in sent]
<1>1. sent \subseteq wish.names /\ "Range" \notin sent
  BY DEF copyClientHeaders, strippedRequestHeaders
<1>2. Sum(body) \in {"sum"} \X Body
  BY DEF Sum
<1> HIDE DEF sent
<1>3. content \in Content
  BY <1>2 DEF Content
<1>4. content.etag = Sum(content.body) /\ content.whole
  BY <1>1
<1>5. content.encoded => "Accept-Encoding" \in wish.names
  BY <1>1
<1>6. fetch(wish, body) = content
  BY DEF fetch, sent
<1> HIDE DEF content
<1> QED
  BY <1>3, <1>4, <1>5, <1>6 DEF Sound

\* Writing a sound content to a client leaves sound answers.
LEMMA WriteIsSound ==
  ASSUME HeaderInv, NEW c \in Client, pc[c] # "idle",
         NEW content \in Content, Sound(content),
         writeCachedSubscription(c, content),
         pc' = [pc EXCEPT ![c] = "idle"],
         \A d \in Client \ {c} : reply'[d] = reply[d],
         reply'[c].kind \in {"fresh", "direct"} /\ content.encoded
           => "Accept-Encoding" \in asked[c].names
  PROVE  /\ asked' \in [Client -> Request \cup {NoRow}]
         /\ brought' \in [Client -> Content \cup {NoRow}]
         /\ answered' \in [Client -> Answered \cup {NoRow}]
         /\ held' \in [Client -> Content \cup {NoRow}]
         /\ AskedInv'
         /\ AnsweredInv'
<1> USE DEF HeaderInv, HeaderTypeOK, TypeInv, TypeOK
<1> DEFINE same == /\ "If-None-Match" \in asked[c].names
                   /\ held[c] # NoRow
                   /\ held[c].etag = content.etag
           new == [status |-> IF same THEN 304 ELSE 200, content |-> content,
                   names |-> asked[c].names]
<1>1. /\ answered' = [answered EXCEPT ![c] = new]
      /\ held' = [held EXCEPT ![c] = IF same THEN @ ELSE content]
      /\ asked' = [asked EXCEPT ![c] = NoRow]
      /\ brought' = [brought EXCEPT ![c] = NoRow]
  BY DEF writeCachedSubscription
<1>2. asked[c] \in Request /\ asked[c].names \in SUBSET Name
  BY RequestAssumption DEF AskedInv
<1>3. new \in Answered /\ new.status = (IF same THEN 304 ELSE 200)
        /\ new.content = content /\ new.names = asked[c].names
  BY <1>2 DEF Answered
<1> HIDE DEF new
<1>4. /\ asked' \in [Client -> Request \cup {NoRow}]
      /\ brought' \in [Client -> Content \cup {NoRow}]
      /\ answered' \in [Client -> Answered \cup {NoRow}]
      /\ held' \in [Client -> Content \cup {NoRow}]
  BY <1>1, <1>3
<1>5. AskedInv'
  BY <1>1 DEF AskedInv
<1>6. AnsweredInv'
  <2> SUFFICES ASSUME NEW d \in Client
               PROVE  /\ held'[d] # NoRow => Sound(held'[d])
                      /\ answered'[d] # NoRow =>
                           /\ Sound(answered'[d].content)
                           /\ answered'[d].status = 304 =>
                                held'[d] # NoRow
                                  /\ held'[d].etag = answered'[d].content.etag
                           /\ reply'[d].kind \in {"fresh", "direct"}
                                /\ answered'[d].content.encoded
                                => "Accept-Encoding" \in answered'[d].names
    BY DEF AnsweredInv, Sound, Sum
  <2>1. CASE d = c
    BY <2>1, <1>1, <1>3 DEF AnsweredInv
  <2>2. CASE d # c
    <3>1. held'[d] = held[d] /\ answered'[d] = answered[d] /\ reply'[d] = reply[d]
      BY <2>2, <1>1
    <3> QED
      BY <3>1 DEF AnsweredInv
  <2> QED
    BY <2>1, <2>2
<1> QED
  BY <1>4, <1>5, <1>6

-------------------------------------------------------------------------------
\* Steps that leave headers and bodies alone, or take some away.

\* A client that waits for nothing keeps its answer; one that goes on keeps what it
\* asked.
LEMMA QuietKeeps ==
  ASSUME HeaderInv, TypeInv',
         \A c \in Client :
           /\ pc'[c] # "idle" => asked'[c] = asked[c] /\ pc[c] # "idle"
           /\ pc'[c] \in {"upsert", "result"} =>
                brought'[c] = brought[c] /\ pc[c] \in {"upsert", "result"}
           /\ \/ answered'[c] = answered[c] /\ reply'[c] = reply[c]
              \/ answered'[c] = NoRow,
         \A i \in Id, v \in Variant : kept'[i][v] \in {kept[i][v], NoRow},
         UNCHANGED held,
         HeaderTypeOK'
  PROVE  HeaderInv'
<1>1. AskedInv'
  BY DEF HeaderInv, AskedInv, Sound, Sum
<1>2. KeptInv'
  BY DEF HeaderInv, KeptInv, Sound, Sum
<1>3. AnsweredInv'
  <2> SUFFICES ASSUME NEW c \in Client
               PROVE  /\ held'[c] # NoRow => Sound(held'[c])
                      /\ answered'[c] # NoRow =>
                           /\ Sound(answered'[c].content)
                           /\ answered'[c].status = 304 =>
                                held'[c] # NoRow
                                  /\ held'[c].etag = answered'[c].content.etag
                           /\ reply'[c].kind \in {"fresh", "direct"}
                                /\ answered'[c].content.encoded
                                => "Accept-Encoding" \in answered'[c].names
    BY DEF AnsweredInv, Sound, Sum
  <2> QED
    BY DEF HeaderInv, AnsweredInv
<1> QED
  BY <1>1, <1>2, <1>3 DEF HeaderInv

LEMMA RefusedKeeps ==
  ASSUME HeaderInv, TypeInv', NEW c \in Client, NEW token \in Token,
         Refused(c, token)
  PROVE  HeaderInv'
<1> USE DEF HeaderInv, HeaderTypeOK, TypeInv, TypeOK
<1>1. /\ pc[c] = "idle" /\ pc' = [pc EXCEPT ![c] = "idle"]
      /\ \A d \in Client \ {c} : reply'[d] = reply[d]
      /\ UNCHANGED caches
  BY DEF Refused, LookUpUnknown, LookUpDisabled, Answer, database
<1>2. /\ answered' = [answered EXCEPT ![c] = NoRow]
      /\ asked' = [asked EXCEPT ![c] = NoRow]
      /\ UNCHANGED <<brought, kept, held>>
  BY DEF Refused, writeError
<1>3. HeaderTypeOK'
  BY <1>1, <1>2
<1> QED
  BY <1>1, <1>2, <1>3, QuietKeeps

\* The beginning of a request.
LEMMA AskedKeeps ==
  ASSUME HeaderInv, TypeInv', NEW c \in Client, NEW token \in Token,
         NEW v \in Variant, NEW sent \in Request, Asked(c, token, v, sent)
  PROVE  HeaderInv'
<1> USE DEF HeaderInv, HeaderTypeOK, TypeInv, TypeOK
<1>1. /\ pc'[c] \in {"direct", "lock"}
      /\ \A d \in Client \ {c} : pc'[d] = pc[d] /\ reply'[d] = reply[d]
      /\ UNCHANGED caches
  BY DEF Asked, LookUp, GoTo, database
<1>2. /\ answered' = [answered EXCEPT ![c] = NoRow]
      /\ asked' = [asked EXCEPT ![c] = sent]
      /\ UNCHANGED <<brought, kept, held>>
  BY DEF Asked
<1>3. HeaderTypeOK'
  BY <1>1, <1>2
<1>4. AskedInv'
  BY <1>1, <1>2 DEF AskedInv, Sound, Sum
<1>5. KeptInv'
  BY <1>2 DEF KeptInv, Sound, Sum
<1>6. AnsweredInv'
  BY <1>1, <1>2 DEF AnsweredInv, Sound, Sum
<1> QED
  BY <1>3, <1>4, <1>5, <1>6

LEMMA DirectFailKeeps ==
  ASSUME HeaderInv, TypeInv', NEW c \in Client, DirectFail(c)
  PROVE  HeaderInv'
<1> USE DEF HeaderInv, HeaderTypeOK, TypeInv, TypeOK
<1>1. /\ pc' = [pc EXCEPT ![c] = "idle"]
      /\ \A d \in Client \ {c} : reply'[d] = reply[d]
      /\ UNCHANGED caches
  BY DEF DirectFail, FetchDirectFail, Answer, database
<1>2. /\ answered' = [answered EXCEPT ![c] = NoRow]
      /\ asked' = [asked EXCEPT ![c] = NoRow]
      /\ UNCHANGED <<brought, kept, held>>
  BY DEF DirectFail, writeError
<1>3. HeaderTypeOK'
  BY <1>1, <1>2
<1> QED
  BY <1>1, <1>2, <1>3, QuietKeeps

\* Deleting a profile takes its copies along.
LEMMA DeleteKeeps ==
  ASSUME HeaderInv, TypeInv', NEW i \in Id, Delete(i)
  PROVE  HeaderInv'
<1> USE DEF HeaderInv, HeaderTypeOK, TypeInv, TypeOK
<1>1. /\ caches' = [caches EXCEPT ![i] = [v \in Variant |-> NoRow]]
      /\ UNCHANGED <<pc, reply>>
  BY DEF Delete, DeleteProfile, DeleteCaches, request
<1>2. /\ kept' = [kept EXCEPT ![i] = [v \in Variant |-> NoRow]]
      /\ UNCHANGED <<asked, brought, answered, held>>
  BY DEF Delete
<1>3. HeaderTypeOK'
  BY <1>1, <1>2
<1>4. \A j \in Id, v \in Variant : kept'[j][v] \in {kept[j][v], NoRow}
  BY <1>2
<1> QED
  BY <1>1, <1>2, <1>3, <1>4, QuietKeeps

LEMMA ElsewhereKeeps ==
  ASSUME HeaderInv, TypeInv', Elsewhere
  PROVE  HeaderInv'
<1> USE DEF HeaderInv, HeaderTypeOK, TypeInv, TypeOK
<1>1. /\ \A c \in Client :
           /\ pc'[c] # "idle" => pc[c] # "idle"
           /\ pc'[c] \in {"upsert", "result"} => pc[c] \in {"upsert", "result"}
      /\ UNCHANGED <<caches, reply>>
  <2>1. ASSUME NEW i \in Id, NEW token \in Token, NEW url \in Url,
               NEW mode \in FetchMode, CreateProfile(i, token, url, mode)
        PROVE  UNCHANGED <<caches, pc, reply>>
    BY <2>1 DEF CreateProfile, request
  <2>2. ASSUME NEW i \in Id, NEW url \in Url, NEW mode \in FetchMode,
               UpdateProfile(i, url, mode)
        PROVE  UNCHANGED <<caches, pc, reply>>
    BY <2>2 DEF UpdateProfile, request
  <2>3. ASSUME NEW i \in Id, NEW status \in Status, UpdateStatusOnly(i, status)
        PROVE  UNCHANGED <<caches, pc, reply>>
    BY <2>3 DEF UpdateStatusOnly, request
  <2>4. ASSUME NEW i \in Id, NEW token \in Token, ResetProfile(i, token)
        PROVE  UNCHANGED <<caches, pc, reply>>
    BY <2>4 DEF ResetProfile, request
  <2>5. ASSUME NEW c \in Client, AcquireLock(c) \/ FetchFail(c) \/ RecordError(c)
        PROVE  <1>1!1 /\ <1>1!2
    <3>1. \E place \in {"fetch", "error", "cached"} : pc' = [pc EXCEPT ![c] = place]
      BY <2>5 DEF AcquireLock, FetchFail, RecordError, GoTo
    <3>2. pc[c] # "idle" /\ UNCHANGED <<caches, reply>>
      BY <2>5 DEF AcquireLock, FetchFail, RecordError, database
    <3> QED
      BY <3>1, <3>2
  <2> QED
    BY <2>1, <2>2, <2>3, <2>4, <2>5 DEF Elsewhere
<1>2. UNCHANGED <<asked, brought, kept, answered, held>>
  BY DEF Elsewhere, headers
<1>3. HeaderTypeOK'
  BY <1>1, <1>2
<1> QED
  BY <1>1, <1>2, <1>3, QuietKeeps

LEMMA RestartKeeps ==
  ASSUME HeaderInv, TypeInv', RestartAll
  PROVE  HeaderInv'
<1> USE DEF HeaderInv, HeaderTypeOK, TypeInv, TypeOK
<1>1. /\ \A c \in Client : pc'[c] = "idle"
      /\ \A c \in Client : pc[c] = "idle" => reply'[c] = reply[c]
      /\ UNCHANGED caches
  BY DEF RestartAll, Restart, database
<1>2. /\ asked' = [c \in Client |-> NoRow]
      /\ brought' = [c \in Client |-> NoRow]
      /\ answered' = [c \in Client |-> IF pc[c] = "idle" THEN answered[c] ELSE NoRow]
      /\ UNCHANGED <<kept, held>>
  BY DEF RestartAll
<1>3. HeaderTypeOK'
  BY <1>1, <1>2
<1> QED
  BY <1>1, <1>2, <1>3, QuietKeeps

-------------------------------------------------------------------------------
\* Steps that bring a body, keep it or hand it out.

LEMMA DirectKeeps ==
  ASSUME HeaderInv, TypeInv', NEW c \in Client, NEW t \in Time, NEW body \in Body,
         Direct(c, t, body)
  PROVE  HeaderInv'
<1> USE DEF HeaderInv, HeaderTypeOK, TypeInv, TypeOK
<1>1. /\ pc[c] # "idle" /\ pc' = [pc EXCEPT ![c] = "idle"]
      /\ \A d \in Client \ {c} : reply'[d] = reply[d]
      /\ UNCHANGED caches
  BY DEF Direct, FetchDirectOk, Answer, database
<1>2. asked[c] \in Request
  BY <1>1 DEF AskedInv
<1> DEFINE content == fetch(asked[c], body)
<1>3. /\ content \in Content /\ Sound(content)
      /\ content.encoded => "Accept-Encoding" \in asked[c].names
  BY <1>2, FetchIsSound
<1>4. writeCachedSubscription(c, content) /\ UNCHANGED kept
  BY DEF Direct
<1> HIDE DEF content
<1>5. /\ HeaderTypeOK'
      /\ AskedInv'
      /\ AnsweredInv'
  BY <1>1, <1>3, <1>4, WriteIsSound
<1>6. KeptInv'
  BY <1>4 DEF KeptInv, Sound, Sum
<1> QED
  BY <1>5, <1>6

LEMMA FetchKeeps ==
  ASSUME HeaderInv, TypeInv', NEW c \in Client, NEW t \in Time, NEW body \in Body,
         Fetch(c, t, body)
  PROVE  HeaderInv'
<1> USE DEF HeaderInv, HeaderTypeOK, TypeInv, TypeOK
<1>1. /\ pc[c] # "idle" /\ pc' = [pc EXCEPT ![c] = "upsert"]
      /\ UNCHANGED <<caches, reply>>
  BY DEF Fetch, FetchOk, GoTo, database
<1>2. asked[c] \in Request
  BY <1>1 DEF AskedInv
<1> DEFINE content == fetch(asked[c], body)
<1>3. /\ content \in Content /\ Sound(content)
      /\ content.encoded => "Accept-Encoding" \in asked[c].names
  BY <1>2, FetchIsSound
<1>4. /\ brought' = [brought EXCEPT ![c] = content]
      /\ UNCHANGED <<asked, kept, answered, held>>
  BY DEF Fetch
<1> HIDE DEF content
<1>5. HeaderTypeOK'
  BY <1>1, <1>3, <1>4
<1>6. AskedInv'
  BY <1>1, <1>2, <1>3, <1>4 DEF AskedInv, Sound, Sum
<1>7. KeptInv' /\ AnsweredInv'
  BY <1>1, <1>4 DEF KeptInv, AnsweredInv, Sound, Sum
<1> QED
  BY <1>5, <1>6, <1>7

\* The row and its body are stored together.
LEMMA KeepKeeps ==
  ASSUME HeaderInv, TypeInv', NEW c \in Client, Keep(c)
  PROVE  HeaderInv'
<1> USE DEF HeaderInv, HeaderTypeOK, TypeInv, TypeOK
<1> DEFINE i == arg[c].id
           v == arg[c].variant
<1>1. /\ pc[c] = "upsert" /\ pc' = [pc EXCEPT ![c] = "result"]
      /\ caches' = UpsertProfileCache(caches, got[c])
      /\ UNCHANGED reply
  BY DEF Keep, UpsertOk, GoTo
<1>2. /\ got[c] \in ProfileCache /\ got[c].id = i /\ got[c].variant = v
      /\ i \in Id /\ v \in Variant
  BY <1>1 DEF RequestInv, Argument
<1>3. /\ asked[c] \in Request /\ brought[c] \in Content /\ Sound(brought[c])
  BY <1>1 DEF AskedInv
<1>4. /\ kept' = [kept EXCEPT ![i][v] = brought[c]]
      /\ UNCHANGED <<asked, brought, answered, held>>
  BY DEF Keep, AssignmentColumns
<1>5. caches' = [caches EXCEPT ![i][v] = got[c]]
  BY <1>1, <1>2 DEF UpsertProfileCache
<1> HIDE DEF i, v
<1>6. /\ kept' \in [Id -> [Variant -> Content \cup {NoRow}]]
      /\ got[c] # NoRow /\ brought[c] # NoRow
  BY <1>2, <1>3, <1>4, NoRowAssumption, NoHeadersAssumption
<1>7. ASSUME NEW j \in Id, NEW w \in Variant
      PROVE  /\ kept'[j][w] = NoRow <=> caches'[j][w] = NoRow
             /\ kept'[j][w] # NoRow => Sound(kept'[j][w])
  <2>1. CASE j = i /\ w = v
    BY <2>1, <1>2, <1>3, <1>4, <1>5, <1>6
  <2>2. CASE ~ (j = i /\ w = v)
    <3>1. kept'[j][w] = kept[j][w] /\ caches'[j][w] = caches[j][w]
      BY <2>2, <1>2, <1>4, <1>5
    <3> QED
      BY <3>1 DEF KeptInv
  <2> QED
    BY <2>1, <2>2
<1>8. HeaderTypeOK'
  BY <1>4, <1>6, <1>7
<1>9. AskedInv' /\ AnsweredInv'
  BY <1>1, <1>4 DEF AskedInv, AnsweredInv, Sound, Sum
<1>10. KeptInv'
  BY <1>7 DEF KeptInv, Sound, Sum
<1> QED
  BY <1>8, <1>9, <1>10

LEMMA KeepFailKeeps ==
  ASSUME HeaderInv, TypeInv', NEW c \in Client, KeepFail(c)
  PROVE  HeaderInv'
<1> USE DEF HeaderInv, HeaderTypeOK, TypeInv, TypeOK
<1>1. /\ pc[c] # "idle" /\ pc' = [pc EXCEPT ![c] = "cached"]
      /\ UNCHANGED <<caches, reply>>
  BY DEF KeepFail, UpsertFail, GoTo, database
<1>2. /\ brought' = [brought EXCEPT ![c] = NoRow]
      /\ UNCHANGED <<asked, kept, answered, held>>
  BY DEF KeepFail
<1>3. HeaderTypeOK'
  BY <1>1, <1>2
<1> QED
  BY <1>1, <1>2, <1>3, QuietKeeps

LEMMA FreshKeeps ==
  ASSUME HeaderInv, TypeInv', NEW c \in Client, Fresh(c)
  PROVE  HeaderInv'
<1> USE DEF HeaderInv, HeaderTypeOK, TypeInv, TypeOK
<1>1. /\ pc[c] = "result" /\ pc' = [pc EXCEPT ![c] = "idle"]
      /\ \A d \in Client \ {c} : reply'[d] = reply[d]
      /\ UNCHANGED caches
  BY DEF Fresh, RecordResult, Answer
<1>2. /\ brought[c] \in Content /\ Sound(brought[c])
      /\ brought[c].encoded => "Accept-Encoding" \in asked[c].names
  BY <1>1 DEF AskedInv
<1>3. writeCachedSubscription(c, brought[c]) /\ UNCHANGED kept
  BY DEF Fresh
<1>4. /\ HeaderTypeOK'
      /\ AskedInv'
      /\ AnsweredInv'
  BY <1>1, <1>2, <1>3, WriteIsSound
<1>5. KeptInv'
  BY <1>3 DEF KeptInv, Sound, Sum
<1> QED
  BY <1>4, <1>5

\* The stored copy may be encoded as another client wished.
LEMMA StaleKeeps ==
  ASSUME HeaderInv, TypeInv', NEW c \in Client, Stale(c)
  PROVE  HeaderInv'
<1> USE DEF HeaderInv, HeaderTypeOK, TypeInv, TypeOK
<1> DEFINE i == arg[c].id
           v == arg[c].variant
           content == kept[i][v]
<1>1. /\ pc[c] = "cached" /\ pc' = [pc EXCEPT ![c] = "idle"]
      /\ \A d \in Client \ {c} : reply'[d] = reply[d]
      /\ UNCHANGED caches
  BY DEF Stale, ServeCached, Answer, database
<1>2. i \in Id /\ v \in Variant
  BY <1>1 DEF RequestInv, Argument
<1>3. reply'[c].kind \in {"failed", "stale"}
  BY DEF Stale, ServeCached, Answer
<1>4. CASE content = NoRow
  <2>1. /\ answered' = [answered EXCEPT ![c] = NoRow]
        /\ asked' = [asked EXCEPT ![c] = NoRow]
        /\ UNCHANGED <<brought, kept, held>>
    BY <1>4 DEF Stale, writeError
  <2>2. HeaderTypeOK'
    BY <1>1, <2>1
  <2> QED
    BY <1>1, <2>1, <2>2, QuietKeeps
<1>5. CASE content # NoRow
  <2>1. content \in Content /\ Sound(content)
    BY <1>2, <1>5 DEF KeptInv
  <2>2. writeCachedSubscription(c, content) /\ UNCHANGED kept
    BY <1>5 DEF Stale
  <2> HIDE DEF content
  <2>3. /\ HeaderTypeOK'
        /\ AskedInv'
        /\ AnsweredInv'
    BY <1>1, <1>3, <2>1, <2>2, WriteIsSound
  <2>4. KeptInv'
    BY <2>2 DEF KeptInv, Sound, Sum
  <2> QED
    BY <2>3, <2>4
<1> QED
  BY <1>4, <1>5

-------------------------------------------------------------------------------
LEMMA HeaderStep == HeaderInv /\ [HeaderNext]_<<vars, headers>> => HeaderInv'
<1> SUFFICES ASSUME HeaderInv, [HeaderNext]_<<vars, headers>> PROVE HeaderInv'
  OBVIOUS
<1>1. TypeInv'
  BY HeaderStepIsStep, TypeStep DEF HeaderInv, vars
<1>2. CASE HeaderNext
  BY <1>1, <1>2, RefusedKeeps, AskedKeeps, DirectKeeps, DirectFailKeeps, FetchKeeps,
     KeepKeeps, KeepFailKeeps, FreshKeeps, StaleKeeps, DeleteKeeps, ElsewhereKeeps,
     RestartKeeps
     DEF HeaderNext
<1>3. CASE UNCHANGED <<vars, headers>>
  BY <1>1, <1>3 DEF HeaderInv, HeaderTypeOK, AskedInv, KeptInv, AnsweredInv, Sound, Sum,
     vars, headers
<1> QED
  BY <1>2, <1>3

\* What the headers say of copies and answers holds through every step of the link.
THEOREM HeaderInvariant == HeaderSpec => []HeaderInv
BY HeaderInvInit, HeaderStep, PTL DEF HeaderSpec

\* The variables of the headers keep their types, and a body is kept for every copy
\* that is stored and for no other (profile_caches).
THEOREM HeadersTypeCorrect == HeaderSpec => []HeaderTypeOK
<1>1. HeaderInv => HeaderTypeOK
  BY DEF HeaderInv
<1> QED
  BY <1>1, HeaderInvariant, PTL

\* 304 is answered only to clients that hold the body they would be sent
\* (writeCachedSubscription).
THEOREM NothingWasModified == HeaderSpec => []NotModifiedIsTrue
<1>1. HeaderInv => NotModifiedIsTrue
  BY DEF HeaderInv, AnsweredInv, NotModifiedIsTrue, Sound, Sum
<1> QED
  BY <1>1, HeaderInvariant, PTL

\* No client's range shapes the copy of all, and no fetch is answered in an encoding
\* its client did not accept (copyClientHeaders, fetch).
THEOREM EveryBodyIsUsable == HeaderSpec => []BodiesAreUsable
<1>1. HeaderInv => BodiesAreUsable
  BY DEF HeaderInv, KeptInv, AnsweredInv, BodiesAreUsable, Sound
<1> QED
  BY <1>1, HeaderInvariant, PTL
===============================================================================
