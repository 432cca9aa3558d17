----------------------------- MODULE Subscription -----------------------------
(***************************************************************************)
(* The subscription link GET /profile/:token and the administration of the  *)
(* profiles behind it.  A client's request runs the handler                 *)
(* GetProfileByToken (controller/profile.go), which in cache mode goes      *)
(* through Service.FetchAndCache under the mutex of the profile and falls   *)
(* back on the stored copy (subscription/service.go).  Every statement on   *)
(* the database is a step, since the requests of other clients, the         *)
(* administrators and a restart come in between.                            *)
(***************************************************************************)
EXTENDS ProfileTable

CONSTANTS
  Client,    \* clients of the links; each has one request under way
  NoOne,     \* nobody holds the mutex
  ReuseIds   \* may the id of a deleted profile be given to a new one?

ASSUME NoOneAssumption == NoOne \notin Client
ASSUME ReuseIdsAssumption == ReuseIds \in BOOLEAN
ASSUME NoQuestionAssumption == NoRow \notin [id : Id, variant : Variant]

VARIABLES
  profiles,  \* table profiles
  caches,    \* table profile_caches
  usedIds,   \* history: ids given to a profile so far
  issued,    \* history: tokens drawn so far
  now,       \* the last reading of the clock
  lock,      \* Service.locks: who holds the mutex of each profile
  pc,        \* where the request of each client is in the handler
  arg,       \* what the request read when it began
  got,       \* what its fetch brought back
  reply,     \* the answer to the last request of each client
  delivered  \* history: age of the newest copy clients received of each link

database == <<profiles, caches, usedIds, issued>>
request == <<pc, arg, got, reply, delivered>>
vars == <<profiles, caches, usedIds, issued, now, lock,
          pc, arg, got, reply, delivered>>

Place ==
  {"idle", "direct", "lock", "fetch", "error", "upsert", "result", "cached"}

\* The region between lock.Lock() and the deferred lock.Unlock().
Critical(c) == pc[c] \in {"fetch", "error", "upsert", "result"}

\* The request keeps what it read of the profile; the mode is in its place in
\* the handler.  `seen` and `hadCopy` are history: what had been delivered and
\* whether a copy was stored for this profile and variant when it began.
Argument ==
  [id : Id, birth : Token, url : Url, variant : Variant,
   seen : Time \cup {0}, hadCopy : BOOLEAN]

ASSUME NoArgumentAssumption == NoRow \notin Argument

Kind ==
  {"none", "unknown", "forbidden", "direct", "badGateway",
   "fresh", "stale", "failed"}
NoReply == [kind |-> "none", copy |-> NoRow]

TypeOK ==
  /\ profiles \in [Id -> Profile \cup {NoRow}]
  /\ caches \in [Id -> [Variant -> ProfileCache \cup {NoRow}]]
  /\ usedIds \subseteq Id
  /\ issued \subseteq Token
  /\ now \in Nat
  /\ lock \in [Id -> Client \cup {NoOne}]
  /\ pc \in [Client -> Place]
  /\ arg \in [Client -> Argument \cup {NoRow}]
  /\ got \in [Client -> ProfileCache \cup {NoRow}]
  /\ reply \in [Client -> [kind : Kind, copy : ProfileCache \cup {NoRow}]]
  /\ delivered \in [Id -> [Variant -> Time \cup {0}]]

Init ==
  /\ profiles = [i \in Id |-> NoRow]
  /\ caches = [i \in Id |-> [v \in Variant |-> NoRow]]
  /\ usedIds = {}
  /\ issued = {}
  /\ now = 0
  /\ lock = [i \in Id |-> NoOne]
  /\ pc = [c \in Client |-> "idle"]
  /\ arg = [c \in Client |-> NoRow]
  /\ got = [c \in Client |-> NoRow]
  /\ reply = [c \in Client |-> NoReply]
  /\ delivered = [i \in Id |-> [v \in Variant |-> 0]]

-------------------------------------------------------------------------------
\* The administrators.  Each handler of controller/profile.go makes one change.

\* An id is free when no row has it.  The body of the request may name one, and
\* SQLite gives the largest id out again after a delete; AUTO_INCREMENT does not.
CreateProfile(i, token, url, mode) ==
  /\ profiles[i] = NoRow
  /\ ReuseIds \/ i \notin usedIds
  /\ token \notin issued
  /\ profiles' = Insert(profiles, i, token, url, mode)
  /\ usedIds' = usedIds \cup {i}
  /\ issued' = issued \cup {token}
  /\ UNCHANGED <<caches, now, lock, request>>

UpdateProfile(i, url, mode) ==
  /\ profiles' = UpdateEditableFields(profiles, i, url, mode)
  /\ UNCHANGED <<caches, usedIds, issued, now, lock, request>>

UpdateStatusOnly(i, status) ==
  /\ profiles' = UpdateProfileStatus(profiles, i, status)
  /\ UNCHANGED <<caches, usedIds, issued, now, lock, request>>

\* Deleting does not take the mutex of the profile.
DeleteProfile(i) ==
  /\ caches' = DeleteCaches(caches, i)
  /\ profiles' = DeleteProfileRow(profiles, i)
  /\ UNCHANGED <<usedIds, issued, now, lock, request>>

ResetProfile(i, token) ==
  /\ profiles[i] # NoRow
  /\ token \notin issued
  /\ profiles' = UpdateProfileToken(profiles, i, token)
  /\ issued' = issued \cup {token}
  /\ UNCHANGED <<caches, usedIds, now, lock, request>>

-------------------------------------------------------------------------------
\* A request of client c.

Answer(c, kind, copy) ==
  /\ pc' = [pc EXCEPT ![c] = "idle"]
  /\ arg' = [arg EXCEPT ![c] = NoRow]
  /\ got' = [got EXCEPT ![c] = NoRow]
  /\ reply' = [reply EXCEPT ![c] = [kind |-> kind, copy |-> copy]]

\* History: a client receives a copy that is stored.
Deliver(copy) ==
  delivered' = [delivered EXCEPT ![copy.id][copy.variant] =
                  IF @ < copy.time THEN copy.time ELSE @]

GoTo(c, place) == pc' = [pc EXCEPT ![c] = place]

Unlock(c) == lock' = [lock EXCEPT ![arg[c].id] = NoOne]

\* The first lines of GetProfileByToken: the profile is read once, here.
LookUpUnknown(c, token) ==
  /\ pc[c] = "idle"
  /\ ProfilesByToken(profiles, token) = {}
  /\ Answer(c, "unknown", NoRow)
  /\ UNCHANGED <<database, now, lock, delivered>>

LookUpDisabled(c, token) ==
  /\ pc[c] = "idle"
  /\ \E i \in ProfilesByToken(profiles, token) : profiles[i].status # "enabled"
  /\ Answer(c, "forbidden", NoRow)
  /\ UNCHANGED <<database, now, lock, delivered>>

LookUp(c, token, v) ==
  /\ pc[c] = "idle"
  /\ \E i \in ProfilesByToken(profiles, token) :
       /\ profiles[i].status = "enabled"
       /\ GoTo(c, IF profiles[i].mode = "proxy" THEN "direct" ELSE "lock")
       /\ arg' = [arg EXCEPT ![c] =
            [id |-> i, birth |-> profiles[i].birth, url |-> profiles[i].url,
             variant |-> v, seen |-> delivered[i][v],
             hadCopy |-> GetProfileCache(caches, i, v) # NoRow]]
  /\ reply' = [reply EXCEPT ![c] = NoReply]
  /\ UNCHANGED <<database, now, lock, got, delivered>>

\* Service.fetch at time t, with the profile as the request read it.
Fetched(c, t) ==
  [id |-> arg[c].id, birth |-> arg[c].birth, variant |-> arg[c].variant,
   url |-> arg[c].url, time |-> t]

\* Proxy mode.
FetchDirectOk(c, t) ==
  /\ pc[c] = "direct"
  /\ t >= now
  /\ now' = t
  /\ Answer(c, "direct", Fetched(c, t))
  /\ UNCHANGED <<database, lock, delivered>>

FetchDirectFail(c) ==
  /\ pc[c] = "direct"
  /\ Answer(c, "badGateway", NoRow)
  /\ UNCHANGED <<database, now, lock, delivered>>

\* Mutants: no mutex; one mutex for all profiles.
AcquireLockUnguarded(c) ==
  /\ pc[c] = "lock"
  /\ lock' = [lock EXCEPT ![arg[c].id] = c]
  /\ GoTo(c, "fetch")
  /\ UNCHANGED <<database, now, arg, got, reply, delivered>>

AcquireLockOfService(c) ==
  /\ pc[c] = "lock"
  /\ \A i \in Id : lock[i] = NoOne
  /\ lock' = [lock EXCEPT ![arg[c].id] = c]
  /\ GoTo(c, "fetch")
  /\ UNCHANGED <<database, now, arg, got, reply, delivered>>

\* Cache mode: FetchAndCache.  The wait for the mutex heeds no deadline.
AcquireLock(c) ==
  /\ pc[c] = "lock"
  /\ lock[arg[c].id] = NoOne
  /\ lock' = [lock EXCEPT ![arg[c].id] = c]
  /\ GoTo(c, "fetch")
  /\ UNCHANGED <<database, now, arg, got, reply, delivered>>

FetchOk(c, t) ==
  /\ pc[c] = "fetch"
  /\ t >= now
  /\ now' = t
  /\ got' = [got EXCEPT ![c] = Fetched(c, t)]
  /\ GoTo(c, "upsert")
  /\ UNCHANGED <<database, lock, arg, reply, delivered>>

\* No answer within 30 s, a client that hung up, a status that is not 2xx, a
\* body that is empty, HTML or over 16 MiB.
FetchFail(c) ==
  /\ pc[c] = "fetch"
  /\ GoTo(c, "error")
  /\ UNCHANGED <<database, now, lock, arg, got, reply, delivered>>

\* Mutant: a failed fetch drops what was stored.
RecordErrorInvalidates(c) ==
  /\ pc[c] = "error"
  /\ profiles' = UpdateProfileFetchError(profiles, arg[c].id)
  /\ caches' = DeleteCaches(caches, arg[c].id)
  /\ Unlock(c)
  /\ GoTo(c, "cached")
  /\ UNCHANGED <<usedIds, issued, now, arg, got, reply, delivered>>

\* The error of the UPDATE itself is dropped: it may also change nothing.
RecordError(c) ==
  /\ pc[c] = "error"
  /\ \/ profiles' = UpdateProfileFetchError(profiles, arg[c].id)
     \/ UNCHANGED profiles
  /\ Unlock(c)
  /\ GoTo(c, "cached")
  /\ UNCHANGED <<caches, usedIds, issued, now, arg, got, reply, delivered>>

UpsertOk(c) ==
  /\ pc[c] = "upsert"
  /\ caches' = UpsertProfileCache(caches, got[c])
  /\ GoTo(c, "result")
  /\ UNCHANGED <<profiles, usedIds, issued, now, lock, arg, got, reply, delivered>>

\* Mutants: the error is ignored; the unsaved copy is handed out; the mutex is
\* not released on the way out.
UpsertFailIgnored(c) ==
  /\ pc[c] = "upsert"
  /\ GoTo(c, "result")
  /\ UNCHANGED <<database, now, lock, arg, got, reply, delivered>>

UpsertFailServed(c) ==
  /\ pc[c] = "upsert"
  /\ Unlock(c)
  /\ Answer(c, "fresh", got[c])
  /\ Deliver(got[c])
  /\ UNCHANGED <<database, now>>

UpsertFailLocked(c) ==
  /\ pc[c] = "upsert"
  /\ GoTo(c, "cached")
  /\ got' = [got EXCEPT ![c] = NoRow]
  /\ UNCHANGED <<database, now, lock, arg, reply, delivered>>

\* The copy was not saved: the fetched body is thrown away.
UpsertFail(c) ==
  /\ pc[c] = "upsert"
  /\ Unlock(c)
  /\ GoTo(c, "cached")
  /\ got' = [got EXCEPT ![c] = NoRow]
  /\ UNCHANGED <<database, now, arg, reply, delivered>>

\* As in RecordError, the UPDATE may fail unnoticed.
RecordResult(c) ==
  /\ pc[c] = "result"
  /\ \/ profiles' = UpdateProfileFetchResult(profiles, arg[c].id, got[c].time)
     \/ UNCHANGED profiles
  /\ Unlock(c)
  /\ Answer(c, "fresh", got[c])
  /\ Deliver(got[c])
  /\ UNCHANGED <<caches, usedIds, issued, now>>

\* After a failure, outside the mutex: Service.Cached.
ServeCached(c) ==
  LET copy == GetProfileCache(caches, arg[c].id, arg[c].variant)
  IN  /\ pc[c] = "cached"
      /\ IF copy = NoRow
         THEN Answer(c, "failed", NoRow) /\ UNCHANGED delivered
         ELSE Answer(c, "stale", copy) /\ Deliver(copy)
      /\ UNCHANGED <<database, now, lock>>

-------------------------------------------------------------------------------
\* The process dies and starts again: requests and mutexes are gone, the
\* database is as the last statement left it.
Restart ==
  /\ lock' = [i \in Id |-> NoOne]
  /\ pc' = [c \in Client |-> "idle"]
  /\ arg' = [c \in Client |-> NoRow]
  /\ got' = [c \in Client |-> NoRow]
  /\ reply' = [c \in Client |->
       IF pc[c] = "idle" THEN reply[c] ELSE NoReply]
  /\ UNCHANGED <<database, now, delivered>>

AdministerProfile(i) ==
  \/ \E token \in Token, url \in Url, mode \in FetchMode \cup {""} :
       CreateProfile(i, token, url, mode)
  \/ \E url \in Url, mode \in FetchMode \cup {""} : UpdateProfile(i, url, mode)
  \/ \E status \in Status : UpdateStatusOnly(i, status)
  \/ DeleteProfile(i)
  \/ \E token \in Token : ResetProfile(i, token)

Administer == \E i \in Id : AdministerProfile(i)

Begin(c) ==
  \E token \in Token :
    \/ LookUpUnknown(c, token)
    \/ LookUpDisabled(c, token)
    \/ \E v \in Variant : LookUp(c, token, v)

\* What the server does for a request once it has begun and holds what it needs.
Serve(c) ==
  \/ \E t \in Time : FetchDirectOk(c, t)
  \/ FetchDirectFail(c)
  \/ \E t \in Time : FetchOk(c, t)
  \/ FetchFail(c)
  \/ RecordError(c)
  \/ UpsertOk(c)
  \/ UpsertFail(c)
  \/ RecordResult(c)
  \/ ServeCached(c)

Next ==
  \/ Administer
  \/ \E c \in Client : Begin(c) \/ AcquireLock(c) \/ Serve(c)
  \/ Restart

Spec == Init /\ [][Next]_vars

-------------------------------------------------------------------------------
\* The fairness of the server.  A fetch ends within 30 s, one way or another,
\* and the statements on the database return: a request that has begun goes on.
\* A sync.Mutex hands itself to a waiter that starves, so a request that finds
\* the mutex free again and again gets it.  Nothing is owed to the profiles
\* outside `responsive`.
ServedFor(c, responsive) ==
  /\ WF_vars(Serve(c) /\ arg[c].id \in responsive)
  /\ SF_vars(AcquireLock(c) /\ arg[c].id \in responsive)

-------------------------------------------------------------------------------
\* Properties.

\* At most one request is between lock.Lock() and lock.Unlock() on a profile,
\* and the mutex of a profile is held only by such a request.
MutexHeld ==
  /\ \A c \in Client : Critical(c) => arg[c] # NoRow /\ lock[arg[c].id] = c
  /\ \A i \in Id : lock[i] # NoOne =>
       Critical(lock[i]) /\ arg[lock[i]].id = i

\* The stored copy of a variant is only ever replaced by one fetched later:
\* slow answers of the source cannot overwrite newer ones, since the mutex
\* covers the fetch as well as the write (FetchAndCache).
CopyNeverGoesBack ==
  [][\A i \in Id, v \in Variant :
       caches[i][v] # NoRow /\ caches'[i][v] # NoRow
         => caches[i][v].time <= caches'[i][v].time]_vars

\* A client that asks after somebody received a copy never receives an older
\* one, whether its own fetch succeeds or it is given the stored copy: what
\* FetchAndCache returns has been stored first.
NeverOlderThanDelivered ==
  [][\A c \in Client :
       pc[c] \in {"result", "cached"} /\ pc'[c] = "idle"
         /\ reply'[c].kind \in {"fresh", "stale"}
         => arg[c].seen <= reply'[c].copy.time]_vars

\* If a copy was stored when the request began, a failing source does not keep
\* the request from an answer, unless the profile was deleted meanwhile: no
\* failed fetch or write harms the last good copy (GetProfileByToken and
\* FetchAndCache; service_test.go:187-231).
CopyOutlivesFailures ==
  [][\A c \in Client :
       pc[c] = "cached" /\ pc'[c] = "idle" /\ reply'[c].kind = "failed"
         /\ arg[c].hadCopy
         => \/ profiles[arg[c].id] = NoRow
            \/ profiles[arg[c].id].birth # arg[c].birth]_vars

\* The list of profiles shows a copy as available when last_fetch_time is set
\* (ProfilesTable.js:131-138): then there is one, no older than that time.
FetchTimeMeansCopy ==
  \A i \in Id :
    profiles[i] # NoRow /\ profiles[i].lastTime # 0
      => \E v \in Variant :
           caches[i][v] # NoRow /\ caches[i][v].time >= profiles[i].lastTime

\* Once the copy of the address that is configured now is stored, it is not
\* replaced by one of an address that was configured before.
CopyFollowsAddress ==
  [][\A i \in Id, v \in Variant :
       /\ profiles[i] # NoRow /\ profiles'[i] # NoRow
       /\ profiles[i].url = profiles'[i].url
       /\ caches[i][v] # NoRow /\ caches'[i][v] # NoRow
       /\ caches[i][v].url = profiles[i].url
       => caches'[i][v].url = profiles[i].url]_vars

\* Seen from outside, requests in cache mode take effect one at a time: a fresh
\* copy counts from the moment it is stored, and the requests of proxy mode
\* leave the stored copies alone.
LinkAsks ==
  [c \in Client |-> IF pc[c] \in {"idle", "direct"} THEN NoRow
                    ELSE [id |-> arg[c].id, variant |-> arg[c].variant]]
LinkTaken == [c \in Client |-> IF pc[c] = "result" THEN got[c] ELSE NoRow]
LinkAnswer ==
  [c \in Client |-> IF reply[c].kind \in {"fresh", "stale", "failed"}
                    THEN reply[c] ELSE NoReply]

Link == INSTANCE FixedLink WITH
  stored <- caches, asks <- LinkAsks, taken <- LinkTaken, answer <- LinkAnswer

ImplementsFixedLink == Link!Spec
===============================================================================
