------------------------------ MODULE LinkHeaders ------------------------------
(***************************************************************************)
(* The headers of the subscription link, on top of Subscription: what of a  *)
(* client's request reaches the source, what is kept of the source's answer *)
(* and what the client is answered (subscription/service.go,                *)
(* writeCachedSubscription of controller/profile.go).  Every action is one  *)
(* of Subscription with what it does to headers and bodies added.           *)
(*                                                                          *)
(* Of the headers those are named that change an answer: a condition, a     *)
(* range and the encodings the client accepts.                              *)
(***************************************************************************)
EXTENDS Subscription

CONSTANTS
  Body,      \* what a source may have to say
  Request    \* the requests that clients may send

Name == {"If-None-Match", "Range", "Accept-Encoding"}

\* The names a request carries, and those its header Connection lists.
ASSUME RequestAssumption ==
  Request \subseteq [names : SUBSET Name, connection : SUBSET Name]

\* A body with its ETag; Content-Encoding is not kept, so nobody can see `encoded`.
Content == [body : Body, etag : {"sum"} \X Body, whole : BOOLEAN, encoded : BOOLEAN]

VARIABLES
  asked,     \* the headers of the request of each client
  brought,   \* the body its fetch brought back
  kept,      \* the bodies in profile_caches
  answered,  \* the last answer to each client
  held       \* history: the last body each client received

headers == <<asked, brought, kept, answered, held>>

Answered == [status : {200, 304}, content : Content, names : SUBSET Name]

ASSUME NoHeadersAssumption == NoRow \notin Request \cup Content \cup Answered

HeaderTypeOK ==
  /\ asked \in [Client -> Request \cup {NoRow}]
  /\ brought \in [Client -> Content \cup {NoRow}]
  /\ kept \in [Id -> [Variant -> Content \cup {NoRow}]]
  /\ answered \in [Client -> Answered \cup {NoRow}]
  /\ held \in [Client -> Content \cup {NoRow}]
  /\ \A i \in Id, v \in Variant : kept[i][v] = NoRow <=> caches[i][v] = NoRow

HeaderInit ==
  /\ Init
  /\ asked = [c \in Client |-> NoRow]
  /\ brought = [c \in Client |-> NoRow]
  /\ kept = [i \in Id |-> [v \in Variant |-> NoRow]]
  /\ answered = [c \in Client |-> NoRow]
  /\ held = [c \in Client |-> NoRow]

-------------------------------------------------------------------------------
strippedRequestHeaders == {"If-None-Match", "Range"}

\* Mutants: ranges are passed on; the encodings of the server are asked for.
copyRanges(source) == source.names \ ({"If-None-Match"} \cup source.connection)

copyAndAccept(source) ==
  (source.names \ (strippedRequestHeaders \cup source.connection))
    \cup {"Accept-Encoding"}

\* What reaches the source.
copyClientHeaders(source) ==
  source.names \ (strippedRequestHeaders \cup source.connection)

Sum(body) == <<"sum", body>>

\* Service.fetch: a source that is asked for a range sends a part, with a status of
\* 2xx.  The transport decodes a body only if the encoding was its own wish.
fetch(wish, body) ==
  LET sent == copyClientHeaders(wish)
  IN  [body |-> body, etag |-> Sum(body), whole |-> "Range" \notin sent,
       encoded |-> "Accept-Encoding" \in sent]

\* Mutant: the column e_tag is not among those that are updated.
AssignmentColumnsButETag(row, content) ==
  IF row = NoRow THEN content ELSE [content EXCEPT !.etag = row.etag]

\* The columns that ON CONFLICT DO UPDATE sets: all of them.
AssignmentColumns(row, content) == content

\* writeCachedSubscription.  A client sends a condition with the ETag that it has.
writeCachedSubscription(c, content) ==
  LET same == /\ "If-None-Match" \in asked[c].names
              /\ held[c] # NoRow
              /\ held[c].etag = content.etag
  IN  /\ answered' = [answered EXCEPT ![c] =
           [status |-> IF same THEN 304 ELSE 200, content |-> content,
            names |-> asked[c].names]]
      /\ held' = [held EXCEPT ![c] = IF same THEN @ ELSE content]
      /\ asked' = [asked EXCEPT ![c] = NoRow]
      /\ brought' = [brought EXCEPT ![c] = NoRow]

writeError(c) ==
  /\ answered' = [answered EXCEPT ![c] = NoRow]
  /\ asked' = [asked EXCEPT ![c] = NoRow]
  /\ UNCHANGED <<brought, kept, held>>

-------------------------------------------------------------------------------
Refused(c, token) ==
  /\ LookUpUnknown(c, token) \/ LookUpDisabled(c, token)
  /\ writeError(c)

Asked(c, token, v, sent) ==
  /\ LookUp(c, token, v)
  /\ asked' = [asked EXCEPT ![c] = sent]
  /\ answered' = [answered EXCEPT ![c] = NoRow]
  /\ UNCHANGED <<brought, kept, held>>

Direct(c, t, body) ==
  /\ FetchDirectOk(c, t)
  /\ writeCachedSubscription(c, fetch(asked[c], body))
  /\ UNCHANGED kept

DirectFail(c) == FetchDirectFail(c) /\ writeError(c)

Fetch(c, t, body) ==
  /\ FetchOk(c, t)
  /\ brought' = [brought EXCEPT ![c] = fetch(asked[c], body)]
  /\ UNCHANGED <<asked, kept, answered, held>>

Keep(c) ==
  /\ UpsertOk(c)
  /\ kept' = [kept EXCEPT ![arg[c].id][arg[c].variant] =
                AssignmentColumns(@, brought[c])]
  /\ UNCHANGED <<asked, brought, answered, held>>

KeepFail(c) ==
  /\ UpsertFail(c)
  /\ brought' = [brought EXCEPT ![c] = NoRow]
  /\ UNCHANGED <<asked, kept, answered, held>>

Fresh(c) ==
  /\ RecordResult(c)
  /\ writeCachedSubscription(c, brought[c])
  /\ UNCHANGED kept

Stale(c) ==
  LET content == kept[arg[c].id][arg[c].variant]
  IN  /\ ServeCached(c)
      /\ IF content = NoRow THEN writeError(c)
         ELSE writeCachedSubscription(c, content) /\ UNCHANGED kept

Delete(i) ==
  /\ DeleteProfile(i)
  /\ kept' = [kept EXCEPT ![i] = [v \in Variant |-> NoRow]]
  /\ UNCHANGED <<asked, brought, answered, held>>

\* Steps that touch neither headers nor bodies.
Elsewhere ==
  /\ \/ \E i \in Id :
          \/ \E token \in Token, url \in Url, mode \in FetchMode :
               CreateProfile(i, token, url, mode)
          \/ \E url \in Url, mode \in FetchMode : UpdateProfile(i, url, mode)
          \/ \E status \in Status : UpdateStatusOnly(i, status)
          \/ \E token \in Token : ResetProfile(i, token)
     \/ \E c \in Client : AcquireLock(c) \/ FetchFail(c) \/ RecordError(c)
  /\ UNCHANGED headers

RestartAll ==
  /\ Restart
  /\ asked' = [c \in Client |-> NoRow]
  /\ brought' = [c \in Client |-> NoRow]
  /\ answered' = [c \in Client |-> IF pc[c] = "idle" THEN answered[c] ELSE NoRow]
  /\ UNCHANGED <<kept, held>>

HeaderNext ==
  \/ \E c \in Client :
       \/ \E token \in Token : Refused(c, token)
       \/ \E token \in Token, v \in Variant, sent \in Request :
            Asked(c, token, v, sent)
       \/ \E t \in Time, body \in Body : Direct(c, t, body) \/ Fetch(c, t, body)
       \/ DirectFail(c) \/ Keep(c) \/ KeepFail(c) \/ Fresh(c) \/ Stale(c)
  \/ \E i \in Id : Delete(i)
  \/ Elsewhere
  \/ RestartAll

HeaderSpec == HeaderInit /\ [][HeaderNext]_<<vars, headers>>

-------------------------------------------------------------------------------
\* Properties.

\* A client that is told that nothing has changed holds the body it would have been
\* sent, whichever fetch stored it and whatever failed since (the ETag and the body
\* are columns of one row).
NotModifiedIsTrue ==
  \A c \in Client :
    answered[c] # NoRow /\ answered[c].status = 304
      => held[c].body = answered[c].content.body

\* Every client can use what it receives.  One that wants a part does not leave the
\* others with a part: what is stored and what is sent is whole.  And what was
\* fetched for a request comes encoded only if that request said that its client
\* can decode it.
BodiesAreUsable ==
  /\ \A i \in Id, v \in Variant : kept[i][v] # NoRow => kept[i][v].whole
  /\ \A c \in Client : held[c] # NoRow => held[c].whole
  /\ \A c \in Client :
       answered[c] # NoRow /\ reply[c].kind \in {"fresh", "direct"}
         /\ answered[c].content.encoded
         => "Accept-Encoding" \in answered[c].names
===============================================================================
