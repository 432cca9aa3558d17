----------------------------- MODULE ProfileTable -----------------------------
(***************************************************************************)
(* The two tables behind a subscription link: `profiles` (model/profile.go) *)
(* and `profile_caches` (model/profile_cache.go).  A table is a function    *)
(* from primary keys to rows, NoRow where there is none; each operator is   *)
(* one SQL statement (or one transaction) and returns the table after it.   *)
(*                                                                          *)
(* Names, descriptions and headers are left out: no property tells them     *)
(* apart.  `birth` is history, not a column: the token the row was created  *)
(* with, which names this incarnation of an id.                             *)
(***************************************************************************)
EXTENDS Naturals

CONSTANTS
  Id,        \* primary keys of profiles
  Token,     \* UUIDs the server may draw; each is drawn once
  Url,       \* addresses of subscription sources
  Variant,   \* classes of User-Agent: default, clash, shadowrocket
  Time,      \* readings of the clock, in seconds
  NoRow      \* no row under this key

FetchMode == {"cache", "proxy"}
Status == {"enabled", "disabled"}

Profile ==
  [birth : Token, token : Token, url : Url, mode : FetchMode,
   status : Status, lastTime : Time \cup {0}, lastError : BOOLEAN]

\* What one successful fetch brought back: the body and headers are told
\* apart by the address they came from and the time they came.
ProfileCache ==
  [id : Id, birth : Token, variant : Variant, url : Url, time : Time]

ASSUME TimeAssumption == Time \subseteq Nat \ {0}
ASSUME NoRowAssumption == NoRow \notin Profile \cup ProfileCache

-------------------------------------------------------------------------------
\* A blank mode means cache; the checks on name, address and mode reject a
\* request before it changes anything, so only what passes them is an input.
ValidateProfile(mode) == IF mode = "" THEN "cache" ELSE mode

\* UPDATE ... WHERE id = i: no row, no change, no error.
UpdateWhereId(table, i, row) ==
  IF table[i] = NoRow THEN table ELSE [table EXCEPT ![i] = row]

Insert(table, i, token, url, mode) ==
  [table EXCEPT ![i] = [birth |-> token, token |-> token, url |-> url,
                        mode |-> ValidateProfile(mode), status |-> "enabled",
                        lastTime |-> 0, lastError |-> FALSE]]

UpdateEditableFields(table, i, url, mode) ==
  UpdateWhereId(table, i,
    [table[i] EXCEPT !.url = url, !.mode = ValidateProfile(mode)])

UpdateProfileStatus(table, i, status) ==
  UpdateWhereId(table, i, [table[i] EXCEPT !.status = status])

UpdateProfileToken(table, i, token) ==
  UpdateWhereId(table, i, [table[i] EXCEPT !.token = token])

UpdateProfileFetchResult(table, i, time) ==
  UpdateWhereId(table, i,
    [table[i] EXCEPT !.lastTime = time, !.lastError = FALSE])

UpdateProfileFetchError(table, i) ==
  UpdateWhereId(table, i, [table[i] EXCEPT !.lastError = TRUE])

\* The rows a token selects: the column is a unique index.
ProfilesByToken(table, token) ==
  {i \in Id : table[i] # NoRow /\ table[i].token = token}

\* The transaction of Profile.Delete: the copies go with the profile.
DeleteProfileRow(table, i) == [table EXCEPT ![i] = NoRow]
DeleteCaches(caches, i) == [caches EXCEPT ![i] = [v \in Variant |-> NoRow]]

\* INSERT ... ON CONFLICT (profile_id, variant) DO UPDATE.
UpsertProfileCache(caches, copy) ==
  [caches EXCEPT ![copy.id][copy.variant] = copy]

GetProfileCache(caches, i, variant) == caches[i][variant]
===============================================================================
