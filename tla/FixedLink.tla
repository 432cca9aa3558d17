------------------------------ MODULE FixedLink -------------------------------
(***************************************************************************)
(* What a subscription link in cache mode promises: however the requests    *)
(* for it overlap, each takes effect in one step.  It either stores a newer *)
(* copy and returns it, or returns the copy stored, or finds none.          *)
(***************************************************************************)
EXTENDS ProfileTable

CONSTANT Client

VARIABLES
  stored,   \* the copy kept for each profile and variant
  asks,     \* what each client waits for
  taken,    \* the copy its request has stored
  answer    \* the answer to its last request

vars == <<stored, asks, taken, answer>>

Nothing == [kind |-> "none", copy |-> NoRow]

Init ==
  /\ stored = [i \in Id |-> [v \in Variant |-> NoRow]]
  /\ asks = [c \in Client |-> NoRow]
  /\ taken = [c \in Client |-> NoRow]
  /\ answer = [c \in Client |-> Nothing]

Ask(c, i, v) ==
  /\ asks[c] = NoRow
  /\ asks' = [asks EXCEPT ![c] = [id |-> i, variant |-> v]]
  /\ answer' = [answer EXCEPT ![c] = Nothing]
  /\ UNCHANGED <<stored, taken>>

\* A request that is refused, or passed on to the source in proxy mode.
Other(c) ==
  /\ asks[c] = NoRow
  /\ answer' = [answer EXCEPT ![c] = Nothing]
  /\ UNCHANGED <<stored, asks, taken>>

\* The request takes effect: a copy no older than the stored one replaces it.
Refresh(c, copy) ==
  /\ asks[c] = [id |-> copy.id, variant |-> copy.variant]
  /\ taken[c] = NoRow
  /\ LET old == stored[copy.id][copy.variant]
     IN  old = NoRow \/ old.time <= copy.time
  /\ stored' = [stored EXCEPT ![copy.id][copy.variant] = copy]
  /\ taken' = [taken EXCEPT ![c] = copy]
  /\ UNCHANGED <<asks, answer>>

Finish(c, kind, copy) ==
  /\ answer' = [answer EXCEPT ![c] = [kind |-> kind, copy |-> copy]]
  /\ asks' = [asks EXCEPT ![c] = NoRow]
  /\ taken' = [taken EXCEPT ![c] = NoRow]
  /\ UNCHANGED stored

AnswerFresh(c) ==
  /\ taken[c] # NoRow
  /\ Finish(c, "fresh", taken[c])

\* The request could not refresh: it returns what is stored at this moment.
AnswerStored(c) ==
  /\ asks[c] # NoRow
  /\ taken[c] = NoRow
  /\ LET copy == stored[asks[c].id][asks[c].variant]
     IN  Finish(c, IF copy = NoRow THEN "failed" ELSE "stale", copy)

\* The profile is deleted and its copies with it.
Forget(i) ==
  /\ stored' = [stored EXCEPT ![i] = [v \in Variant |-> NoRow]]
  /\ UNCHANGED <<asks, taken, answer>>

\* The server restarts: what is stored stays, what is asked is lost.
Abandon ==
  /\ asks' = [c \in Client |-> NoRow]
  /\ taken' = [c \in Client |-> NoRow]
  /\ \E lost \in SUBSET Client :
       answer' = [c \in Client |-> IF c \in lost THEN Nothing ELSE answer[c]]
  /\ UNCHANGED stored

Next ==
  \/ \E c \in Client :
       \/ \E i \in Id, v \in Variant : Ask(c, i, v)
       \/ Other(c)
       \/ \E copy \in ProfileCache : Refresh(c, copy)
       \/ AnswerFresh(c)
       \/ AnswerStored(c)
  \/ \E i \in Id : Forget(i)
  \/ Abandon

Spec == Init /\ [][Next]_vars
===============================================================================
