----------------------------- MODULE MCSlowSource -----------------------------
(***************************************************************************)
(* Subscription where the sources of some profiles may never answer: no     *)
(* fairness is assumed of the requests for them.  To keep the instance      *)
(* small the profiles exist already and administrators leave these alone.   *)
(***************************************************************************)
EXTENDS Subscription

CONSTANT Slow   \* profiles whose sources may hang

MCTime == {1}

Responsive == Id \ Slow

TokenOf == CHOOSE f \in [Id -> Token] : \A i, j \in Id : f[i] = f[j] => i = j
NoProfiles == [i \in Id |-> NoRow]

\* Every profile was created, in cache mode, and nothing was asked yet.
Created ==
  /\ \E url \in Url :
       profiles = [i \in Id |-> Insert(NoProfiles, i, TokenOf[i], url, "")[i]]
  /\ caches = [i \in Id |-> [v \in Variant |-> NoRow]]
  /\ usedIds = Id
  /\ issued = {TokenOf[i] : i \in Id}
  /\ now = 0
  /\ lock = [i \in Id |-> NoOne]
  /\ pc = [c \in Client |-> "idle"]
  /\ arg = [c \in Client |-> NoRow]
  /\ got = [c \in Client |-> NoRow]
  /\ reply = [c \in Client |-> NoReply]
  /\ delivered = [i \in Id |-> [v \in Variant |-> 0]]

LiveSpec ==
  /\ Created
  /\ [][\/ \E i \in Responsive : AdministerProfile(i)
        \/ \E c \in Client : Begin(c) \/ AcquireLock(c) \/ Serve(c)
        \/ Restart]_vars
  /\ \A c \in Client : ServedFor(c, Responsive)

\* Every request for a profile whose sources answer or time out is answered,
\* whatever fails on the way and whichever other source hangs: no way out of
\* FetchAndCache keeps its mutex, and the mutexes are per profile.
EveryRequestAnswered ==
  \A c \in Client :
    pc[c] # "idle" /\ arg[c].id \in Responsive ~> pc[c] = "idle"
===============================================================================
