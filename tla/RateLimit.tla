------------------------------ MODULE RateLimit -------------------------------
(***************************************************************************)
(* The in-memory limiter of request rates (common/rate-limit.go), which all *)
(* limits of middleware/rate-limit.go share: a queue of times per key,      *)
(* guarded by one mutex, and a goroutine that deletes the queues of keys    *)
(* that have been quiet.  Request and one pass of the goroutine hold the    *)
(* mutex from start to end, so each is a step.                              *)
(***************************************************************************)
EXTENDS Integers, Sequences

CONSTANTS
  Key,         \* the mark of a limit and the address of a client
  Limit,       \* [num |-> maxRequestNum, duration |-> duration] of each key
  Expiration,  \* RateLimitKeyExpirationDuration, in seconds
  Late,        \* how late the goroutine may wake up
  Horizon,     \* bound: where the clock stops
  None         \* the key is not in the map; nothing was decided yet

\* constants.go:66: no duration is longer than RateLimitKeyExpirationDuration.
ASSUME LimitAssumption ==
  /\ Limit \in [Key -> [num : Nat \ {0}, duration : Nat]]
  /\ \A k \in Key : Limit[k].duration <= Expiration
ASSUME ClockAssumption ==
  Expiration \in Nat \ {0} /\ Late \in Nat /\ Horizon \in Nat
ASSUME NoneAssumption ==
  None \notin Seq(Nat) \cup [key : Key, at : Nat, allowed : BOOLEAN]

VARIABLES
  store,    \* the queue of each key
  now,      \* the clock, in seconds
  swept,    \* when clearExpiredItems went to sleep
  passed,   \* history: when requests for each key were let through
  verdict   \* history: the last decision

vars == <<store, now, swept, passed, verdict>>

TypeOK ==
  /\ store \in [Key -> Seq(Nat) \cup {None}]
  /\ \A k \in Key : store[k] # None => Len(store[k]) \in 1..Limit[k].num
  /\ now \in Nat
  /\ swept \in Nat
  /\ passed \in [Key -> Seq(Nat)]
  /\ verdict \in [key : Key, at : Nat, allowed : BOOLEAN] \cup {None}

Init ==
  /\ store = [k \in Key |-> None]
  /\ now = 0
  /\ swept = 0
  /\ passed = [k \in Key |-> <<>>]
  /\ verdict = None

-------------------------------------------------------------------------------
Allow(k, queue) ==
  /\ store' = [store EXCEPT ![k] = queue]
  /\ passed' = [passed EXCEPT ![k] = Append(@, now)]
  /\ verdict' = [key |-> k, at |-> now, allowed |-> TRUE]
  /\ UNCHANGED <<now, swept>>

\* Request, the four ways through it.
RequestFirst(k) ==
  /\ store[k] = None
  /\ Allow(k, <<now>>)

RequestRoom(k) ==
  /\ store[k] # None
  /\ Len(store[k]) < Limit[k].num
  /\ Allow(k, Append(store[k], now))

RequestSlide(k) ==
  /\ store[k] # None
  /\ Len(store[k]) >= Limit[k].num
  /\ now - store[k][1] >= Limit[k].duration
  /\ Allow(k, Append(Tail(store[k]), now))

\* Mutant: a request that is turned away counts as well.
RequestDeniedCounts(k) ==
  /\ store[k] # None
  /\ Len(store[k]) >= Limit[k].num
  /\ now - store[k][1] < Limit[k].duration
  /\ store' = [store EXCEPT ![k] = Append(Tail(@), now)]
  /\ verdict' = [key |-> k, at |-> now, allowed |-> FALSE]
  /\ UNCHANGED <<now, swept, passed>>

RequestDenied(k) ==
  /\ store[k] # None
  /\ Len(store[k]) >= Limit[k].num
  /\ now - store[k][1] < Limit[k].duration
  /\ verdict' = [key |-> k, at |-> now, allowed |-> FALSE]
  /\ UNCHANGED <<store, now, swept, passed>>

Request(k) ==
  RequestFirst(k) \/ RequestRoom(k) \/ RequestSlide(k) \/ RequestDenied(k)

\* Mutants: the oldest time decides; nothing is ever deleted.
ExpiredByOldest(queue) == Len(queue) = 0 \/ now - queue[1] > Expiration
ExpiredIfEmpty(queue) == Len(queue) = 0

Expired(queue) == Len(queue) = 0 \/ now - queue[Len(queue)] > Expiration

\* clearExpiredItems, after each sleep of Expiration.
ClearExpiredItems ==
  /\ now >= swept + Expiration
  /\ store' = [k \in Key |->
       IF store[k] # None /\ Expired(store[k]) THEN None ELSE store[k]]
  /\ swept' = now
  /\ UNCHANGED <<now, passed, verdict>>

\* The goroutine that is due runs before the clock moves on by more than Late.
Tick ==
  /\ now < Horizon
  /\ now < swept + Expiration + Late
  /\ now' = now + 1
  /\ UNCHANGED <<store, swept, passed, verdict>>

Next ==
  \/ \E k \in Key : Request(k)
  \/ ClearExpiredItems
  \/ Tick

Spec == Init /\ [][Next]_vars

-------------------------------------------------------------------------------
\* Properties.

\* Between any request let through and the num-th one after it at least
\* `duration` seconds pass, although keys are deleted from the map in between.
AtMostNumPerDuration ==
  \A k \in Key :
    \A i \in 1..(Len(passed[k]) - Limit[k].num) :
      passed[k][i + Limit[k].num] - passed[k][i] >= Limit[k].duration

\* The limiter decides as if it remembered every request it let through: it
\* forgets nothing that counts and turns nobody away without need.
Window == INSTANCE SlidingWindow

ImplementsSlidingWindow == Window!Spec

\* The map holds no key that has been quiet for two periods of the goroutine.
QuietKeysAreForgotten ==
  \A k \in Key :
    store[k] # None =>
      now - store[k][Len(store[k])] <= 2 * Expiration + Late
===============================================================================
