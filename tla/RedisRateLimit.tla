---------------------------- MODULE RedisRateLimit ----------------------------
(***************************************************************************)
(* The limiter of request rates that keeps its times in Redis               *)
(* (middleware/rate-limit.go:16-60): a list per key, read and written by     *)
(* separate commands, so that requests for one key interleave.  Redis        *)
(* deletes a key when its time to live is over.                             *)
(***************************************************************************)
EXTENDS Integers, Sequences, FiniteSets

CONSTANTS
  Client,      \* requests in flight, in all processes that share the Redis
  Key,         \* the mark of a limit and the address of a client
  Limit,       \* [num |-> maxRequestNum, duration |-> duration] of each key
  Expiration,  \* RateLimitKeyExpirationDuration, in seconds
  Prompt,      \* TRUE: a request is over before the clock moves on
  MaxFaults,   \* bound: commands that fail unnoticed, processes that die
  Horizon,     \* bound: where the clock stops
  None         \* no time to live; nothing was decided yet

ASSUME LimitAssumption ==
  /\ Limit \in [Key -> [num : Nat \ {0}, duration : Nat]]
  /\ \A k \in Key : Limit[k].duration <= Expiration
ASSUME ClockAssumption == Expiration \in Nat \ {0} /\ Horizon \in Nat
ASSUME FaultAssumption == Prompt \in BOOLEAN /\ MaxFaults \in Nat
ASSUME ClientAssumption == IsFiniteSet(Client) /\ Client # {}
ASSUME NoneAssumption ==
  None \notin Nat \cup [key : Key, at : Nat, allowed : BOOLEAN]

VARIABLES
  list,     \* the list of each key, newest time first; empty: no key
  expireAt, \* when the key expires
  pc,       \* the next command of each request
  arg,      \* the key of each request under way
  faults,   \* how much has gone wrong
  now,      \* the clock, in seconds
  orderly,  \* history: no request has come between the commands of another for
            \* its key, and nothing has gone wrong
  passed,   \* history: when requests for each key were let through
  verdict   \* history: the last decision

vars == <<list, expireAt, pc, arg, faults, now, orderly, passed, verdict>>

Command == {"LLEN", "FirstLPUSH", "LINDEX", "LPUSH", "LTRIM", "EXPIRE"}

TypeOK ==
  /\ list \in [Key -> Seq(Nat)]
  /\ expireAt \in [Key -> Nat \cup {None}]
  /\ pc \in [Client -> Command]
  /\ arg \in [Client -> Key \cup {None}]
  /\ faults \in 0..MaxFaults
  /\ now \in Nat
  /\ orderly \in BOOLEAN
  /\ passed \in [Key -> Seq(Nat)]
  /\ verdict \in [key : Key, at : Nat, allowed : BOOLEAN] \cup {None}

Init ==
  /\ list = [k \in Key |-> <<>>]
  /\ expireAt = [k \in Key |-> None]
  /\ pc = [c \in Client |-> "LLEN"]
  /\ arg = [c \in Client |-> None]
  /\ faults = 0
  /\ now = 0
  /\ orderly = TRUE
  /\ passed = [k \in Key |-> <<>>]
  /\ verdict = None

-------------------------------------------------------------------------------
GoTo(c, command) == pc' = [pc EXCEPT ![c] = command]

\* The request is over: it is answered, or its handler runs.
Done(c) == GoTo(c, "LLEN") /\ arg' = [arg EXCEPT ![c] = None]

\* A command fails, and its result is ignored; or a process dies.
Fault ==
  /\ faults < MaxFaults
  /\ faults' = faults + 1
  /\ orderly' = FALSE

NoFault == UNCHANGED <<faults, orderly>>

\* Mutant: one request too many finds room.
CountInclusive(c, k) ==
  /\ pc[c] = "LLEN"
  /\ arg' = [arg EXCEPT ![c] = k]
  /\ orderly' = (orderly /\ \A other \in Client : arg[other] # k)
  /\ GoTo(c, IF Len(list[k]) <= Limit[k].num THEN "FirstLPUSH" ELSE "LINDEX")
  /\ UNCHANGED <<list, expireAt, faults, now, passed, verdict>>

\* LLEN.  (When it fails the answer is 500, and nothing has changed.)
Count(c, k) ==
  /\ pc[c] = "LLEN"
  /\ arg' = [arg EXCEPT ![c] = k]
  /\ orderly' = (orderly /\ \A other \in Client : arg[other] # k)
  /\ GoTo(c, IF Len(list[k]) < Limit[k].num THEN "FirstLPUSH" ELSE "LINDEX")
  /\ UNCHANGED <<list, expireAt, faults, now, passed, verdict>>

\* LPUSH of the time that it is, whose result nobody looks at: this request is
\* let through.
Push(c) ==
  LET k == arg[c]
  IN  /\ pc[c] \in {"FirstLPUSH", "LPUSH"}
      /\ \/ list' = [list EXCEPT ![k] = <<now>> \o @] /\ NoFault
         \/ Fault /\ UNCHANGED list
      /\ passed' = [passed EXCEPT ![k] = Append(@, now)]
      /\ verdict' = [key |-> k, at |-> now, allowed |-> TRUE]
      /\ GoTo(c, IF pc[c] = "LPUSH" THEN "LTRIM" ELSE "EXPIRE")
      /\ UNCHANGED <<expireAt, arg, now>>

Turn(c, time) ==
  IF now - time < Limit[arg[c]].duration
  THEN /\ verdict' = [key |-> arg[c], at |-> now, allowed |-> FALSE]
       /\ GoTo(c, "EXPIRE")
       /\ UNCHANGED arg
  ELSE GoTo(c, "LPUSH") /\ UNCHANGED <<arg, verdict>>

\* Mutant: LINDEX 0, the newest time.
NewestDecides(c) ==
  LET queue == list[arg[c]]
  IN  /\ pc[c] = "LINDEX"
      /\ IF queue = <<>> THEN Done(c) /\ UNCHANGED verdict
         ELSE Turn(c, queue[1])
      /\ UNCHANGED <<list, expireAt, faults, now, orderly, passed>>

\* LINDEX -1 and the comparison; a key that has gone does not parse, which is
\* answered 500.
OldestDecides(c) ==
  LET queue == list[arg[c]]
  IN  /\ pc[c] = "LINDEX"
      /\ IF queue = <<>> THEN Done(c) /\ UNCHANGED verdict
         ELSE Turn(c, queue[Len(queue)])
      /\ UNCHANGED <<list, expireAt, faults, now, orderly, passed>>

\* What LTRIM from 0 to `last` leaves.
Trimmed(queue, last) ==
  SubSeq(queue, 1, IF Len(queue) < last + 1 THEN Len(queue) ELSE last + 1)

\* Mutant: the list keeps one time too many.
TrimLess(c) ==
  /\ pc[c] = "LTRIM"
  /\ list' = [list EXCEPT ![arg[c]] = Trimmed(@, Limit[arg[c]].num)]
  /\ GoTo(c, "EXPIRE")
  /\ UNCHANGED <<expireAt, arg, faults, now, orderly, passed, verdict>>

Trim(c) ==
  /\ pc[c] = "LTRIM"
  /\ \/ /\ list' = [list EXCEPT ![arg[c]] = Trimmed(@, Limit[arg[c]].num - 1)]
        /\ NoFault
     \/ Fault /\ UNCHANGED list
  /\ GoTo(c, "EXPIRE")
  /\ UNCHANGED <<expireAt, arg, now, passed, verdict>>

\* EXPIRE, after which the request goes on or is answered 429; it does nothing to
\* a key that has gone.
Expire(c) ==
  /\ pc[c] = "EXPIRE"
  /\ \/ /\ expireAt' = [expireAt EXCEPT ![arg[c]] =
                          IF list[arg[c]] = <<>> THEN None ELSE now + Expiration]
        /\ NoFault
     \/ Fault /\ UNCHANGED expireAt
  /\ Done(c)
  /\ UNCHANGED <<list, now, passed, verdict>>

-------------------------------------------------------------------------------
\* A second goes by, and Redis deletes the keys whose time to live is over.
Tick ==
  LET over == {k \in Key : expireAt[k] # None /\ expireAt[k] <= now + 1}
  IN  /\ now < Horizon
      /\ Prompt => \A c \in Client : pc[c] = "LLEN"
      /\ now' = now + 1
      /\ list' = [k \in Key |-> IF k \in over THEN <<>> ELSE list[k]]
      /\ expireAt' = [k \in Key |-> IF k \in over THEN None ELSE expireAt[k]]
      /\ UNCHANGED <<pc, arg, faults, orderly, passed, verdict>>

\* The process of a request dies between two of its commands.
Restart(c) ==
  /\ Fault
  /\ pc[c] # "LLEN"
  /\ Done(c)
  /\ UNCHANGED <<list, expireAt, now, passed, verdict>>

Next ==
  \/ \E c \in Client :
       \/ \E k \in Key : Count(c, k)
       \/ Push(c)
       \/ OldestDecides(c)
       \/ Trim(c)
       \/ Expire(c)
       \/ Restart(c)
  \/ Tick

Spec == Init /\ [][Next]_vars

-------------------------------------------------------------------------------
\* Properties.

\* As long as requests for one key come one after the other and no command fails,
\* the limiter decides as one that remembers all it let through.
Window == INSTANCE SlidingWindow

ImplementsSlidingWindow ==
  Window!Init /\ [][orderly' => [Window!Next]_Window!vars]_vars

\* Between any request let through and the n-th one after it at least `duration`
\* seconds pass.
Spaced(k, n) ==
  \A i \in 1..(Len(passed[k]) - n) :
    passed[k][i + n] - passed[k][i] >= Limit[k].duration

\* Without faults, requests that come between the commands of each other overshoot
\* the limit by at most two for every other request in flight: one that found room
\* before, one that saw the oldest time before the list was trimmed.
OvershootBounded ==
  faults = 0 =>
    \A k \in Key : Spaced(k, Limit[k].num + 2 * (Cardinality(Client) - 1))

\* While requests do not outlive the second they came in, one is turned away only
\* if num requests were let through within its duration, whatever commands failed
\* and whenever a process died.
DenialsAreDeserved ==
  [][\A k \in Key :
       verdict' = [key |-> k, at |-> now, allowed |-> FALSE]
         /\ verdict' # verdict => Window!Full(k)]_vars
===============================================================================
