---------------------------- MODULE SlidingWindow -----------------------------
(***************************************************************************)
(* What a rate limiter promises: a request for a key is let through exactly *)
(* when fewer than `num` requests for it were let through in the last       *)
(* `duration` seconds.                                                      *)
(***************************************************************************)
EXTENDS Integers, Sequences

CONSTANTS
  Key,    \* what requests are counted by: the mark of a limit and an address
  Limit,  \* the limit of each key: [num, duration]
  None    \* nothing was decided yet

VARIABLES
  passed,   \* the times at which requests were let through, oldest first
  now,      \* the clock, in seconds
  verdict   \* the last decision

vars == <<passed, now, verdict>>

Init ==
  /\ passed = [k \in Key |-> <<>>]
  /\ now = 0
  /\ verdict = None

\* Full when the num-th last request let through is less than duration old.
Full(k) ==
  LET n == Len(passed[k])
  IN  /\ n >= Limit[k].num
      /\ now - passed[k][n - Limit[k].num + 1] < Limit[k].duration

Allow(k) ==
  /\ ~ Full(k)
  /\ passed' = [passed EXCEPT ![k] = Append(@, now)]
  /\ verdict' = [key |-> k, at |-> now, allowed |-> TRUE]
  /\ UNCHANGED now

Deny(k) ==
  /\ Full(k)
  /\ verdict' = [key |-> k, at |-> now, allowed |-> FALSE]
  /\ UNCHANGED <<passed, now>>

Tick ==
  /\ now' > now
  /\ UNCHANGED <<passed, verdict>>

Next == Tick \/ \E k \in Key : Allow(k) \/ Deny(k)

Spec == Init /\ [][Next]_vars
===============================================================================
