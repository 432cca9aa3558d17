------------------------- MODULE RedisRateLimitProofs -------------------------
(***************************************************************************)
(* Proofs about RedisRateLimit for all keys, limits, clocks and any finite   *)
(* number of requests in flight.                                            *)
(***************************************************************************)
EXTENDS RedisRateLimit, FiniteSetTheorems, TLAPS

-------------------------------------------------------------------------------
\* What the list of a key has to do with the history of what was let through.

\* The time of the i-th newest element.
Newest(p, i) == p[Len(p) + 1 - i]

Ascending(p, t) ==
  /\ \A i, j \in 1..Len(p) : i <= j => p[i] <= p[j]
  /\ \A i \in 1..Len(p) : p[i] <= t

Descending(l, t) ==
  /\ \A i, j \in 1..Len(l) : i <= j => l[j] <= l[i]
  /\ \A i \in 1..Len(l) : l[i] <= t

\* The list misses requests, and knows of none that there was not: its i-th time is
\* no newer than the i-th newest of the history.
Behind(l, p, t) ==
  /\ Ascending(p, t)
  /\ Descending(l, t)
  /\ Len(l) <= Len(p)
  /\ \A i \in 1..Len(l) : l[i] <= Newest(p, i)

\* What LPUSH makes of a list, position by position.
LEMMA Pushed ==
  ASSUME NEW l \in Seq(Nat), NEW t \in Nat
  PROVE  /\ <<t>> \o l \in Seq(Nat)
         /\ Len(<<t>> \o l) = Len(l) + 1
         /\ (<<t>> \o l)[1] = t
         /\ \A i \in 2..(Len(l) + 1) : (<<t>> \o l)[i] = l[i - 1]
OBVIOUS

LEMMA Appended ==
  ASSUME NEW p \in Seq(Nat), NEW t \in Nat
  PROVE  /\ Append(p, t) \in Seq(Nat)
         /\ Len(Append(p, t)) = Len(p) + 1
         /\ Newest(Append(p, t), 1) = t
         /\ \A i \in 1..Len(p) : Append(p, t)[i] = p[i]
         /\ \A i \in 2..(Len(p) + 1) : Newest(Append(p, t), i) = Newest(p, i - 1)
BY DEF Newest

LEMMA AppendAscending ==
  ASSUME NEW p \in Seq(Nat), NEW t \in Nat, Ascending(p, t)
  PROVE  Ascending(Append(p, t), t)
<1> DEFINE r == Append(p, t)
<1>1. Len(r) = Len(p) + 1 /\ r[Len(p) + 1] = t /\ \A i \in 1..Len(p) : r[i] = p[i]
  OBVIOUS
<1> HIDE DEF r
<1>2. Len(p) \in Nat /\ \A i \in 1..Len(p) : p[i] \in Nat
  OBVIOUS
<1>3. ASSUME NEW i \in 1..Len(r) PROVE r[i] <= t
  BY <1>1, <1>2 DEF Ascending
<1>4. ASSUME NEW i \in 1..Len(r), NEW j \in 1..Len(r), i <= j PROVE r[i] <= r[j]
  <2>1. CASE j = Len(p) + 1
    BY <1>1, <1>3, <2>1
  <2>2. CASE j # Len(p) + 1
    <3>1. i \in 1..Len(p) /\ j \in 1..Len(p)
      BY <1>1, <1>2, <1>4, <2>2
    <3> QED
      BY <1>1, <1>4, <3>1 DEF Ascending
  <2> QED
    BY <2>1, <2>2
<1>5. Ascending(r, t)
  BY <1>3, <1>4 DEF Ascending
<1> QED
  BY <1>5 DEF r

LEMMA PushDescending ==
  ASSUME NEW l \in Seq(Nat), NEW t \in Nat, Descending(l, t)
  PROVE  Descending(<<t>> \o l, t)
<1> DEFINE r == <<t>> \o l
<1>1. Len(r) = Len(l) + 1 /\ r[1] = t /\ \A i \in 2..(Len(l) + 1) : r[i] = l[i - 1]
  BY Pushed
<1> HIDE DEF r
<1>2. Len(l) \in Nat /\ \A i \in 1..Len(l) : l[i] \in Nat
  OBVIOUS
<1>3. ASSUME NEW i \in 1..Len(r) PROVE r[i] <= t
  <2>1. CASE i = 1
    BY <1>1, <2>1
  <2>2. CASE i # 1
    <3>1. i \in 2..(Len(l) + 1) /\ i - 1 \in 1..Len(l)
      BY <1>1, <1>2, <2>2
    <3> QED
      BY <1>1, <3>1 DEF Descending
  <2> QED
    BY <2>1, <2>2
<1>4. ASSUME NEW i \in 1..Len(r), NEW j \in 1..Len(r), i <= j PROVE r[j] <= r[i]
  <2>1. CASE i = 1
    BY <1>1, <1>3, <2>1
  <2>2. CASE i # 1
    <3>1. /\ i \in 2..(Len(l) + 1) /\ i - 1 \in 1..Len(l)
          /\ j \in 2..(Len(l) + 1) /\ j - 1 \in 1..Len(l)
          /\ i - 1 <= j - 1
      BY <1>1, <1>2, <1>4, <2>2
    <3> QED
      BY <1>1, <3>1 DEF Descending
  <2> QED
    BY <2>1, <2>2
<1>5. Descending(r, t)
  BY <1>3, <1>4 DEF Descending
<1> QED
  BY <1>5 DEF r

\* A request that is let through, and noted in the list or not.
LEMMA PushBehind ==
  ASSUME NEW l \in Seq(Nat), NEW p \in Seq(Nat), NEW t \in Nat, Behind(l, p, t)
  PROVE  /\ Behind(<<t>> \o l, Append(p, t), t)
         /\ Behind(l, Append(p, t), t)
<1> DEFINE r == Append(p, t)
           m == <<t>> \o l
<1>1. /\ Len(r) = Len(p) + 1 /\ Newest(r, 1) = t /\ Ascending(r, t)
      /\ \A i \in 2..(Len(p) + 1) : Newest(r, i) = Newest(p, i - 1)
  BY Appended, AppendAscending DEF Behind
<1>2. /\ Len(m) = Len(l) + 1 /\ m[1] = t /\ Descending(m, t)
      /\ \A i \in 2..(Len(l) + 1) : m[i] = l[i - 1]
  BY Pushed, PushDescending DEF Behind
<1>3. /\ Len(l) \in Nat /\ Len(p) \in Nat /\ Len(l) <= Len(p)
      /\ \A i \in 1..Len(l) : l[i] \in Nat
      /\ \A i \in 1..Len(p) : p[i] \in Nat
  BY DEF Behind
<1> HIDE DEF r, m
<1>4. ASSUME NEW i \in 1..Len(m) PROVE m[i] <= Newest(r, i)
  <2>1. CASE i = 1
    BY <1>1, <1>2, <2>1
  <2>2. CASE i # 1
    <3>1. i \in 2..(Len(l) + 1) /\ i \in 2..(Len(p) + 1) /\ i - 1 \in 1..Len(l)
      BY <1>2, <1>3, <2>2
    <3> QED
      BY <1>1, <1>2, <3>1 DEF Behind
  <2> QED
    BY <2>1, <2>2
<1>5. ASSUME NEW i \in 1..Len(l) PROVE l[i] <= Newest(r, i)
  <2>1. CASE i = 1
    BY <1>1, <1>3, <2>1 DEF Behind, Descending
  <2>2. CASE i # 1
    <3>1. i \in 2..(Len(p) + 1) /\ i - 1 \in 1..Len(l) /\ i - 1 <= i
      BY <1>3, <2>2
    <3>2. Newest(r, i) = Newest(p, i - 1)
      BY <1>1, <3>1
    <3>3. l[i] <= l[i - 1]
      BY <3>1 DEF Behind, Descending
    <3>4. l[i - 1] <= Newest(p, i - 1)
      BY <3>1 DEF Behind
    <3>5. Newest(p, i - 1) \in Nat /\ l[i] \in Nat /\ l[i - 1] \in Nat
      BY <1>3, <3>1 DEF Newest
    <3> QED
      BY <3>2, <3>3, <3>4, <3>5
  <2> QED
    BY <2>1, <2>2
<1>6. Behind(m, r, t) /\ Behind(l, r, t)
  BY <1>1, <1>2, <1>3, <1>4, <1>5 DEF Behind
<1> QED
  BY <1>6 DEF r, m

\* LTRIM leaves the beginning of a list.
LEMMA TrimmedIs ==
  ASSUME NEW l \in Seq(Nat), NEW n \in Nat \ {0}
  PROVE  /\ Trimmed(l, n - 1) \in Seq(Nat)
         /\ Len(Trimmed(l, n - 1)) = (IF Len(l) < n THEN Len(l) ELSE n)
         /\ Len(Trimmed(l, n - 1)) <= Len(l)
         /\ \A i \in 1..Len(Trimmed(l, n - 1)) : Trimmed(l, n - 1)[i] = l[i]
<1> DEFINE m == IF Len(l) < n THEN Len(l) ELSE n
           s == Trimmed(l, n - 1)
<1>1. m \in 0..Len(l) /\ s = SubSeq(l, 1, m)
  BY DEF Trimmed
<1>2. m = (IF Len(l) < n THEN Len(l) ELSE n) /\ Len(l) \in Nat
  OBVIOUS
<1> HIDE DEF m, s
<1>3. /\ s \in Seq(Nat)
      /\ Len(s) = m
      /\ \A i \in 1..m : s[i] = l[i]
  BY <1>1
<1>4. Len(s) = (IF Len(l) < n THEN Len(l) ELSE n) /\ Len(s) <= Len(l)
  BY <1>1, <1>2, <1>3
<1> QED
  BY <1>3, <1>4 DEF s

LEMMA BeginningBehind ==
  ASSUME NEW l \in Seq(Nat), NEW p \in Seq(Nat), NEW t \in Nat, Behind(l, p, t),
         NEW s \in Seq(Nat), Len(s) <= Len(l), \A i \in 1..Len(s) : s[i] = l[i]
  PROVE  Behind(s, p, t) /\ Behind(s, p, t + 1)
<1>1. Len(s) \in Nat /\ Len(l) \in Nat /\ Len(p) \in Nat
  OBVIOUS
<1>2. \A i \in 1..Len(s) : i \in 1..Len(l)
  BY <1>1
<1>3. (\A i \in 1..Len(p) : p[i] \in Nat) /\ (\A i \in 1..Len(s) : s[i] \in Nat)
  OBVIOUS
<1>4. Ascending(p, t + 1)
  BY <1>3 DEF Behind, Ascending
<1>5. ASSUME NEW i \in 1..Len(s), NEW j \in 1..Len(s), i <= j PROVE s[j] <= s[i]
  <2>1. s[i] = l[i] /\ s[j] = l[j] /\ i \in 1..Len(l) /\ j \in 1..Len(l)
    BY <1>2
  <2> QED
    BY <1>5, <2>1 DEF Behind, Descending
<1>6. ASSUME NEW i \in 1..Len(s)
      PROVE  s[i] <= t /\ s[i] <= t + 1 /\ s[i] <= Newest(p, i)
  <2>1. s[i] = l[i] /\ i \in 1..Len(l) /\ l[i] \in Nat
    BY <1>2
  <2>2. l[i] <= t /\ l[i] <= Newest(p, i)
    BY <2>1 DEF Behind, Descending
  <2> QED
    BY <2>1, <2>2
<1>7. Descending(s, t) /\ Descending(s, t + 1)
  BY <1>5, <1>6 DEF Descending
<1>8. Len(s) <= Len(p) /\ Ascending(p, t)
  BY <1>1 DEF Behind
<1> QED
  BY <1>4, <1>6, <1>7, <1>8 DEF Behind

-------------------------------------------------------------------------------
\* Types.

TypeInv == TypeOK /\ \A c \in Client : pc[c] # "LLEN" => arg[c] \in Key

LEMMA TypeInit == Init => TypeInv
<1> SUFFICES ASSUME Init PROVE TypeInv
  OBVIOUS
<1>1. <<>> \in Seq(Nat)
  OBVIOUS
<1> QED
  BY <1>1, FaultAssumption DEF Init, TypeInv, TypeOK, Command

LEMMA FaultType ==
  ASSUME TypeInv, Fault \/ NoFault
  PROVE  /\ faults' \in 0..MaxFaults
         /\ orderly' \in BOOLEAN
         /\ orderly' => orderly
         /\ orderly' => NoFault
<1>1. faults \in 0..MaxFaults /\ orderly \in BOOLEAN /\ MaxFaults \in Nat
  BY FaultAssumption DEF TypeInv, TypeOK
<1>2. CASE Fault
  <2>1. faults' \in 0..MaxFaults
    BY <1>1, <1>2 DEF Fault
  <2> QED
    BY <1>2, <2>1 DEF Fault
<1>3. CASE NoFault
  BY <1>1, <1>3 DEF NoFault
<1> QED
  BY <1>2, <1>3

LEMMA PushType ==
  ASSUME TypeInv, NEW c \in Client, Push(c)
  PROVE  TypeInv'
<1> USE DEF TypeInv, TypeOK
<1> DEFINE k == arg[c]
<1>1. k \in Key
  BY DEF Push
<1>2. /\ list' = [list EXCEPT ![k] = <<now>> \o @] \/ UNCHANGED list
      /\ passed' = [passed EXCEPT ![k] = Append(@, now)]
      /\ verdict' = [key |-> k, at |-> now, allowed |-> TRUE]
      /\ pc' = [pc EXCEPT ![c] = IF pc[c] = "LPUSH" THEN "LTRIM" ELSE "EXPIRE"]
      /\ UNCHANGED <<expireAt, arg, now>>
  BY DEF Push, GoTo
<1>3. faults' \in 0..MaxFaults /\ orderly' \in BOOLEAN
  BY FaultType DEF Push
<1> HIDE DEF k
<1>4. <<now>> \o list[k] \in Seq(Nat) /\ Append(passed[k], now) \in Seq(Nat)
  BY <1>1
<1>5. list' \in [Key -> Seq(Nat)] /\ passed' \in [Key -> Seq(Nat)]
  BY <1>2, <1>4
<1>6. pc' \in [Client -> Command]
  BY <1>2 DEF Command
<1>7. \A d \in Client : pc'[d] # "LLEN" => arg'[d] \in Key
  BY <1>1, <1>2 DEF k
<1> QED
  BY <1>1, <1>2, <1>3, <1>5, <1>6, <1>7

LEMMA SumIsNat ==
  ASSUME NEW a \in Nat, NEW b \in Nat
  PROVE  a + b \in Nat
OBVIOUS

LEMMA OtherTypes ==
  ASSUME TypeInv, NEW c \in Client,
         \/ \E k \in Key : Count(c, k)
         \/ OldestDecides(c) \/ Trim(c) \/ Expire(c) \/ Restart(c)
  PROVE  TypeInv'
<1> USE DEF TypeInv, TypeOK, GoTo, Done, Command
<1>1. CASE \E k \in Key : Count(c, k)
  BY <1>1 DEF Count
<1>2. CASE OldestDecides(c)
  <2>1. arg[c] \in Key /\ now \in Nat
    BY <1>2 DEF OldestDecides
  <2>2. /\ \E command \in Command : pc' = [pc EXCEPT ![c] = command]
        /\ arg' \in {arg, [arg EXCEPT ![c] = None]}
        /\ pc'[c] # "LLEN" => arg' = arg
        /\ verdict' \in {verdict, [key |-> arg[c], at |-> now, allowed |-> FALSE]}
    BY <1>2 DEF OldestDecides, Turn
  <2>3. UNCHANGED <<list, expireAt, faults, now, orderly, passed>>
    BY <1>2 DEF OldestDecides
  <2>4. \A d \in Client : pc'[d] # "LLEN" => arg'[d] \in Key
    BY <2>1, <2>2
  <2>5. pc' \in [Client -> Command] /\ arg' \in [Client -> Key \cup {None}]
    BY <2>2
  <2>6. verdict' \in [key : Key, at : Nat, allowed : BOOLEAN] \cup {None}
    <3>1. \A k \in Key, at \in Nat : [key |-> k, at |-> at, allowed |-> FALSE]
                                     \in [key : Key, at : Nat, allowed : BOOLEAN]
      OBVIOUS
    <3>2. verdict \in [key : Key, at : Nat, allowed : BOOLEAN] \cup {None}
      OBVIOUS
    <3> HIDE DEF TypeInv, TypeOK
    <3> QED
      BY <2>1, <2>2, <3>1, <3>2
  <2> QED
    BY <2>3, <2>4, <2>5, <2>6
<1>3. CASE Trim(c)
  <2>1. faults' \in 0..MaxFaults /\ orderly' \in BOOLEAN
    BY <1>3, FaultType DEF Trim
  <2>2. arg[c] \in Key /\ Limit[arg[c]].num \in Nat \ {0}
    BY <1>3, LimitAssumption DEF Trim
  <2>3. Trimmed(list[arg[c]], Limit[arg[c]].num - 1) \in Seq(Nat)
    BY <2>2, TrimmedIs
  <2>4. \/ list' = [list EXCEPT ![arg[c]] =
                      Trimmed(list[arg[c]], Limit[arg[c]].num - 1)]
        \/ UNCHANGED list
    BY <1>3 DEF Trim
  <2>5. list' \in [Key -> Seq(Nat)]
    BY <2>2, <2>3, <2>4
  <2> QED
    BY <1>3, <2>1, <2>5 DEF Trim
<1>4. CASE Expire(c)
  <2>1. faults' \in 0..MaxFaults /\ orderly' \in BOOLEAN
    BY <1>4, FaultType DEF Expire
  <2>2. now + Expiration \in Nat
    <3>1. now \in Nat /\ Expiration \in Nat
      BY ClockAssumption
    <3> HIDE DEF TypeInv, TypeOK, GoTo, Done, Command
    <3> QED
      BY <3>1, SumIsNat
  <2> DEFINE time == IF list[arg[c]] = <<>> THEN None ELSE now + Expiration
  <2>3. expireAt' = expireAt \/ expireAt' = [expireAt EXCEPT ![arg[c]] = time]
    BY <1>4 DEF Expire
  <2>5. time \in Nat \cup {None}
    BY <2>2
  <2> HIDE DEF time
  <2>4. expireAt' \in [Key -> Nat \cup {None}]
    BY <2>3, <2>5
  <2> QED
    BY <1>4, <2>1, <2>4 DEF Expire
<1>5. CASE Restart(c)
  <2>1. faults' \in 0..MaxFaults /\ orderly' \in BOOLEAN
    BY <1>5, FaultType DEF Restart
  <2> QED
    BY <1>5, <2>1 DEF Restart
<1> QED
  BY <1>1, <1>2, <1>3, <1>4, <1>5

LEMMA TickType ==
  ASSUME TypeInv, Tick
  PROVE  TypeInv'
<1> USE DEF TypeInv, TypeOK
<1>1. <<>> \in Seq(Nat)
  OBVIOUS
<1> QED
  BY <1>1 DEF Tick

LEMMA TypeStep == TypeInv /\ [Next]_vars => TypeInv'
<1> SUFFICES ASSUME TypeInv, [Next]_vars PROVE TypeInv'
  OBVIOUS
<1>1. CASE Next
  BY <1>1, PushType, OtherTypes, TickType DEF Next
<1>2. CASE UNCHANGED vars
  BY <1>2 DEF vars, TypeInv, TypeOK
<1> QED
  BY <1>1, <1>2

\* The variables keep their types, for any numbers of requests, keys and faults.
THEOREM TypeCorrect == Spec => []TypeOK
<1>1. TypeInv => TypeOK
  BY DEF TypeInv
<1> QED
  BY <1>1, TypeInit, TypeStep, PTL DEF Spec

-------------------------------------------------------------------------------
\* Nobody is turned away without need, even when commands fail.

\* LINDEX finds a full list, as long as the clock stands still while a request is
\* under way.
DenyInv ==
  /\ TypeInv
  /\ \A k \in Key : Behind(list[k], passed[k], now)
  /\ \A c \in Client : pc[c] = "LINDEX" => Len(list[arg[c]]) >= Limit[arg[c]].num

LEMMA DenyInit == Init => DenyInv
<1> SUFFICES ASSUME Init PROVE DenyInv
  OBVIOUS
<1>1. TypeInv
  BY TypeInit
<1>2. \A k \in Key : list[k] = <<>> /\ passed[k] = <<>>
  BY DEF Init
<1>3. Behind(<<>>, <<>>, now)
  BY DEF Behind, Ascending, Descending
<1> QED
  BY <1>1, <1>2, <1>3 DEF Init, DenyInv

LEMMA DenyStep == Prompt /\ DenyInv /\ [Next]_vars => DenyInv'
<1> SUFFICES ASSUME Prompt, DenyInv, [Next]_vars PROVE DenyInv'
  OBVIOUS
<1> USE DEF DenyInv, TypeInv, TypeOK
<1>1. TypeInv'
  BY TypeStep
<1>2. \A k \in Key : /\ list[k] \in Seq(Nat) /\ passed[k] \in Seq(Nat)
                     /\ Len(list[k]) \in Nat /\ Limit[k].num \in Nat \ {0}
  BY LimitAssumption
<1>3. ASSUME NEW c \in Client, Push(c) PROVE DenyInv'
  <2> DEFINE k == arg[c]
  <2>1. k \in Key
    BY <1>3 DEF Push
  <2>2. /\ \/ list' = [list EXCEPT ![k] = <<now>> \o @]
           \/ UNCHANGED list
        /\ passed' = [passed EXCEPT ![k] = Append(@, now)]
        /\ UNCHANGED <<arg, now>>
        /\ \A d \in Client : pc'[d] = "LINDEX" => pc[d] = "LINDEX"
    BY <1>3 DEF Push, GoTo
  <2> HIDE DEF k
  <2>3. /\ Behind(<<now>> \o list[k], Append(passed[k], now), now)
        /\ Behind(list[k], Append(passed[k], now), now)
        /\ Len(<<now>> \o list[k]) = Len(list[k]) + 1
    BY <1>2, <2>1, PushBehind, Pushed
  <2>4. \A j \in Key : Behind(list'[j], passed'[j], now)
    BY <2>1, <2>2, <2>3
  <2>5. ASSUME NEW j \in Key PROVE Len(list'[j]) >= Len(list[j])
    <3>1. CASE list' = [list EXCEPT ![k] = <<now>> \o @] /\ j = k
      <4>1. list'[j] = <<now>> \o list[k]
        BY <2>1, <3>1
      <4>2. Len(list[k]) \in Nat /\ Len(list'[j]) = Len(list[k]) + 1 /\ j = k
        BY <1>2, <2>1, <2>3, <3>1, <4>1
      <4> QED
        BY <4>2
    <3>2. CASE ~ (list' = [list EXCEPT ![k] = <<now>> \o @] /\ j = k)
      <4>1. list'[j] = list[j]
        BY <2>1, <2>2, <3>2
      <4>2. Len(list[j]) \in Nat
        BY <1>2
      <4> QED
        BY <4>1, <4>2
    <3> QED
      BY <3>1, <3>2
  <2>6. \A d \in Client :
          pc'[d] = "LINDEX" => Len(list'[arg'[d]]) >= Limit[arg'[d]].num
    <3> SUFFICES ASSUME NEW d \in Client, pc'[d] = "LINDEX"
                 PROVE  Len(list'[arg'[d]]) >= Limit[arg'[d]].num
      OBVIOUS
    <3>1. arg'[d] = arg[d] /\ arg[d] \in Key /\ Len(list[arg[d]]) >= Limit[arg[d]].num
      BY <2>2
    <3>2. Len(list'[arg[d]]) \in Nat
      BY <1>1, <3>1
    <3> QED
      BY <1>2, <2>5, <3>1, <3>2
  <2> QED
    BY <1>1, <2>2, <2>4, <2>6
<1>4. ASSUME NEW c \in Client, Trim(c) PROVE DenyInv'
  <2> DEFINE k == arg[c]
             trimmed == Trimmed(list[k], Limit[k].num - 1)
  <2>1. k \in Key
    BY <1>4 DEF Trim
  <2>2. /\ list' = [list EXCEPT ![k] = trimmed] \/ UNCHANGED list
        /\ UNCHANGED <<passed, arg, now>>
        /\ \A d \in Client : pc'[d] = "LINDEX" => pc[d] = "LINDEX"
    BY <1>4 DEF Trim, GoTo
  <2>3. /\ trimmed \in Seq(Nat)
        /\ Len(trimmed) = (IF Len(list[k]) < Limit[k].num THEN Len(list[k])
                           ELSE Limit[k].num)
        /\ Len(trimmed) <= Len(list[k])
        /\ \A i \in 1..Len(trimmed) : trimmed[i] = list[k][i]
    BY <1>2, <2>1, TrimmedIs
  <2> HIDE DEF k, trimmed
  <2>4. Behind(trimmed, passed[k], now)
    BY <1>2, <2>1, <2>3, BeginningBehind
  <2>5. \A j \in Key : Behind(list'[j], passed'[j], now)
    BY <2>1, <2>2, <2>4
  <2>6. ASSUME NEW j \in Key, Len(list[j]) >= Limit[j].num
        PROVE  Len(list'[j]) >= Limit[j].num
    <3>1. CASE list' = [list EXCEPT ![k] = trimmed] /\ j = k
      <4>1. list'[j] = trimmed
        BY <2>1, <3>1
      <4>2. Len(list[k]) \in Nat /\ Limit[k].num \in Nat
        BY <1>2, <2>1
      <4>3. Len(trimmed) = Limit[k].num
        BY <2>3, <2>6, <3>1, <4>2
      <4> QED
        BY <3>1, <4>1, <4>2, <4>3
    <3>2. CASE ~ (list' = [list EXCEPT ![k] = trimmed] /\ j = k)
      <4>1. list'[j] = list[j]
        BY <2>1, <2>2, <3>2
      <4> QED
        BY <2>6, <4>1
    <3> QED
      BY <3>1, <3>2
  <2> QED
    BY <1>1, <2>2, <2>5, <2>6
<1>5. ASSUME Tick PROVE DenyInv'
  <2>1. /\ now' = now + 1
        /\ \A k \in Key : list'[k] = list[k] \/ list'[k] = <<>>
        /\ UNCHANGED <<passed, pc>>
        /\ \A c \in Client : pc[c] = "LLEN"
    BY <1>5 DEF Tick
  <2>2. ASSUME NEW k \in Key PROVE Behind(list'[k], passed'[k], now')
    <3>1. list'[k] \in Seq(Nat) /\ Len(<<>>) = 0
      BY <1>1
    <3>2. Len(list'[k]) <= Len(list[k])
            /\ \A i \in 1..Len(list'[k]) : list'[k][i] = list[k][i]
      BY <1>2, <2>1, <3>1
    <3> QED
      BY <1>2, <2>1, <3>1, <3>2, BeginningBehind
  <2> QED
    BY <1>1, <2>1, <2>2
<1>6. ASSUME NEW c \in Client, NEW k \in Key, Count(c, k) PROVE DenyInv'
  <2>1. UNCHANGED <<list, passed, now>>
    BY <1>6 DEF Count
  <2>2. \A d \in Client : pc'[d] = "LINDEX" =>
          \/ pc[d] = "LINDEX" /\ arg'[d] = arg[d]
          \/ arg'[d] = k /\ ~ (Len(list[k]) < Limit[k].num)
    BY <1>6 DEF Count, GoTo
  <2>3. ~ (Len(list[k]) < Limit[k].num) => Len(list[k]) >= Limit[k].num
    BY <1>2
  <2> QED
    BY <1>1, <2>1, <2>2, <2>3
<1>7. ASSUME NEW c \in Client, OldestDecides(c) \/ Expire(c) \/ Restart(c) PROVE DenyInv'
  <2>1. UNCHANGED <<list, passed, now>>
    BY <1>7 DEF OldestDecides, Expire, Restart, Turn
  <2>2. \A d \in Client : pc'[d] = "LINDEX" => pc[d] = "LINDEX" /\ arg'[d] = arg[d]
    BY <1>7 DEF OldestDecides, Expire, Restart, Turn, GoTo, Done
  <2> QED
    BY <1>1, <2>1, <2>2
<1>8. CASE UNCHANGED vars
  BY <1>1, <1>8 DEF vars
<1> QED
  BY <1>3, <1>4, <1>5, <1>6, <1>7, <1>8 DEF Next

\* A list that is full and whose oldest time is young shows a full window.
LEMMA FullList ==
  ASSUME NEW k \in Key, TypeInv, Behind(list[k], passed[k], now),
         Len(list[k]) >= Limit[k].num,
         now - list[k][Len(list[k])] < Limit[k].duration
  PROVE  Window!Full(k)
<1> DEFINE l == list[k]
           p == passed[k]
           n == Limit[k].num
<1>1. l \in Seq(Nat) /\ p \in Seq(Nat) /\ n \in Nat \ {0} /\ now \in Nat
        /\ Limit[k].duration \in Nat
  BY LimitAssumption DEF TypeInv, TypeOK
<1>2. Behind(l, p, now) /\ Len(l) >= n /\ now - l[Len(l)] < Limit[k].duration
  OBVIOUS
<1> HIDE DEF l, p, n
<1>3. Len(l) \in Nat /\ Len(p) \in Nat /\ Len(l) <= Len(p) /\ n <= Len(l)
  BY <1>1, <1>2 DEF Behind
<1>4. n \in 1..Len(l) /\ Len(l) \in 1..Len(l) /\ Len(p) + 1 - n \in 1..Len(p)
  BY <1>1, <1>3
<1>5. l[Len(l)] <= l[n] /\ l[n] <= p[Len(p) + 1 - n]
  BY <1>2, <1>3, <1>4 DEF Behind, Descending, Newest
<1>6. l[n] \in Nat /\ l[Len(l)] \in Nat /\ p[Len(p) + 1 - n] \in Nat
  <2>1. (\A i \in 1..Len(l) : l[i] \in Nat) /\ (\A i \in 1..Len(p) : p[i] \in Nat)
    BY <1>1
  <2> QED
    BY <1>4, <2>1
<1>7. Len(p) - n + 1 = Len(p) + 1 - n
  BY <1>1, <1>3
<1>8. now - p[Len(p) - n + 1] < Limit[k].duration
  <2>1. \A a, b, d, m, t \in Nat : t - a < d /\ a <= b /\ b <= m => t - m < d
    OBVIOUS
  <2>2. now - p[Len(p) + 1 - n] < Limit[k].duration
    BY <1>1, <1>2, <1>5, <1>6, <2>1
  <2> QED
    BY <1>7, <2>2
<1>9. Len(p) >= n
  BY <1>1, <1>3
<1> QED
  BY <1>8, <1>9 DEF Window!Full, p, n

\* While requests do not outlive the second they came in, none is turned away unless
\* the window is full, whatever commands failed (redisRateLimiter).
THEOREM DenialsDeserved == ASSUME Prompt PROVE Spec => DenialsAreDeserved
<1>1. ASSUME DenyInv, [Next]_vars, NEW k \in Key,
             verdict' = [key |-> k, at |-> now, allowed |-> FALSE], verdict' # verdict
      PROVE  Window!Full(k)
  <2>1. PICK c \in Client : OldestDecides(c)
    BY <1>1 DEF Next, vars, Count, Push, Trim, Expire, Restart, Tick
  <2>2. /\ pc[c] = "LINDEX" /\ list[arg[c]] # <<>>
        /\ Turn(c, list[arg[c]][Len(list[arg[c]])])
    BY <1>1, <2>1 DEF OldestDecides
  <2>3. now - list[arg[c]][Len(list[arg[c]])] < Limit[arg[c]].duration /\ arg[c] = k
    BY <1>1, <2>2 DEF Turn
  <2> QED
    BY <1>1, <2>2, <2>3, FullList DEF DenyInv
<1>2. DenyInv /\ [Next]_vars =>
        [\A k \in Key :
           verdict' = [key |-> k, at |-> now, allowed |-> FALSE] /\ verdict' # verdict
             => Window!Full(k)]_vars
  BY <1>1
<1> QED
  BY <1>2, DenyInit, DenyStep, PTL DEF Spec, DenialsAreDeserved

-------------------------------------------------------------------------------
\* One after the other, requests are counted exactly.

\* The list is the end of the history, newest first, and what it lacks below its
\* limit does not count any more.
Reflects(l, p) == \A i \in 1..Len(l) : l[i] = Newest(p, i)

Complete(l, p, n, d, t) ==
  Len(l) < n /\ Len(l) < Len(p) => t - Newest(p, Len(l) + 1) >= d

LEMMA PushReflects ==
  ASSUME NEW l \in Seq(Nat), NEW p \in Seq(Nat), NEW t \in Nat, NEW n \in Nat, NEW d \in Nat,
         Reflects(l, p), Len(l) <= Len(p), Complete(l, p, n, d, t)
  PROVE  /\ Reflects(<<t>> \o l, Append(p, t))
         /\ Complete(<<t>> \o l, Append(p, t), n, d, t)
<1> DEFINE r == Append(p, t)
           m == <<t>> \o l
<1>1. /\ Len(r) = Len(p) + 1 /\ Newest(r, 1) = t
      /\ \A i \in 2..(Len(p) + 1) : Newest(r, i) = Newest(p, i - 1)
  BY Appended
<1>2. /\ Len(m) = Len(l) + 1 /\ m[1] = t
      /\ \A i \in 2..(Len(l) + 1) : m[i] = l[i - 1]
  BY Pushed
<1>3. Len(l) \in Nat /\ Len(p) \in Nat
  OBVIOUS
<1> HIDE DEF r, m
<1>4. ASSUME NEW i \in 1..Len(m) PROVE m[i] = Newest(r, i)
  <2>1. CASE i = 1
    BY <1>1, <1>2, <2>1
  <2>2. CASE i # 1
    <3>1. i \in 2..(Len(l) + 1) /\ i \in 2..(Len(p) + 1) /\ i - 1 \in 1..Len(l)
      BY <1>2, <1>3, <2>2
    <3> QED
      BY <1>1, <1>2, <3>1 DEF Reflects
  <2> QED
    BY <2>1, <2>2
<1>5. Complete(m, r, n, d, t)
  <2> SUFFICES ASSUME Len(m) < n, Len(m) < Len(r)
               PROVE  t - Newest(r, Len(m) + 1) >= d
    BY DEF Complete
  <2>1. /\ Len(l) < n /\ Len(l) < Len(p)
        /\ Len(m) + 1 \in 2..(Len(p) + 1) /\ Len(m) + 1 - 1 = Len(l) + 1
    BY <1>1, <1>2, <1>3
  <2>2. Newest(r, Len(m) + 1) = Newest(p, Len(l) + 1)
    BY <1>1, <2>1
  <2> QED
    BY <2>1, <2>2 DEF Complete
<1>6. Reflects(m, r)
  BY <1>4 DEF Reflects
<1> QED
  BY <1>5, <1>6 DEF r, m

\* Room in such a list, or an oldest time that is old, means room in the window.
LEMMA NotFull ==
  ASSUME NEW k \in Key, TypeInv, Behind(list[k], passed[k], now),
         Reflects(list[k], passed[k]),
         Complete(list[k], passed[k], Limit[k].num, Limit[k].duration, now),
         \/ Len(list[k]) < Limit[k].num
         \/ /\ Len(list[k]) = Limit[k].num
            /\ now - list[k][Limit[k].num] >= Limit[k].duration
  PROVE  ~ Window!Full(k)
<1> DEFINE l == list[k]
           p == passed[k]
           n == Limit[k].num
           d == Limit[k].duration
<1>1. l \in Seq(Nat) /\ p \in Seq(Nat) /\ n \in Nat \ {0} /\ now \in Nat /\ d \in Nat
  BY LimitAssumption DEF TypeInv, TypeOK
<1>2. /\ Ascending(p, now) /\ Len(l) <= Len(p) /\ Reflects(l, p) /\ Complete(l, p, n, d, now)
      /\ Len(l) < n \/ (Len(l) = n /\ now - l[n] >= d)
  BY DEF Behind
<1>3. Window!Full(k) => Len(p) >= n /\ now - p[Len(p) - n + 1] < d
  BY DEF Window!Full
<1> HIDE DEF l, p, n, d
<1> SUFFICES ASSUME Len(p) >= n, now - p[Len(p) - n + 1] < d PROVE FALSE
  BY <1>3
<1>4. Len(l) \in Nat /\ Len(p) \in Nat /\ \A i \in 1..Len(p) : p[i] \in Nat
  BY <1>1
<1>5. CASE Len(l) < n
  <2>1. /\ Len(p) - Len(l) \in 1..Len(p) /\ Len(p) - n + 1 \in 1..Len(p)
        /\ Len(p) - n + 1 <= Len(p) - Len(l)
        /\ Len(p) + 1 - (Len(l) + 1) = Len(p) - Len(l) /\ Len(l) < Len(p)
    BY <1>1, <1>4, <1>5
  <2>2. now - p[Len(p) - Len(l)] >= d
    BY <1>2, <1>5, <2>1 DEF Complete, Newest
  <2>3. p[Len(p) - n + 1] <= p[Len(p) - Len(l)]
    BY <1>2, <2>1 DEF Ascending
  <2>4. p[Len(p) - n + 1] \in Nat /\ p[Len(p) - Len(l)] \in Nat
    BY <1>4, <2>1
  <2>5. \A a, b \in Nat : now - a < d /\ a <= b => ~ (now - b >= d)
    BY <1>1
  <2> QED
    BY <2>2, <2>3, <2>4, <2>5
<1>6. CASE Len(l) = n /\ now - l[n] >= d
  <2>1. n \in 1..Len(l) /\ Len(p) - n + 1 = Len(p) + 1 - n /\ Len(p) - n + 1 \in 1..Len(p)
    BY <1>1, <1>4, <1>6
  <2>2. l[n] = p[Len(p) - n + 1] /\ p[Len(p) - n + 1] \in Nat
    BY <1>2, <1>4, <2>1 DEF Reflects, Newest
  <2>3. now - p[Len(p) - n + 1] >= d
    BY <1>6, <2>2
  <2>4. \A a \in Nat : now - a < d => ~ (now - a >= d)
    BY <1>1
  <2> QED
    BY <2>2, <2>3, <2>4
<1> QED
  BY <1>2, <1>5, <1>6

\* Requests under way are for different keys.
Apart ==
  \A c, d \in Client : pc[c] # "LLEN" /\ pc[d] # "LLEN" /\ arg[c] = arg[d] => c = d

Mirrors(k) ==
  /\ Reflects(list[k], passed[k])
  /\ Complete(list[k], passed[k], Limit[k].num, Limit[k].duration, now)

\* A request that will be let through has found room, and the list is as long as its
\* place says.
Places(k) ==
  /\ \A c \in Client : arg[c] = k =>
       /\ pc[c] = "FirstLPUSH" => Len(list[k]) < Limit[k].num
       /\ pc[c] = "LPUSH" => /\ Len(list[k]) = Limit[k].num
                             /\ now - list[k][Limit[k].num] >= Limit[k].duration
       /\ pc[c] = "LTRIM" => Len(list[k]) = Limit[k].num + 1
  /\ (\A c \in Client : pc[c] = "LTRIM" => arg[c] # k) => Len(list[k]) <= Limit[k].num

\* A key expires when nothing in it counts any more.
Lasts(k) ==
  (\A c \in Client : pc[c] \in {"LTRIM", "EXPIRE"} => arg[c] # k) /\ expireAt[k] # None
    => \A i \in 1..Len(passed[k]) : passed[k][i] + Expiration <= expireAt[k]

InOrder(k) == Mirrors(k) /\ Places(k) /\ Lasts(k)

OrderInv == DenyInv /\ (orderly => Apart /\ \A k \in Key : InOrder(k))

LEMMA OrderInit == Init => OrderInv
<1> SUFFICES ASSUME Init PROVE OrderInv
  OBVIOUS
<1>1. DenyInv
  BY DenyInit
<1>2. Apart
  BY DEF Init, Apart
<1>3. ASSUME NEW k \in Key PROVE InOrder(k)
  <2>1. list[k] = <<>> /\ passed[k] = <<>> /\ expireAt[k] = None
    BY DEF Init
  <2>2. Limit[k].num \in Nat
    BY LimitAssumption
  <2>3. Len(<<>>) = 0
    OBVIOUS
  <2>4. Mirrors(k)
    BY <2>1, <2>3 DEF Mirrors, Reflects, Complete
  <2>5. Places(k)
    BY <2>1, <2>2, <2>3 DEF Places, Init
  <2>6. Lasts(k)
    BY <2>1 DEF Lasts
  <2> QED
    BY <2>4, <2>5, <2>6 DEF InOrder
<1> QED
  BY <1>1, <1>2, <1>3 DEF OrderInv

\* A step that writes nothing of key j leaves it in order, if those that go on for it
\* have found room.
LEMMA Unwritten ==
  ASSUME NEW j \in Key, InOrder(j),
         list'[j] = list[j], passed'[j] = passed[j], expireAt'[j] = expireAt[j], now' = now,
         \A c \in Client :
           \/ pc'[c] = pc[c] /\ arg'[c] = arg[c]
           \/ /\ pc[c] \in {"LLEN", "LINDEX"} \/ arg[c] # j
              /\ \/ pc'[c] \in {"LLEN", "LINDEX", "EXPIRE"}
                 \/ arg'[c] # j
                 \/ pc'[c] = "FirstLPUSH" /\ Len(list[j]) < Limit[j].num
                 \/ /\ pc'[c] = "LPUSH" /\ Len(list[j]) = Limit[j].num
                    /\ now - list[j][Limit[j].num] >= Limit[j].duration
  PROVE  InOrder(j)'
<1>1. Mirrors(j)'
  BY DEF InOrder, Mirrors
<1>2. Places(j)'
  BY DEF InOrder, Places
<1>3. Lasts(j)'
  BY DEF InOrder, Lasts
<1> QED
  BY <1>1, <1>2, <1>3 DEF InOrder

\* What is known of the key of a request under way.
LEMMA KeyIs ==
  ASSUME OrderInv, orderly, NEW c \in Client, pc[c] # "LLEN"
  PROVE  /\ arg[c] \in Key /\ InOrder(arg[c])
         /\ \A d \in Client : pc[d] # "LLEN" /\ arg[d] = arg[c] => d = c
         /\ Behind(list[arg[c]], passed[arg[c]], now)
         /\ list[arg[c]] \in Seq(Nat) /\ passed[arg[c]] \in Seq(Nat) /\ now \in Nat
         /\ Limit[arg[c]].num \in Nat \ {0} /\ Limit[arg[c]].duration \in Nat
         /\ Len(list[arg[c]]) <= Len(passed[arg[c]])
<1>1. arg[c] \in Key
  BY DEF OrderInv, DenyInv, TypeInv
<1> QED
  BY <1>1, LimitAssumption DEF OrderInv, Apart, DenyInv, TypeInv, TypeOK, Behind

LEMMA CountOrder ==
  ASSUME OrderInv, orderly, NEW c \in Client, NEW k \in Key, Count(c, k), orderly'
  PROVE  Apart' /\ \A j \in Key : InOrder(j)'
<1>1. /\ pc[c] = "LLEN"
      /\ arg' = [arg EXCEPT ![c] = k]
      /\ \A d \in Client : arg[d] # k
      /\ pc' = [pc EXCEPT ![c] = IF Len(list[k]) < Limit[k].num THEN "FirstLPUSH"
                                 ELSE "LINDEX"]
      /\ UNCHANGED <<list, expireAt, now, passed>>
  BY DEF Count, GoTo
<1>2. TypeOK /\ Apart /\ \A j \in Key : InOrder(j)
  BY DEF OrderInv, DenyInv, TypeInv
<1>3. Apart'
  BY <1>1, <1>2 DEF Apart, TypeOK
<1>4. ASSUME NEW j \in Key PROVE InOrder(j)'
  <2>1. \A d \in Client :
           \/ pc'[d] = pc[d] /\ arg'[d] = arg[d]
           \/ /\ pc[d] \in {"LLEN", "LINDEX"}
              /\ \/ pc'[d] = "LINDEX"
                 \/ arg'[d] # j
                 \/ pc'[d] = "FirstLPUSH" /\ Len(list[j]) < Limit[j].num
    BY <1>1, <1>2 DEF TypeOK
  <2> QED
    BY <1>1, <1>2, <2>1, Unwritten
<1> QED
  BY <1>3, <1>4

\* A request goes on or is over, which leaves those under way apart.
LEMMA StayApart ==
  ASSUME OrderInv, orderly, NEW c \in Client,
         \A d \in Client : \/ pc'[d] = "LLEN"
                           \/ pc[d] # "LLEN" /\ arg'[d] = arg[d]
  PROVE  Apart'
BY DEF OrderInv, Apart

LEMMA DecideOrder ==
  ASSUME OrderInv, orderly, NEW c \in Client, OldestDecides(c)
  PROVE  /\ Apart' /\ \A j \in Key : InOrder(j)'
         /\ [Window!Next]_(Window!vars)
<1> DEFINE k == arg[c]
           l == list[k]
           n == Limit[k].num
<1>1. pc[c] = "LINDEX" /\ UNCHANGED <<list, expireAt, now, passed>>
  BY DEF OldestDecides
<1>2. /\ k \in Key /\ InOrder(k) /\ l \in Seq(Nat) /\ n \in Nat \ {0}
      /\ \A d \in Client : pc[d] # "LLEN" /\ arg[d] = k => d = c
      /\ Behind(l, passed[k], now)
  BY <1>1, KeyIs
<1>3. TypeInv /\ TypeOK /\ Len(l) >= n /\ \A j \in Key : InOrder(j)
  BY <1>1 DEF OrderInv, DenyInv, TypeInv
<1>4. Len(l) = n
  <2>1. \A d \in Client : pc[d] = "LTRIM" => arg[d] # k
    BY <1>1, <1>2
  <2>2. Len(l) <= n
    BY <2>1, <1>2 DEF InOrder, Places
  <2> QED
    BY <1>2, <1>3, <2>2
<1>5. l # <<>>
  BY <1>2, <1>4
<1>6. \/ /\ now - l[n] < Limit[k].duration
         /\ verdict' = [key |-> k, at |-> now, allowed |-> FALSE]
         /\ pc' = [pc EXCEPT ![c] = "EXPIRE"] /\ arg' = arg
      \/ /\ ~ (now - l[n] < Limit[k].duration)
         /\ pc' = [pc EXCEPT ![c] = "LPUSH"] /\ UNCHANGED <<arg, verdict>>
  BY <1>4, <1>5 DEF OldestDecides, Turn, GoTo
<1> HIDE DEF k, l, n
<1>7. Apart'
  BY <1>1, <1>3, <1>6, StayApart DEF TypeOK
<1>8. ~ (now - l[n] < Limit[k].duration) => now - l[n] >= Limit[k].duration
  <2>1. now \in Nat /\ Limit[k].duration \in Nat /\ l[n] \in Nat
    BY <1>2, <1>3, <1>4, LimitAssumption DEF TypeOK
  <2> QED
    BY <2>1
<1>9. ASSUME NEW j \in Key PROVE InOrder(j)'
  <2>1. \A d \in Client :
           \/ pc'[d] = pc[d] /\ arg'[d] = arg[d]
           \/ /\ pc[d] \in {"LLEN", "LINDEX"}
              /\ \/ pc'[d] = "EXPIRE"
                 \/ arg'[d] # j
                 \/ /\ pc'[d] = "LPUSH" /\ Len(list[j]) = Limit[j].num
                    /\ now - list[j][Limit[j].num] >= Limit[j].duration
    <3>1. arg'[c] = k
      BY <1>6 DEF k
    <3> QED
      BY <1>1, <1>3, <1>4, <1>6, <1>8, <3>1 DEF TypeOK, l, n
  <2> QED
    BY <1>1, <1>3, <2>1, Unwritten
<1>10. [Window!Next]_(Window!vars)
  <2>1. CASE now - l[n] < Limit[k].duration
    <3>1. Window!Full(k)
      BY <1>2, <1>3, <1>4, <2>1, FullList DEF k, l, n
    <3>2. Window!Deny(k)
      BY <1>1, <1>6, <2>1, <3>1 DEF Window!Deny
    <3> QED
      BY <1>2, <3>2 DEF Window!Next
  <2>2. CASE ~ (now - l[n] < Limit[k].duration)
    BY <1>1, <1>6, <2>2 DEF Window!vars
  <2> QED
    BY <2>1, <2>2
<1> QED
  BY <1>7, <1>9, <1>10

LEMMA PushOrder ==
  ASSUME OrderInv, orderly, NEW c \in Client, Push(c), NoFault
  PROVE  /\ Apart' /\ \A j \in Key : InOrder(j)'
         /\ [Window!Next]_(Window!vars)
<1>0. PICK k \in Key : k = arg[c]
  BY DEF Push, OrderInv, DenyInv, TypeInv
<1> DEFINE l == list[k]
           p == passed[k]
           n == Limit[k].num
<1>1. /\ pc[c] \in {"FirstLPUSH", "LPUSH"}
      /\ list' = [list EXCEPT ![k] = <<now>> \o l]
      /\ passed' = [passed EXCEPT ![k] = Append(p, now)]
      /\ verdict' = [key |-> k, at |-> now, allowed |-> TRUE]
      /\ pc' = [pc EXCEPT ![c] = IF pc[c] = "LPUSH" THEN "LTRIM" ELSE "EXPIRE"]
      /\ UNCHANGED <<expireAt, arg, now>>
  <2>1. faults' # faults + 1
    BY DEF NoFault, OrderInv, DenyInv, TypeInv, TypeOK
  <2> QED
    BY <1>0, <2>1 DEF Push, GoTo, Fault
<1>2. /\ k \in Key /\ InOrder(k) /\ l \in Seq(Nat) /\ p \in Seq(Nat) /\ now \in Nat
      /\ n \in Nat \ {0} /\ Limit[k].duration \in Nat
      /\ \A d \in Client : pc[d] # "LLEN" /\ arg[d] = k => d = c
      /\ Behind(l, p, now) /\ Len(l) <= Len(p)
  BY <1>0, <1>1, KeyIs
<1>3. TypeInv /\ TypeOK /\ \A j \in Key : InOrder(j)
  BY DEF OrderInv, DenyInv, TypeInv
<1>4. /\ pc[c] = "FirstLPUSH" => Len(l) < n
      /\ pc[c] = "LPUSH" => Len(l) = n /\ now - l[n] >= Limit[k].duration
      /\ Reflects(l, p) /\ Complete(l, p, n, Limit[k].duration, now)
  BY <1>0, <1>2 DEF InOrder, Places, Mirrors
<1>5. Len(<<now>> \o l) = Len(l) + 1 /\ Len(l) \in Nat
  BY <1>2, Pushed
<1>6. /\ Reflects(<<now>> \o l, Append(p, now))
      /\ Complete(<<now>> \o l, Append(p, now), n, Limit[k].duration, now)
  BY <1>2, <1>4, PushReflects
<1>7. ~ Window!Full(k)
  BY <1>1, <1>2, <1>3, <1>4, NotFull
<1>8. Apart'
  BY <1>1, <1>3, StayApart DEF TypeOK
<1>9. ASSUME NEW j \in Key, j # k PROVE InOrder(j)'
  <2>1. \A d \in Client :
           \/ pc'[d] = pc[d] /\ arg'[d] = arg[d]
           \/ arg[d] # j /\ arg'[d] # j
    BY <1>0, <1>1, <1>3, <1>9 DEF TypeOK
  <2>2. list'[j] = list[j] /\ passed'[j] = passed[j]
    BY <1>1, <1>3, <1>9 DEF TypeOK
  <2> QED
    BY <1>1, <1>3, <2>1, <2>2, Unwritten
<1>10. InOrder(k)'
  <2>1. list'[k] = <<now>> \o l /\ passed'[k] = Append(p, now)
    BY <1>1, <1>2, <1>3 DEF TypeOK
  <2>2. Mirrors(k)'
    BY <1>1, <1>6, <2>1 DEF Mirrors
  <2>3. pc'[c] \in {"LTRIM", "EXPIRE"} /\ arg'[c] = k
    BY <1>0, <1>1, <1>3 DEF TypeOK
  <2>4. Places(k)'
    <3>1. ASSUME NEW d \in Client, arg'[d] = k
          PROVE  /\ pc'[d] \notin {"FirstLPUSH", "LPUSH"}
                 /\ pc'[d] = "LTRIM" => Len(l) = n /\ d = c
      <4>1. CASE d = c
        BY <1>1, <1>3, <1>4, <4>1 DEF TypeOK
      <4>2. CASE d # c
        <5>1. pc'[d] = "LLEN"
          BY <1>1, <1>2, <1>3, <3>1, <4>2 DEF TypeOK
        <5> QED
          BY <5>1
      <4> QED
        BY <4>1, <4>2
    <3>2. pc'[c] # "LTRIM" => Len(l) < n
      BY <1>1, <1>3, <1>4 DEF TypeOK
    <3>3. /\ Len(list'[k]) = Len(l) + 1
          /\ Len(l) < n => Len(list'[k]) <= n
          /\ Len(l) = n => Len(list'[k]) = n + 1
      BY <1>2, <1>5, <2>1
    <3> HIDE DEF l, n, p
    <3>4. n = Limit[k].num
      BY DEF n
    <3> QED
      BY <2>3, <3>1, <3>2, <3>3, <3>4 DEF Places
  <2>5. Lasts(k)'
    BY <2>3 DEF Lasts
  <2> QED
    BY <2>2, <2>4, <2>5 DEF InOrder
<1>11. Window!Allow(k)
  BY <1>1, <1>7 DEF Window!Allow
<1> QED
  BY <1>2, <1>8, <1>9, <1>10, <1>11 DEF Window!Next

LEMMA TrimOrder ==
  ASSUME OrderInv, orderly, NEW c \in Client, Trim(c), NoFault
  PROVE  Apart' /\ \A j \in Key : InOrder(j)'
<1>0. PICK k \in Key : k = arg[c]
  BY DEF Trim, OrderInv, DenyInv, TypeInv
<1> DEFINE l == list[k]
           n == Limit[k].num
           s == Trimmed(l, n - 1)
<1>1. /\ pc[c] = "LTRIM"
      /\ list' = [list EXCEPT ![k] = s]
      /\ pc' = [pc EXCEPT ![c] = "EXPIRE"]
      /\ UNCHANGED <<expireAt, arg, now, passed>>
  <2>1. faults' # faults + 1
    BY DEF NoFault, OrderInv, DenyInv, TypeInv, TypeOK
  <2> QED
    BY <1>0, <2>1 DEF Trim, GoTo, Fault
<1>2. /\ k \in Key /\ InOrder(k) /\ l \in Seq(Nat) /\ n \in Nat \ {0}
      /\ \A d \in Client : pc[d] # "LLEN" /\ arg[d] = k => d = c
  BY <1>0, <1>1, KeyIs
<1>3. TypeOK /\ \A j \in Key : InOrder(j)
  BY DEF OrderInv, DenyInv, TypeInv
<1>4. Len(l) = n + 1 /\ Reflects(l, passed[k])
  BY <1>0, <1>1, <1>2 DEF InOrder, Places, Mirrors
<1>5. /\ Len(s) = n /\ Len(l) \in Nat
      /\ \A i \in 1..Len(s) : s[i] = l[i] /\ i \in 1..Len(l)
  <2>1. /\ Len(Trimmed(l, n - 1)) = (IF Len(l) < n THEN Len(l) ELSE n)
        /\ \A i \in 1..Len(Trimmed(l, n - 1)) : Trimmed(l, n - 1)[i] = l[i]
    BY <1>2, TrimmedIs
  <2>2. Len(l) \in Nat /\ n \in Nat
    BY <1>2
  <2>3. s = Trimmed(l, n - 1)
    OBVIOUS
  <2> HIDE DEF l, n, s
  <2> QED
    BY <1>4, <2>1, <2>2, <2>3
<1>6. Reflects(s, passed[k])
  BY <1>4, <1>5 DEF Reflects
<1> HIDE DEF s
<1>7. Apart'
  BY <1>1, <1>3, StayApart DEF TypeOK
<1>8. ASSUME NEW j \in Key, j # k PROVE InOrder(j)'
  <2>1. \A d \in Client :
           \/ pc'[d] = pc[d] /\ arg'[d] = arg[d]
           \/ arg[d] # j /\ arg'[d] # j
    BY <1>0, <1>1, <1>3, <1>8 DEF TypeOK
  <2>2. list'[j] = list[j]
    BY <1>1, <1>3, <1>8 DEF TypeOK
  <2> QED
    BY <1>1, <1>3, <2>1, <2>2, Unwritten
<1>9. InOrder(k)'
  <2>1. list'[k] = s
    BY <1>1, <1>2, <1>3 DEF TypeOK
  <2>2. ~ (n < n) /\ n <= n
    BY <1>2
  <2>3. pc'[c] = "EXPIRE" /\ arg'[c] = k
    BY <1>0, <1>1, <1>3 DEF TypeOK
  <2>4. Mirrors(k)'
    BY <1>1, <1>5, <1>6, <2>1, <2>2 DEF Mirrors, Complete
  <2>5. \A d \in Client : arg'[d] = k => pc'[d] \in {"LLEN", "EXPIRE"}
    BY <1>1, <1>2, <1>3 DEF TypeOK
  <2>6. Places(k)'
    BY <1>5, <2>1, <2>2, <2>5 DEF Places
  <2>7. Lasts(k)'
    BY <2>3 DEF Lasts
  <2> QED
    BY <2>4, <2>6, <2>7 DEF InOrder
<1> QED
  BY <1>7, <1>8, <1>9

LEMMA ExpireOrder ==
  ASSUME OrderInv, orderly, NEW c \in Client, Expire(c), NoFault
  PROVE  Apart' /\ \A j \in Key : InOrder(j)'
<1>0. PICK k \in Key : k = arg[c]
  BY DEF Expire, OrderInv, DenyInv, TypeInv
<1> DEFINE l == list[k]
           p == passed[k]
           at == IF l = <<>> THEN None ELSE now + Expiration
<1>1. /\ pc[c] = "EXPIRE"
      /\ expireAt' = [expireAt EXCEPT ![k] = at]
      /\ pc' = [pc EXCEPT ![c] = "LLEN"]
      /\ \A d \in Client : d # c => arg'[d] = arg[d]
      /\ UNCHANGED <<list, now, passed>>
  <2>1. faults' # faults + 1
    BY DEF NoFault, OrderInv, DenyInv, TypeInv, TypeOK
  <2>2. arg' = [arg EXCEPT ![c] = None]
    BY DEF Expire, Done
  <2>3. \A d \in Client : d # c => arg'[d] = arg[d]
    BY <2>2 DEF OrderInv, DenyInv, TypeInv, TypeOK
  <2> QED
    BY <1>0, <2>1, <2>3 DEF Expire, Done, GoTo, Fault
<1>2. /\ k \in Key /\ InOrder(k) /\ p \in Seq(Nat) /\ now \in Nat
      /\ \A d \in Client : pc[d] # "LLEN" /\ arg[d] = k => d = c
      /\ Behind(l, p, now)
  BY <1>0, <1>1, KeyIs
<1>3. TypeOK /\ \A j \in Key : InOrder(j)
  BY DEF OrderInv, DenyInv, TypeInv
<1>4. \A d \in Client : pc'[d] = "LLEN" \/ (d # c /\ pc'[d] = pc[d] /\ arg'[d] = arg[d])
  BY <1>1, <1>3 DEF TypeOK
<1>5. Apart'
  BY <1>4, StayApart
<1>6. ASSUME NEW j \in Key, j # k PROVE InOrder(j)'
  <2>1. \A d \in Client :
           \/ pc'[d] = pc[d] /\ arg'[d] = arg[d]
           \/ arg[d] # j /\ pc'[d] = "LLEN"
    BY <1>0, <1>1, <1>3, <1>6 DEF TypeOK
  <2>2. expireAt'[j] = expireAt[j]
    BY <1>1, <1>3, <1>6 DEF TypeOK
  <2> QED
    BY <1>1, <1>3, <2>1, <2>2, Unwritten
<1>7. InOrder(k)'
  <2>1. \A d \in Client : arg'[d] = k => pc'[d] = "LLEN"
    BY <1>2, <1>4
  <2>2. \A d \in Client : pc[d] = "LTRIM" => arg[d] # k
    BY <1>1, <1>2
  <2>3. Mirrors(k)' /\ Places(k)'
    BY <1>1, <1>2, <2>1, <2>2 DEF InOrder, Mirrors, Places
  <2>4. Lasts(k)'
    <3>1. expireAt'[k] = at
      BY <1>1, <1>2, <1>3 DEF TypeOK
    <3>2. ASSUME at # None, NEW i \in 1..Len(p) PROVE p[i] + Expiration <= at
      <4>1. at = now + Expiration
        BY <3>2
      <4>2. p[i] <= now /\ p[i] \in Nat
        BY <1>2 DEF Behind, Ascending
      <4>3. Expiration \in Nat
        BY ClockAssumption
      <4> HIDE DEF at, p
      <4> QED
        BY <1>2, <4>1, <4>2, <4>3
    <3>3. passed'[k] = p
      BY <1>1
    <3> HIDE DEF at, p
    <3> QED
      BY <3>1, <3>2, <3>3 DEF Lasts
  <2> QED
    BY <2>3, <2>4 DEF InOrder
<1> QED
  BY <1>5, <1>6, <1>7

\* A second goes by, while no request is under way.
LEMMA TickOrder ==
  ASSUME Prompt, OrderInv, orderly, Tick
  PROVE  /\ Apart' /\ \A j \in Key : InOrder(j)'
         /\ [Window!Next]_(Window!vars)
<1>1. /\ now' = now + 1
      /\ \A k \in Key :
           \/ list'[k] = list[k] /\ expireAt'[k] = expireAt[k]
           \/ /\ expireAt[k] # None /\ expireAt[k] <= now + 1
              /\ list'[k] = <<>> /\ expireAt'[k] = None
      /\ \A c \in Client : pc[c] = "LLEN"
      /\ UNCHANGED <<pc, arg, passed, verdict>>
  BY DEF Tick
<1>2. TypeOK /\ \A j \in Key : InOrder(j)
  BY DEF OrderInv, DenyInv, TypeInv
<1>3. Apart'
  BY <1>1 DEF Apart
<1>4. ASSUME NEW k \in Key PROVE InOrder(k)'
  <2> DEFINE l == list[k]
             p == passed[k]
  <2>1. /\ l \in Seq(Nat) /\ p \in Seq(Nat) /\ now \in Nat
        /\ Limit[k].num \in Nat \ {0} /\ Limit[k].duration \in Nat
        /\ Limit[k].duration <= Expiration /\ Expiration \in Nat
        /\ Len(p) \in Nat /\ Len(l) \in Nat /\ \A i \in 1..Len(p) : p[i] \in Nat
    BY <1>2, LimitAssumption, ClockAssumption DEF TypeOK
  <2>2. InOrder(k) /\ Len(l) <= Limit[k].num
    BY <1>1, <1>2 DEF InOrder, Places
  <2>3. CASE list'[k] = list[k] /\ expireAt'[k] = expireAt[k]
    <3>1. ASSUME Len(l) < Limit[k].num, Len(l) < Len(p)
          PROVE  (now + 1) - Newest(p, Len(l) + 1) >= Limit[k].duration
      <4>1. now - Newest(p, Len(l) + 1) >= Limit[k].duration
        BY <2>2, <3>1 DEF InOrder, Mirrors, Complete
      <4>2. Newest(p, Len(l) + 1) \in Nat
        <5> HIDE DEF l, p
        <5>1. Len(p) + 1 - (Len(l) + 1) \in 1..Len(p)
          BY <2>1, <3>1
        <5> QED
          BY <2>1, <5>1 DEF Newest
      <4> QED
        BY <2>1, <4>1, <4>2
    <3>2. Mirrors(k)'
      <4>1. Reflects(l, p)
        BY <2>2 DEF InOrder, Mirrors
      <4>2. Complete(l, p, Limit[k].num, Limit[k].duration, now + 1)
        <5> HIDE DEF l, p
        <5> QED
          BY <3>1 DEF Complete
      <4>3. list'[k] = l /\ passed'[k] = p /\ now' = now + 1
        BY <1>1, <2>3
      <4> QED
        BY <4>1, <4>2, <4>3 DEF Mirrors
    <3> QED
      BY <1>1, <2>2, <2>3, <3>2 DEF InOrder, Places, Lasts
  <2>4. CASE /\ expireAt[k] # None /\ expireAt[k] <= now + 1
             /\ list'[k] = <<>> /\ expireAt'[k] = None
    <3>1. \A i \in 1..Len(p) : p[i] + Expiration <= expireAt[k]
      BY <1>1, <2>2, <2>4 DEF InOrder, Lasts
    <3>2. Len(<<>>) = 0
      OBVIOUS
    <3>3. ASSUME 0 < Len(p) PROVE (now + 1) - Newest(p, 0 + 1) >= Limit[k].duration
      <4>1. Len(p) \in 1..Len(p) /\ Len(p) + 1 - (0 + 1) = Len(p)
        BY <2>1, <3>3
      <4>2. p[Len(p)] + Expiration <= expireAt[k] /\ p[Len(p)] \in Nat
        BY <2>1, <3>1, <4>1
      <4>3. expireAt[k] \in Nat
        BY <1>2, <2>4 DEF TypeOK
      <4>4. \A a, d, e, t, x \in Nat : a + x <= e /\ e <= t + 1 /\ d <= x => (t + 1) - a >= d
        OBVIOUS
      <4>5. (now + 1) - p[Len(p)] >= Limit[k].duration
        BY <2>1, <2>4, <4>2, <4>3, <4>4
      <4> QED
        BY <4>1, <4>5 DEF Newest
    <3>4. Mirrors(k)'
      <4>1. Reflects(<<>>, p)
        BY <3>2 DEF Reflects
      <4>2. Complete(<<>>, p, Limit[k].num, Limit[k].duration, now + 1)
        <5> HIDE DEF p
        <5> QED
          BY <3>2, <3>3 DEF Complete
      <4>3. list'[k] = <<>> /\ passed'[k] = p /\ now' = now + 1
        BY <1>1, <2>4
      <4> QED
        BY <4>1, <4>2, <4>3 DEF Mirrors
    <3>5. 0 <= Limit[k].num
      BY <2>1
    <3>6. Places(k)'
      BY <1>1, <2>4, <3>2, <3>5 DEF Places
    <3>7. Lasts(k)'
      BY <2>4 DEF Lasts
    <3> QED
      BY <3>4, <3>6, <3>7 DEF InOrder
  <2> QED
    BY <1>1, <2>3, <2>4
<1>5. Window!Tick
  <2>1. now' > now
    BY <1>1, <1>2 DEF TypeOK
  <2> QED
    BY <1>1, <2>1 DEF Window!Tick
<1> QED
  BY <1>3, <1>4, <1>5 DEF Window!Next

LEMMA OrderStep ==
  ASSUME Prompt, OrderInv, [Next]_vars
  PROVE  OrderInv' /\ (orderly' => [Window!Next]_(Window!vars))
<1>1. DenyInv' /\ TypeInv
  BY DenyStep DEF OrderInv, DenyInv
<1> SUFFICES ASSUME orderly'
             PROVE  /\ Apart' /\ \A k \in Key : InOrder(k)'
                    /\ [Window!Next]_(Window!vars)
  BY <1>1 DEF OrderInv
<1>2. CASE UNCHANGED vars
  <2>1. orderly /\ Apart /\ \A k \in Key : InOrder(k)
    BY <1>2 DEF vars, OrderInv
  <2> QED
    BY <1>2, <2>1
    DEF vars, Apart, InOrder, Mirrors, Places, Lasts, Window!vars
<1>3. ASSUME NEW c \in Client, NEW k \in Key, Count(c, k)
      PROVE  /\ Apart' /\ \A j \in Key : InOrder(j)'
             /\ [Window!Next]_(Window!vars)
  <2>1. orderly /\ UNCHANGED <<passed, now, verdict>>
    BY <1>3 DEF Count
  <2> QED
    BY <1>3, <2>1, CountOrder DEF Window!vars
<1>4. ASSUME NEW c \in Client, Push(c)
      PROVE  /\ Apart' /\ \A j \in Key : InOrder(j)'
             /\ [Window!Next]_(Window!vars)
  <2>1. orderly /\ NoFault
    BY <1>1, <1>4, FaultType DEF Push
  <2> QED
    BY <1>4, <2>1, PushOrder
<1>5. ASSUME NEW c \in Client, OldestDecides(c)
      PROVE  /\ Apart' /\ \A j \in Key : InOrder(j)'
             /\ [Window!Next]_(Window!vars)
  <2>1. orderly
    BY <1>5 DEF OldestDecides
  <2> QED
    BY <1>5, <2>1, DecideOrder
<1>6. ASSUME NEW c \in Client, Trim(c) \/ Expire(c)
      PROVE  /\ Apart' /\ \A j \in Key : InOrder(j)'
             /\ [Window!Next]_(Window!vars)
  <2>1. orderly /\ NoFault
    BY <1>1, <1>6, FaultType DEF Trim, Expire
  <2>2. UNCHANGED Window!vars
    BY <1>6 DEF Trim, Expire, Window!vars
  <2> QED
    BY <1>6, <2>1, <2>2, TrimOrder, ExpireOrder
<1>7. ASSUME NEW c \in Client PROVE ~ Restart(c)
  BY DEF Restart, Fault
<1>8. CASE Tick
  <2>1. orderly
    BY <1>8 DEF Tick
  <2> QED
    BY <1>8, <2>1, TickOrder
<1> QED
  BY <1>2, <1>3, <1>4, <1>5, <1>6, <1>7, <1>8 DEF Next

\* While requests for one key do not overlap, none outlives its second and no command
\* fails, the limiter decides as one that remembers all it let through: the list that
\* is trimmed and expires forgets nothing that counts (redisRateLimiter).
THEOREM Implementation == ASSUME Prompt PROVE Spec => ImplementsSlidingWindow
<1>1. Init => Window!Init
  BY DEF Init, Window!Init
<1>2. OrderInv /\ [Next]_vars => OrderInv'
  BY OrderStep
<1>3. OrderInv /\ [Next]_vars => [orderly' => [Window!Next]_(Window!vars)]_vars
  BY OrderStep
<1>4. Spec => []OrderInv
  BY OrderInit, <1>2, PTL DEF Spec
<1> QED
  BY <1>1, <1>3, <1>4, PTL DEF Spec, ImplementsSlidingWindow
-------------------------------------------------------------------------------
\* How many requests are let through when they overlap.

InFlight == Cardinality(Client)

\* How many requests for a key are about to send a command.
Number(k, command) == Cardinality({c \in Client : arg[c] = k /\ pc[c] = command})

Is(c, k, command) == arg[c] = k /\ pc[c] = command

\* The number is that of a set with c or without it.
LEMMA NumberIs ==
  ASSUME NEW c \in Client, NEW k, NEW command
  PROVE  LET others == {d \in Client \ {c} : Is(d, k, command)}
         IN  /\ Cardinality(others) \in Nat
             /\ Number(k, command)
                  = IF Is(c, k, command) THEN Cardinality(others) + 1 ELSE Cardinality(others)
<1> DEFINE others == {d \in Client \ {c} : Is(d, k, command)}
           all == {d \in Client : arg[d] = k /\ pc[d] = command}
<1>1. IsFiniteSet(others) /\ others \in SUBSET Client /\ c \notin others
  BY ClientAssumption, FS_Subset
<1>2. Is(c, k, command) => all = others \cup {c}
  BY DEF Is
<1>3. ~ Is(c, k, command) => all = others
  BY DEF Is
<1>4. Number(k, command) = Cardinality(all)
  BY DEF Number
<1> HIDE DEF others, all
<1>5. Cardinality(others) \in Nat /\ Cardinality(others \cup {c}) = Cardinality(others) + 1
  BY <1>1, FS_CardinalityType, FS_AddElement
<1>6. Number(k, command)
        = IF Is(c, k, command) THEN Cardinality(others) + 1 ELSE Cardinality(others)
  BY <1>2, <1>3, <1>4, <1>5
<1> QED
  BY <1>5, <1>6 DEF others

\* A step of c changes what c is counted for, and nothing else.
LEMMA NumberMoves ==
  ASSUME NEW c \in Client, NEW k, NEW command,
         \A d \in Client \ {c} : arg'[d] = arg[d] /\ pc'[d] = pc[d]
  PROVE  /\ Number(k, command) \in Nat
         /\ (Is(c, k, command) <=> Is(c, k, command)') =>
              Number(k, command)' = Number(k, command)
         /\ ~ Is(c, k, command) /\ Is(c, k, command)' =>
              Number(k, command)' = Number(k, command) + 1
         /\ Is(c, k, command) /\ ~ Is(c, k, command)' =>
              Number(k, command)' = Number(k, command) - 1
<1> DEFINE others == {d \in Client \ {c} : Is(d, k, command)}
           later == {d \in Client \ {c} : arg'[d] = k /\ pc'[d] = command}
<1>1. others = later
  BY DEF Is
<1>2. /\ Cardinality(others) \in Nat
      /\ Number(k, command)
           = IF Is(c, k, command) THEN Cardinality(others) + 1 ELSE Cardinality(others)
  BY NumberIs
<1>3. Number(k, command)'
        = IF Is(c, k, command)' THEN Cardinality(later) + 1 ELSE Cardinality(later)
  <2> DEFINE all == {d \in Client : arg'[d] = k /\ pc'[d] = command}
  <2>1. IsFiniteSet(later) /\ later \in SUBSET Client /\ c \notin later
    BY ClientAssumption, FS_Subset
  <2>2. /\ Is(c, k, command)' => all = later \cup {c}
        /\ ~ Is(c, k, command)' => all = later
    BY DEF Is
  <2>3. Number(k, command)' = Cardinality(all)
    BY DEF Number
  <2> HIDE DEF later, all
  <2>4. Cardinality(later \cup {c}) = Cardinality(later) + 1
    BY <2>1, FS_AddElement
  <2> QED
    BY <2>2, <2>3, <2>4
<1> HIDE DEF others, later
<1> QED
  BY <1>1, <1>2, <1>3

\* A request is at one command, so no more than all are at two, and fewer when one is at
\* neither.
LEMMA NumbersAreBounded ==
  ASSUME NEW k, NEW x, NEW y, x # y, NEW c \in Client
  PROVE  /\ InFlight \in Nat \ {0}
         /\ Number(k, x) \in Nat /\ Number(k, y) \in Nat
         /\ Number(k, x) + Number(k, y) <= InFlight
         /\ ~ Is(c, k, x) /\ ~ Is(c, k, y) => (Number(k, x) + Number(k, y)) + 1 <= InFlight
<1> DEFINE S == {d \in Client : arg[d] = k /\ pc[d] = x}
           T == {d \in Client : arg[d] = k /\ pc[d] = y}
<1>1. IsFiniteSet(S) /\ IsFiniteSet(T) /\ S \cap T = {} /\ S \cup T \in SUBSET Client
  BY ClientAssumption, FS_Subset
<1>2. Number(k, x) = Cardinality(S) /\ Number(k, y) = Cardinality(T)
  BY DEF Number
<1>3. ~ Is(c, k, x) /\ ~ Is(c, k, y) =>
        (S \cup T) \cup {c} \in SUBSET Client /\ c \notin S \cup T
  BY DEF Is
<1> HIDE DEF S, T
<1>4. /\ Cardinality(S) \in Nat /\ Cardinality(T) \in Nat /\ InFlight \in Nat
      /\ InFlight # 0
  BY <1>1, ClientAssumption, FS_CardinalityType, FS_EmptySet DEF InFlight
<1>5. IsFiniteSet(S \cup T) /\ Cardinality(S \cup T) = Cardinality(S) + Cardinality(T)
  <2>1. Cardinality(S \cup T) = Cardinality(S) + Cardinality(T) - Cardinality(S \cap T)
    BY <1>1, FS_Union
  <2>2. Cardinality(S \cap T) = 0
    BY <1>1, FS_EmptySet
  <2>3. IsFiniteSet(S \cup T)
    BY <1>1, FS_Union
  <2> QED
    BY <1>4, <2>1, <2>2, <2>3
<1>6. Cardinality(S \cup T) <= InFlight
  BY <1>1, ClientAssumption, FS_Subset DEF InFlight
<1>7. ASSUME ~ Is(c, k, x), ~ Is(c, k, y) PROVE Cardinality(S \cup T) + 1 <= InFlight
  <2>1. Cardinality((S \cup T) \cup {c}) = Cardinality(S \cup T) + 1
    BY <1>3, <1>5, <1>7, FS_AddElement
  <2>2. Cardinality((S \cup T) \cup {c}) <= InFlight
    BY <1>3, <1>7, ClientAssumption, FS_Subset DEF InFlight
  <2> QED
    BY <2>1, <2>2
<1> QED
  BY <1>2, <1>4, <1>5, <1>6, <1>7

\* Those that found room, those that saw an old time, and those that did and have pushed.
FirstPushes(k) == Number(k, "FirstLPUSH")
Pushes(k) == Number(k, "LPUSH")
Trims(k) == Number(k, "LTRIM")

LEMMA CommandsAreBounded ==
  ASSUME NEW k, NEW c \in Client
  PROVE  /\ InFlight \in Nat \ {0}
         /\ FirstPushes(k) \in Nat /\ Pushes(k) \in Nat
         /\ Trims(k) \in Nat
         /\ FirstPushes(k) + Pushes(k) <= InFlight
         /\ Trims(k) + Pushes(k) <= InFlight
         /\ ~ Is(c, k, "FirstLPUSH") /\ ~ Is(c, k, "LPUSH")
              => (FirstPushes(k) + Pushes(k)) + 1 <= InFlight
         /\ ~ Is(c, k, "LTRIM") /\ ~ Is(c, k, "LPUSH")
              => (Trims(k) + Pushes(k)) + 1 <= InFlight
<1>1. "FirstLPUSH" # "LPUSH" /\ "LTRIM" # "LPUSH"
  OBVIOUS
<1>2. \A x, y : x # y =>
        /\ InFlight \in Nat \ {0}
        /\ Number(k, x) \in Nat /\ Number(k, y) \in Nat
        /\ Number(k, x) + Number(k, y) <= InFlight
        /\ ~ Is(c, k, x) /\ ~ Is(c, k, y) => (Number(k, x) + Number(k, y)) + 1 <= InFlight
  BY NumbersAreBounded, Zenon
<1> QED
  BY <1>1, <1>2, Zenon DEF FirstPushes, Pushes, Trims

LEMMA CommandsMove ==
  ASSUME NEW k, NEW c \in Client,
         \A d \in Client \ {c} : arg'[d] = arg[d] /\ pc'[d] = pc[d]
  PROVE  /\ FirstPushes(k) \in Nat /\ Pushes(k) \in Nat /\ Trims(k) \in Nat
         /\ FirstPushes(k)'
              = (IF arg'[c] = k /\ pc'[c] = "FirstLPUSH"
                   THEN IF arg[c] = k /\ pc[c] = "FirstLPUSH" THEN FirstPushes(k)
                        ELSE FirstPushes(k) + 1
                   ELSE IF arg[c] = k /\ pc[c] = "FirstLPUSH" THEN FirstPushes(k) - 1
                        ELSE FirstPushes(k))
         /\ Pushes(k)'
              = (IF arg'[c] = k /\ pc'[c] = "LPUSH"
                   THEN IF arg[c] = k /\ pc[c] = "LPUSH" THEN Pushes(k) ELSE Pushes(k) + 1
                   ELSE IF arg[c] = k /\ pc[c] = "LPUSH" THEN Pushes(k) - 1 ELSE Pushes(k))
         /\ Trims(k)'
              = (IF arg'[c] = k /\ pc'[c] = "LTRIM"
                   THEN IF arg[c] = k /\ pc[c] = "LTRIM" THEN Trims(k) ELSE Trims(k) + 1
                   ELSE IF arg[c] = k /\ pc[c] = "LTRIM" THEN Trims(k) - 1 ELSE Trims(k))
<1>1. ASSUME NEW command
      PROVE  /\ Number(k, command) \in Nat
             /\ Number(k, command)'
                  = (IF arg'[c] = k /\ pc'[c] = command
                       THEN IF arg[c] = k /\ pc[c] = command THEN Number(k, command)
                            ELSE Number(k, command) + 1
                       ELSE IF arg[c] = k /\ pc[c] = command THEN Number(k, command) - 1
                            ELSE Number(k, command))
  BY NumberMoves DEF Is
<1> QED
  BY <1>1, Zenon DEF FirstPushes, Pushes, Trims

-------------------------------------------------------------------------------
\* At most x of the times in p are less than d old.
Few(p, x, d, t) == \A i \in 1..Len(p) : i > x => t - Newest(p, i) >= d

LEMMA NewestIsNat ==
  ASSUME NEW p \in Seq(Nat), NEW i \in 1..Len(p)
  PROVE  Newest(p, i) \in Nat
<1>1. Len(p) + 1 - i \in 1..Len(p)
  OBVIOUS
<1> QED
  BY <1>1 DEF Newest

LEMMA FewLater ==
  ASSUME NEW p \in Seq(Nat), NEW x \in Int, NEW y \in Int, x <= y,
         NEW d \in Nat, NEW t \in Nat, Few(p, x, d, t)
  PROVE  Few(p, y, d, t) /\ Few(p, y, d, t + 1)
<1>1. ASSUME NEW i \in 1..Len(p), i > y
      PROVE  t - Newest(p, i) >= d /\ (t + 1) - Newest(p, i) >= d
  <2>1. i \in Int /\ i > x
    BY <1>1
  <2>2. t - Newest(p, i) >= d
    BY <2>1 DEF Few
  <2>3. Newest(p, i) \in Nat
    BY NewestIsNat
  <2> QED
    BY <2>2, <2>3
<1> QED
  BY <1>1 DEF Few

\* A time more is one more that is young.
LEMMA FewPush ==
  ASSUME NEW p \in Seq(Nat), NEW x \in Nat, NEW d \in Nat, NEW t \in Nat, Few(p, x, d, t)
  PROVE  Few(Append(p, t), x + 1, d, t)
<1> DEFINE r == Append(p, t)
<1>1. /\ Len(r) = Len(p) + 1
      /\ \A i \in 2..(Len(p) + 1) : Newest(r, i) = Newest(p, i - 1)
  BY Appended
<1> HIDE DEF r
<1>2. Len(p) \in Nat
  OBVIOUS
<1>3. ASSUME NEW i \in 1..Len(r), i > x + 1 PROVE t - Newest(r, i) >= d
  <2>1. i \in 2..(Len(p) + 1) /\ i - 1 \in 1..Len(p) /\ i - 1 > x
    BY <1>1, <1>2, <1>3
  <2> QED
    BY <1>1, <2>1 DEF Few
<1> QED
  BY <1>3 DEF Few, r

\* Times that are m apart stay d apart.
LEMMA FewSpaced ==
  ASSUME NEW p \in Seq(Nat), NEW m \in Nat \ {0}, NEW d \in Nat, NEW t \in Nat,
         Few(p, m - 1, d, t), \A i \in 1..(Len(p) - m) : p[i + m] - p[i] >= d
  PROVE  \A i \in 1..(Len(Append(p, t)) - m) :
           Append(p, t)[i + m] - Append(p, t)[i] >= d
<1> DEFINE r == Append(p, t)
<1>1. /\ Len(r) = Len(p) + 1
      /\ r[Len(p) + 1] = t
      /\ \A i \in 1..Len(p) : r[i] = p[i]
  BY Appended
<1> HIDE DEF r
<1>2. Len(p) \in Nat
  OBVIOUS
<1>3. ASSUME NEW i \in 1..(Len(r) - m) PROVE r[i + m] - r[i] >= d
  <2>1. i \in 1..Len(p) /\ r[i] = p[i]
    BY <1>1, <1>2
  <2>2. CASE i = Len(p) + 1 - m
    <3>1. i + m = Len(p) + 1 /\ r[i + m] = t
      BY <1>1, <1>2, <2>2
    <3>2. m \in 1..Len(p) /\ m > m - 1
      BY <1>2, <2>1, <2>2
    <3>3. t - Newest(p, m) >= d /\ Newest(p, m) = p[i]
      BY <2>2, <3>2 DEF Few, Newest
    <3> QED
      BY <2>1, <3>1, <3>3
  <2>3. CASE i # Len(p) + 1 - m
    <3>1. i \in Nat /\ 1 <= i /\ i <= Len(r) - m /\ Len(r) = Len(p) + 1
      BY <1>1, <1>2
    <3>2. i + m # Len(p) + 1
      BY <1>2, <2>3, <3>1
    <3>3. i + m <= Len(p)
      <4>1. \A a, b \in Nat : a <= (b + 1) - m /\ a + m # b + 1 => a + m <= b
        OBVIOUS
      <4> QED
        BY <1>2, <3>1, <3>2, <4>1
    <3>4. i \in 1..(Len(p) - m) /\ i + m \in 1..Len(p)
      BY <1>2, <3>1, <3>3
    <3> QED
      BY <1>1, <2>1, <3>4
  <2> QED
    BY <2>2, <2>3
<1> QED
  BY <1>3 DEF r

\* Where one time is old, so are those before it.
LEMMA OldStayOld ==
  ASSUME NEW p \in Seq(Nat), NEW d \in Nat, NEW t \in Nat, Ascending(p, t),
         NEW x \in Nat, x < Len(p) => t - Newest(p, x + 1) >= d
  PROVE  Few(p, x, d, t)
<1>1. ASSUME NEW i \in 1..Len(p), i > x PROVE t - Newest(p, i) >= d
  <2>1. /\ x + 1 \in 1..Len(p) /\ x < Len(p)
        /\ Len(p) + 1 - i \in 1..Len(p) /\ Len(p) + 1 - (x + 1) \in 1..Len(p)
        /\ Len(p) + 1 - i <= Len(p) + 1 - (x + 1)
    BY <1>1
  <2>2. Newest(p, i) <= Newest(p, x + 1)
    BY <2>1 DEF Ascending, Newest
  <2>3. Newest(p, i) \in Nat /\ Newest(p, x + 1) \in Nat /\ t - Newest(p, x + 1) >= d
    BY <2>1, NewestIsNat
  <2> QED
    BY <2>2, <2>3
<1> QED
  BY <1>1 DEF Few

\* Room in the list, or an oldest time that is old, bounds what is young.
LEMMA RoomIsFew ==
  ASSUME NEW l \in Seq(Nat), NEW p \in Seq(Nat), NEW n \in Nat, NEW d \in Nat, NEW t \in Nat,
         Ascending(p, t), Len(l) <= Len(p), Complete(l, p, n, d, t), Len(l) < n
  PROVE  Few(p, Len(l), d, t)
<1>1. Len(l) \in Nat
  OBVIOUS
<1> QED
  BY <1>1, OldStayOld DEF Complete

LEMMA OldestIsFew ==
  ASSUME NEW l \in Seq(Nat), NEW p \in Seq(Nat), NEW d \in Nat, NEW t \in Nat,
         Ascending(p, t), Len(l) <= Len(p), Reflects(l, p), l # <<>>,
         t - l[Len(l)] >= d
  PROVE  Len(l) \in Nat \ {0} /\ Few(p, Len(l) - 1, d, t)
<1>1. Len(l) \in Nat \ {0} /\ Len(l) - 1 \in Nat /\ (Len(l) - 1) + 1 = Len(l)
  OBVIOUS
<1>2. l[Len(l)] = Newest(p, Len(l))
  BY <1>1 DEF Reflects
<1>3. Few(p, Len(l) - 1, d, t)
  BY <1>1, <1>2, OldStayOld
<1> QED
  BY <1>1, <1>3
-------------------------------------------------------------------------------
\* The limit is overshot by no more than two for each other request.

Most(k) == Limit[k].num + 2 * (InFlight - 1)

\* How many may be young, so that those which have passed the check still fit.
Room(k) == Most(k) - (FirstPushes(k) + Pushes(k))

\* The list is longer than its limit by the requests that found room when it was short,
\* and by those that have yet to trim it.
Bounded(k) ==
  Len(list[k]) + FirstPushes(k)
    <= ((Limit[k].num - 1) + InFlight) + Trims(k)

Counted(k) ==
  /\ Mirrors(k)
  /\ Lasts(k)
  /\ Bounded(k)
  /\ Few(passed[k], Room(k), Limit[k].duration, now)
  /\ Spaced(k, Most(k))

CountInv == DenyInv /\ (faults = 0 => \A k \in Key : Counted(k))

LEMMA CountTypes ==
  ASSUME DenyInv, NEW k \in Key, NEW c \in Client
  PROVE  /\ list[k] \in Seq(Nat) /\ passed[k] \in Seq(Nat) /\ now \in Nat
         /\ Len(list[k]) \in Nat /\ Len(list[k]) <= Len(passed[k])
         /\ Limit[k].num \in Nat \ {0} /\ Limit[k].duration \in Nat
         /\ Ascending(passed[k], now)
         /\ InFlight \in Nat \ {0} /\ Most(k) \in Nat \ {0}
         /\ FirstPushes(k) \in Nat /\ Pushes(k) \in Nat
         /\ Trims(k) \in Nat
         /\ Room(k) \in Nat /\ Room(k) + 1 >= Limit[k].num
<1>1. /\ list[k] \in Seq(Nat) /\ passed[k] \in Seq(Nat) /\ now \in Nat
      /\ Limit[k].num \in Nat \ {0} /\ Limit[k].duration \in Nat
  BY LimitAssumption DEF DenyInv, TypeInv, TypeOK
<1>2. Ascending(passed[k], now) /\ Len(list[k]) <= Len(passed[k]) /\ Len(list[k]) \in Nat
  BY <1>1 DEF DenyInv, Behind
<1>3. /\ InFlight \in Nat \ {0}
      /\ FirstPushes(k) \in Nat /\ Pushes(k) \in Nat
      /\ Trims(k) \in Nat
      /\ FirstPushes(k) + Pushes(k) <= InFlight
  BY CommandsAreBounded
<1>4. Most(k) \in Nat \ {0} /\ Room(k) \in Nat /\ Room(k) + 1 >= Limit[k].num
  <2>1. PICK n, f, a, b \in Nat :
          /\ n = Limit[k].num /\ f = InFlight
          /\ a = FirstPushes(k) /\ b = Pushes(k)
    BY <1>1, <1>3, Zenon
  <2>2. n # 0 /\ f # 0 /\ a + b <= f
    BY <1>1, <1>3, <2>1
  <2>3. Most(k) = n + 2 * (f - 1) /\ Room(k) = Most(k) - (a + b)
    BY <2>1, Zenon DEF Most, Room
  <2> QED
    BY <2>1, <2>2, <2>3
<1> QED
  BY <1>1, <1>2, <1>3, <1>4

\* What a step of c leaves as it is of key k.
Leaves(c, k) ==
  /\ list'[k] = list[k] /\ passed'[k] = passed[k] /\ expireAt'[k] = expireAt[k]
  /\ now' = now
  /\ \A d \in Client \ {c} : arg'[d] = arg[d] /\ pc'[d] = pc[d]

LEMMA Undisturbed ==
  ASSUME NEW c \in Client, NEW k \in Key, Counted(k), Leaves(c, k),
         \A command \in {"FirstLPUSH", "LPUSH", "LTRIM"} :
           Is(c, k, command) <=> Is(c, k, command)',
         Is(c, k, "EXPIRE") => Is(c, k, "EXPIRE")'
  PROVE  Counted(k)'
<1>1. /\ FirstPushes(k)' = FirstPushes(k)
      /\ Pushes(k)' = Pushes(k)
      /\ Trims(k)' = Trims(k)
  <2>1. \A command \in {"FirstLPUSH", "LPUSH", "LTRIM"} :
          arg[c] = k /\ pc[c] = command <=> arg'[c] = k /\ pc'[c] = command
    BY DEF Is
  <2> QED
    BY <2>1, CommandsMove DEF Leaves
<1>2. Room(k)' = Room(k) /\ Most(k)' = Most(k)
  BY <1>1 DEF Room, Most
<1>3. Mirrors(k)'
  BY DEF Counted, Mirrors, Leaves
<1>4. Lasts(k)'
  <2>1. (\A d \in Client : pc'[d] \in {"LTRIM", "EXPIRE"} => arg'[d] # k) =>
          \A d \in Client : pc[d] \in {"LTRIM", "EXPIRE"} => arg[d] # k
    BY DEF Leaves, Is
  <2> QED
    BY <2>1 DEF Counted, Lasts, Leaves
<1>5. Bounded(k)'
  BY <1>1 DEF Counted, Bounded, Leaves
<1>6. Few(passed[k], Room(k), Limit[k].duration, now)' /\ Spaced(k, Most(k))'
  BY <1>2 DEF Counted, Leaves, Few, Spaced
<1> QED
  BY <1>3, <1>4, <1>5, <1>6 DEF Counted

\* A request that passes the check is one more that is about to push.
LEMMA PassesCheck ==
  ASSUME DenyInv, NEW c \in Client, NEW k \in Key, Counted(k), Leaves(c, k),
         pc[c] \in {"LLEN", "LINDEX"}, arg'[c] = k,
         \/ /\ pc'[c] = "FirstLPUSH" /\ Len(list[k]) < Limit[k].num
         \/ /\ pc'[c] = "LPUSH" /\ list[k] # <<>>
            /\ now - list[k][Len(list[k])] >= Limit[k].duration
  PROVE  Counted(k)'
<1> DEFINE l == list[k]
           p == passed[k]
           n == Limit[k].num
           d == Limit[k].duration
           first == FirstPushes(k)
           second == Pushes(k)
           trims == Trims(k)
<1>1. /\ l \in Seq(Nat) /\ p \in Seq(Nat) /\ now \in Nat /\ Len(l) \in Nat
      /\ Len(l) <= Len(p) /\ n \in Nat \ {0} /\ d \in Nat /\ Ascending(p, now)
      /\ InFlight \in Nat \ {0} /\ Room(k) \in Nat
      /\ first \in Nat /\ second \in Nat /\ trims \in Nat
  BY CountTypes
<1>2. ~ Is(c, k, "FirstLPUSH") /\ ~ Is(c, k, "LPUSH") /\ ~ Is(c, k, "LTRIM")
  BY DEF Is
<1>3. (first + second) + 1 <= InFlight /\ (trims + second) + 1 <= InFlight
  BY <1>2, CommandsAreBounded, Zenon
<1>4. Trims(k)' = trims
  BY CommandsMove DEF Leaves
<1>5. Reflects(l, p) /\ Complete(l, p, n, d, now) /\ Spaced(k, Most(k))
      /\ Len(l) + first <= ((n - 1) + InFlight) + trims
  BY DEF Counted, Mirrors, Bounded
<1>6. Mirrors(k)'
  BY DEF Counted, Mirrors, Leaves
<1>7. Lasts(k)'
  <2>1. (\A e \in Client : pc'[e] \in {"LTRIM", "EXPIRE"} => arg'[e] # k) =>
          \A e \in Client : pc[e] \in {"LTRIM", "EXPIRE"} => arg[e] # k
    BY DEF Leaves
  <2> QED
    BY <2>1 DEF Counted, Lasts, Leaves
<1>8. Most(k)' = Most(k)
  BY DEF Most
<1>9. Spaced(k, Most(k))'
  BY <1>5, <1>8 DEF Spaced, Leaves
<1>10. /\ FirstPushes(k)' \in Nat /\ Pushes(k)' \in Nat
       /\ FirstPushes(k)' + Pushes(k)' = (first + second) + 1
       /\ pc'[c] = "FirstLPUSH" => FirstPushes(k)' = first + 1
       /\ pc'[c] = "LPUSH" => FirstPushes(k)' = first
  <2>1. CASE pc'[c] = "FirstLPUSH"
    <3>1. FirstPushes(k)' = first + 1 /\ Pushes(k)' = second
      BY <2>1, CommandsMove DEF Leaves
    <3>2. pc'[c] # "LPUSH" /\ (first + 1) + second = (first + second) + 1
      BY <1>1, <2>1
    <3> HIDE DEF first, second
    <3>3. first + 1 \in Nat
      BY <1>1
    <3> QED
      BY <1>1, <3>1, <3>2, <3>3
  <2>2. CASE pc'[c] = "LPUSH"
    <3>1. FirstPushes(k)' = first /\ Pushes(k)' = second + 1
      BY <2>2, CommandsMove DEF Leaves
    <3>2. pc'[c] # "FirstLPUSH" /\ first + (second + 1) = (first + second) + 1
      BY <1>1, <2>2
    <3> HIDE DEF first, second
    <3>3. second + 1 \in Nat
      BY <1>1
    <3> QED
      BY <1>1, <3>1, <3>2, <3>3
  <2> QED
    BY <2>1, <2>2
<1>11. Room(k)' = Most(k) - ((first + second) + 1)
  BY <1>8, <1>10 DEF Room
<1>12. Most(k) = n + 2 * (InFlight - 1)
  BY DEF Most
<1> HIDE DEF l, p, n, d, first, second, trims
<1>a. \A a, b, e, f, t \in Nat :
        /\ f # 0 /\ (a + b) + 1 <= f =>
             \A x \in Nat : x < e =>
               /\ x + (a + 1) <= ((e - 1) + f) + t
               /\ x <= (e + 2 * (f - 1)) - ((a + b) + 1)
        /\ (t + b) + 1 <= f =>
             \A x \in Nat : x + a <= ((e - 1) + f) + t =>
               x - 1 <= (e + 2 * (f - 1)) - ((a + b) + 1)
  OBVIOUS
<1>b. Room(k)' \in Int
  BY <1>1, <1>11, <1>12
<1>13. Bounded(k)' /\ Few(p, Room(k)', d, now)
  <2>1. CASE pc'[c] = "FirstLPUSH"
    <3>1. Len(l) < n
      BY <2>1 DEF l, n
    <3>2. Len(l) + (first + 1) <= ((n - 1) + InFlight) + trims
      BY <1>1, <1>3, <1>a, <3>1
    <3>3. Few(p, Len(l), d, now)
      BY <1>1, <1>5, <3>1, RoomIsFew
    <3>4. Room(k)' \in Int /\ Len(l) <= Room(k)'
      BY <1>1, <1>3, <1>11, <1>12, <1>a, <1>b, <3>1
    <3>5. Few(p, Room(k)', d, now)
      BY <1>1, <3>3, <3>4, FewLater
    <3> QED
      BY <1>4, <1>10, <2>1, <3>2, <3>5 DEF Bounded, Leaves, l, n
  <2>2. CASE pc'[c] = "LPUSH"
    <3>1. l # <<>> /\ now - l[Len(l)] >= d
      BY <2>2 DEF l, d
    <3>2. Len(l) \in Nat \ {0} /\ Few(p, Len(l) - 1, d, now)
      BY <1>1, <1>5, <3>1, OldestIsFew
    <3>3. Room(k)' \in Int /\ Len(l) - 1 \in Int /\ Len(l) - 1 <= Room(k)'
      BY <1>1, <1>3, <1>5, <1>11, <1>12, <1>a, <1>b
    <3>4. Few(p, Room(k)', d, now)
      BY <1>1, <3>2, <3>3, FewLater
    <3> QED
      BY <1>4, <1>5, <1>10, <2>2, <3>4 DEF Bounded, Leaves, l, n
  <2> QED
    BY <2>1, <2>2
<1>14. Few(passed[k], Room(k), Limit[k].duration, now)'
  BY <1>13 DEF Leaves, p, d
<1> QED
  BY <1>6, <1>7, <1>9, <1>13, <1>14 DEF Counted

LEMMA CountCounted ==
  ASSUME DenyInv, \A j \in Key : Counted(j), NEW c \in Client, NEW k \in Key, Count(c, k)
  PROVE  \A j \in Key : Counted(j)'
<1>1. /\ pc[c] = "LLEN" /\ pc'[c] \in {"FirstLPUSH", "LINDEX"} /\ arg'[c] = k
      /\ pc'[c] = "FirstLPUSH" => Len(list[k]) < Limit[k].num
      /\ \A j \in Key : Leaves(c, j)
  BY DEF Count, GoTo, Leaves, DenyInv, TypeInv, TypeOK
<1>2. ASSUME NEW j \in Key, ~ (j = k /\ pc'[c] = "FirstLPUSH") PROVE Counted(j)'
  BY <1>1, <1>2, Undisturbed DEF Is
<1>3. ASSUME pc'[c] = "FirstLPUSH" PROVE Counted(k)'
  BY <1>1, <1>3, PassesCheck
<1> QED
  BY <1>2, <1>3

LEMMA DecideCounted ==
  ASSUME DenyInv, \A j \in Key : Counted(j), NEW c \in Client, OldestDecides(c)
  PROVE  \A j \in Key : Counted(j)'
<1>0. PICK k \in Key : k = arg[c]
  BY DEF OldestDecides, DenyInv, TypeInv
<1>1. /\ pc[c] = "LINDEX" /\ pc'[c] \in {"LLEN", "EXPIRE", "LPUSH"}
      /\ pc'[c] = "LPUSH" =>
           /\ arg'[c] = k /\ list[k] # <<>>
           /\ now - list[k][Len(list[k])] >= Limit[k].duration
      /\ \A j \in Key : Leaves(c, j)
  <2>1. /\ pc[c] = "LINDEX"
        /\ \A d \in Client \ {c} : arg'[d] = arg[d] /\ pc'[d] = pc[d]
        /\ UNCHANGED <<list, passed, expireAt, now>>
        /\ IF list[k] = <<>> THEN Done(c) ELSE Turn(c, list[k][Len(list[k])])
    BY <1>0 DEF OldestDecides, Turn, Done, GoTo, DenyInv, TypeInv, TypeOK
  <2>2. CASE list[k] = <<>>
    BY <2>1, <2>2 DEF Done, GoTo, DenyInv, TypeInv, TypeOK, Leaves
  <2>3. CASE list[k] # <<>>
    <3>1. CASE now - list[k][Len(list[k])] < Limit[k].duration
      BY <1>0, <2>1, <2>3, <3>1 DEF Turn, GoTo, DenyInv, TypeInv, TypeOK, Leaves
    <3>2. CASE ~ (now - list[k][Len(list[k])] < Limit[k].duration)
      <4>1. now - list[k][Len(list[k])] >= Limit[k].duration
        <5>1. Len(list[k]) \in 1..Len(list[k]) /\ list[k] \in Seq(Nat) /\ now \in Nat
              /\ Limit[k].duration \in Nat
          BY <2>3, LimitAssumption DEF DenyInv, TypeInv, TypeOK
        <5>2. list[k][Len(list[k])] \in Nat
          BY <5>1
        <5> QED
          BY <3>2, <5>1, <5>2
      <4>2. pc'[c] = "LPUSH" /\ arg' = arg
        BY <1>0, <2>1, <2>3, <3>2 DEF Turn, GoTo, DenyInv, TypeInv, TypeOK
      <4> QED
        BY <1>0, <2>1, <2>3, <4>1, <4>2 DEF Leaves
    <3> QED
      BY <3>1, <3>2
  <2> QED
    BY <2>2, <2>3
<1>2. ASSUME NEW j \in Key, ~ (j = k /\ pc'[c] = "LPUSH") PROVE Counted(j)'
  <2>1. arg'[c] = j => pc'[c] # "LPUSH"
    BY <1>1, <1>2
  <2> QED
    BY <1>1, <2>1, Undisturbed DEF Is
<1>3. ASSUME pc'[c] = "LPUSH" PROVE Counted(k)'
  BY <1>1, <1>3, PassesCheck
<1> QED
  BY <1>2, <1>3

\* The newest time is now, so what passed is apart if few are young.
LEMMA PushCounted ==
  ASSUME DenyInv, \A j \in Key : Counted(j), NEW c \in Client, Push(c), NoFault
  PROVE  \A j \in Key : Counted(j)'
<1>0. PICK k \in Key : k = arg[c]
  BY DEF Push, DenyInv, TypeInv
<1>1. /\ pc[c] \in {"FirstLPUSH", "LPUSH"}
      /\ list' = [list EXCEPT ![k] = <<now>> \o @]
      /\ passed' = [passed EXCEPT ![k] = Append(@, now)]
      /\ pc' = [pc EXCEPT ![c] = IF pc[c] = "LPUSH" THEN "LTRIM" ELSE "EXPIRE"]
      /\ UNCHANGED <<expireAt, arg, now>>
  <2>1. faults' # faults + 1
    BY DEF NoFault, DenyInv, TypeInv, TypeOK
  <2> QED
    BY <1>0, <2>1 DEF Push, GoTo, Fault
<1>2. TypeOK
  BY DEF DenyInv, TypeInv
<1>3. /\ \A d \in Client \ {c} : arg'[d] = arg[d] /\ pc'[d] = pc[d]
      /\ arg'[c] = k /\ arg[c] = k /\ now' = now
      /\ pc'[c] = IF pc[c] = "LPUSH" THEN "LTRIM" ELSE "EXPIRE"
      /\ list'[k] = <<now>> \o list[k] /\ passed'[k] = Append(passed[k], now)
      /\ \A j \in Key \ {k} :
           list'[j] = list[j] /\ passed'[j] = passed[j] /\ expireAt'[j] = expireAt[j]
  BY <1>0, <1>1, <1>2 DEF TypeOK
<1>4. ASSUME NEW j \in Key, j # k PROVE Counted(j)'
  BY <1>3, <1>4, Undisturbed DEF Leaves, Is
<1>5. Counted(k)'
  <2> DEFINE l == list[k]
             p == passed[k]
             n == Limit[k].num
             t == Limit[k].duration
  <2>1. /\ l \in Seq(Nat) /\ p \in Seq(Nat) /\ now \in Nat /\ Len(l) \in Nat
        /\ Len(l) <= Len(p) /\ n \in Nat \ {0} /\ t \in Nat
        /\ InFlight \in Nat \ {0} /\ Room(k) \in Nat /\ Most(k) \in Nat \ {0}
        /\ FirstPushes(k) \in Nat /\ Pushes(k) \in Nat /\ Trims(k) \in Nat
    BY CountTypes
  <2>2. /\ Reflects(l, p) /\ Complete(l, p, n, t, now) /\ Behind(l, p, now)
        /\ Bounded(k) /\ Few(p, Room(k), t, now) /\ Spaced(k, Most(k))
    BY DEF Counted, Mirrors, DenyInv
  <2>3. /\ Len(<<now>> \o l) = Len(l) + 1
        /\ Reflects(<<now>> \o l, Append(p, now))
        /\ Complete(<<now>> \o l, Append(p, now), n, t, now)
    BY <2>1, <2>2, Pushed, PushReflects
  <2>4. Mirrors(k)'
    BY <1>3, <2>3 DEF Mirrors
  <2>5. Lasts(k)'
    BY <1>3 DEF Lasts
  <2>6. /\ pc[c] = "FirstLPUSH" =>
             /\ FirstPushes(k)' = FirstPushes(k) - 1
             /\ Pushes(k)' = Pushes(k) /\ Trims(k)' = Trims(k)
        /\ pc[c] = "LPUSH" =>
             /\ FirstPushes(k)' = FirstPushes(k)
             /\ Pushes(k)' = Pushes(k) - 1 /\ Trims(k)' = Trims(k) + 1
    BY <1>3, CommandsMove
  <2>7. Bounded(k)'
    <3>1. Len(list'[k]) = Len(l) + 1
      BY <1>3, <2>3
    <3> HIDE DEF l
    <3>2. Len(l) + FirstPushes(k) <= ((n - 1) + InFlight) + Trims(k)
      BY <2>2 DEF Bounded, l
    <3>3. Len(list'[k]) + FirstPushes(k)' <= ((n - 1) + InFlight) + Trims(k)'
      <4> HIDE DEF n
      <4> QED
        BY <1>1, <2>1, <2>6, <3>1, <3>2
    <3> QED
      BY <3>3 DEF Bounded
  <2>8. Room(k)' = Room(k) + 1 /\ Most(k)' = Most(k) /\ Room(k) <= Most(k) - 1
    <3>1. Most(k)' = Most(k)
      BY DEF Most
    <3>2. FirstPushes(k)' + Pushes(k)' = (FirstPushes(k) + Pushes(k)) - 1
      BY <1>1, <2>1, <2>6
    <3>3. (FirstPushes(k) + Pushes(k)) - 1 \in Nat
      <4>1. Is(c, k, "FirstLPUSH") \/ Is(c, k, "LPUSH")
        BY <1>1, <1>3 DEF Is
      <4>2. FirstPushes(k) # 0 \/ Pushes(k) # 0
        <5>1. /\ Is(c, k, "FirstLPUSH") =>
                   FirstPushes(k) = Cardinality({d \in Client \ {c} : Is(d, k, "FirstLPUSH")}) + 1
              /\ Is(c, k, "LPUSH") =>
                   Pushes(k) = Cardinality({d \in Client \ {c} : Is(d, k, "LPUSH")}) + 1
              /\ Cardinality({d \in Client \ {c} : Is(d, k, "FirstLPUSH")}) \in Nat
              /\ Cardinality({d \in Client \ {c} : Is(d, k, "LPUSH")}) \in Nat
          BY NumberIs DEF FirstPushes, Pushes
        <5> QED
          BY <4>1, <5>1
      <4> QED
        BY <2>1, <4>2
    <3>4. Room(k)' = Most(k) - ((FirstPushes(k) + Pushes(k)) - 1)
      BY <3>1, <3>2 DEF Room
    <3>5. Room(k) = Most(k) - (FirstPushes(k) + Pushes(k))
      BY DEF Room
    <3> QED
      BY <2>1, <3>1, <3>3, <3>4, <3>5
  <2>9. Few(Append(p, now), Room(k) + 1, t, now)
    BY <2>1, <2>2, FewPush
  <2>10. Few(p, Most(k) - 1, t, now)
    <3>1. Room(k) \in Int /\ Most(k) - 1 \in Int
      BY <2>1
    <3> QED
      BY <2>1, <2>2, <2>8, <3>1, FewLater
  <2>11. \A i \in 1..(Len(Append(p, now)) - Most(k)) :
           Append(p, now)[i + Most(k)] - Append(p, now)[i] >= t
    <3>1. \A i \in 1..(Len(p) - Most(k)) : p[i + Most(k)] - p[i] >= t
      BY <2>2 DEF Spaced
    <3> HIDE DEF p, t
    <3> QED
      BY <2>1, <2>10, <3>1, FewSpaced
  <2>12. Few(passed[k], Room(k), Limit[k].duration, now)'
    BY <1>3, <2>8, <2>9
  <2>13. Spaced(k, Most(k))'
    BY <1>3, <2>8, <2>11 DEF Spaced
  <2> QED
    BY <2>4, <2>5, <2>7, <2>12, <2>13 DEF Counted
<1> QED
  BY <1>4, <1>5
LEMMA TrimCounted ==
  ASSUME DenyInv, \A j \in Key : Counted(j), NEW c \in Client, Trim(c), NoFault
  PROVE  \A j \in Key : Counted(j)'
<1>0. PICK k \in Key : k = arg[c]
  BY DEF Trim, DenyInv, TypeInv
<1> DEFINE l == list[k]
           p == passed[k]
           n == Limit[k].num
           s == Trimmed(l, n - 1)
<1>1. /\ pc[c] = "LTRIM"
      /\ list' = [list EXCEPT ![k] = s]
      /\ pc' = [pc EXCEPT ![c] = "EXPIRE"]
      /\ UNCHANGED <<expireAt, arg, now, passed>>
  <2>1. faults' # faults + 1
    BY DEF NoFault, DenyInv, TypeInv, TypeOK
  <2> QED
    BY <1>0, <2>1 DEF Trim, GoTo, Fault
<1>2. TypeOK
  BY DEF DenyInv, TypeInv
<1> HIDE DEF s
<1>3. /\ \A d \in Client \ {c} : arg'[d] = arg[d] /\ pc'[d] = pc[d]
      /\ arg'[c] = k /\ arg[c] = k /\ pc'[c] = "EXPIRE" /\ pc[c] = "LTRIM"
      /\ list'[k] = s /\ UNCHANGED <<expireAt, now, passed>>
      /\ \A j \in Key \ {k} : list'[j] = list[j]
  BY <1>0, <1>1, <1>2 DEF TypeOK
<1>4. ASSUME NEW j \in Key, j # k PROVE Counted(j)'
  BY <1>3, <1>4, Undisturbed DEF Leaves, Is
<1>5. Counted(k)'
  <2>1. /\ l \in Seq(Nat) /\ Len(l) \in Nat /\ n \in Nat \ {0} /\ InFlight \in Nat \ {0}
        /\ FirstPushes(k) \in Nat /\ Pushes(k) \in Nat /\ Trims(k) \in Nat
    BY CountTypes
  <2>2. /\ Reflects(l, p) /\ Complete(l, p, n, Limit[k].duration, now)
        /\ Few(p, Room(k), Limit[k].duration, now) /\ Spaced(k, Most(k))
    BY DEF Counted, Mirrors
  <2>3. /\ Len(s) = (IF Len(l) < n THEN Len(l) ELSE n)
        /\ \A i \in 1..Len(s) : s[i] = l[i]
    BY <2>1, TrimmedIs DEF s
  <2>4. Len(s) \in Nat /\ Len(s) <= n /\ (Len(s) < n => Len(s) = Len(l)) /\ Len(s) <= Len(l)
    <3> HIDE DEF l, n
    <3> QED
      BY <2>1, <2>3
  <2>5. Mirrors(k)'
    <3>1. \A i \in 1..Len(s) : i \in 1..Len(l)
      <4> HIDE DEF l
      <4> QED
        BY <2>1, <2>4
    <3>2. Reflects(s, p)
      BY <2>2, <2>3, <3>1 DEF Reflects
    <3>3. Complete(s, p, n, Limit[k].duration, now)
      <4> HIDE DEF l, p, n
      <4> QED
        BY <2>2, <2>4 DEF Complete
    <3> QED
      BY <1>3, <3>2, <3>3 DEF Mirrors
  <2>6. Lasts(k)'
    BY <1>3 DEF Lasts
  <2>7. /\ FirstPushes(k)' = FirstPushes(k) /\ Pushes(k)' = Pushes(k)
        /\ Trims(k)' = Trims(k) - 1
    BY <1>3, CommandsMove
  <2>8. FirstPushes(k) + 1 <= InFlight
    <3>1. ~ Is(c, k, "FirstLPUSH") /\ ~ Is(c, k, "LPUSH")
      BY <1>3 DEF Is
    <3>2. (FirstPushes(k) + Pushes(k)) + 1 <= InFlight
      BY <3>1, CommandsAreBounded
    <3> QED
      BY <2>1, <3>2
  <2>9. Trims(k) # 0
    <3>1. /\ Trims(k) = Cardinality({d \in Client \ {c} : Is(d, k, "LTRIM")}) + 1
          /\ Cardinality({d \in Client \ {c} : Is(d, k, "LTRIM")}) \in Nat
      BY <1>3, NumberIs DEF Trims, Is
    <3> QED
      BY <3>1
  <2>10. Bounded(k)'
    <3>1. Len(s) + FirstPushes(k) <= ((n - 1) + InFlight) + (Trims(k) - 1)
      <4> HIDE DEF l, n
      <4> QED
        BY <2>1, <2>4, <2>8, <2>9
    <3> QED
      BY <1>3, <2>7, <3>1 DEF Bounded
  <2>11. Room(k)' = Room(k) /\ Most(k)' = Most(k)
    BY <2>7 DEF Room, Most
  <2>12. Few(passed[k], Room(k), Limit[k].duration, now)' /\ Spaced(k, Most(k))'
    BY <1>3, <2>2, <2>11 DEF Spaced
  <2> QED
    BY <2>5, <2>6, <2>10, <2>12 DEF Counted
<1> QED
  BY <1>4, <1>5

LEMMA ExpireCounted ==
  ASSUME DenyInv, \A j \in Key : Counted(j), NEW c \in Client, Expire(c), NoFault
  PROVE  \A j \in Key : Counted(j)'
<1>0. PICK k \in Key : k = arg[c]
  BY DEF Expire, DenyInv, TypeInv
<1> DEFINE p == passed[k]
           at == IF list[k] = <<>> THEN None ELSE now + Expiration
<1>1. /\ pc[c] = "EXPIRE" /\ arg[c] = k
      /\ expireAt' = [expireAt EXCEPT ![k] = at]
      /\ pc'[c] = "LLEN" /\ \A d \in Client \ {c} : pc'[d] = pc[d] /\ arg'[d] = arg[d]
      /\ UNCHANGED <<list, now, passed>>
  <2>1. faults' # faults + 1
    BY DEF NoFault, DenyInv, TypeInv, TypeOK
  <2> QED
    BY <1>0, <2>1 DEF Expire, Done, GoTo, Fault, DenyInv, TypeInv, TypeOK
<1>2. TypeOK /\ p \in Seq(Nat) /\ now \in Nat /\ Behind(list[k], p, now)
  BY DEF DenyInv, TypeInv, TypeOK
<1>3. ASSUME NEW j \in Key, j # k PROVE Counted(j)'
  BY <1>1, <1>2, <1>3, Undisturbed DEF Leaves, Is, TypeOK
<1>4. Counted(k)'
  <2>1. /\ FirstPushes(k)' = FirstPushes(k) /\ Pushes(k)' = Pushes(k)
        /\ Trims(k)' = Trims(k)
    BY <1>1, CommandsMove
  <2>2. Room(k)' = Room(k) /\ Most(k)' = Most(k)
    BY <2>1 DEF Room, Most
  <2>3. Mirrors(k)' /\ Bounded(k)'
    BY <1>1, <2>1 DEF Counted, Mirrors, Bounded
  <2>4. Few(passed[k], Room(k), Limit[k].duration, now)' /\ Spaced(k, Most(k))'
    BY <1>1, <2>2 DEF Counted, Spaced
  <2>5. Lasts(k)'
    <3>1. expireAt'[k] = at
      BY <1>1, <1>2 DEF TypeOK
    <3>2. ASSUME at # None, NEW i \in 1..Len(p) PROVE p[i] + Expiration <= at
      <4>1. at = now + Expiration
        BY <3>2
      <4>2. p[i] <= now /\ p[i] \in Nat
        BY <1>2 DEF Behind, Ascending
      <4>3. Expiration \in Nat
        BY ClockAssumption
      <4> HIDE DEF at, p
      <4> QED
        BY <1>2, <4>1, <4>2, <4>3
    <3>3. passed'[k] = p
      BY <1>1
    <3> HIDE DEF at, p
    <3> QED
      BY <3>1, <3>2, <3>3 DEF Lasts
  <2> QED
    BY <2>3, <2>4, <2>5 DEF Counted
<1> QED
  BY <1>3, <1>4
\* A second goes by, while no request is under way.
LEMMA TickCounted ==
  ASSUME Prompt, DenyInv, \A k \in Key : Counted(k), Tick
  PROVE  \A k \in Key : Counted(k)'
<1>1. /\ now' = now + 1
      /\ \A k \in Key :
           \/ list'[k] = list[k] /\ expireAt'[k] = expireAt[k]
           \/ /\ expireAt[k] # None /\ expireAt[k] <= now + 1
              /\ list'[k] = <<>> /\ expireAt'[k] = None
      /\ \A c \in Client : pc[c] = "LLEN"
      /\ UNCHANGED <<pc, arg, passed>>
  BY DEF Tick
<1>2. TypeOK
  BY DEF DenyInv, TypeInv
<1>3. ASSUME NEW k \in Key PROVE Counted(k)'
  <2> DEFINE l == list[k]
             p == passed[k]
             n == Limit[k].num
             d == Limit[k].duration
             m == list'[k]
  <2>1. PICK c \in Client : TRUE
    BY ClientAssumption
  <2>2. /\ l \in Seq(Nat) /\ p \in Seq(Nat) /\ now \in Nat /\ Len(l) \in Nat /\ Len(p) \in Nat
        /\ Len(l) <= Len(p) /\ n \in Nat \ {0} /\ d \in Nat /\ Ascending(p, now)
        /\ InFlight \in Nat \ {0} /\ Room(k) \in Nat
        /\ FirstPushes(k) \in Nat /\ Pushes(k) \in Nat /\ Trims(k) \in Nat
    BY CountTypes
  <2>3. /\ Reflects(l, p) /\ Complete(l, p, n, d, now) /\ Lasts(k)
        /\ Bounded(k) /\ Few(p, Room(k), d, now) /\ Spaced(k, Most(k))
    BY DEF Counted, Mirrors
  <2>4. /\ FirstPushes(k)' = FirstPushes(k) /\ Pushes(k)' = Pushes(k)
        /\ Trims(k)' = Trims(k)
    BY <1>1, <2>1, CommandsMove
  <2>5. Room(k)' = Room(k) /\ Most(k)' = Most(k)
    BY <2>4 DEF Room, Most
  <2>6. Few(passed[k], Room(k), Limit[k].duration, now)'
    <3>1. Few(p, Room(k), d, now + 1)
      BY <2>2, <2>3, FewLater
    <3> QED
      BY <1>1, <2>5, <3>1
  <2>7. Spaced(k, Most(k))'
    BY <1>1, <2>3, <2>5 DEF Spaced
  <2>8. CASE m = l /\ expireAt'[k] = expireAt[k]
    <3>1. Complete(l, p, n, d, now + 1)
      <4>1. ASSUME Len(l) < n, Len(l) < Len(p)
            PROVE  (now + 1) - Newest(p, Len(l) + 1) >= d
        <5>1. now - Newest(p, Len(l) + 1) >= d
          BY <2>3, <4>1 DEF Complete
        <5>2. Newest(p, Len(l) + 1) \in Nat
          <6> HIDE DEF l, p
          <6>1. Len(l) + 1 \in 1..Len(p)
            BY <2>2, <4>1
          <6> QED
            BY <2>2, <6>1, NewestIsNat
        <5> QED
          BY <2>2, <5>1, <5>2
      <4> HIDE DEF l, p, n, d
      <4> QED
        BY <4>1 DEF Complete
    <3>2. Mirrors(k)'
      BY <1>1, <2>3, <2>8, <3>1 DEF Mirrors
    <3>3. Lasts(k)'
      BY <1>1, <2>3, <2>8 DEF Lasts
    <3>4. Bounded(k)'
      BY <2>3, <2>4, <2>8 DEF Bounded
    <3> QED
      BY <2>6, <2>7, <3>2, <3>3, <3>4 DEF Counted
  <2>9. CASE /\ expireAt[k] # None /\ expireAt[k] <= now + 1
             /\ m = <<>> /\ expireAt'[k] = None
    <3>1. \A i \in 1..Len(p) : p[i] + Expiration <= expireAt[k]
      BY <1>1, <2>3, <2>9 DEF Lasts
    <3>2. Len(<<>>) = 0
      OBVIOUS
    <3>3. ASSUME 0 < Len(p) PROVE (now + 1) - Newest(p, 0 + 1) >= d
      <4>1. Len(p) \in 1..Len(p) /\ Len(p) + 1 - (0 + 1) = Len(p)
        BY <2>2, <3>3
      <4>2. p[Len(p)] + Expiration <= expireAt[k] /\ p[Len(p)] \in Nat
        <5> HIDE DEF p
        <5> QED
          BY <2>2, <3>1, <4>1
      <4>3. expireAt[k] \in Nat /\ Expiration \in Nat /\ d <= Expiration
        BY <1>2, <2>9, ClockAssumption, LimitAssumption DEF TypeOK
      <4>4. \A a, b, e, t, x \in Nat : a + x <= e /\ e <= t + 1 /\ b <= x => (t + 1) - a >= b
        OBVIOUS
      <4>5. (now + 1) - p[Len(p)] >= d
        BY <2>2, <2>9, <4>2, <4>3, <4>4
      <4> QED
        BY <4>1, <4>5 DEF Newest
    <3>4. Mirrors(k)'
      <4>1. Reflects(<<>>, p)
        BY <3>2 DEF Reflects
      <4>2. Complete(<<>>, p, n, d, now + 1)
        <5> HIDE DEF p, d, n
        <5> QED
          BY <3>2, <3>3 DEF Complete
      <4> QED
        BY <1>1, <2>9, <4>1, <4>2 DEF Mirrors
    <3>5. Lasts(k)'
      BY <2>9 DEF Lasts
    <3>6. Bounded(k)'
      <4>1. Len(l) + FirstPushes(k) <= ((n - 1) + InFlight) + Trims(k)
        BY <2>3 DEF Bounded
      <4>2. 0 + FirstPushes(k) <= ((n - 1) + InFlight) + Trims(k)
        <5> HIDE DEF l, n
        <5> QED
          BY <2>2, <4>1
      <4> QED
        BY <2>4, <2>9, <3>2, <4>2 DEF Bounded
    <3> QED
      BY <2>6, <2>7, <3>4, <3>5, <3>6 DEF Counted
  <2> QED
    BY <1>1, <2>8, <2>9
<1> QED
  BY <1>3

LEMMA CountInit == Init => CountInv
<1> SUFFICES ASSUME Init PROVE CountInv
  OBVIOUS
<1>1. DenyInv
  BY DenyInit
<1>2. ASSUME NEW k \in Key PROVE Counted(k)
  <2>1. list[k] = <<>> /\ passed[k] = <<>> /\ expireAt[k] = None /\ Len(<<>>) = 0
    BY DEF Init
  <2>2. PICK c \in Client : TRUE
    BY ClientAssumption
  <2>3. /\ InFlight \in Nat \ {0} /\ Limit[k].num \in Nat \ {0} /\ Most(k) \in Nat \ {0}
        /\ FirstPushes(k) \in Nat /\ Trims(k) \in Nat /\ Pushes(k) \in Nat
        /\ FirstPushes(k) + Pushes(k) <= InFlight
    BY <1>1, CountTypes, CommandsAreBounded
  <2>4. Mirrors(k) /\ Lasts(k)
    BY <2>1 DEF Mirrors, Reflects, Complete, Lasts
  <2>5. Bounded(k)
    <3>1. 0 + FirstPushes(k) <= ((Limit[k].num - 1) + InFlight) + Trims(k)
      BY <2>3
    <3> QED
      BY <2>1, <3>1 DEF Bounded
  <2>6. Few(passed[k], Room(k), Limit[k].duration, now)
    BY <2>1 DEF Few
  <2>7. Spaced(k, Most(k))
    <3>1. 1..(0 - Most(k)) = {}
      BY <2>3
    <3> QED
      BY <2>1, <3>1 DEF Spaced
  <2> QED
    BY <2>4, <2>5, <2>6, <2>7 DEF Counted
<1> QED
  BY <1>1, <1>2 DEF CountInv

LEMMA CountStep == Prompt /\ CountInv /\ [Next]_vars => CountInv'
<1> SUFFICES ASSUME Prompt, CountInv, [Next]_vars PROVE CountInv'
  OBVIOUS
<1>1. DenyInv /\ DenyInv'
  BY DenyStep DEF CountInv
<1> SUFFICES ASSUME faults' = 0 PROVE \A k \in Key : Counted(k)'
  BY <1>1 DEF CountInv
<1>2. faults \in Nat
  BY <1>1 DEF DenyInv, TypeInv, TypeOK
<1>3. ~ Fault
  BY <1>2 DEF Fault
<1>4. ASSUME faults' = faults PROVE \A k \in Key : Counted(k)
  BY <1>4 DEF CountInv
<1>5. CASE UNCHANGED vars
  <2>1. ASSUME NEW k \in Key PROVE Counted(k)'
    <3>1. Counted(k)
      BY <1>4, <1>5 DEF vars
    <3> QED
      BY <1>5, <3>1 DEF vars, Counted, Mirrors, Lasts, Bounded, Room, Most, FirstPushes,
                        Pushes, Trims, Number, Spaced
  <2> QED
    BY <2>1
<1>6. ASSUME NEW c \in Client, NEW k \in Key, Count(c, k) PROVE \A j \in Key : Counted(j)'
  <2>1. faults' = faults
    BY <1>6 DEF Count
  <2> QED
    BY <1>1, <1>4, <1>6, <2>1, CountCounted
<1>7. ASSUME NEW c \in Client, OldestDecides(c) PROVE \A j \in Key : Counted(j)'
  <2>1. faults' = faults
    BY <1>7 DEF OldestDecides
  <2> QED
    BY <1>1, <1>4, <1>7, <2>1, DecideCounted
<1>8. ASSUME NEW c \in Client, Push(c) \/ Trim(c) \/ Expire(c)
      PROVE  \A j \in Key : Counted(j)'
  <2>1. NoFault
    BY <1>3, <1>8 DEF Push, Trim, Expire
  <2>2. \A k \in Key : Counted(k)
    BY <1>4, <2>1 DEF NoFault
  <2> QED
    BY <1>1, <1>8, <2>1, <2>2, PushCounted, TrimCounted, ExpireCounted
<1>9. ASSUME NEW c \in Client PROVE ~ Restart(c)
  BY <1>3 DEF Restart
<1>10. CASE Tick
  <2>1. faults' = faults
    BY <1>10 DEF Tick
  <2> QED
    BY <1>1, <1>4, <1>10, <2>1, TickCounted
<1> QED
  BY <1>5, <1>6, <1>7, <1>8, <1>9, <1>10 DEF Next

\* While none outlives its second and no command fails, requests that interleave at will
\* let at most two more through, within the duration, for each other request in flight:
\* one that counted the list while it was short, and one that saw the oldest time before
\* the list was trimmed (redisRateLimiter).
THEOREM OvershootIsBounded == ASSUME Prompt PROVE Spec => []OvershootBounded
<1>1. CountInv => OvershootBounded
  BY DEF CountInv, Counted, OvershootBounded, Most, InFlight
<1>2. CountInv /\ [Next]_vars => CountInv'
  BY CountStep
<1> QED
  BY CountInit, <1>1, <1>2, PTL DEF Spec
===============================================================================
