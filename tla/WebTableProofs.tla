----------------------------- MODULE WebTableProofs ----------------------------
(***************************************************************************)
(* Proofs about WebTable for all finite sets of rows, sizes of pages and    *)
(* numbers of clicks.                                                       *)
(***************************************************************************)
EXTENDS WebTable, FiniteSetTheorems, TLAPS

\* A request that changes a row, not one that asks for rows.
Manages(r) == r.op \in ManageOps

\* An answer has what its handler reads, and the place that the handler remembers is that
\* of the row that was clicked.
Answers(r) ==
  r.answer.ok =>
    IF Manages(r)
      THEN kind = "users" \/ r.op = "reset" =>
             r.answer.data # <<>> /\ r.answer.data[1] \in Row
      ELSE r.answer.data \in Seq(Object)

Remembers(r) ==
  Manages(r) =>
    /\ r.id \in Id
    /\ r.at \in DOMAIN arrays[r.array]
    /\ objects[arrays[r.array][r.at]].id = r.id

TypeInv == TypeOK /\ \A r \in inFlight : Answers(r) /\ Remembers(r)

LEMMA Types ==
  ASSUME TypeInv
  PROVE  /\ objects \in Seq(Object) /\ Len(objects) \in Nat
         /\ DOMAIN objects = 1..Len(objects)
         /\ \A o \in 1..Len(objects) : objects[o] \in Object
         /\ arrays \in Seq(Seq(1..Len(objects))) /\ Len(arrays) \in Nat
         /\ DOMAIN arrays = 1..Len(arrays)
         /\ \A a \in 1..Len(arrays) :
              /\ arrays[a] \in Seq(1..Len(objects)) /\ Len(arrays[a]) \in Nat
              /\ DOMAIN arrays[a] = 1..Len(arrays[a])
              /\ \A k \in 1..Len(arrays[a]) : arrays[a][k] \in 1..Len(objects)
         /\ table \in 1..Len(arrays)
<1>1. objects \in Seq(Object) /\ arrays \in Seq(Seq(1..Len(objects))) /\ table \in DOMAIN arrays
  BY DEF TypeInv, TypeOK
<1>2. ASSUME NEW S, NEW s \in Seq(S)
      PROVE  Len(s) \in Nat /\ DOMAIN s = 1..Len(s) /\ \A k \in 1..Len(s) : s[k] \in S
  BY <1>2
<1> QED
  BY <1>1, <1>2

LEMMA RequestType ==
  ASSUME TypeInv, NEW r \in inFlight
  PROVE  /\ r \in Request /\ r.array \in 1..Len(arrays) /\ r.start \in Nat
         /\ r.answer.ok \in BOOLEAN /\ r.answer.done \in BOOLEAN
         /\ r.op \in {"load", "search"} \cup ManageOps
         /\ r.id \in Id \cup {0} /\ r.at \in Nat /\ r.goto \in Nat /\ r.n \in 0..MaxActs
         /\ r.answer.data \in Seq(Row \cup Object)
         /\ Answers(r) /\ Remembers(r)
<1>1. r \in Request /\ Answers(r) /\ Remembers(r)
  BY DEF TypeInv, TypeOK
<1>2. DOMAIN arrays = 1..Len(arrays)
  BY Types
<1> QED
  BY <1>1, <1>2 DEF Request

\* Objects and arrays are added, and rows are added to arrays; nothing is moved.
Grows ==
  /\ objects' \in Seq(Object) /\ Len(objects) <= Len(objects')
  /\ \A o \in 1..Len(objects) : objects'[o].id = objects[o].id
  /\ arrays' \in Seq(Seq(1..Len(objects'))) /\ Len(arrays) <= Len(arrays')
  /\ \A a \in 1..Len(arrays) :
       /\ Len(arrays[a]) <= Len(arrays'[a])
       /\ \A k \in 1..Len(arrays[a]) : arrays'[a][k] = arrays[a][k]
  /\ kind' = kind

LEMMA RequestsKeep ==
  ASSUME TypeInv, Grows, NEW r \in inFlight
  PROVE  r \in Request' /\ Answers(r)' /\ Remembers(r)'
<1>1. /\ r \in Request /\ r.array \in 1..Len(arrays) /\ Answers(r) /\ Remembers(r)
  BY RequestType
<1>2. DOMAIN arrays = 1..Len(arrays) /\ DOMAIN arrays' = 1..Len(arrays')
      /\ Len(arrays) \in Nat /\ Len(arrays') \in Nat /\ Len(arrays) <= Len(arrays')
  BY Types DEF Grows
<1>3. ManageOps' = ManageOps
  BY DEF ManageOps, Grows
<1>4. r \in Request'
  <2>1. DOMAIN arrays \subseteq DOMAIN arrays'
    BY <1>2
  <2> QED
    BY <1>1, <1>3, <2>1 DEF Request
<1>5. Answers(r)'
  BY <1>1, <1>3 DEF Answers, Manages, Grows
<1>6. ASSUME Manages(r)
      PROVE  /\ r.at \in DOMAIN arrays'[r.array]
             /\ objects'[arrays'[r.array][r.at]].id = r.id /\ r.id \in Id
  <2>1. /\ DOMAIN arrays[r.array] = 1..Len(arrays[r.array])
        /\ Len(arrays[r.array]) \in Nat
        /\ \A k \in 1..Len(arrays[r.array]) : arrays[r.array][k] \in 1..Len(objects)
    BY <1>1, Types
  <2>2. /\ r.at \in 1..Len(arrays[r.array]) /\ r.id \in Id
        /\ objects[arrays[r.array][r.at]].id = r.id
    BY <1>1, <1>6, <2>1 DEF Remembers
  <2>3. arrays'[r.array] \in Seq(1..Len(objects')) /\ Len(arrays[r.array]) <= Len(arrays'[r.array])
    BY <1>1, <1>2 DEF Grows
  <2>4. r.at \in DOMAIN arrays'[r.array]
    BY <2>1, <2>2, <2>3
  <2>5. arrays'[r.array][r.at] = arrays[r.array][r.at]
    BY <1>1, <2>2 DEF Grows
  <2> QED
    BY <2>1, <2>2, <2>4, <2>5 DEF Grows
<1>7. Remembers(r)'
  BY <1>3, <1>6 DEF Remembers, Manages
<1> QED
  BY <1>4, <1>5, <1>7

\* A step that leaves the heap as it is.
LEMMA Still ==
  ASSUME TypeInv, UNCHANGED <<objects, arrays, kind>>
  PROVE  Grows
BY Types DEF Grows

LEMMA TypeInit == Init => TypeInv
<1> SUFFICES ASSUME Init PROVE TypeInv
  OBVIOUS
<1> DEFINE r == [n |-> MaxActs, op |-> "load", id |-> 0, start |-> 0, array |-> 1,
                 at |-> 0, goto |-> 0, answer |-> Pending]
<1>1. inFlight = {r} /\ arrays = <<<<>>>> /\ objects = <<>> /\ table = 1
  BY DEF Init
<1>2. "load" \notin ManageOps
  BY DEF ManageOps
<1>3. Answers(r) /\ Remembers(r)
  BY <1>2 DEF Answers, Remembers, Manages, Pending
<1>4. <<>> \in Seq(Object) /\ <<>> \in Seq(1..Len(objects)) /\ <<>> \in Seq(Row \cup Object)
  OBVIOUS
<1>5. arrays \in Seq(Seq(1..Len(objects))) /\ DOMAIN arrays = {1}
  BY <1>1, <1>4
<1>6. r \in Request
  BY <1>4, <1>5, BoundAssumption DEF Request, Pending
<1> HIDE DEF r
<1>7. /\ \A i \in DOMAIN rows : rows[i] \in Row
      /\ DOMAIN rows \subseteq Id
  BY DEF Init, Row, Common
<1>8. r.op \notin ManageOps
  BY <1>2 DEF r
<1> QED
  BY <1>1, <1>3, <1>4, <1>5, <1>6, <1>7, <1>8, BoundAssumption DEF TypeInv, TypeOK, Init

-------------------------------------------------------------------------------
\* Orders.

\* B has the elements up to each element of S in some order, and c the element at each
\* place.
Ordered(S, B) ==
  /\ B \in [S -> SUBSET S]
  /\ \A x \in S : x \in B[x]
  /\ \A x, y \in S :
       \/ x = y
       \/ B[x] \subseteq B[y] /\ y \notin B[x]
       \/ B[y] \subseteq B[x] /\ x \notin B[y]

Picks(c, S, B) ==
  \A p \in 1..Cardinality(S) :
    (\E x \in S : Cardinality(B[x]) = p) => c[p] \in S /\ Cardinality(B[c[p]]) = p

\* Elements that are counted by those up to them take every place once.
LEMMA Ranked ==
  ASSUME NEW S, IsFiniteSet(S), NEW B, Ordered(S, B)
  PROVE  /\ Cardinality(S) \in Nat
         /\ \A x \in S : Cardinality(B[x]) \in 1..Cardinality(S)
         /\ \A x, y \in S : Cardinality(B[x]) = Cardinality(B[y]) => x = y
         /\ \A p \in 1..Cardinality(S) : \E x \in S : Cardinality(B[x]) = p
<1> DEFINE n == Cardinality(S)
           f == [x \in S |-> Cardinality(B[x])]
<1>1. n \in Nat
  BY FS_CardinalityType
<1>2. ASSUME NEW x \in S PROVE IsFiniteSet(B[x]) /\ Cardinality(B[x]) \in 1..n
  <2>1. B[x] \in SUBSET S /\ B[x] # {}
    BY DEF Ordered
  <2>2. IsFiniteSet(B[x]) /\ Cardinality(B[x]) <= n
    BY <2>1, FS_Subset
  <2>3. Cardinality(B[x]) \in Nat /\ Cardinality(B[x]) # 0
    BY <2>1, <2>2, FS_CardinalityType, FS_EmptySet
  <2> QED
    BY <1>1, <2>2, <2>3
<1>3. ASSUME NEW x \in S, NEW y \in S, Cardinality(B[x]) = Cardinality(B[y]) PROVE x = y
  <2>1. ASSUME NEW u \in S, NEW v \in S, B[u] \subseteq B[v], v \notin B[u]
        PROVE  Cardinality(B[u]) # Cardinality(B[v])
    <3>1. v \in B[v] /\ B[u] # B[v]
      BY <2>1 DEF Ordered
    <3> QED
      BY <1>2, <2>1, <3>1, FS_Subset
  <2> QED
    BY <1>3, <2>1 DEF Ordered
<1>4. f \in Injection(S, 1..n)
  <2>1. f \in [S -> 1..n]
    BY <1>2
  <2>2. \A x, y \in S : f[x] = f[y] => x = y
    BY <1>3
  <2> HIDE DEF f
  <2> QED
    BY <2>1, <2>2 DEF Injection, IsInjective
<1>5. IsFiniteSet(1..n) /\ Cardinality(1..n) = n
  <2> HIDE DEF n
  <2> QED
    BY <1>1, FS_Interval
<1>6. f \in Surjection(S, 1..n)
  <2> HIDE DEF f
  <2> QED
    BY <1>4, <1>5, FS_Injection
<1>7. \A p \in 1..n : \E x \in S : f[x] = p
  <2> HIDE DEF f
  <2> QED
    BY <1>6 DEF Surjection
<1> QED
  BY <1>1, <1>2, <1>3, <1>7

\* So the element at each place is the only one there.
LEMMA Chosen ==
  ASSUME NEW S, IsFiniteSet(S), NEW B, Ordered(S, B), NEW c, Picks(c, S, B)
  PROVE  /\ Cardinality(S) \in Nat
         /\ \A p \in 1..Cardinality(S) : c[p] \in S /\ Cardinality(B[c[p]]) = p
         /\ \A p, q \in 1..Cardinality(S) : c[p] = c[q] => p = q
         /\ \A x \in S : \E p \in 1..Cardinality(S) : c[p] = x
<1>1. /\ Cardinality(S) \in Nat
      /\ \A x \in S : Cardinality(B[x]) \in 1..Cardinality(S)
      /\ \A x, y \in S : Cardinality(B[x]) = Cardinality(B[y]) => x = y
      /\ \A p \in 1..Cardinality(S) : \E x \in S : Cardinality(B[x]) = p
  BY Ranked
<1>2. \A p \in 1..Cardinality(S) : c[p] \in S /\ Cardinality(B[c[p]]) = p
  BY <1>1 DEF Picks
<1>3. \A p, q \in 1..Cardinality(S) : c[p] = c[q] => p = q
  BY <1>2
<1>4. ASSUME NEW x \in S PROVE \E p \in 1..Cardinality(S) : c[p] = x
  <2>1. Cardinality(B[x]) \in 1..Cardinality(S)
    BY <1>1
  <2>2. c[Cardinality(B[x])] = x
    BY <1>1, <1>2, <2>1
  <2> QED
    BY <2>1, <2>2
<1> QED
  BY <1>1, <1>2, <1>3, <1>4

\* Ids, the newest first.
LEMMA NewestFirstIs ==
  ASSUME NEW ids \in SUBSET Id
  PROVE  LET n == Cardinality(ids)
             s == NewestFirst(ids)
         IN  /\ n \in Nat /\ s \in Seq(ids) /\ Len(s) = n
             /\ \A k \in 1..n : s[k] \in ids /\ Cardinality({j \in ids : j >= s[k]}) = k
             /\ \A j, k \in 1..n : s[j] = s[k] => j = k
<1> DEFINE B == [i \in ids |-> {j \in ids : j >= i}]
           s == NewestFirst(ids)
<1>1. IsFiniteSet(ids) /\ ids \subseteq Nat
  BY IdAssumption, FS_Subset
<1>2. B \in [ids -> SUBSET ids] /\ \A i \in ids : B[i] = {j \in ids : j >= i}
  OBVIOUS
<1> HIDE DEF B
<1>3. Ordered(ids, B)
  <2>1. \A i \in ids : i \in B[i]
    BY <1>1, <1>2
  <2>2. ASSUME NEW i \in ids, NEW j \in ids, i < j
        PROVE  B[j] \subseteq B[i] /\ i \notin B[j]
    <3>1. B[i] = {k \in ids : k >= i} /\ B[j] = {k \in ids : k >= j} /\ i \in Nat /\ j \in Nat
      BY <1>1, <1>2
    <3>2. \A k \in Nat : k >= j => k >= i
      BY <2>2, <3>1
    <3>3. ~ (i >= j)
      BY <2>2, <3>1
    <3> QED
      BY <1>1, <3>1, <3>2, <3>3
  <2>3. \A i, j \in ids : i # j => i < j \/ j < i
    BY <1>1
  <2> QED
    BY <1>2, <2>1, <2>2, <2>3 DEF Ordered
<1>4. Picks(s, ids, B)
  <2>1. ASSUME NEW p \in 1..Cardinality(ids), NEW x \in ids, Cardinality(B[x]) = p
        PROVE  s[p] \in ids /\ Cardinality(B[s[p]]) = p
    <3>1. s[p] = CHOOSE i \in ids : Cardinality({j \in ids : j >= i}) = p
      BY DEF NewestFirst
    <3>2. Cardinality({j \in ids : j >= x}) = p
      BY <1>2, <2>1
    <3> HIDE DEF s
    <3>3. s[p] \in ids /\ Cardinality({j \in ids : j >= s[p]}) = p
      BY <3>1, <3>2
    <3> QED
      BY <1>2, <3>3
  <2> QED
    BY <2>1 DEF Picks
<1> HIDE DEF s
<1>5. /\ Cardinality(ids) \in Nat
      /\ \A k \in 1..Cardinality(ids) : s[k] \in ids /\ Cardinality(B[s[k]]) = k
      /\ \A j, k \in 1..Cardinality(ids) : s[j] = s[k] => j = k
  BY <1>1, <1>3, <1>4, Chosen
<1>6. s \in Seq(ids) /\ Len(s) = Cardinality(ids)
  <2> DEFINE at(k) == CHOOSE i \in ids : Cardinality({j \in ids : j >= i}) = k
             n == Cardinality(ids)
  <2>1. s = [k \in 1..n |-> at(k)]
    BY DEF s, NewestFirst
  <2> HIDE DEF at, n
  <2>2. \A k \in 1..n : s[k] = at(k)
    BY <2>1
  <2>3. n \in Nat /\ \A k \in 1..n : at(k) \in ids
    BY <1>5, <2>2 DEF n
  <2>4. s \in Seq(ids) /\ Len(s) = n
    BY <2>1, <2>3
  <2> QED
    BY <2>4 DEF n
<1> QED
  BY <1>2, <1>5, <1>6 DEF s

\* The rows of t in another order.
Rearranged(s, t) ==
  /\ Len(s) = Len(t)
  /\ \E f \in [1..Len(t) -> 1..Len(t)] :
       /\ \A p, q \in 1..Len(t) : f[p] = f[q] => p = q
       /\ \A k \in 1..Len(t) : \E p \in 1..Len(t) : f[p] = k
       /\ \A p \in 1..Len(t) : s[p] = t[f[p]]

LEMMA ByColumnIs ==
  ASSUME TypeInv, NEW a \in 1..Len(arrays), NEW column
  PROVE  /\ ByColumn(arrays[a], column) \in Seq(1..Len(objects))
         /\ Rearranged(ByColumn(arrays[a], column), arrays[a])
<1> DEFINE t == arrays[a]
           n == Len(t)
           s == ByColumn(t, column)
           v == [k \in 1..n |-> Value(t[k], column)]
           B == [k \in 1..n |-> UpTo(t, column, k)]
           at(p) == CHOOSE k \in 1..n : Cardinality(UpTo(t, column, k)) = p
           c == [p \in 1..n |-> at(p)]
<1>1. /\ n \in Nat /\ DOMAIN t = 1..n
      /\ \A k \in 1..n : t[k] \in 1..Len(objects) /\ objects[t[k]] \in Object
  BY Types
<1>2. ASSUME NEW k \in 1..n PROVE v[k] \in Nat
  <2>1. ASSUME NEW o \in Object PROVE o.id \in Nat /\ o.status \in Nat
    <3>1. o.id \in Id /\ o.status \in {1, 2}
      BY DEF Object
    <3>2. Id \subseteq Nat
      BY IdAssumption
    <3>3. o.id \in Nat
      BY <3>1, <3>2
    <3>4. o.status \in Nat
      BY <3>1
    <3> QED
      BY <3>3, <3>4
  <2>2. v[k] = objects[t[k]].id \/ v[k] = objects[t[k]].status
    BY DEF Value
  <2>3. objects[t[k]] \in Object
    BY <1>1
  <2> QED
    BY <2>1, <2>2, <2>3
<1>3. /\ \A k \in 1..n : B[k] = {j \in 1..n : v[j] < v[k] \/ (v[j] = v[k] /\ j <= k)}
      /\ \A k \in 1..n : B[k] = UpTo(t, column, k)
      /\ B = [k \in 1..n |-> B[k]]
  BY <1>1 DEF UpTo
<1> HIDE DEF n, v, B
<1>4. Ordered(1..n, B)
  <2>1. ASSUME NEW k \in 1..n PROVE k \in B[k] /\ B[k] \in SUBSET (1..n)
    BY <1>1, <1>2, <1>3
  <2>2. ASSUME NEW j \in 1..n, NEW k \in 1..n, v[j] < v[k] \/ (v[j] = v[k] /\ j < k)
        PROVE  B[j] \subseteq B[k] /\ k \notin B[j]
    <3>1. \A i \in 1..n : v[i] < v[j] \/ (v[i] = v[j] /\ i <= j) =>
                          v[i] < v[k] \/ (v[i] = v[k] /\ i <= k)
      BY <1>1, <1>2, <2>2
    <3>2. ~ (v[k] < v[j] \/ (v[k] = v[j] /\ k <= j))
      BY <1>1, <1>2, <2>2
    <3> QED
      BY <1>3, <3>1, <3>2
  <2>3. \A j, k \in 1..n : j # k => \/ v[j] < v[k] \/ (v[j] = v[k] /\ j < k)
                                    \/ v[k] < v[j] \/ (v[k] = v[j] /\ k < j)
    BY <1>1, <1>2
  <2>4. B \in [1..n -> SUBSET (1..n)]
    BY <1>3, <2>1
  <2>5. \A j, k \in 1..n : \/ j = k
                           \/ B[j] \subseteq B[k] /\ k \notin B[j]
                           \/ B[k] \subseteq B[j] /\ j \notin B[k]
    BY <2>2, <2>3
  <2> QED
    BY <2>1, <2>4, <2>5 DEF Ordered
<1>5. IsFiniteSet(1..n) /\ Cardinality(1..n) = n
  BY <1>1, FS_Interval
<1>6. Picks(c, 1..n, B)
  <2>1. ASSUME NEW p \in 1..n, NEW x \in 1..n, Cardinality(B[x]) = p
        PROVE  c[p] \in 1..n /\ Cardinality(B[c[p]]) = p
    <3>1. c[p] = at(p)
      OBVIOUS
    <3>2. Cardinality(UpTo(t, column, x)) = p
      BY <1>3, <2>1
    <3> HIDE DEF c
    <3>3. c[p] \in 1..n /\ Cardinality(UpTo(t, column, c[p])) = p
      BY <3>1, <3>2
    <3> QED
      BY <1>3, <3>3
  <2> HIDE DEF c
  <2> QED
    BY <1>5, <2>1 DEF Picks
<1>7. /\ s = [p \in 1..n |-> t[c[p]]]
      /\ c = [p \in 1..n |-> c[p]]
  BY <1>1 DEF ByColumn
<1> HIDE DEF c, s, t
<1>8. /\ \A p \in 1..n : c[p] \in 1..n
      /\ \A p, q \in 1..n : c[p] = c[q] => p = q
      /\ \A k \in 1..n : \E p \in 1..n : c[p] = k
  <2>1. /\ \A p \in 1..Cardinality(1..n) : c[p] \in 1..n /\ Cardinality(B[c[p]]) = p
        /\ \A p, q \in 1..Cardinality(1..n) : c[p] = c[q] => p = q
        /\ \A x \in 1..n : \E p \in 1..Cardinality(1..n) : c[p] = x
    <3> DEFINE S == 1..n
    <3>1. IsFiniteSet(S) /\ Ordered(S, B) /\ Picks(c, S, B)
      BY <1>4, <1>5, <1>6
    <3> HIDE DEF S
    <3>2. /\ \A p \in 1..Cardinality(S) : c[p] \in S /\ Cardinality(B[c[p]]) = p
          /\ \A p, q \in 1..Cardinality(S) : c[p] = c[q] => p = q
          /\ \A x \in S : \E p \in 1..Cardinality(S) : c[p] = x
      BY <3>1, Chosen
    <3> QED
      BY <3>2 DEF S
  <2> QED
    BY <1>5, <2>1
<1>9. c \in [1..n -> 1..n]
  BY <1>7, <1>8
<1>10. s \in Seq(1..Len(objects)) /\ Len(s) = n /\ \A p \in 1..n : s[p] = t[c[p]]
  <2>1. \A p \in 1..n : t[c[p]] \in 1..Len(objects)
    BY <1>1, <1>8
  <2>2. \A p \in 1..n : s[p] = t[c[p]]
    BY <1>7
  <2> DEFINE e(p) == t[c[p]]
  <2>3. s = [p \in 1..n |-> e(p)] /\ \A p \in 1..n : e(p) \in 1..Len(objects)
    BY <1>7, <2>1
  <2> HIDE DEF e
  <2>4. s \in Seq(1..Len(objects)) /\ Len(s) = n
    BY <1>1, <2>3
  <2> QED
    BY <2>2, <2>4
<1>11. Rearranged(s, t)
  BY <1>8, <1>9, <1>10 DEF Rearranged, n
<1> QED
  BY <1>10, <1>11 DEF s, t

LEMMA ReverseIs ==
  ASSUME NEW S, NEW s \in Seq(S)
  PROVE  /\ Reverse(s) \in Seq(S) /\ Len(Reverse(s)) = Len(s)
         /\ \A k \in 1..Len(s) : Reverse(s)[k] = s[(Len(s) - k) + 1]
<1>1. Len(s) \in Nat /\ \A k \in 1..Len(s) : (Len(s) - k) + 1 \in 1..Len(s)
  OBVIOUS
<1> QED
  BY <1>1 DEF Reverse

LEMMA SortedIs ==
  ASSUME TypeInv, NEW a \in 1..Len(arrays), NEW column
  PROVE  /\ Sorted(arrays[a], column) \in Seq(1..Len(objects))
         /\ Rearranged(Sorted(arrays[a], column), arrays[a])
<1> DEFINE t == arrays[a]
           u == ByColumn(t, column)
<1>1. u \in Seq(1..Len(objects)) /\ Rearranged(u, t)
  BY ByColumnIs
<1>2. Sorted(t, column) \in {u, Reverse(u)}
  BY DEF Sorted
<1> HIDE DEF u, t
<1>3. /\ Reverse(u) \in Seq(1..Len(objects)) /\ Len(Reverse(u)) = Len(u) /\ Len(u) \in Nat
      /\ \A k \in 1..Len(u) : Reverse(u)[k] = u[(Len(u) - k) + 1]
  BY <1>1, ReverseIs
<1>4. Rearranged(Reverse(u), t)
  <2> DEFINE n == Len(t)
  <2>1. PICK f \in [1..n -> 1..n] :
          /\ \A p, q \in 1..n : f[p] = f[q] => p = q
          /\ \A k \in 1..n : \E p \in 1..n : f[p] = k
          /\ \A p \in 1..n : u[p] = t[f[p]]
    BY <1>1 DEF Rearranged
  <2>2. Len(u) = n /\ n \in Nat
    BY <1>1, <1>3 DEF Rearranged
  <2> HIDE DEF n
  <2> DEFINE g == [p \in 1..n |-> f[(n - p) + 1]]
  <2>3. \A p \in 1..n : (n - p) + 1 \in 1..n /\ (n - ((n - p) + 1)) + 1 = p
    BY <2>2
  <2>4. g \in [1..n -> 1..n] /\ \A p \in 1..n : g[p] = f[(n - p) + 1]
    BY <2>1, <2>3
  <2> HIDE DEF g
  <2>5. ASSUME NEW p \in 1..n, NEW q \in 1..n, g[p] = g[q] PROVE p = q
    <3>1. (n - p) + 1 = (n - q) + 1
      BY <2>1, <2>3, <2>4, <2>5
    <3> QED
      BY <2>2, <3>1
  <2>6. ASSUME NEW k \in 1..n PROVE \E p \in 1..n : g[p] = k
    <3>1. PICK p \in 1..n : f[p] = k
      BY <2>1
    <3>2. (n - p) + 1 \in 1..n /\ g[(n - p) + 1] = k
      BY <2>3, <2>4, <3>1
    <3> QED
      BY <3>2
  <2>7. ASSUME NEW p \in 1..n PROVE Reverse(u)[p] = t[g[p]]
    <3>1. Reverse(u)[p] = u[(n - p) + 1]
      BY <1>3, <2>2
    <3>2. u[(n - p) + 1] = t[f[(n - p) + 1]]
      BY <2>1, <2>3
    <3> QED
      BY <2>4, <3>1, <3>2
  <2>8. Len(Reverse(u)) = Len(t)
    BY <1>3, <2>2 DEF n
  <2> QED
    BY <2>4, <2>5, <2>6, <2>7, <2>8 DEF Rearranged, n
<1> QED
  BY <1>1, <1>2, <1>3, <1>4 DEF t

\* The rows of an array, whatever their order.
Objects(array) == {array[k] : k \in DOMAIN array}

Ids(array) == [k \in DOMAIN array |-> objects[array[k]].id]
DataIds(r) == [k \in DOMAIN r.answer.data |-> r.answer.data[k].id]

\* A list without a repetition.
Distinct(ids) == \A j, k \in DOMAIN ids : ids[j] = ids[k] => j = k

\* The same rows, and none twice if none was.
LEMMA RearrangedRows ==
  ASSUME NEW S, NEW s \in Seq(S), NEW t \in Seq(S), Rearranged(s, t)
  PROVE  /\ Len(s) = Len(t) /\ Objects(s) = Objects(t)
         /\ Distinct(Ids(t)) => Distinct(Ids(s))
<1> DEFINE n == Len(t)
<1>1. PICK f \in [1..n -> 1..n] :
        /\ \A p, q \in 1..n : f[p] = f[q] => p = q
        /\ \A k \in 1..n : \E p \in 1..n : f[p] = k
        /\ \A p \in 1..n : s[p] = t[f[p]]
  BY DEF Rearranged
<1>2. Len(s) = n /\ DOMAIN s = 1..n /\ DOMAIN t = 1..n
  BY DEF Rearranged
<1> HIDE DEF n
<1>3. Objects(s) = Objects(t)
  <2>1. ASSUME NEW k \in 1..n PROVE s[k] \in Objects(t)
    BY <1>1, <1>2 DEF Objects
  <2>2. ASSUME NEW k \in 1..n PROVE t[k] \in Objects(s)
    <3>1. PICK p \in 1..n : f[p] = k
      BY <1>1
    <3> QED
      BY <1>1, <1>2, <3>1 DEF Objects
  <2> QED
    BY <1>2, <2>1, <2>2 DEF Objects
<1>4. ASSUME Distinct(Ids(t)) PROVE Distinct(Ids(s))
  <2>1. /\ \A k \in 1..n : Ids(s)[k] = objects[s[k]].id /\ Ids(t)[k] = objects[t[k]].id
        /\ DOMAIN Ids(s) = 1..n /\ DOMAIN Ids(t) = 1..n
    BY <1>2 DEF Ids
  <2>2. ASSUME NEW p \in 1..n PROVE f[p] \in 1..n /\ Ids(s)[p] = Ids(t)[f[p]]
    <3>1. f[p] \in 1..n /\ s[p] = t[f[p]]
      BY <1>1
    <3> QED
      BY <2>1, <3>1
  <2>3. ASSUME NEW p \in 1..n, NEW q \in 1..n, Ids(s)[p] = Ids(s)[q] PROVE p = q
    <3>1. f[p] \in 1..n /\ f[q] \in 1..n /\ Ids(t)[f[p]] = Ids(t)[f[q]]
      BY <2>2, <2>3
    <3>2. f[p] = f[q]
      BY <1>4, <2>1, <3>1 DEF Distinct
    <3> QED
      BY <1>1, <3>2
  <2> QED
    BY <2>1, <2>3 DEF Distinct
<1> QED
  BY <1>2, <1>3, <1>4 DEF n

-------------------------------------------------------------------------------
\* Steps keep the types.

LEMMA ConstantTypes ==
  /\ ManageOps \cap {"load", "search"} = {}
  /\ (kind' = kind => ManageOps' = ManageOps)
BY DEF ManageOps

\* A request that is sent.
Asked(op, id, start, at, goto) ==
  [n |-> acts, op |-> op, id |-> id, start |-> start, array |-> table,
   at |-> at, goto |-> goto, answer |-> Pending]

LEMMA AskType ==
  ASSUME TypeInv, NEW op, NEW id, NEW start \in Nat, NEW at \in Nat, NEW goto \in Nat,
         \/ op \in {"load", "search"} /\ id = 0
         \/ op \in ManageOps /\ at \in DOMAIN arrays[table]
            /\ id = objects[arrays[table][at]].id,
         Ask(op, id, start, at, goto),
         UNCHANGED <<kind, patient, rows, objects, arrays, table, astray>>,
         activePage' = activePage
  PROVE  TypeInv'
<1>0. PICK r : r = Asked(op, id, start, at, goto)
  OBVIOUS
<1>1. inFlight' = inFlight \cup {r} /\ acts' = acts + 1 /\ acts \in 0..MaxActs
      /\ acts' \in 0..MaxActs
  <2>1. acts < MaxActs
    BY BoundAssumption DEF Ask, Bound, TypeInv, TypeOK
  <2> QED
    BY <1>0, <2>1, BoundAssumption DEF Ask, Asked, TypeInv, TypeOK
<1>2. Grows
  BY Still
<1>3. ManageOps' = ManageOps /\ ManageOps \cap {"load", "search"} = {}
  BY ConstantTypes
<1>4. r \in Request /\ Answers(r) /\ Remembers(r)
  <2>1. r.answer = Pending /\ r.op = op /\ r.id = id /\ r.at = at /\ r.array = table
    BY <1>0 DEF Asked
  <2>2. table \in DOMAIN arrays
    BY DEF TypeInv, TypeOK
  <2>3. Answers(r)
    BY <2>1 DEF Answers, Pending
  <2>4. op \in ManageOps => id \in Id
    <3>1. \A k \in DOMAIN arrays[table] : objects[arrays[table][k]] \in Object
      BY Types
    <3> QED
      BY <1>3, <3>1 DEF Object
  <2>5. Remembers(r)
    BY <1>3, <2>1, <2>4 DEF Remembers, Manages
  <2>6. id \in Id \cup {0} /\ op \in {"load", "search"} \cup ManageOps
    BY <2>4
  <2>7. Pending \in [ok : BOOLEAN, done : BOOLEAN, data : Seq(Row \cup Object)]
    BY DEF Pending
  <2>8. r \in Request
    BY <1>0, <1>1, <2>2, <2>6, <2>7 DEF Asked, Request
  <2> QED
    BY <2>3, <2>5, <2>8
<1>5. r \in Request' /\ Answers(r)' /\ Remembers(r)'
  <2>1. Request' = Request
    BY <1>3 DEF Request
  <2> QED
    BY <1>3, <1>4, <2>1 DEF Answers, Remembers, Manages
<1>6. \A q \in inFlight : q \in Request' /\ Answers(q)' /\ Remembers(q)'
  BY <1>2, RequestsKeep
<1>7. /\ inFlight' \subseteq Request'
      /\ \A q \in inFlight' : Answers(q)' /\ Remembers(q)'
  BY <1>1, <1>5, <1>6
<1> QED
  BY <1>1, <1>3, <1>7 DEF TypeInv, TypeOK, Remembers, Manages

\* A request that is answered.
LEMMA AnsweredType ==
  ASSUME TypeInv, NEW r \in inFlight, NEW answer, Answered(r, answer),
         answer \in [ok : BOOLEAN, done : BOOLEAN, data : Seq(Row \cup Object)],
         Answers([r EXCEPT !.answer = answer]),
         DOMAIN rows' \subseteq Id, \A i \in DOMAIN rows' : rows'[i] \in Row,
         UNCHANGED <<kind, patient, objects, arrays, table, activePage, astray, acts>>
  PROVE  TypeInv'
<1>0. PICK s : s = [r EXCEPT !.answer = answer]
  OBVIOUS
<1>1. inFlight' = (inFlight \ {r}) \cup {s}
  BY <1>0 DEF Answered
<1>2. Grows
  BY Still
<1>3. ManageOps' = ManageOps
  BY ConstantTypes
<1>4. r \in Request /\ Remembers(r)
  BY RequestType
<1>5. s \in Request /\ s.op = r.op /\ s.id = r.id /\ s.at = r.at /\ s.array = r.array
  BY <1>0, <1>4 DEF Request
<1>6. s \in Request' /\ Answers(s)' /\ Remembers(s)'
  <2>1. Request' = Request
    BY <1>3 DEF Request
  <2> QED
    BY <1>0, <1>3, <1>4, <1>5, <2>1 DEF Answers, Remembers, Manages
<1>7. \A q \in inFlight : q \in Request' /\ Answers(q)' /\ Remembers(q)'
  BY <1>2, RequestsKeep
<1>8. /\ inFlight' \subseteq Request'
      /\ \A q \in inFlight' : Answers(q)' /\ Remembers(q)'
  BY <1>1, <1>6, <1>7
<1> QED
  BY <1>3, <1>8 DEF TypeInv, TypeOK, Remembers, Manages

LEMMA AsObjectsType ==
  ASSUME TypeInv, NEW ids \in Seq(DOMAIN rows)
  PROVE  /\ AsObjects(ids) \in Seq(Object) /\ Len(AsObjects(ids)) = Len(ids)
         /\ \A k \in 1..Len(ids) :
              AsObjects(ids)[k] = [id |-> ids[k], status |-> rows[ids[k]].status,
                                   mark |-> rows[ids[k]].mark, deleted |-> FALSE]
<1>1. Len(ids) \in Nat /\ DOMAIN ids = 1..Len(ids)
      /\ \A k \in 1..Len(ids) : ids[k] \in DOMAIN rows
  OBVIOUS
<1> DEFINE o(k) == [id |-> ids[k], status |-> rows[ids[k]].status,
                    mark |-> rows[ids[k]].mark, deleted |-> FALSE]
<1>2. ASSUME NEW k \in 1..Len(ids) PROVE o(k) \in Object
  <2>1. ids[k] \in Id /\ rows[ids[k]] \in Row
    BY <1>1 DEF TypeInv, TypeOK
  <2> QED
    BY <2>1 DEF Row, Object
<1>3. AsObjects(ids) = [k \in 1..Len(ids) |-> o(k)]
  BY <1>1 DEF AsObjects
<1>4. \A k \in 1..Len(ids) : AsObjects(ids)[k] = o(k)
  BY <1>3
<1>5. AsObjects(ids) \in Seq(Object) /\ Len(AsObjects(ids)) = Len(ids)
  <2> HIDE DEF o
  <2> QED
    BY <1>1, <1>2, <1>3
<1> QED
  BY <1>4, <1>5

LEMMA RowsFinite ==
  ASSUME TypeInv
  PROVE  DOMAIN rows \in SUBSET Id /\ IsFiniteSet(DOMAIN rows)
         /\ Cardinality(DOMAIN rows) \in Nat
<1>1. DOMAIN rows \in SUBSET Id
  BY DEF TypeInv, TypeOK
<1> QED
  BY <1>1, IdAssumption, FS_Subset, FS_CardinalityType

\* The page that GetAll answers with.
PageEnd(r) ==
  IF (r.start + 1) * ItemsPerPage < Len(NewestFirst(DOMAIN rows))
    THEN (r.start + 1) * ItemsPerPage ELSE Len(NewestFirst(DOMAIN rows))
PageOf(r) ==
  SubSeq(NewestFirst(DOMAIN rows), r.start * ItemsPerPage + 1, PageEnd(r))

LEMMA PageIs ==
  ASSUME TypeInv, NEW r \in inFlight
  PROVE  LET newest == NewestFirst(DOMAIN rows)
             before == r.start * ItemsPerPage
         IN  /\ before \in Nat /\ Len(newest) = Cardinality(DOMAIN rows)
             /\ PageOf(r) \in Seq(DOMAIN rows)
             /\ Len(PageOf(r)) = IF before <= PageEnd(r) THEN PageEnd(r) - before ELSE 0
             /\ \A k \in 1..Len(PageOf(r)) :
                  PageOf(r)[k] = newest[before + k] /\ before + k <= Len(newest)
<1> DEFINE newest == NewestFirst(DOMAIN rows)
           before == r.start * ItemsPerPage
           last == PageEnd(r)
<1>1. newest \in Seq(DOMAIN rows) /\ Len(newest) = Cardinality(DOMAIN rows)
      /\ Len(newest) \in Nat
  BY RowsFinite, NewestFirstIs
<1>2. before \in Nat /\ (r.start + 1) * ItemsPerPage \in Nat
  BY RequestType, PageAssumption
<1>3. last \in Nat /\ last <= Len(newest) /\ PageOf(r) = SubSeq(newest, before + 1, last)
  BY <1>1, <1>2 DEF PageEnd, PageOf
<1> HIDE DEF newest, before, last
<1>4. \A k \in (before + 1)..last : newest[k] \in DOMAIN rows
  BY <1>1, <1>2, <1>3
<1>5. Len(PageOf(r)) = IF before <= last THEN last - before ELSE 0
  BY <1>1, <1>2, <1>3
<1>6. ASSUME NEW k \in 1..Len(PageOf(r))
      PROVE  PageOf(r)[k] = newest[before + k] /\ before + k <= Len(newest)
  BY <1>1, <1>2, <1>3, <1>5
<1>7. PageOf(r) \in Seq(DOMAIN rows)
  BY <1>1, <1>2, <1>3, <1>4
<1> QED
  BY <1>1, <1>2, <1>5, <1>6, <1>7 DEF newest, before, last

LEMMA AnswerType ==
  ASSUME TypeInv
  PROVE  /\ \A s \in Seq(Object) :
              Answer(s) \in [ok : BOOLEAN, done : BOOLEAN, data : Seq(Row \cup Object)]
         /\ \A u \in Row :
              Answer(<<u>>) \in [ok : BOOLEAN, done : BOOLEAN, data : Seq(Row \cup Object)]
         /\ Refusal \in [ok : BOOLEAN, done : BOOLEAN, data : Seq(Row \cup Object)]
         /\ Answer(<<>>) \in [ok : BOOLEAN, done : BOOLEAN, data : Seq(Row \cup Object)]
<1>1. \A s \in Seq(Object) : s \in Seq(Row \cup Object)
  OBVIOUS
<1>2. \A u \in Row : <<u>> \in Seq(Row \cup Object)
  OBVIOUS
<1>3. <<>> \in Seq(Row \cup Object)
  OBVIOUS
<1> QED
  BY <1>1, <1>2, <1>3 DEF Answer, Refusal

\* The server changes rows to rows.
LEMMA RowTypes ==
  ASSUME TypeInv
  PROVE  /\ \A i \in DOMAIN rows : rows[i] \in Row /\ i \in Id
         /\ \A op, u : u \in Row => [u EXCEPT !.status = ToStatus(op)] \in Row
         /\ \A u \in Row : [u EXCEPT !.mark = Admin] \in Row /\ [u EXCEPT !.mark = Common] \in Row
                           /\ [u EXCEPT !.mark = @ + 1] \in Row
         /\ \A id : DOMAIN Without(id) \subseteq DOMAIN rows
                    /\ \A i \in DOMAIN Without(id) : Without(id)[i] = rows[i]
<1>1. \A i \in DOMAIN rows : rows[i] \in Row /\ i \in Id
  BY DEF TypeInv, TypeOK
<1>2. \A op : ToStatus(op) \in {1, 2}
  BY DEF ToStatus
<1> QED
  BY <1>1, <1>2 DEF Row, Admin, Common, Without

LEMMA ServeType ==
  ASSUME TypeInv, NEW r \in inFlight, Serve(r)
  PROVE  TypeInv'
<1> USE DEF Serve
<1> DEFINE A == [ok : BOOLEAN, done : BOOLEAN, data : Seq(Row \cup Object)]
           with(answer) == [r EXCEPT !.answer = answer]
<1>1. r \in Request
  BY RequestType
<1>2. \A answer : with(answer).answer = answer /\ with(answer).op = r.op
  BY <1>1 DEF Request
<1>3. \A i \in DOMAIN rows : rows[i] \in Row /\ i \in Id
  BY RowTypes
<1>4. CASE GetAll(r)
  <2>1. Answered(r, Answer(AsObjects(PageOf(r)))) /\ rows' = rows /\ r.op = "load"
    BY <1>4 DEF GetAll, PageOf, PageEnd
  <2>2. AsObjects(PageOf(r)) \in Seq(Object)
    BY PageIs, AsObjectsType
  <2> DEFINE answer == Answer(AsObjects(PageOf(r)))
  <2>3. answer \in A /\ answer.data \in Seq(Object)
    BY <2>2, AnswerType DEF Answer
  <2>4. Answers(with(answer))
    BY <1>2, <2>1, <2>3, ConstantTypes DEF Answers, Manages
  <2> HIDE DEF answer
  <2>5. \A i \in DOMAIN rows' : rows'[i] \in Row /\ i \in Id
    BY <1>3, <2>1
  <2> QED
    BY <2>1, <2>3, <2>4, <2>5, AnsweredType DEF answer
<1>5. CASE SearchAll(r)
  <2>1. PICK found \in SUBSET DOMAIN rows :
          Answered(r, Answer(AsObjects(Reverse(NewestFirst(found)))))
    BY <1>5 DEF SearchAll
  <2>2. rows' = rows /\ r.op = "search"
    BY <1>5 DEF SearchAll
  <2>3. Reverse(NewestFirst(found)) \in Seq(DOMAIN rows)
    <3>1. found \in SUBSET Id
      BY <1>3
    <3>2. NewestFirst(found) \in Seq(found)
      BY <3>1, NewestFirstIs
    <3>3. Reverse(NewestFirst(found)) \in Seq(found)
      BY <3>2, ReverseIs
    <3> QED
      BY <3>3
  <2>4. AsObjects(Reverse(NewestFirst(found))) \in Seq(Object)
    BY <2>3, AsObjectsType
  <2> DEFINE answer == Answer(AsObjects(Reverse(NewestFirst(found))))
  <2>5. answer \in A /\ answer.data \in Seq(Object)
    BY <2>4, AnswerType DEF Answer
  <2>6. Answers(with(answer))
    BY <1>2, <2>2, <2>5, ConstantTypes DEF Answers, Manages
  <2> HIDE DEF answer
  <2>7. \A i \in DOMAIN rows' : rows'[i] \in Row /\ i \in Id
    BY <1>3, <2>2
  <2> QED
    BY <2>1, <2>5, <2>6, <2>7, AnsweredType DEF answer
<1>6. CASE ManageProfile(r)
  <2>1. kind = "profiles"
    BY <1>6 DEF ManageProfile
  <2>2. CASE /\ r.op \in {"enable", "disable"}
             /\ rows' = [i \in DOMAIN rows |->
                           IF i = r.id THEN [rows[i] EXCEPT !.status = ToStatus(r.op)]
                                       ELSE rows[i]]
             /\ Answered(r, Answer(<<>>))
    <3>1. \A i \in DOMAIN rows' : rows'[i] \in Row /\ i \in Id
      BY <2>2, RowTypes
    <3>2. Answers(with(Answer(<<>>)))
      BY <1>2, <2>1, <2>2 DEF Answers, Manages, ManageOps
    <3> QED
      BY <2>2, <3>1, <3>2, AnswerType, AnsweredType
  <2>3. CASE r.op = "delete" /\ rows' = Without(r.id) /\ Answered(r, Answer(<<>>))
    <3>1. \A i \in DOMAIN rows' : rows'[i] \in Row /\ i \in Id
      BY <2>3, RowTypes
    <3>2. Answers(with(Answer(<<>>)))
      BY <1>2, <2>1, <2>3 DEF Answers, Manages, ManageOps
    <3> QED
      BY <2>3, <3>1, <3>2, AnswerType, AnsweredType
  <2>4. CASE /\ r.op = "reset" /\ r.id \in DOMAIN rows
             /\ rows' = [rows EXCEPT ![r.id].mark = @ + 1]
             /\ Answered(r, Answer(<<rows'[r.id]>>))
    <3>1. \A i \in DOMAIN rows' : rows'[i] \in Row /\ i \in Id
      BY <2>4, RowTypes
    <3>2. rows'[r.id] \in Row
      BY <2>4, <3>1
    <3> DEFINE answer == Answer(<<rows'[r.id]>>)
    <3>3. answer \in A /\ answer.data = <<rows'[r.id]>>
      BY <3>2, AnswerType DEF Answer
    <3>4. Answers(with(answer))
      <4> HIDE DEF answer
      <4> QED
        BY <1>2, <2>1, <2>4, <3>2, <3>3 DEF Answers, Manages, ManageOps
    <3>5. Answered(r, answer)
      BY <2>4
    <3> HIDE DEF answer
    <3> QED
      BY <3>1, <3>3, <3>4, <3>5, AnsweredType
  <2> QED
    BY <1>6, <2>2, <2>3, <2>4 DEF ManageProfile
<1>7. CASE ManageUser(r)
  <2>1. kind = "users" /\ r.op \in ManageOps /\ r.id \in DOMAIN rows /\ rows[r.id] \in Row
    BY <1>3, <1>7 DEF ManageUser
  <2>2. PICK user \in Row :
          /\ rows' = IF r.op = "delete" THEN Without(r.id)
                                        ELSE [rows EXCEPT ![r.id] = user]
          /\ Answered(r, Answer(<<user>>))
    <3>1. /\ [rows[r.id] EXCEPT !.status = ToStatus(r.op)] \in Row
          /\ [rows[r.id] EXCEPT !.mark = Admin] \in Row
          /\ [rows[r.id] EXCEPT !.mark = Common] \in Row
      BY <2>1, RowTypes
    <3> DEFINE user == CASE r.op \in {"enable", "disable"} ->
                              [rows[r.id] EXCEPT !.status = ToStatus(r.op)]
                         [] r.op = "promote" -> [rows[r.id] EXCEPT !.mark = Admin]
                         [] r.op = "demote" -> [rows[r.id] EXCEPT !.mark = Common]
                         [] OTHER -> rows[r.id]
    <3>2. user \in Row
      BY <2>1, <3>1
    <3>3. /\ rows' = IF r.op = "delete" THEN Without(r.id)
                                        ELSE [rows EXCEPT ![r.id] = user]
          /\ Answered(r, Answer(<<user>>))
      BY <1>7 DEF ManageUser
    <3> HIDE DEF user
    <3> QED
      BY <3>2, <3>3
  <2>3. \A i \in DOMAIN rows' : rows'[i] \in Row /\ i \in Id
    BY <2>1, <2>2, RowTypes
  <2>4. Answer(<<user>>) \in A /\ Answer(<<user>>).data = <<user>>
    BY AnswerType DEF Answer
  <2>5. Answers(with(Answer(<<user>>)))
    <3>1. PICK answer : answer = Answer(<<user>>)
      OBVIOUS
    <3>2. answer.data = <<user>>
      BY <2>4, <3>1
    <3>3. answer.data # <<>> /\ answer.data[1] \in Row
      BY <2>2, <3>2
    <3>4. Answers(with(answer))
      BY <1>2, <2>1, <3>3 DEF Answers, Manages
    <3> QED
      BY <3>1, <3>4
  <2> QED
    BY <2>2, <2>3, <2>4, <2>5, AnsweredType
<1>8. CASE Refuse(r)
  <2>1. Answered(r, Refusal) /\ rows' = rows
    BY <1>8 DEF Refuse
  <2>2. Answers(with(Refusal))
    BY <1>2 DEF Answers, Refusal
  <2> QED
    BY <1>3, <2>1, <2>2, AnswerType, AnsweredType
<1> QED
  BY <1>4, <1>5, <1>6, <1>7, <1>8

\* A request that ends.
LEMMA EndedType ==
  ASSUME TypeInv, NEW r \in inFlight, inFlight' = inFlight \ {r}, Grows,
         UNCHANGED <<kind, patient, rows>>, acts' \in 0..MaxActs, astray' \subseteq Id,
         table' \in 1..Len(arrays'), activePage' \in Nat \ {0}
  PROVE  TypeInv'
<1>1. ManageOps' = ManageOps
  BY ConstantTypes
<1>2. \A q \in inFlight' : q \in Request' /\ Answers(q)' /\ Remembers(q)'
  BY RequestsKeep
<1>3. DOMAIN arrays' = 1..Len(arrays') /\ objects' \in Seq(Object)
      /\ arrays' \in Seq(Seq(1..Len(objects')))
  BY DEF Grows
<1> QED
  BY <1>1, <1>2, <1>3 DEF TypeInv, TypeOK, Remembers, Manages

\* An array is added, of objects that are there or were added.
LEMMA ShowsGrows ==
  ASSUME TypeInv, objects' \in Seq(Object), Len(objects) <= Len(objects'),
         \A o \in 1..Len(objects) : objects'[o].id = objects[o].id,
         NEW array \in Seq(1..Len(objects')), Shows(array), kind' = kind
  PROVE  /\ Grows /\ table' \in 1..Len(arrays') /\ arrays'[table'] = array
         /\ \A a \in 1..Len(arrays) : arrays'[a] = arrays[a]
<1>1. /\ arrays \in Seq(Seq(1..Len(objects))) /\ Len(arrays) \in Nat
      /\ Len(objects) \in Nat /\ Len(objects') \in Nat
      /\ \A a \in 1..Len(arrays) : arrays[a] \in Seq(1..Len(objects))
  BY Types
<1>2. \A s \in Seq(1..Len(objects)) : s \in Seq(1..Len(objects')) /\ Len(s) <= Len(s)
  <2>1. \A o \in 1..Len(objects) : o \in 1..Len(objects')
    BY <1>1
  <2> QED
    BY <2>1
<1>3. arrays' = Append(arrays, array) /\ table' = Len(arrays) + 1
  BY DEF Shows
<1>4. arrays \in Seq(Seq(1..Len(objects')))
  BY <1>1, <1>2
<1>5. /\ arrays' \in Seq(Seq(1..Len(objects'))) /\ Len(arrays') = Len(arrays) + 1
      /\ \A a \in 1..Len(arrays) : arrays'[a] = arrays[a]
      /\ arrays'[Len(arrays) + 1] = array
  BY <1>1, <1>3, <1>4
<1> QED
  BY <1>1, <1>2, <1>3, <1>5 DEF Grows

\* Objects that are received are added after those that are there.
LEMMA NewIs ==
  ASSUME TypeInv, NEW data \in Seq(Object), objects' = objects \o data
  PROVE  /\ objects' \in Seq(Object) /\ Len(objects') = Len(objects) + Len(data)
         /\ Len(data) \in Nat /\ DOMAIN data = 1..Len(data)
         /\ Len(objects) <= Len(objects')
         /\ \A o \in 1..Len(objects) : objects'[o] = objects[o]
         /\ \A o \in 1..Len(objects) : objects'[o].id = objects[o].id
         /\ \A k \in 1..Len(data) : objects'[Len(objects) + k] = data[k]
         /\ New(data) \in Seq(1..Len(objects')) /\ Len(New(data)) = Len(data)
         /\ \A k \in 1..Len(data) : New(data)[k] = Len(objects) + k
<1>1. objects \in Seq(Object) /\ Len(objects) \in Nat /\ Len(data) \in Nat
      /\ DOMAIN data = 1..Len(data)
  BY Types
<1>2. /\ objects' \in Seq(Object) /\ Len(objects') = Len(objects) + Len(data)
      /\ \A o \in 1..Len(objects) : objects'[o] = objects[o]
      /\ \A k \in 1..Len(data) : objects'[Len(objects) + k] = data[k]
  BY <1>1
<1>3. New(data) = [k \in 1..Len(data) |-> Len(objects) + k]
  BY <1>1 DEF New
<1>4. \A k \in 1..Len(data) : Len(objects) + k \in 1..Len(objects')
  BY <1>1, <1>2
<1>5. New(data) \in Seq(1..Len(objects')) /\ Len(New(data)) = Len(data)
  BY <1>1, <1>3, <1>4
<1>6. Len(objects) <= Len(objects')
  BY <1>1, <1>2
<1>7. \A o \in 1..Len(objects) : objects'[o].id = objects[o].id
  BY <1>2
<1> QED
  BY <1>1, <1>2, <1>3, <1>5, <1>6, <1>7

\* Rows are pushed onto an array that is there.
LEMMA PushGrows ==
  ASSUME TypeInv, NEW a \in 1..Len(arrays), NEW data \in Seq(Object),
         objects' = objects \o data,
         arrays' = [arrays EXCEPT ![a] = @ \o New(data)], kind' = kind
  PROVE  /\ Grows /\ Len(arrays') = Len(arrays)
         /\ Len(arrays'[a]) = Len(arrays[a]) + Len(data)
         /\ \A k \in 1..Len(arrays[a]) : arrays'[a][k] = arrays[a][k]
         /\ \A k \in 1..Len(data) : arrays'[a][Len(arrays[a]) + k] = Len(objects) + k
         /\ \A b \in 1..Len(arrays) : b # a => arrays'[b] = arrays[b]
<1>1. /\ arrays \in Seq(Seq(1..Len(objects))) /\ Len(arrays) \in Nat
      /\ Len(objects) \in Nat
      /\ \A b \in 1..Len(arrays) : arrays[b] \in Seq(1..Len(objects)) /\ Len(arrays[b]) \in Nat
  BY Types
<1>2. /\ objects' \in Seq(Object) /\ Len(objects') = Len(objects) + Len(data)
      /\ Len(data) \in Nat
      /\ \A o \in 1..Len(objects) : objects'[o] = objects[o]
      /\ New(data) \in Seq(1..Len(objects')) /\ Len(New(data)) = Len(data)
      /\ \A k \in 1..Len(data) : New(data)[k] = Len(objects) + k
  BY NewIs
<1>3. \A s \in Seq(1..Len(objects)) : s \in Seq(1..Len(objects'))
  <2>1. \A o \in 1..Len(objects) : o \in 1..Len(objects')
    BY <1>1, <1>2
  <2> QED
    BY <2>1
<1> DEFINE pushed == arrays[a] \o New(data)
<1>4. arrays[a] \in Seq(1..Len(objects'))
  BY <1>1, <1>3
<1>5. /\ pushed \in Seq(1..Len(objects')) /\ Len(pushed) = Len(arrays[a]) + Len(data)
      /\ \A k \in 1..Len(arrays[a]) : pushed[k] = arrays[a][k]
      /\ \A k \in 1..Len(data) : pushed[Len(arrays[a]) + k] = Len(objects) + k
  <2>1. \A k \in 1..Len(data) : pushed[Len(arrays[a]) + k] = New(data)[k]
    BY <1>1, <1>2
  <2> QED
    BY <1>1, <1>2, <1>4, <2>1
<1>6. /\ Len(arrays') = Len(arrays) /\ arrays'[a] = pushed
      /\ \A b \in 1..Len(arrays) : b # a => arrays'[b] = arrays[b]
  <2>1. ASSUME NEW S, NEW q \in Seq(S), NEW i \in 1..Len(q), NEW x
        PROVE  /\ Len([q EXCEPT ![i] = x]) = Len(q) /\ [q EXCEPT ![i] = x][i] = x
               /\ \A b \in 1..Len(q) : b # i => [q EXCEPT ![i] = x][b] = q[b]
    BY <2>1
  <2>2. arrays' = [arrays EXCEPT ![a] = pushed]
    OBVIOUS
  <2> HIDE DEF pushed
  <2> QED
    BY <1>1, <2>1, <2>2
<1> HIDE DEF pushed
<1>7. arrays' \in Seq(Seq(1..Len(objects')))
  <2>1. arrays \in Seq(Seq(1..Len(objects')))
    BY <1>1, <1>3
  <2> QED
    BY <1>5, <2>1 DEF pushed
<1>8. Grows
  <2>1. \A b \in 1..Len(arrays) :
          /\ Len(arrays[b]) <= Len(arrays'[b])
          /\ \A k \in 1..Len(arrays[b]) : arrays'[b][k] = arrays[b][k]
    BY <1>1, <1>2, <1>5, <1>6
  <2> QED
    BY <1>1, <1>2, <1>6, <1>7, <2>1 DEF Grows
<1> QED
  BY <1>5, <1>6, <1>8

Marked(r, o) == IF kind = "profiles" THEN MarkedProfile(r, o) ELSE MarkedUser(r, o)

\* The object that an answer changes.
Clicked(r) == arrays[r.array][r.at]

LEMMA ClickedIs ==
  ASSUME TypeInv, NEW r \in inFlight, Manages(r)
  PROVE  /\ r.array \in 1..Len(arrays) /\ r.at \in 1..Len(arrays[r.array])
         /\ Clicked(r) \in 1..Len(objects) /\ objects[Clicked(r)] \in Object
         /\ objects[Clicked(r)].id = r.id /\ r.id \in Id
BY RequestType, Types DEF Remembers, Clicked

LEMMA MarkedType ==
  ASSUME TypeInv, NEW r \in inFlight, Manages(r), r.answer.ok, NEW o \in Object
  PROVE  Marked(r, o) \in Object /\ Marked(r, o).id = o.id
<1>1. Answers(r) /\ kind \in {"profiles", "users"}
  BY RequestType DEF TypeInv, TypeOK
<1>2. CASE kind = "profiles"
  <2>1. r.op = "reset" => r.answer.data[1].mark \in Nat
    BY <1>1 DEF Answers, Row
  <2>2. ToStatus(r.op) \in {1, 2}
    BY DEF ToStatus
  <2>3. MarkedProfile(r, o) \in Object /\ MarkedProfile(r, o).id = o.id
    BY <2>1, <2>2 DEF MarkedProfile, Object
  <2> QED
    BY <1>2, <2>3 DEF Marked
<1>3. CASE kind = "users"
  <2>1. r.answer.data[1] \in Row
    BY <1>1, <1>3 DEF Answers
  <2>2. MarkedUser(r, o) \in Object /\ MarkedUser(r, o).id = o.id
    BY <2>1 DEF MarkedUser, Object, Row
  <2> QED
    BY <1>3, <2>2 DEF Marked
<1> QED
  BY <1>1, <1>2, <1>3

\* An answer about a row changes the object that was clicked, in place.
LEMMA ManageAnsweredIs ==
  ASSUME TypeInv, NEW r \in inFlight, ManageAnswered(r), kind' = kind
  PROVE  /\ Manages(r) /\ r.answer.ok
         /\ objects' \in Seq(Object) /\ Len(objects') = Len(objects)
         /\ objects'[Clicked(r)] = Marked(r, objects[Clicked(r)])
         /\ \A o \in 1..Len(objects) : /\ o # Clicked(r) => objects'[o] = objects[o]
                                       /\ objects'[o].id = objects[o].id
         /\ Grows /\ table' \in 1..Len(arrays') /\ arrays'[table'] = arrays[r.array]
         /\ \A a \in 1..Len(arrays) : arrays'[a] = arrays[a]
<1>1. Manages(r) /\ r.answer.ok /\ Shows(arrays[r.array])
  BY DEF ManageAnswered, Manages
<1>2. /\ r.array \in 1..Len(arrays)
      /\ Clicked(r) \in 1..Len(objects) /\ objects[Clicked(r)] \in Object
  BY <1>1, ClickedIs
<1>3. objects \in Seq(Object) /\ Len(objects) \in Nat /\ DOMAIN objects = 1..Len(objects)
  BY Types
<1>4. objects' = [objects EXCEPT ![Clicked(r)] = Marked(r, @)]
  BY DEF ManageAnswered, Marked, Clicked
<1>5. Marked(r, objects[Clicked(r)]) \in Object
      /\ Marked(r, objects[Clicked(r)]).id = objects[Clicked(r)].id
  BY <1>1, <1>2, MarkedType
<1>6. /\ objects' \in Seq(Object) /\ Len(objects') = Len(objects)
      /\ objects'[Clicked(r)] = Marked(r, objects[Clicked(r)])
      /\ \A o \in 1..Len(objects) : o # Clicked(r) => objects'[o] = objects[o]
  BY <1>2, <1>3, <1>4, <1>5
<1>7. \A o \in 1..Len(objects) : objects'[o].id = objects[o].id
  BY <1>5, <1>6
<1>8. arrays[r.array] \in Seq(1..Len(objects'))
  BY <1>2, <1>6, Types
<1> QED
  BY <1>1, <1>3, <1>6, <1>7, <1>8, ShowsGrows

LEMMA ReceiveType ==
  ASSUME TypeInv, NEW r \in inFlight, Receive(r)
  PROVE  TypeInv' /\ Grows
<1>1. /\ inFlight' = inFlight \ {r} /\ UNCHANGED <<kind, patient, rows, astray, acts>>
  BY DEF Receive
<1>2. /\ acts' \in 0..MaxActs /\ astray' \subseteq Id /\ activePage \in Nat \ {0}
      /\ table \in 1..Len(arrays)
  BY <1>1, Types DEF TypeInv, TypeOK
<1>3. SUFFICES Grows /\ table' \in 1..Len(arrays') /\ activePage' \in Nat \ {0}
  BY <1>1, <1>2, EndedType
<1>4. /\ r.goto \in Nat /\ r.array \in 1..Len(arrays)
      /\ ~ Manages(r) /\ r.answer.ok => r.answer.data \in Seq(Object)
  BY RequestType DEF Answers
<1>5. CASE LoadAnswered(r)
  <2>1. ~ Manages(r) /\ activePage' \in Nat \ {0}
    BY <1>2, <1>4, <1>5, ConstantTypes DEF LoadAnswered, Manages
  <2>2. CASE ~ r.answer.ok
    <3>1. UNCHANGED <<objects, arrays, table>>
      BY <1>5, <2>2 DEF LoadAnswered
    <3> QED
      BY <1>1, <1>2, <2>1, <3>1, Still
  <2>3. CASE r.answer.ok /\ r.start = 0
    <3>1. objects' = objects \o r.answer.data /\ Shows(New(r.answer.data))
      BY <1>5, <2>3 DEF LoadAnswered
    <3>2. r.answer.data \in Seq(Object)
      BY <1>4, <2>1, <2>3
    <3>3. /\ objects' \in Seq(Object) /\ Len(objects) <= Len(objects')
          /\ \A o \in 1..Len(objects) : objects'[o].id = objects[o].id
          /\ New(r.answer.data) \in Seq(1..Len(objects'))
      BY <3>1, <3>2, NewIs
    <3> QED
      BY <1>1, <2>1, <3>1, <3>3, ShowsGrows
  <2>4. CASE r.answer.ok /\ r.start # 0
    <3>1. /\ objects' = objects \o r.answer.data
          /\ arrays' = [arrays EXCEPT ![r.array] = @ \o New(r.answer.data)]
          /\ table' = r.array
      BY <1>5, <2>4 DEF LoadAnswered
    <3>2. r.answer.data \in Seq(Object)
      BY <1>4, <2>1, <2>4
    <3>3. Grows /\ Len(arrays') = Len(arrays)
      BY <1>1, <1>4, <3>1, <3>2, PushGrows
    <3> QED
      BY <1>4, <2>1, <3>1, <3>3
  <2> QED
    BY <1>4, <2>2, <2>3, <2>4
<1>6. CASE SearchAnswered(r)
  <2>1. ~ Manages(r) /\ activePage' = 1
    BY <1>6, ConstantTypes DEF SearchAnswered, Manages
  <2>2. r.answer.data \in Seq(Object) /\ objects' = objects \o r.answer.data
        /\ Shows(New(r.answer.data))
    BY <1>4, <1>6, <2>1 DEF SearchAnswered
  <2>3. /\ objects' \in Seq(Object) /\ Len(objects) <= Len(objects')
        /\ \A o \in 1..Len(objects) : objects'[o].id = objects[o].id
        /\ New(r.answer.data) \in Seq(1..Len(objects'))
    BY <2>2, NewIs
  <2> QED
    BY <1>1, <2>1, <2>2, <2>3, ShowsGrows
<1>7. CASE ManageAnswered(r)
  <2>1. activePage' = activePage
    BY <1>7 DEF ManageAnswered
  <2> QED
    BY <1>1, <1>2, <1>7, <2>1, ManageAnsweredIs
<1>8. CASE RefusalShown(r)
  <2>1. UNCHANGED <<objects, arrays, table, activePage>>
    BY <1>8 DEF RefusalShown
  <2> QED
    BY <1>1, <1>2, <2>1, Still
<1> QED
  BY <1>5, <1>6, <1>7, <1>8 DEF Receive

LEMMA PagesType == TypeInv => TotalPages \in Nat
<1> SUFFICES ASSUME TypeInv PROVE TotalPages \in Nat
  OBVIOUS
<1>1. Len(arrays[table]) \in Nat
  BY Types
<1>2. \A n, m \in Nat : m # 0 => (n + m - 1) \div m \in Nat
  OBVIOUS
<1>3. Pages(arrays[table]) \in Nat
  BY <1>1, <1>2, PageAssumption DEF Pages
<1> QED
  BY <1>3 DEF TotalPages

LEMMA SortType ==
  ASSUME TypeInv, NEW column, Sort(column)
  PROVE  TypeInv' /\ Grows
<1>1. /\ arrays' = Append(arrays, Sorted(arrays[table], column)) /\ table' = Len(arrays) + 1
      /\ UNCHANGED <<kind, patient, rows, objects, activePage, inFlight, astray>>
      /\ acts' \in 0..MaxActs
  <2>1. acts < MaxActs /\ acts \in 0..MaxActs
    BY BoundAssumption DEF Sort, Bound, TypeInv, TypeOK
  <2> QED
    BY <2>1, BoundAssumption DEF Sort
<1>2. table \in 1..Len(arrays) /\ objects \in Seq(Object) /\ Len(objects) \in Nat
  BY Types
<1>3. Sorted(arrays[table], column) \in Seq(1..Len(objects))
  BY <1>2, SortedIs
<1>4. Shows(Sorted(arrays[table], column))
  BY <1>1 DEF Shows
<1>5. Grows /\ table' \in 1..Len(arrays')
  BY <1>1, <1>2, <1>3, <1>4, ShowsGrows
<1>6. ManageOps' = ManageOps
  BY <1>1, ConstantTypes
<1>7. \A q \in inFlight' : q \in Request' /\ Answers(q)' /\ Remembers(q)'
  BY <1>1, <1>5, RequestsKeep
<1>8. DOMAIN arrays' = 1..Len(arrays') /\ objects' \in Seq(Object)
      /\ arrays' \in Seq(Seq(1..Len(objects')))
  BY <1>5 DEF Grows
<1>9. TypeInv'
  BY <1>1, <1>5, <1>6, <1>7, <1>8 DEF TypeInv, TypeOK, Remembers, Manages
<1> QED
  BY <1>5, <1>9

LEMMA ElsewhereType ==
  ASSUME TypeInv, NEW id \in Id, Elsewhere(id)
  PROVE  TypeInv'
<1>1. /\ acts' \in 0..MaxActs
      /\ UNCHANGED <<kind, patient, objects, arrays, table, activePage, inFlight>>
      /\ astray' \subseteq Id
  <2>1. acts < MaxActs /\ acts \in 0..MaxActs /\ astray \subseteq Id
    BY BoundAssumption DEF Elsewhere, Bound, TypeInv, TypeOK
  <2> QED
    BY <2>1, BoundAssumption DEF Elsewhere
<1>2. /\ id \in DOMAIN rows
      /\ rows' = Without(id) \/ rows' = [rows EXCEPT ![id].status = 3 - @]
  BY DEF Elsewhere
<1>3. \A i \in DOMAIN rows : rows[i] \in Row /\ i \in Id
  BY RowTypes
<1>4. ASSUME NEW i \in DOMAIN rows' PROVE rows'[i] \in Row /\ i \in Id
  <2>1. CASE rows' = Without(id)
    BY <1>3, <2>1 DEF Without
  <2>2. CASE rows' = [rows EXCEPT ![id].status = 3 - @]
    <3>1. \A u \in Row : [u EXCEPT !.status = 3 - @] \in Row
      BY DEF Row
    <3> QED
      BY <1>2, <1>3, <2>2, <3>1
  <2> QED
    BY <1>2, <2>1, <2>2
<1>5. Grows
  BY <1>1, Still
<1>6. ManageOps' = ManageOps
  BY <1>1, ConstantTypes
<1>7. \A q \in inFlight' : q \in Request' /\ Answers(q)' /\ Remembers(q)'
  BY <1>1, <1>5, RequestsKeep
<1> QED
  BY <1>1, <1>4, <1>6, <1>7 DEF TypeInv, TypeOK, Remembers, Manages

LEMMA LoseType ==
  ASSUME TypeInv, NEW r \in inFlight, Lose(r)
  PROVE  TypeInv'
<1>1. /\ acts' \in 0..MaxActs /\ inFlight' = inFlight \ {r}
      /\ UNCHANGED <<kind, patient, rows, objects, arrays, table, activePage>>
  <2>1. acts < MaxActs /\ acts \in 0..MaxActs
    BY BoundAssumption DEF Lose, Bound, TypeInv, TypeOK
  <2> QED
    BY <2>1, BoundAssumption DEF Lose
<1>2. astray' \subseteq Id
  <2>1. astray \subseteq Id /\ (Manages(r) => r.id \in Id)
    BY RequestType DEF TypeInv, TypeOK, Remembers
  <2> QED
    BY <2>1 DEF Lose, Manages
<1>3. table \in 1..Len(arrays) /\ activePage \in Nat \ {0}
  BY Types DEF TypeInv, TypeOK
<1> QED
  BY <1>1, <1>2, <1>3, EndedType, Still

LEMMA TypeStep ==
  ASSUME TypeInv, [Next]_vars
  PROVE  TypeInv'
<1>1. /\ activePage \in Nat \ {0} /\ TotalPages \in Nat /\ ManageOps \cap {"load", "search"} = {}
  BY PagesType, ConstantTypes DEF TypeInv, TypeOK
<1>2. ASSUME NEW p \in 1..TotalPages, OnPaginationLoad(p) PROVE TypeInv'
  <2>1. Ask("load", 0, p - 1, 0, p) /\ p - 1 \in Nat /\ p \in Nat
    BY <1>1, <1>2 DEF OnPaginationLoad
  <2>2. UNCHANGED <<kind, patient, rows, objects, arrays, table, activePage, astray>>
    BY <1>2 DEF OnPaginationLoad
  <2> QED
    BY <2>1, <2>2, AskType
<1>3. ASSUME NEW p \in 1..TotalPages, OnPaginationTurn(p) PROVE TypeInv'
  <2>1. UNCHANGED <<kind, patient, rows, objects, arrays, table, inFlight, astray, acts>>
        /\ activePage' \in Nat \ {0}
    BY <1>1, <1>3 DEF OnPaginationTurn
  <2> QED
    BY <2>1 DEF TypeInv, TypeOK, Request, ManageOps, Answers, Remembers, Manages
<1>4. ASSUME Search PROVE TypeInv'
  <2>1. PICK op \in {"load", "search"} : Ask(op, 0, 0, 0, 1)
    BY <1>4 DEF Search
  <2>2. UNCHANGED <<kind, patient, rows, objects, arrays, table, activePage, astray>>
    BY <1>4 DEF Search
  <2> QED
    BY <2>1, <2>2, AskType
<1>5. ASSUME NEW idx \in 1..ItemsPerPage, NEW op \in ManageOps, Manage(idx, op) PROVE TypeInv'
  <2>1. PICK at : /\ at = (activePage - 1) * ItemsPerPage + idx
                  /\ at \in DOMAIN arrays[table]
                  /\ Ask(op, objects[arrays[table][at]].id, 0, at, 0)
                  /\ UNCHANGED <<kind, patient, rows, objects, arrays, table, activePage, astray>>
    BY <1>5 DEF Manage
  <2>2. at \in Nat
    BY <2>1, Types
  <2> QED
    BY <2>1, <2>2, AskType
<1>6. ASSUME NEW column \in {"id", "status"}, Sort(column) PROVE TypeInv'
  BY <1>6, SortType
<1>7. ASSUME NEW r \in inFlight, Serve(r) \/ Receive(r) \/ Lose(r) PROVE TypeInv'
  BY <1>7, ServeType, ReceiveType, LoseType
<1>8. ASSUME NEW id \in Id, Elsewhere(id) PROVE TypeInv'
  BY <1>8, ElsewhereType
<1>9. ASSUME UNCHANGED vars PROVE TypeInv'
  BY <1>9 DEF vars, TypeInv, TypeOK, Request, ManageOps, Answers, Remembers, Manages
<1> QED
  BY <1>2, <1>3, <1>4, <1>5, <1>6, <1>7, <1>8, <1>9 DEF Next

\* The browser's arrays hold objects that it has, and a request remembers a place that
\* holds the row that was clicked, whatever is loaded, sorted or searched meanwhile.
THEOREM TypeCorrect == Spec => []TypeOK
<1>1. Init => TypeInv
  BY TypeInit
<1>2. TypeInv /\ [Next]_vars => TypeInv'
  BY TypeStep
<1>3. TypeInv => TypeOK
  BY DEF TypeInv
<1> QED
  BY <1>1, <1>2, <1>3, PTL DEF Spec

\* An answer changes the row that was clicked and no other (the handlers manageProfile and
\* manageUser of ProfilesTable.js and UsersTable.js write into the copy they remember).
LEMMA MarksStep ==
  ASSUME TypeInv, [Next]_vars
  PROVE  [\A o \in DOMAIN objects :
            objects'[o] # objects[o] =>
              \E r \in inFlight \ inFlight' : r.op \in ManageOps /\ r.id = objects[o].id]_vars
<1> SUFFICES ASSUME NEW o \in 1..Len(objects), objects'[o] # objects[o]
             PROVE  \E r \in inFlight \ inFlight' : r.op \in ManageOps /\ r.id = objects[o].id
  BY Types
<1>1. PICK r \in inFlight : Receive(r)
  BY DEF Next, vars, OnPaginationLoad, OnPaginationTurn, Search, Manage, Sort, Serve, Lose,
         Elsewhere
<1>2. ASSUME ~ Manages(r), r.answer.ok, objects' = objects \o r.answer.data PROVE FALSE
  <2>1. r.answer.data \in Seq(Object)
    BY <1>2, RequestType DEF Answers
  <2> QED
    BY <1>2, <2>1, NewIs
<1>3. ManageAnswered(r)
  BY <1>1, <1>2, ConstantTypes DEF Receive, LoadAnswered, SearchAnswered, RefusalShown, Manages
<1>4. kind' = kind /\ inFlight' = inFlight \ {r}
  BY <1>1 DEF Receive
<1>5. Manages(r) /\ o = Clicked(r)
  BY <1>3, <1>4, ManageAnsweredIs
<1>6. objects[o].id = r.id
  BY <1>5, ClickedIs
<1> QED
  BY <1>4, <1>5, <1>6 DEF Manages

THEOREM MarksItsRow == Spec => AnswersMarkTheirRow
<1>1. Init => TypeInv
  BY TypeInit
<1>2. TypeInv /\ [Next]_vars => TypeInv'
  BY TypeStep
<1>3. TypeInv /\ [Next]_vars =>
        [\A o \in DOMAIN objects :
           objects'[o] # objects[o] =>
             \E r \in inFlight \ inFlight' : r.op \in ManageOps /\ r.id = objects[o].id]_vars
  BY MarksStep
<1> QED
  BY <1>1, <1>2, <1>3, PTL DEF Spec, AnswersMarkTheirRow

-------------------------------------------------------------------------------
\* For an administrator who waits, the table tells the truth.

\* What the server says of an object that was not changed behind the browser's back.
IsTrue(o) ==
  IF o.deleted THEN o.id \notin DOMAIN rows
  ELSE o.id \in DOMAIN rows /\ rows[o.id] = [status |-> o.status, mark |-> o.mark]

\* An administrator who waits has one load on its way, or changes of different rows.
Waits ==
  \A r, s \in inFlight : (~ Manages(r) \/ r.id = s.id) => r = s

\* The array of every request has the rows of the one on display.
SameRows == \A r \in inFlight : Objects(arrays[r.array]) = Objects(arrays[table])

\* An object on display whose row is listed once and was not changed behind the browser's
\* back.
Alone(o) ==
  /\ \A q \in Objects(arrays[table]) : objects[q].id = objects[o].id => q = o
  /\ objects[o].id \notin astray

Settled(o) == \A r \in inFlight : Manages(r) => r.id # objects[o].id

\* It will tell the truth when the answer to r has been dealt with.
Due(r, o) == IF r.answer.ok THEN IsTrue(Marked(r, objects[o])) ELSE IsTrue(objects[o])

Tells(o) ==
  Alone(o) =>
    /\ Settled(o) => IsTrue(objects[o])
    /\ \A r \in inFlight : Manages(r) /\ r.id = objects[o].id => Due(r, o)

\* So does an answer that brings rows.
Brings(r) ==
  /\ r.answer.ok => r.answer.done
  /\ ~ Manages(r) /\ r.answer.ok =>
       \A k \in DOMAIN r.answer.data :
         r.answer.data[k].id \notin astray =>
           ~ r.answer.data[k].deleted /\ IsTrue(r.answer.data[k])

TruthPart ==
  /\ Waits
  /\ SameRows
  /\ \A o \in Objects(arrays[table]) : Tells(o)
  /\ \A r \in inFlight : Brings(r)

TruthInv == TypeInv /\ (patient => TruthPart)

\* Nothing that is shown changes, and no request about a row comes or goes unless the
\* server's row is then what is shown.
Quiet ==
  /\ UNCHANGED <<kind, rows, objects>>
  /\ Objects(arrays'[table']) = Objects(arrays[table])
  /\ astray \subseteq astray'
  /\ \A q \in inFlight' :
       Manages(q) => q \in inFlight \/ /\ ~ q.answer.ok
                                       /\ \A r \in inFlight : Manages(r) => r.id # q.id
  /\ \A r \in inFlight \ inFlight' : Manages(r) => ~ r.answer.ok \/ r.id \in astray'

LEMMA QuietTells ==
  ASSUME TruthPart, Quiet
  PROVE  \A o \in Objects(arrays'[table']) : Tells(o)'
<1> SUFFICES ASSUME NEW o \in Objects(arrays'[table']), Alone(o)'
             PROVE  /\ Settled(o)' => IsTrue(objects[o])'
                    /\ \A q \in inFlight' :
                         Manages(q)' /\ q.id = objects'[o].id => Due(q, o)'
  BY DEF Tells
<1>1. /\ kind' = kind /\ rows' = rows /\ objects' = objects /\ astray \subseteq astray'
      /\ Objects(arrays'[table']) = Objects(arrays[table]) /\ ManageOps' = ManageOps
  BY ConstantTypes DEF Quiet
<1>2. Alone(o) /\ Tells(o)
  <2>1. Alone(o)
    BY <1>1 DEF Alone
  <2> QED
    BY <1>1, <2>1 DEF TruthPart
<1>3. /\ Settled(o) => IsTrue(objects[o])
      /\ \A r \in inFlight : Manages(r) /\ r.id = objects[o].id => Due(r, o)
  BY <1>2 DEF Tells
<1>4. IsTrue(objects[o])' <=> IsTrue(objects[o])
  BY <1>1 DEF IsTrue
<1>5. \A q : Manages(q)' <=> Manages(q)
  BY <1>1 DEF Manages
<1>6. \A q : Due(q, o)' <=> Due(q, o)
  BY <1>1 DEF Due, IsTrue, Marked, MarkedProfile, MarkedUser, ToStatus
<1>7. ASSUME Settled(o)' PROVE IsTrue(objects[o])
  <2>1. CASE Settled(o)
    BY <1>3, <2>1
  <2>2. CASE ~ Settled(o)
    <3>1. PICK r \in inFlight : Manages(r) /\ r.id = objects[o].id
      BY <2>2 DEF Settled
    <3>2. r \notin inFlight' /\ r.id \notin astray'
      BY <1>1, <1>5, <1>7, <3>1 DEF Settled, Alone
    <3>3. ~ r.answer.ok /\ Due(r, o)
      BY <1>3, <3>1, <3>2 DEF Quiet
    <3> QED
      BY <3>3 DEF Due
  <2> QED
    BY <2>1, <2>2
<1>8. ASSUME NEW q \in inFlight', Manages(q), q.id = objects[o].id PROVE Due(q, o)
  <2>1. CASE q \in inFlight
    BY <1>3, <1>8, <2>1
  <2>2. CASE q \notin inFlight
    <3>1. ~ q.answer.ok /\ Settled(o)
      BY <1>8, <2>2 DEF Quiet, Settled
    <3> QED
      BY <1>3, <3>1 DEF Due
  <2> QED
    BY <2>1, <2>2
<1> QED
  BY <1>1, <1>4, <1>5, <1>6, <1>7, <1>8

\* Requests that stay bring the truth, if the rows they bring have not changed.
LEMMA BringsStays ==
  ASSUME TruthPart, NEW r \in inFlight, kind' = kind, rows' = rows, astray \subseteq astray'
  PROVE  Brings(r)'
<1>1. Brings(r) /\ ManageOps' = ManageOps
  BY ConstantTypes DEF TruthPart
<1> QED
  BY <1>1 DEF Brings, IsTrue, Manages

LEMMA TruthInit ==
  ASSUME Init
  PROVE  TruthPart
<1> DEFINE r == [n |-> MaxActs, op |-> "load", id |-> 0, start |-> 0, array |-> 1,
                 at |-> 0, goto |-> 0, answer |-> Pending]
<1>1. inFlight = {r} /\ arrays = <<<<>>>> /\ table = 1
  BY DEF Init
<1>2. r.answer.ok = FALSE /\ r.array = 1
  BY DEF Pending
<1> HIDE DEF r
<1>3. Waits /\ SameRows /\ \A q \in inFlight : Brings(q)
  BY <1>1, <1>2 DEF Waits, SameRows, Brings
<1>4. Objects(arrays[table]) = {}
  <2>1. arrays[table] = <<>> /\ DOMAIN <<>> = {}
    BY <1>1
  <2> QED
    BY <2>1 DEF Objects
<1> QED
  BY <1>3, <1>4 DEF TruthPart

\* A request that asks for rows is sent when nothing is on its way.
LEMMA LoadSentTruth ==
  ASSUME TypeInv, TruthPart, NEW op \in {"load", "search"}, NEW start, NEW goto,
         inFlight = {}, Ask(op, 0, start, 0, goto),
         UNCHANGED <<kind, patient, rows, objects, arrays, table, astray>>
  PROVE  TruthPart'
<1>0. PICK r : r = Asked(op, 0, start, 0, goto)
  OBVIOUS
<1>1. inFlight' = {r} /\ r.array = table /\ r.op = op /\ r.answer.ok = FALSE
  BY <1>0 DEF Ask, Asked, Pending
<1>2. ManageOps' = ManageOps /\ ~ Manages(r)
  BY <1>1, ConstantTypes DEF Manages
<1>3. Waits' /\ SameRows' /\ \A q \in inFlight' : Brings(q)'
  BY <1>1 DEF Waits, SameRows, Brings
<1>4. Quiet
  BY <1>1, <1>2 DEF Quiet
<1>5. \A o \in Objects(arrays'[table']) : Tells(o)'
  BY <1>4, QuietTells
<1> QED
  BY <1>3, <1>5 DEF TruthPart

\* A request about a row is sent when nothing about it is on its way.
LEMMA ManageSentTruth ==
  ASSUME TypeInv, TruthPart, NEW op \in ManageOps, NEW id, NEW at,
         \A q \in inFlight : q.op \in ManageOps /\ q.id # id, Ask(op, id, 0, at, 0),
         UNCHANGED <<kind, patient, rows, objects, arrays, table, astray>>
  PROVE  TruthPart'
<1>0. PICK r : r = Asked(op, id, 0, at, 0)
  OBVIOUS
<1>1. inFlight' = inFlight \cup {r} /\ r.array = table /\ r.op = op /\ r.id = id
      /\ r.answer.ok = FALSE
  BY <1>0 DEF Ask, Asked, Pending
<1>2. ManageOps' = ManageOps
  BY ConstantTypes
<1>3. Waits' /\ SameRows'
  BY <1>1, <1>2 DEF TruthPart, Waits, SameRows, Manages
<1>4. \A q \in inFlight' : Brings(q)'
  <2>1. Brings(r)'
    BY <1>1 DEF Brings
  <2> QED
    BY <1>1, <2>1, BringsStays
<1>5. Quiet
  BY <1>1 DEF Quiet
<1>6. \A o \in Objects(arrays'[table']) : Tells(o)'
  BY <1>5, QuietTells
<1> QED
  BY <1>3, <1>4, <1>6 DEF TruthPart

LEMMA SortTruth ==
  ASSUME TypeInv, TruthPart, NEW column, Sort(column)
  PROVE  TruthPart'
<1>1. /\ arrays' = Append(arrays, Sorted(arrays[table], column)) /\ table' = Len(arrays) + 1
      /\ UNCHANGED <<kind, patient, rows, objects, inFlight, astray>>
  BY DEF Sort
<1>2. /\ arrays \in Seq(Seq(1..Len(objects))) /\ table \in 1..Len(arrays)
      /\ Len(arrays) \in Nat /\ \A a \in 1..Len(arrays) : arrays[a] \in Seq(1..Len(objects))
  BY Types
<1>3. /\ Sorted(arrays[table], column) \in Seq(1..Len(objects))
      /\ Rearranged(Sorted(arrays[table], column), arrays[table])
  BY <1>2, SortedIs
<1>4. Objects(Sorted(arrays[table], column)) = Objects(arrays[table])
  BY <1>2, <1>3, RearrangedRows
<1>5. /\ arrays'[table'] = Sorted(arrays[table], column)
      /\ \A a \in 1..Len(arrays) : arrays'[a] = arrays[a]
  BY <1>1, <1>2, <1>3
<1>6. Objects(arrays'[table']) = Objects(arrays[table])
  BY <1>4, <1>5
<1>7. ManageOps' = ManageOps
  BY <1>1, ConstantTypes
<1>8. Waits' /\ SameRows'
  <2>1. \A r \in inFlight : r.array \in 1..Len(arrays)
    BY RequestType
  <2> QED
    BY <1>1, <1>5, <1>6, <1>7, <2>1 DEF TruthPart, Waits, SameRows, Manages
<1>9. \A q \in inFlight' : Brings(q)'
  BY <1>1, BringsStays
<1>10. Quiet
  BY <1>1, <1>6 DEF Quiet
<1>11. \A o \in Objects(arrays'[table']) : Tells(o)'
  BY <1>10, QuietTells
<1> QED
  BY <1>8, <1>9, <1>11 DEF TruthPart

\* A request that ends without an effect.
LEMMA EndedTruth ==
  ASSUME TypeInv, TruthPart, NEW r \in inFlight, inFlight' = inFlight \ {r},
         UNCHANGED <<kind, patient, rows, objects, arrays, table>>, astray \subseteq astray',
         Manages(r) => ~ r.answer.ok \/ r.id \in astray'
  PROVE  TruthPart'
<1>1. ManageOps' = ManageOps
  BY ConstantTypes
<1>2. Waits' /\ SameRows'
  BY <1>1 DEF TruthPart, Waits, SameRows, Manages
<1>3. \A q \in inFlight' : Brings(q)'
  BY BringsStays
<1>4. Quiet
  BY DEF Quiet
<1>5. \A o \in Objects(arrays'[table']) : Tells(o)'
  BY <1>4, QuietTells
<1> QED
  BY <1>2, <1>3, <1>5 DEF TruthPart

\* Somebody else changes a row.
LEMMA ElsewhereTruth ==
  ASSUME TypeInv, TruthPart, NEW id \in Id, Elsewhere(id)
  PROVE  TruthPart'
<1>1. /\ UNCHANGED <<kind, patient, objects, arrays, table, activePage, inFlight>>
      /\ astray' = astray \cup {id} /\ id \in DOMAIN rows
      /\ rows' = Without(id) \/ rows' = [rows EXCEPT ![id].status = 3 - @]
  BY DEF Elsewhere
<1>2. ManageOps' = ManageOps
  BY <1>1, ConstantTypes
<1>3. \A i : i # id => /\ i \in DOMAIN rows' <=> i \in DOMAIN rows
                       /\ i \in DOMAIN rows => rows'[i] = rows[i]
  BY <1>1 DEF Without
<1>4. ASSUME NEW o, o.id # id PROVE IsTrue(o)' <=> IsTrue(o)
  <2>1. PICK i : i = o.id
    OBVIOUS
  <2>2. /\ i \in DOMAIN rows' <=> i \in DOMAIN rows
        /\ i \in DOMAIN rows => rows'[i] = rows[i]
    BY <1>3, <1>4, <2>1
  <2> QED
    BY <2>1, <2>2 DEF IsTrue
<1>5. Waits' /\ SameRows'
  BY <1>1, <1>2 DEF TruthPart, Waits, SameRows, Manages
<1>6. ASSUME NEW q \in inFlight' PROVE Brings(q)'
  <2>1. Brings(q)
    BY <1>1 DEF TruthPart
  <2>2. \A k \in DOMAIN q.answer.data :
          q.answer.data[k].id \notin astray' =>
            /\ q.answer.data[k].id \notin astray
            /\ IsTrue(q.answer.data[k])' <=> IsTrue(q.answer.data[k])
    BY <1>1, <1>4
  <2> QED
    BY <1>2, <2>1, <2>2 DEF Brings, Manages
<1>7. ASSUME NEW o \in Objects(arrays'[table']), Alone(o)'
      PROVE  /\ Settled(o)' => IsTrue(objects[o])'
             /\ \A q \in inFlight' : Manages(q)' /\ q.id = objects'[o].id => Due(q, o)'
  <2>1. Alone(o) /\ objects[o].id # id
    BY <1>1, <1>7 DEF Alone
  <2>2. Tells(o)
    BY <1>1, <1>7 DEF TruthPart
  <2>3. IsTrue(objects[o])' <=> IsTrue(objects[o])
    <3>1. PICK u : u = objects[o]
      OBVIOUS
    <3>2. IsTrue(u)' <=> IsTrue(u)
      BY <1>4, <2>1, <3>1
    <3> QED
      BY <1>1, <3>1, <3>2 DEF IsTrue
  <2>4. Settled(o)' <=> Settled(o)
    BY <1>1, <1>2 DEF Settled, Manages
  <2>5. ASSUME NEW q \in inFlight, Manages(q), q.id = objects[o].id PROVE Due(q, o)'
    <3>1. PICK u : u = Marked(q, objects[o])
      OBVIOUS
    <3>2. Due(q, o)
      BY <2>1, <2>2, <2>5 DEF Tells
    <3>3. CASE q.answer.ok
      <4>1. objects[o] \in Object
        <5>1. PICK k \in DOMAIN arrays[table] : o = arrays[table][k]
          BY <1>1, <1>7 DEF Objects
        <5> QED
          BY <5>1, Types
      <4>2. u.id = objects[o].id
        BY <2>5, <3>1, <3>3, <4>1, MarkedType
      <4>3. IsTrue(u)'
        BY <1>4, <2>1, <3>1, <3>2, <3>3, <4>2 DEF Due
      <4>4. u = Marked(q, objects[o])'
        BY <1>1, <3>1 DEF Marked, MarkedProfile, MarkedUser, ToStatus
      <4> QED
        BY <3>3, <4>3, <4>4 DEF Due, IsTrue
    <3>4. CASE ~ q.answer.ok
      BY <2>3, <3>2, <3>4 DEF Due
    <3> QED
      BY <3>3, <3>4
  <2> QED
    BY <1>1, <1>2, <2>1, <2>2, <2>3, <2>4, <2>5 DEF Tells, Manages
<1>8. \A o \in Objects(arrays'[table']) : Tells(o)'
  BY <1>7 DEF Tells
<1> QED
  BY <1>5, <1>6, <1>8 DEF TruthPart

\* A request for rows is answered with the rows as they are.
LEMMA LoadServedTruth ==
  ASSUME TypeInv, TruthPart, NEW r \in inFlight, ~ Manages(r), NEW ids \in Seq(DOMAIN rows),
         Answered(r, Answer(AsObjects(ids))),
         UNCHANGED <<kind, patient, rows, objects, arrays, table, astray>>
  PROVE  TruthPart'
<1>0. PICK s : s = [r EXCEPT !.answer = Answer(AsObjects(ids))]
  OBVIOUS
<1>1. r \in Request
  BY RequestType
<1>2. inFlight = {r}
  BY DEF TruthPart, Waits
<1>3. inFlight' = {s} /\ s.array = r.array /\ s.op = r.op /\ s.answer = Answer(AsObjects(ids))
  BY <1>0, <1>1, <1>2 DEF Answered, Request
<1>4. ManageOps' = ManageOps /\ ~ Manages(s)
  BY <1>3, ConstantTypes DEF Manages
<1>5. Waits' /\ SameRows'
  BY <1>2, <1>3 DEF TruthPart, Waits, SameRows
<1>6. Brings(s)'
  <2>1. PICK d : d = AsObjects(ids)
    OBVIOUS
  <2>2. s.answer.done /\ s.answer.data = d
    BY <1>3, <2>1 DEF Answer
  <2>3. /\ d \in Seq(Object) /\ Len(d) = Len(ids)
        /\ \A k \in 1..Len(ids) :
             d[k] = [id |-> ids[k], status |-> rows[ids[k]].status,
                     mark |-> rows[ids[k]].mark, deleted |-> FALSE]
    BY <2>1, AsObjectsType
  <2>4. ASSUME NEW k \in DOMAIN d PROVE ~ d[k].deleted /\ IsTrue(d[k])'
    <3>1. k \in 1..Len(ids) /\ ids[k] \in DOMAIN rows
      BY <2>3
    <3>2. rows[ids[k]] \in Row
      BY <3>1, RowTypes
    <3>3. d[k].id = ids[k] /\ d[k].status = rows[ids[k]].status /\ d[k].mark = rows[ids[k]].mark
          /\ d[k].deleted = FALSE
      <4>1. d[k] = [id |-> ids[k], status |-> rows[ids[k]].status,
                    mark |-> rows[ids[k]].mark, deleted |-> FALSE]
        BY <2>3, <3>1
      <4> QED
        BY <4>1
    <3>4. rows[ids[k]] = [status |-> d[k].status, mark |-> d[k].mark]
      BY <3>2, <3>3 DEF Row
    <3> QED
      BY <3>1, <3>3, <3>4 DEF IsTrue
  <2> QED
    BY <2>2, <2>4 DEF Brings
<1>7. Quiet
  BY <1>2, <1>3, <1>4 DEF Quiet
<1>8. \A o \in Objects(arrays'[table']) : Tells(o)'
  BY <1>7, QuietTells
<1> QED
  BY <1>3, <1>5, <1>6, <1>8 DEF TruthPart

\* A request is refused.
LEMMA RefusedTruth ==
  ASSUME TypeInv, TruthPart, NEW r \in inFlight, ~ r.answer.done, Answered(r, Refusal),
         UNCHANGED <<kind, patient, rows, objects, arrays, table, astray>>
  PROVE  TruthPart'
<1>0. PICK s : s = [r EXCEPT !.answer = Refusal]
  OBVIOUS
<1>1. r \in Request /\ ~ r.answer.ok
  BY RequestType DEF TruthPart, Brings
<1>2. inFlight' = (inFlight \ {r}) \cup {s} /\ s.array = r.array /\ s.op = r.op
      /\ s.id = r.id /\ s.answer.ok = FALSE
  BY <1>0, <1>1 DEF Answered, Request, Refusal
<1>3. ManageOps' = ManageOps
  BY ConstantTypes
<1>4. Waits' /\ SameRows'
  BY <1>2, <1>3 DEF TruthPart, Waits, SameRows, Manages
<1>5. \A q \in inFlight' : Brings(q)'
  <2>1. Brings(s)'
    BY <1>2 DEF Brings
  <2> QED
    BY <1>2, <2>1, BringsStays
<1>6. ASSUME NEW o \in Objects(arrays'[table']), Alone(o)'
      PROVE  /\ Settled(o)' => IsTrue(objects[o])'
             /\ \A q \in inFlight' : Manages(q)' /\ q.id = objects'[o].id => Due(q, o)'
  <2>1. Alone(o) /\ Tells(o)
    BY <1>6 DEF Alone, TruthPart
  <2>2. IsTrue(objects[o])' <=> IsTrue(objects[o])
    BY DEF IsTrue
  <2>3. \A q : Manages(q)' <=> Manages(q)
    BY <1>3 DEF Manages
  <2>4. Settled(o)' => Settled(o)
    BY <1>2, <1>3 DEF Settled, Manages
  <2>5. \A q : Due(q, o)' <=> Due(q, o)
    BY DEF Due, IsTrue, Marked, MarkedProfile, MarkedUser, ToStatus
  <2>6. ASSUME NEW q \in inFlight', Manages(q), q.id = objects[o].id PROVE Due(q, o)
    <3>1. CASE q \in inFlight
      BY <2>1, <2>6, <3>1 DEF Tells
    <3>2. CASE q = s
      <4>1. Manages(r) /\ r.id = objects[o].id
        BY <1>2, <2>6, <3>2 DEF Manages
      <4>2. Due(r, o)
        BY <2>1, <4>1 DEF Tells
      <4> QED
        BY <1>1, <1>2, <3>2, <4>2 DEF Due
    <3> QED
      BY <1>2, <3>1, <3>2
  <2> QED
    BY <2>1, <2>2, <2>3, <2>4, <2>5, <2>6 DEF Tells
<1>7. \A o \in Objects(arrays'[table']) : Tells(o)'
  BY <1>6 DEF Tells
<1> QED
  BY <1>4, <1>5, <1>7 DEF TruthPart

\* A request about a row is answered, and the row is changed accordingly.
Changed(r, s) ==
  /\ \A i : i # r.id => /\ i \in DOMAIN rows' <=> i \in DOMAIN rows
                        /\ i \in DOMAIN rows => rows'[i] = rows[i]
  /\ \A o \in Object : o.id = r.id /\ IsTrue(o) => IsTrue(Marked(s, o))'

LEMMA ManageServedTruth ==
  ASSUME TypeInv, TruthPart, NEW r \in inFlight, Manages(r), ~ r.answer.done,
         NEW answer, answer.ok, answer.done, Answered(r, answer),
         Changed(r, [r EXCEPT !.answer = answer]),
         UNCHANGED <<kind, patient, objects, arrays, table, astray>>
  PROVE  TruthPart'
<1>0. PICK s : s = [r EXCEPT !.answer = answer]
  OBVIOUS
<1>1. r \in Request /\ ~ r.answer.ok
  BY RequestType DEF TruthPart, Brings
<1>2. inFlight' = (inFlight \ {r}) \cup {s} /\ s.array = r.array /\ s.op = r.op
      /\ s.id = r.id /\ s.answer.ok /\ s.answer.done
  BY <1>0, <1>1 DEF Answered, Request
<1>3. ManageOps' = ManageOps /\ Manages(s)
  BY <1>2, ConstantTypes DEF Manages
<1>4. Waits' /\ SameRows'
  BY <1>2, <1>3 DEF TruthPart, Waits, SameRows, Manages
<1>5. \A q \in inFlight' : Brings(q)'
  <2>1. ASSUME NEW q \in inFlight PROVE Manages(q) /\ (q.answer.ok => q.answer.done)
    BY DEF TruthPart, Waits, Brings
  <2> QED
    BY <1>2, <1>3, <2>1 DEF Brings, Manages
<1>6. ASSUME NEW o \in Objects(arrays'[table']), Alone(o)'
      PROVE  /\ Settled(o)' => IsTrue(objects[o])'
             /\ \A q \in inFlight' : Manages(q)' /\ q.id = objects'[o].id => Due(q, o)'
  <2>0. PICK u : u = objects[o]
    OBVIOUS
  <2>1. Alone(o) /\ Tells(o)
    BY <1>6 DEF Alone, TruthPart
  <2>2. u \in Object
    <3>1. PICK k \in DOMAIN arrays[table] : o = arrays[table][k]
      BY DEF Objects
    <3> QED
      BY <2>0, <3>1, Types
  <2>3. \A q : Manages(q)' <=> Manages(q)
    BY <1>3 DEF Manages
  <2>4. ASSUME NEW v, v.id # r.id PROVE IsTrue(v)' <=> IsTrue(v)
    <3>1. PICK i : i = v.id
      OBVIOUS
    <3>2. /\ i \in DOMAIN rows' <=> i \in DOMAIN rows
          /\ i \in DOMAIN rows => rows'[i] = rows[i]
      BY <2>4, <3>1 DEF Changed
    <3> QED
      BY <3>1, <3>2 DEF IsTrue
  <2>5. CASE u.id = r.id
    <3>1. IsTrue(u)
      BY <1>1, <2>0, <2>1, <2>5 DEF Tells, Due
    <3>2. IsTrue(Marked(s, u))'
      BY <1>0, <2>2, <2>5, <3>1 DEF Changed
    <3>3. Due(s, o)'
      BY <1>2, <2>0, <3>2 DEF Due, IsTrue, Marked, MarkedProfile, MarkedUser, ToStatus
    <3>4. ~ Settled(o)'
      BY <1>2, <1>3, <2>0, <2>3, <2>5 DEF Settled
    <3>5. \A q \in inFlight' : Manages(q) /\ q.id = u.id => q = s
      BY <1>2, <2>5 DEF TruthPart, Waits
    <3> QED
      BY <2>0, <2>3, <3>3, <3>4, <3>5
  <2>6. CASE u.id # r.id
    <3>1. IsTrue(objects[o])' <=> IsTrue(objects[o])
      <4>1. IsTrue(u)' <=> IsTrue(u)
        BY <2>4, <2>6
      <4> QED
        BY <2>0, <4>1 DEF IsTrue
    <3>2. Settled(o)' => Settled(o)
      BY <1>2, <1>3, <2>0, <2>6 DEF Settled, Manages
    <3>3. ASSUME NEW q \in inFlight', Manages(q), q.id = u.id PROVE Due(q, o)'
      <4>1. q \in inFlight
        BY <1>2, <2>6, <3>3
      <4>2. Due(q, o)
        BY <2>0, <2>1, <3>3, <4>1 DEF Tells
      <4>3. PICK v : v = Marked(q, u)
        OBVIOUS
      <4>4. CASE q.answer.ok
        <5>1. v.id = u.id
          BY <2>2, <3>3, <4>1, <4>3, <4>4, MarkedType
        <5>2. IsTrue(v)'
          BY <2>0, <2>4, <2>6, <4>2, <4>3, <4>4, <5>1 DEF Due
        <5>3. v = Marked(q, objects[o])'
          BY <2>0, <4>3 DEF Marked, MarkedProfile, MarkedUser, ToStatus
        <5> QED
          BY <4>4, <5>2, <5>3 DEF Due, IsTrue
      <4>5. CASE ~ q.answer.ok
        BY <3>1, <4>2, <4>5 DEF Due
      <4> QED
        BY <4>4, <4>5
    <3> QED
      BY <2>0, <2>1, <2>3, <3>1, <3>2, <3>3 DEF Tells
  <2> QED
    BY <2>5, <2>6
<1>7. \A o \in Objects(arrays'[table']) : Tells(o)'
  BY <1>6 DEF Tells
<1> QED
  BY <1>4, <1>5, <1>7 DEF TruthPart

\* What the object becomes is what the row has become.
LEMMA ProfileChanged ==
  ASSUME TypeInv, NEW r \in inFlight, NEW s, kind = "profiles", kind' = kind,
         s.op = r.op, r.id \in Id,
         \/ /\ r.op \in {"enable", "disable"}
            /\ rows' = [i \in DOMAIN rows |->
                          IF i = r.id THEN [rows[i] EXCEPT !.status = ToStatus(r.op)]
                                      ELSE rows[i]]
         \/ r.op = "delete" /\ rows' = Without(r.id)
         \/ /\ r.op = "reset" /\ r.id \in DOMAIN rows
            /\ rows' = [rows EXCEPT ![r.id].mark = @ + 1]
            /\ s.answer.data[1] = rows'[r.id]
  PROVE  Changed(r, s)
<1>1. \A i : i # r.id => /\ i \in DOMAIN rows' <=> i \in DOMAIN rows
                         /\ i \in DOMAIN rows => rows'[i] = rows[i]
  BY DEF Without
<1>2. ASSUME NEW o \in Object, o.id = r.id, IsTrue(o)
      PROVE  IsTrue(MarkedProfile(s, o))'
  <2>1. \A i \in DOMAIN rows : rows[i] \in Row
    BY RowTypes
  <2>0. PICK m : m = MarkedProfile(s, o)
    OBVIOUS
  <2>2. CASE r.op \in {"enable", "disable"}
    <3>1. m.status = ToStatus(r.op) /\ m.id = r.id /\ m.mark = o.mark /\ m.deleted = o.deleted
      BY <1>2, <2>0, <2>2 DEF MarkedProfile, Object
    <3>2. /\ DOMAIN rows' = DOMAIN rows
          /\ r.id \in DOMAIN rows => rows'[r.id] = [rows[r.id] EXCEPT !.status = ToStatus(r.op)]
      BY <2>2
    <3>3. IF o.deleted THEN r.id \notin DOMAIN rows
          ELSE r.id \in DOMAIN rows /\ rows[r.id] = [status |-> o.status, mark |-> o.mark]
      BY <1>2 DEF IsTrue
    <3>4. IsTrue(m)'
      BY <3>1, <3>2, <3>3 DEF IsTrue
    <3> QED
      BY <2>0, <3>4 DEF IsTrue, MarkedProfile, ToStatus
  <2>3. CASE r.op = "delete"
    <3>1. m.deleted = TRUE /\ m.id = r.id
      BY <1>2, <2>0, <2>3 DEF MarkedProfile, Object
    <3>2. r.id \notin DOMAIN rows'
      BY <2>3 DEF Without
    <3>3. IsTrue(m)'
      BY <3>1, <3>2 DEF IsTrue
    <3> QED
      BY <2>0, <3>3 DEF IsTrue, MarkedProfile, ToStatus
  <2>4. CASE r.op = "reset"
    <3>1. /\ r.id \in DOMAIN rows /\ rows' = [rows EXCEPT ![r.id].mark = @ + 1]
          /\ s.answer.data[1] = rows'[r.id]
      BY <2>4
    <3>2. ~ o.deleted /\ rows[r.id] = [status |-> o.status, mark |-> o.mark]
      BY <1>2, <3>1 DEF IsTrue
    <3>3. rows'[r.id] = [status |-> o.status, mark |-> o.mark + 1] /\ r.id \in DOMAIN rows'
      BY <3>1, <3>2
    <3>4. s.answer.data[1].mark = o.mark + 1
      BY <3>1, <3>3
    <3>5. m.status = o.status /\ m.id = r.id /\ m.mark = o.mark + 1 /\ m.deleted = o.deleted
      BY <1>2, <2>0, <2>4, <3>4 DEF MarkedProfile, Object
    <3>6. IsTrue(m)'
      BY <3>2, <3>3, <3>5 DEF IsTrue
    <3> QED
      BY <2>0, <3>6 DEF IsTrue, MarkedProfile, ToStatus
  <2> QED
    BY <2>2, <2>3, <2>4
<1>3. \A o : Marked(s, o)' = MarkedProfile(s, o)'
  BY DEF Marked
<1> QED
  BY <1>1, <1>2, <1>3 DEF Changed, IsTrue, Marked

LEMMA UserChanged ==
  ASSUME TypeInv, NEW r \in inFlight, NEW s, kind = "users", kind' = kind,
         s.op = r.op, r.id \in DOMAIN rows, NEW user \in Row, s.answer.data[1] = user,
         rows' = IF r.op = "delete" THEN Without(r.id) ELSE [rows EXCEPT ![r.id] = user]
  PROVE  Changed(r, s)
<1>1. \A i : i # r.id => /\ i \in DOMAIN rows' <=> i \in DOMAIN rows
                         /\ i \in DOMAIN rows => rows'[i] = rows[i]
  BY DEF Without
<1>2. ASSUME NEW o \in Object, o.id = r.id, IsTrue(o)
      PROVE  IsTrue(MarkedUser(s, o))'
  <2>0. PICK m : m = MarkedUser(s, o)
    OBVIOUS
  <2>1. CASE r.op = "delete"
    <3>1. m.deleted = TRUE /\ m.id = r.id
      BY <1>2, <2>0, <2>1 DEF MarkedUser, Object
    <3>2. r.id \notin DOMAIN rows'
      BY <2>1 DEF Without
    <3>3. IsTrue(m)'
      BY <3>1, <3>2 DEF IsTrue
    <3> QED
      BY <2>0, <3>3 DEF IsTrue, MarkedUser
  <2>2. CASE r.op # "delete"
    <3>1. r.id \in DOMAIN rows' /\ rows'[r.id] = user
      BY <2>2
    <3>2. ~ o.deleted
      BY <1>2 DEF IsTrue
    <3>3. m.status = user.status /\ m.mark = user.mark /\ m.id = r.id /\ m.deleted = o.deleted
      BY <1>2, <2>0, <2>2 DEF MarkedUser, Object
    <3>4. user = [status |-> m.status, mark |-> m.mark]
      BY <3>3 DEF Row
    <3>5. IsTrue(m)'
      BY <3>1, <3>2, <3>3, <3>4 DEF IsTrue
    <3> QED
      BY <2>0, <3>5 DEF IsTrue, MarkedUser
  <2> QED
    BY <2>1, <2>2
<1>3. \A o : Marked(s, o)' = MarkedUser(s, o)'
  BY DEF Marked
<1> QED
  BY <1>1, <1>2, <1>3 DEF Changed, IsTrue, Marked

LEMMA ServeTruth ==
  ASSUME TypeInv, TruthPart, NEW r \in inFlight, Serve(r)
  PROVE  TruthPart'
<1>1. /\ ~ r.answer.done
      /\ UNCHANGED <<kind, patient, objects, arrays, table, activePage, astray, acts>>
  BY DEF Serve
<1>2. r \in Request /\ (Manages(r) => r.id \in Id)
  BY RequestType DEF Remembers
<1> DEFINE with(answer) == [r EXCEPT !.answer = answer]
<1>3. \A answer : with(answer).answer = answer /\ with(answer).op = r.op
  BY <1>2 DEF Request
<1>4. CASE GetAll(r)
  <2>1. Answered(r, Answer(AsObjects(PageOf(r)))) /\ rows' = rows /\ ~ Manages(r)
    BY <1>4, ConstantTypes DEF GetAll, PageOf, PageEnd, Manages
  <2>2. PageOf(r) \in Seq(DOMAIN rows)
    BY PageIs
  <2> QED
    BY <1>1, <2>1, <2>2, LoadServedTruth
<1>5. CASE SearchAll(r)
  <2>1. PICK found \in SUBSET DOMAIN rows :
          Answered(r, Answer(AsObjects(Reverse(NewestFirst(found)))))
    BY <1>5 DEF SearchAll
  <2>2. rows' = rows /\ ~ Manages(r)
    BY <1>5, ConstantTypes DEF SearchAll, Manages
  <2>3. Reverse(NewestFirst(found)) \in Seq(DOMAIN rows)
    <3>1. found \in SUBSET Id
      BY RowTypes
    <3>2. NewestFirst(found) \in Seq(found)
      BY <3>1, NewestFirstIs
    <3>3. Reverse(NewestFirst(found)) \in Seq(found)
      BY <3>2, ReverseIs
    <3> QED
      BY <3>3
  <2> QED
    BY <1>1, <2>1, <2>2, <2>3, LoadServedTruth
<1>6. CASE ManageProfile(r)
  <2>1. kind = "profiles" /\ Manages(r)
    BY <1>6 DEF ManageProfile, Manages, ManageOps
  <2>2. CASE /\ r.op \in {"enable", "disable"}
             /\ rows' = [i \in DOMAIN rows |->
                           IF i = r.id THEN [rows[i] EXCEPT !.status = ToStatus(r.op)]
                                       ELSE rows[i]]
             /\ Answered(r, Answer(<<>>))
    <3>1. Changed(r, with(Answer(<<>>)))
      BY <1>1, <1>2, <1>3, <2>1, <2>2, ProfileChanged
    <3>2. Answer(<<>>).ok /\ Answer(<<>>).done
      BY DEF Answer
    <3> QED
      BY <1>1, <2>1, <2>2, <3>1, <3>2, ManageServedTruth
  <2>3. CASE r.op = "delete" /\ rows' = Without(r.id) /\ Answered(r, Answer(<<>>))
    <3>1. Changed(r, with(Answer(<<>>)))
      BY <1>1, <1>2, <1>3, <2>1, <2>3, ProfileChanged
    <3>2. Answer(<<>>).ok /\ Answer(<<>>).done
      BY DEF Answer
    <3> QED
      BY <1>1, <2>1, <2>3, <3>1, <3>2, ManageServedTruth
  <2>4. CASE /\ r.op = "reset" /\ r.id \in DOMAIN rows
             /\ rows' = [rows EXCEPT ![r.id].mark = @ + 1]
             /\ Answered(r, Answer(<<rows'[r.id]>>))
    <3>1. PICK answer : answer = Answer(<<rows'[r.id]>>)
      OBVIOUS
    <3>2. answer.ok /\ answer.done /\ answer.data = <<rows'[r.id]>>
      BY <3>1 DEF Answer
    <3>3. answer.data[1] = rows'[r.id]
      BY <3>2
    <3>4. Changed(r, with(answer))
      <4>1. PICK s : s = with(answer)
        OBVIOUS
      <4>2. s.op = r.op /\ s.answer.data[1] = rows'[r.id]
        BY <1>3, <3>3, <4>1
      <4>3. r.id \in Id
        BY <1>2, <2>1
      <4>4. Changed(r, s)
        BY <1>1, <2>1, <2>4, <4>2, <4>3, ProfileChanged
      <4> QED
        BY <4>1, <4>4
    <3> QED
      BY <1>1, <2>1, <2>4, <3>1, <3>2, <3>4, ManageServedTruth
  <2> QED
    BY <1>6, <2>2, <2>3, <2>4 DEF ManageProfile
<1>7. CASE ManageUser(r)
  <2>1. kind = "users" /\ Manages(r) /\ r.id \in DOMAIN rows /\ rows[r.id] \in Row
    BY <1>7, RowTypes DEF ManageUser, Manages
  <2>2. PICK user \in Row :
          /\ rows' = IF r.op = "delete" THEN Without(r.id)
                                        ELSE [rows EXCEPT ![r.id] = user]
          /\ Answered(r, Answer(<<user>>))
    <3>1. /\ [rows[r.id] EXCEPT !.status = ToStatus(r.op)] \in Row
          /\ [rows[r.id] EXCEPT !.mark = Admin] \in Row
          /\ [rows[r.id] EXCEPT !.mark = Common] \in Row
      BY <2>1, RowTypes
    <3> DEFINE user == CASE r.op \in {"enable", "disable"} ->
                              [rows[r.id] EXCEPT !.status = ToStatus(r.op)]
                         [] r.op = "promote" -> [rows[r.id] EXCEPT !.mark = Admin]
                         [] r.op = "demote" -> [rows[r.id] EXCEPT !.mark = Common]
                         [] OTHER -> rows[r.id]
    <3>2. user \in Row
      BY <2>1, <3>1
    <3>3. /\ rows' = IF r.op = "delete" THEN Without(r.id)
                                        ELSE [rows EXCEPT ![r.id] = user]
          /\ Answered(r, Answer(<<user>>))
      BY <1>7 DEF ManageUser
    <3> HIDE DEF user
    <3> QED
      BY <3>2, <3>3
  <2>3. PICK answer : answer = Answer(<<user>>)
    OBVIOUS
  <2>4. answer.ok /\ answer.done /\ answer.data = <<user>>
    BY <2>3 DEF Answer
  <2>5. answer.data[1] = user
    BY <2>4
  <2>6. Changed(r, with(answer))
    BY <1>1, <1>3, <2>1, <2>2, <2>5, UserChanged
  <2> QED
    BY <1>1, <2>1, <2>2, <2>3, <2>4, <2>6, ManageServedTruth
<1>8. CASE Refuse(r)
  <2>1. Answered(r, Refusal) /\ rows' = rows
    BY <1>8 DEF Refuse
  <2> QED
    BY <1>1, <2>1, RefusedTruth
<1> QED
  BY <1>4, <1>5, <1>6, <1>7, <1>8 DEF Serve

\* Rows have arrived: what is shown is what was shown of a request's array, or new.
LEMMA ArrivedTruth ==
  ASSUME TypeInv, TruthPart, NEW r \in inFlight, ~ Manages(r), r.answer.ok,
         inFlight' = inFlight \ {r}, UNCHANGED <<kind, patient, rows, astray>>,
         NEW data, data = r.answer.data, data \in Seq(Object), objects' = objects \o data,
         \/ Objects(arrays'[table']) \subseteq {Len(objects) + k : k \in 1..Len(data)}
         \/ Objects(arrays'[table']) =
              Objects(arrays[table]) \cup {Len(objects) + k : k \in 1..Len(data)}
  PROVE  TruthPart'
<1>1. inFlight' = {}
  BY DEF TruthPart, Waits
<1>2. Waits' /\ SameRows' /\ \A q \in inFlight' : Brings(q)'
  BY <1>1 DEF Waits, SameRows
<1>3. /\ \A o \in 1..Len(objects) : objects'[o] = objects[o]
      /\ \A k \in 1..Len(data) : objects'[Len(objects) + k] = data[k]
      /\ DOMAIN data = 1..Len(data)
  BY NewIs
<1>4. ASSUME NEW o \in Objects(arrays'[table']), Alone(o)' PROVE IsTrue(objects[o])'
  <2>0. PICK u : u = objects'[o]
    OBVIOUS
  <2>1. CASE o \in {Len(objects) + k : k \in 1..Len(data)}
    <3>1. PICK k \in 1..Len(data) : o = Len(objects) + k
      BY <2>1
    <3>2. u = data[k] /\ u.id \notin astray
      BY <1>3, <1>4, <2>0, <3>1 DEF Alone
    <3>3. IsTrue(u)
      BY <1>3, <3>2 DEF TruthPart, Brings
    <3> QED
      BY <2>0, <3>3 DEF IsTrue
  <2>2. CASE o \notin {Len(objects) + k : k \in 1..Len(data)}
    <3>1. o \in Objects(arrays[table]) /\ Objects(arrays[table]) \subseteq Objects(arrays'[table'])
      BY <2>2
    <3>2. \A q \in Objects(arrays[table]) : q \in 1..Len(objects)
      BY Types DEF Objects
    <3>3. \A q \in Objects(arrays[table]) : objects'[q] = objects[q]
      BY <1>3, <3>2
    <3>4. Alone(o)
      BY <1>4, <3>1, <3>3 DEF Alone
    <3>5. Settled(o)
      BY <1>1 DEF Settled, TruthPart, Waits
    <3>6. IsTrue(u)
      BY <2>0, <3>1, <3>3, <3>4, <3>5 DEF TruthPart, Tells
    <3> QED
      BY <2>0, <3>6 DEF IsTrue
  <2> QED
    BY <2>1, <2>2
<1>5. \A o \in Objects(arrays'[table']) : Tells(o)'
  BY <1>1, <1>4 DEF Tells
<1> QED
  BY <1>2, <1>5 DEF TruthPart

\* An answer about a row has been dealt with.
LEMMA ManagedTruth ==
  ASSUME TypeInv, TruthPart, NEW r \in inFlight, ManageAnswered(r),
         inFlight' = inFlight \ {r}, UNCHANGED <<kind, patient, rows, astray>>
  PROVE  TruthPart'
<1>1. /\ Manages(r) /\ r.answer.ok
      /\ objects'[Clicked(r)] = Marked(r, objects[Clicked(r)])
      /\ \A o \in 1..Len(objects) : /\ o # Clicked(r) => objects'[o] = objects[o]
                                    /\ objects'[o].id = objects[o].id
      /\ arrays'[table'] = arrays[r.array]
      /\ \A a \in 1..Len(arrays) : arrays'[a] = arrays[a]
  BY ManageAnsweredIs
<1>2. /\ Clicked(r) \in 1..Len(objects) /\ objects[Clicked(r)].id = r.id
      /\ r.array \in 1..Len(arrays) /\ r.at \in DOMAIN arrays[r.array]
  BY <1>1, ClickedIs, Types
<1>3. ManageOps' = ManageOps
  BY ConstantTypes
<1>4. Objects(arrays'[table']) = Objects(arrays[table])
      /\ Clicked(r) \in Objects(arrays[table])
  <2>1. Clicked(r) \in Objects(arrays[r.array])
    BY <1>2 DEF Objects, Clicked
  <2> QED
    BY <1>1, <2>1 DEF TruthPart, SameRows
<1>5. Waits' /\ SameRows'
  <2>1. \A q \in inFlight : q.array \in 1..Len(arrays)
    BY RequestType
  <2> QED
    BY <1>1, <1>3, <1>4, <2>1 DEF TruthPart, Waits, SameRows, Manages
<1>6. \A q \in inFlight' : Brings(q)'
  <2>1. ASSUME NEW q \in inFlight' PROVE Manages(q) /\ (q.answer.ok => q.answer.done)
    BY DEF TruthPart, Waits, Brings
  <2> QED
    BY <1>3, <2>1 DEF Brings, Manages
<1>7. ASSUME NEW o \in Objects(arrays'[table']), Alone(o)'
      PROVE  /\ Settled(o)' => IsTrue(objects[o])'
             /\ \A q \in inFlight' : Manages(q)' /\ q.id = objects'[o].id => Due(q, o)'
  <2>1. \A q \in Objects(arrays[table]) : q \in 1..Len(objects)
    BY Types DEF Objects
  <2>2. \A q \in Objects(arrays[table]) : objects'[q].id = objects[q].id
    BY <1>1, <2>1
  <2>3. Alone(o) /\ Tells(o)
    <3>1. Alone(o)
      BY <1>4, <1>7, <2>2 DEF Alone
    <3> QED
      BY <1>4, <3>1 DEF TruthPart
  <2>4. \A q : Manages(q)' <=> Manages(q)
    BY <1>3 DEF Manages
  <2>5. CASE objects[o].id = r.id
    <3>1. o = Clicked(r)
      BY <1>2, <1>4, <2>3, <2>5 DEF Alone
    <3>2. PICK u : u = Marked(r, objects[o])
      OBVIOUS
    <3>3. IsTrue(u) /\ objects'[o] = u
      BY <1>1, <2>3, <2>5, <3>1, <3>2 DEF Tells, Due
    <3>4. IsTrue(objects[o])'
      BY <3>3 DEF IsTrue
    <3>5. \A q \in inFlight' : q.id # objects'[o].id
      BY <1>4, <2>2, <2>5 DEF TruthPart, Waits
    <3> QED
      BY <3>4, <3>5
  <2>6. CASE objects[o].id # r.id
    <3>1. objects'[o] = objects[o]
      BY <1>1, <1>2, <1>4, <2>1, <2>6
    <3>2. IsTrue(objects[o])' <=> IsTrue(objects[o])
      BY <3>1 DEF IsTrue
    <3>3. \A q : Due(q, o)' <=> Due(q, o)
      BY <3>1 DEF Due, IsTrue, Marked, MarkedProfile, MarkedUser, ToStatus
    <3>4. Settled(o)' => Settled(o)
      BY <1>3, <2>6, <3>1 DEF Settled, Manages
    <3> QED
      BY <2>3, <2>4, <3>1, <3>2, <3>3, <3>4 DEF Tells
  <2> QED
    BY <2>5, <2>6
<1>8. \A o \in Objects(arrays'[table']) : Tells(o)'
  BY <1>7 DEF Tells
<1> QED
  BY <1>5, <1>6, <1>8 DEF TruthPart

\* The rows of an array onto which rows were pushed, and of one that was made of them.
LEMMA NewObjects ==
  ASSUME TypeInv, NEW data \in Seq(Object), objects' = objects \o data
  PROVE  Objects(New(data)) = {Len(objects) + k : k \in 1..Len(data)}
<1>1. DOMAIN data = 1..Len(data)
  BY NewIs
<1> QED
  BY <1>1 DEF New, Objects

LEMMA PushedObjects ==
  ASSUME TypeInv, NEW a \in 1..Len(arrays), NEW data \in Seq(Object),
         objects' = objects \o data,
         arrays' = [arrays EXCEPT ![a] = @ \o New(data)], kind' = kind
  PROVE  Objects(arrays'[a]) = Objects(arrays[a]) \cup {Len(objects) + k : k \in 1..Len(data)}
<1> DEFINE n == Len(arrays[a])
           m == Len(data)
           t == arrays'[a]
<1>1. /\ n \in Nat /\ m \in Nat /\ DOMAIN arrays[a] = 1..n
  BY Types
<1>2. /\ Len(t) = n + m
      /\ \A k \in 1..n : t[k] = arrays[a][k]
      /\ \A k \in 1..m : t[n + k] = Len(objects) + k
      /\ Grows /\ Len(arrays') = Len(arrays)
  BY PushGrows
<1>3. DOMAIN t = 1..(n + m)
  <2>1. t \in Seq(1..Len(objects'))
    BY <1>2, Types DEF Grows
  <2> QED
    BY <1>2, <2>1
<1> HIDE DEF n, m, t
<1>4. \A k \in 1..(n + m) : k \in 1..n \/ \E j \in 1..m : k = n + j
  <2>1. ASSUME NEW k \in 1..(n + m), k \notin 1..n PROVE k - n \in 1..m /\ k = n + (k - n)
    BY <1>1, <2>1
  <2> QED
    BY <2>1
<1>5. \A k \in 1..n : k \in 1..(n + m)
  BY <1>1
<1>6. \A k \in 1..m : n + k \in 1..(n + m)
  BY <1>1
<1>7. ASSUME NEW k \in 1..(n + m)
      PROVE  t[k] \in Objects(arrays[a]) \cup {Len(objects) + j : j \in 1..m}
  <2>1. CASE k \in 1..n
    BY <1>1, <1>2, <2>1 DEF Objects
  <2>2. CASE \E j \in 1..m : k = n + j
    BY <1>2, <2>2
  <2> QED
    BY <1>4, <2>1, <2>2
<1>8. Objects(arrays[a]) \subseteq Objects(t)
  BY <1>1, <1>2, <1>3, <1>5 DEF Objects
<1>9. {Len(objects) + k : k \in 1..m} \subseteq Objects(t)
  BY <1>2, <1>3, <1>6 DEF Objects
<1>10. Objects(t) \subseteq Objects(arrays[a]) \cup {Len(objects) + j : j \in 1..m}
  BY <1>3, <1>7 DEF Objects
<1> QED
  BY <1>8, <1>9, <1>10 DEF m, t

LEMMA ReceiveTruth ==
  ASSUME TypeInv, TruthPart, NEW r \in inFlight, Receive(r)
  PROVE  TruthPart'
<1>1. inFlight' = inFlight \ {r} /\ UNCHANGED <<kind, patient, rows, astray, acts>>
  BY DEF Receive
<1>2. /\ r.array \in 1..Len(arrays)
      /\ ~ Manages(r) /\ r.answer.ok => r.answer.data \in Seq(Object)
  BY RequestType DEF Answers
<1>3. ASSUME ~ Manages(r), r.answer.ok, objects' = objects \o r.answer.data,
             Shows(New(r.answer.data))
      PROVE  TruthPart'
  <2>1. r.answer.data \in Seq(Object)
    BY <1>2, <1>3
  <2>2. /\ objects' \in Seq(Object) /\ Len(objects) <= Len(objects')
        /\ \A o \in 1..Len(objects) : objects'[o].id = objects[o].id
        /\ New(r.answer.data) \in Seq(1..Len(objects'))
    BY <1>3, <2>1, NewIs
  <2>3. arrays'[table'] = New(r.answer.data)
    BY <1>1, <1>3, <2>2, ShowsGrows
  <2>4. Objects(arrays'[table']) = {Len(objects) + k : k \in 1..Len(r.answer.data)}
    BY <1>3, <2>1, <2>3, NewObjects
  <2> QED
    BY <1>1, <1>3, <2>1, <2>4, ArrivedTruth
<1>4. CASE LoadAnswered(r)
  <2>1. ~ Manages(r)
    BY <1>4, ConstantTypes DEF LoadAnswered, Manages
  <2>2. CASE ~ r.answer.ok
    <3>1. UNCHANGED <<objects, arrays, table>>
      BY <1>4, <2>2 DEF LoadAnswered
    <3> QED
      BY <1>1, <2>1, <3>1, EndedTruth
  <2>3. CASE r.answer.ok /\ r.start = 0
    BY <1>3, <1>4, <2>1, <2>3 DEF LoadAnswered
  <2>4. CASE r.answer.ok /\ r.start # 0
    <3>1. /\ objects' = objects \o r.answer.data
          /\ arrays' = [arrays EXCEPT ![r.array] = @ \o New(r.answer.data)]
          /\ table' = r.array
      BY <1>4, <2>4 DEF LoadAnswered
    <3>2. r.answer.data \in Seq(Object)
      BY <1>2, <2>1, <2>4
    <3>3. Objects(arrays'[table']) =
            Objects(arrays[r.array]) \cup {Len(objects) + k : k \in 1..Len(r.answer.data)}
      BY <1>1, <1>2, <3>1, <3>2, PushedObjects
    <3>4. Objects(arrays[r.array]) = Objects(arrays[table])
      BY DEF TruthPart, SameRows
    <3> QED
      BY <1>1, <2>1, <2>4, <3>1, <3>2, <3>3, <3>4, ArrivedTruth
  <2> QED
    BY <1>2, <2>2, <2>3, <2>4
<1>5. CASE SearchAnswered(r)
  BY <1>3, <1>5, ConstantTypes DEF SearchAnswered, Manages
<1>6. CASE ManageAnswered(r)
  BY <1>1, <1>6, ManagedTruth
<1>7. CASE RefusalShown(r)
  BY <1>1, <1>7, EndedTruth DEF RefusalShown
<1> QED
  BY <1>4, <1>5, <1>6, <1>7 DEF Receive

LEMMA TruthStep ==
  ASSUME TruthInv, [Next]_vars
  PROVE  TruthInv'
<1>1. TypeInv /\ TypeInv'
  BY TypeStep DEF TruthInv
<1>2. ASSUME patient PROVE patient' => TruthPart'
  <2>1. TruthPart
    BY <1>2 DEF TruthInv
  <2>2. ASSUME NEW p \in 1..TotalPages, OnPaginationLoad(p) PROVE TruthPart'
    <3>1. /\ inFlight = {} /\ Ask("load", 0, p - 1, 0, p)
          /\ UNCHANGED <<kind, patient, rows, objects, arrays, table, astray>>
      BY <1>2, <2>2 DEF OnPaginationLoad, MayLoad
    <3> QED
      BY <1>1, <2>1, <3>1, LoadSentTruth
  <2>3. ASSUME NEW p \in 1..TotalPages, OnPaginationTurn(p) PROVE TruthPart'
    <3>1. UNCHANGED <<kind, rows, objects, arrays, table, inFlight, astray>>
      BY <2>3 DEF OnPaginationTurn
    <3>2. Waits' /\ SameRows'
      BY <2>1, <3>1 DEF TruthPart, Waits, SameRows, Manages, ManageOps
    <3>3. \A q \in inFlight' : Brings(q)'
      BY <2>1, <3>1, BringsStays
    <3>4. Quiet
      BY <3>1 DEF Quiet
    <3> QED
      BY <2>1, <3>2, <3>3, <3>4, QuietTells DEF TruthPart
  <2>4. ASSUME Search PROVE TruthPart'
    <3>1. PICK op \in {"load", "search"} : Ask(op, 0, 0, 0, 1)
      BY <2>4 DEF Search
    <3>2. /\ inFlight = {}
          /\ UNCHANGED <<kind, patient, rows, objects, arrays, table, astray>>
      BY <1>2, <2>4 DEF Search, MayLoad
    <3> QED
      BY <1>1, <2>1, <3>1, <3>2, LoadSentTruth
  <2>5. ASSUME NEW idx \in 1..ItemsPerPage, NEW op \in ManageOps, Manage(idx, op)
        PROVE  TruthPart'
    <3>1. PICK at, id :
            /\ \A q \in inFlight : q.op \in ManageOps /\ q.id # id
            /\ Ask(op, id, 0, at, 0)
            /\ UNCHANGED <<kind, patient, rows, objects, arrays, table, astray>>
      BY <1>2, <2>5 DEF Manage, MayManage
    <3> QED
      BY <1>1, <2>1, <3>1, ManageSentTruth
  <2>6. ASSUME NEW column \in {"id", "status"}, Sort(column) PROVE TruthPart'
    BY <1>1, <2>1, <2>6, SortTruth
  <2>7. ASSUME NEW r \in inFlight, Serve(r) PROVE TruthPart'
    BY <1>1, <2>1, <2>7, ServeTruth
  <2>8. ASSUME NEW r \in inFlight, Receive(r) PROVE TruthPart'
    BY <1>1, <2>1, <2>8, ReceiveTruth
  <2>9. ASSUME NEW r \in inFlight, Lose(r) PROVE TruthPart'
    <3>1. /\ inFlight' = inFlight \ {r} /\ astray \subseteq astray'
          /\ UNCHANGED <<kind, patient, rows, objects, arrays, table>>
          /\ Manages(r) => ~ r.answer.ok \/ r.id \in astray'
      BY <2>9 DEF Lose, Manages
    <3> QED
      BY <1>1, <2>1, <3>1, EndedTruth
  <2>10. ASSUME NEW id \in Id, Elsewhere(id) PROVE TruthPart'
    BY <1>1, <2>1, <2>10, ElsewhereTruth
  <2>11. ASSUME UNCHANGED vars PROVE TruthPart'
    <3>1. UNCHANGED <<kind, rows, objects, arrays, table, inFlight, astray>>
      BY <2>11 DEF vars
    <3>2. Waits' /\ SameRows'
      BY <2>1, <3>1 DEF TruthPart, Waits, SameRows, Manages, ManageOps
    <3>3. \A q \in inFlight' : Brings(q)'
      BY <2>1, <3>1, BringsStays
    <3>4. Quiet
      BY <3>1 DEF Quiet
    <3> QED
      BY <2>1, <3>2, <3>3, <3>4, QuietTells DEF TruthPart
  <2> QED
    BY <2>2, <2>3, <2>4, <2>5, <2>6, <2>7, <2>8, <2>9, <2>10, <2>11 DEF Next
<1>3. patient' = patient
  BY DEF Next, vars, OnPaginationLoad, OnPaginationTurn, Search, Manage, Sort, Serve,
         Receive, Lose, Elsewhere
<1> QED
  BY <1>1, <1>2, <1>3 DEF TruthInv

\* The rows that an administrator who waits can rely on: listed once, with nothing about
\* them under way, and changed by nobody else, they are what the server has.
THEOREM TruthShown == Spec => []RowsTellTheTruth
<1>1. Init => TruthInv
  BY TypeInit, TruthInit DEF TruthInv
<1>2. TruthInv /\ [Next]_vars => TruthInv'
  BY TruthStep
<1>3. TruthInv => RowsTellTheTruth
  <2> SUFFICES ASSUME TypeInv, TruthPart, NEW k \in DOMAIN arrays[table],
                      \A j \in DOMAIN arrays[table] : Listed(j).id = Listed(k).id => j = k,
                      Listed(k).id \notin astray,
                      \A r \in inFlight : r.op \in ManageOps => r.id # Listed(k).id
               PROVE  IsTrue(Listed(k))
    BY DEF TruthInv, RowsTellTheTruth, IsTrue
  <2>1. PICK o : o = arrays[table][k]
    OBVIOUS
  <2>2. o \in Objects(arrays[table]) /\ objects[o] = Listed(k)
    BY <2>1 DEF Objects, Listed
  <2>3. Alone(o)
    <3>1. ASSUME NEW j \in DOMAIN arrays[table],
                 objects[arrays[table][j]].id = objects[o].id
          PROVE  arrays[table][j] = o
      BY <2>1, <2>2, <3>1 DEF Listed
    <3> QED
      BY <2>2, <3>1 DEF Alone, Objects
  <2>4. Settled(o)
    BY <2>2 DEF Settled, Manages
  <2> QED
    BY <2>2, <2>3, <2>4 DEF TruthPart, Tells
<1> QED
  BY <1>1, <1>2, <1>3, PTL DEF Spec

-------------------------------------------------------------------------------
\* No profile is listed twice.

\* How many rows of the server are not older.
Rank(i) == Cardinality({j \in DOMAIN rows : j >= i})

\* n rows have been listed: whole pages, or all that there are.
Whole(n) == (\E p \in Nat : n = p * ItemsPerPage) \/ Cardinality(DOMAIN rows) <= n

\* A list of ids of which those still there are among the first n.
First(ids, n) == \A k \in DOMAIN ids : ids[k] \in DOMAIN rows => Rank(ids[k]) <= n

\* An array lists the newest rows of the server, none of them twice, as far as they are
\* still there.
Listing(array) ==
  /\ Distinct(Ids(array))
  /\ First(Ids(array), Len(array))
  /\ Whole(Len(array))

\* How many rows there are in the array to which the answer is added.
Before(r) == IF r.start = 0 THEN 0 ELSE Len(arrays[r.array])

\* The page that is asked for comes after the rows of the array, at once or, when there
\* are no more rows, anywhere.
NextPage(r) ==
  /\ r.start * ItemsPerPage >= Before(r)
  /\ r.start * ItemsPerPage = Before(r) \/ Cardinality(DOMAIN rows) <= Before(r)

\* The rows that have come continue the array.
Continues(r) ==
  LET n == Before(r) + Len(r.answer.data)
  IN  /\ Distinct(DataIds(r))
      /\ First(DataIds(r), n)
      /\ Whole(n)
      /\ r.start # 0 =>
           \A k \in DOMAIN r.answer.data, j \in DOMAIN arrays[r.array] :
             DataIds(r)[k] # Ids(arrays[r.array])[j]

Follows(r) ==
  /\ Listing(arrays[r.array])
  /\ r.op = "search" => r.start = 0
  /\ ~ Manages(r) /\ ~ r.answer.done => NextPage(r)
  /\ ~ Manages(r) /\ r.answer.ok => Continues(r)

OncePart == Listing(arrays[table]) /\ \A r \in inFlight : Follows(r)

OnceInv == TruthInv /\ (patient /\ kind = "profiles" => OncePart)

\* The page after the last one comes after all rows of the array.
LEMMA PagesCover ==
  ASSUME NEW n \in Nat
  PROVE  LET p == (n + ItemsPerPage - 1) \div ItemsPerPage
         IN  /\ p \in Nat /\ p * ItemsPerPage >= n
             /\ (\E q \in Nat : n = q * ItemsPerPage) => p * ItemsPerPage = n
<1> DEFINE I == ItemsPerPage
           p == (n + I - 1) \div I
<1>1. I \in Nat /\ I > 0
  BY PageAssumption
<1> HIDE DEF I
<1>2. p \in Nat /\ p * I <= n + I - 1 /\ n + I - 1 < p * I + I
  <2>1. PICK m \in Nat : m = n + I - 1
    BY <1>1
  <2>2. m \div I \in Nat /\ (m \div I) * I <= m /\ m < (m \div I) * I + I
    BY <1>1
  <2> QED
    BY <2>1, <2>2
<1>3. p * I \in Nat
  BY <1>1, <1>2
<1> HIDE DEF p
<1>4. p * I >= n
  BY <1>1, <1>2, <1>3
<1>5. ASSUME NEW q \in Nat, n = q * I PROVE p = q
  <2>1. p <= q \/ p >= q + 1
    BY <1>2
  <2>2. ASSUME p >= q + 1 PROVE FALSE
    <3>1. p * I >= (q + 1) * I
      BY <1>1, <1>2, <2>2
    <3>2. (q + 1) * I = q * I + I
      BY <1>1
    <3> QED
      BY <1>1, <1>2, <1>3, <1>5, <3>1, <3>2
  <2>3. ASSUME p < q PROVE FALSE
    <3>1. (p + 1) * I <= q * I
      BY <1>1, <1>2, <2>3
    <3>2. (p + 1) * I = p * I + I
      BY <1>1, <1>2
    <3> QED
      BY <1>1, <1>2, <1>3, <1>5, <3>1, <3>2
  <2> QED
    BY <1>2, <2>1, <2>2, <2>3
<1> QED
  BY <1>2, <1>4, <1>5 DEF p, I

LEMMA RankType ==
  ASSUME TypeInv
  PROVE  /\ Cardinality(DOMAIN rows) \in Nat
         /\ \A i : Rank(i) \in Nat /\ Rank(i) <= Cardinality(DOMAIN rows)
<1>1. IsFiniteSet(DOMAIN rows) /\ Cardinality(DOMAIN rows) \in Nat
  BY RowsFinite
<1>2. ASSUME NEW i PROVE Rank(i) \in Nat /\ Rank(i) <= Cardinality(DOMAIN rows)
  <2>1. {j \in DOMAIN rows : j >= i} \subseteq DOMAIN rows
    OBVIOUS
  <2> QED
    BY <1>1, <2>1, FS_Subset, FS_CardinalityType DEF Rank
<1> QED
  BY <1>1, <1>2

\* When rows are deleted, those that remain come earlier.
LEMMA RowsShrink ==
  ASSUME TypeInv, TypeInv', DOMAIN rows' \subseteq DOMAIN rows
  PROVE  /\ Cardinality(DOMAIN rows') <= Cardinality(DOMAIN rows)
         /\ Cardinality(DOMAIN rows') \in Nat /\ Cardinality(DOMAIN rows) \in Nat
         /\ \A i : Rank(i)' <= Rank(i) /\ Rank(i)' \in Nat /\ Rank(i) \in Nat
<1>1. IsFiniteSet(DOMAIN rows)
  BY RowsFinite
<1>2. Cardinality(DOMAIN rows') <= Cardinality(DOMAIN rows)
      /\ Cardinality(DOMAIN rows') \in Nat /\ Cardinality(DOMAIN rows) \in Nat
  <2>1. IsFiniteSet(DOMAIN rows') /\ Cardinality(DOMAIN rows') <= Cardinality(DOMAIN rows)
    BY <1>1, FS_Subset
  <2> QED
    BY <1>1, <2>1, FS_CardinalityType
<1>3. ASSUME NEW i PROVE Rank(i)' <= Rank(i) /\ Rank(i)' \in Nat /\ Rank(i) \in Nat
  <2> DEFINE A == {j \in DOMAIN rows : j >= i}
             B == {j \in DOMAIN rows' : j >= i}
  <2>1. IsFiniteSet(A) /\ B \subseteq A
    BY <1>1, FS_Subset
  <2> HIDE DEF A, B
  <2>2. IsFiniteSet(B) /\ Cardinality(B) <= Cardinality(A)
        /\ Cardinality(A) \in Nat /\ Cardinality(B) \in Nat
    BY <2>1, FS_Subset, FS_CardinalityType
  <2>3. Rank(i) = Cardinality(A) /\ Rank(i)' = Cardinality(B)
    BY DEF Rank, A, B
  <2> QED
    BY <2>2, <2>3
<1> QED
  BY <1>2, <1>3

LEMMA FirstStays ==
  ASSUME TypeInv, TypeInv', DOMAIN rows' \subseteq DOMAIN rows,
         NEW n \in Nat, NEW m \in Nat, n <= m
  PROVE  /\ Whole(n) => Whole(n)'
         /\ \A ids : First(ids, n) => First(ids, m)'
<1>1. Whole(n) => Whole(n)'
  BY RowsShrink DEF Whole
<1>2. ASSUME NEW ids, First(ids, n) PROVE First(ids, m)'
  <2>1. ASSUME NEW k \in DOMAIN ids, ids[k] \in DOMAIN rows' PROVE Rank(ids[k])' <= m
    <3>1. PICK i : i = ids[k]
      OBVIOUS
    <3>2. Rank(i) <= n
      BY <1>2, <2>1, <3>1 DEF First
    <3>3. Rank(i)' <= Rank(i) /\ Rank(i)' \in Nat /\ Rank(i) \in Nat
      BY RowsShrink
    <3> QED
      BY <3>1, <3>2, <3>3
  <2> QED
    BY <2>1 DEF First
<1> QED
  BY <1>1, <1>2

\* An array stays a listing while rows are deleted and objects keep their ids.
LEMMA ListingStays ==
  ASSUME TypeInv, TypeInv', DOMAIN rows' \subseteq DOMAIN rows,
         \A o \in 1..Len(objects) : objects'[o].id = objects[o].id,
         NEW array \in Seq(1..Len(objects)), Listing(array)
  PROVE  Listing(array)'
<1>1. /\ Len(array) \in Nat /\ DOMAIN array = 1..Len(array)
      /\ \A k \in 1..Len(array) : array[k] \in 1..Len(objects)
  OBVIOUS
<1>2. PICK ids : ids = Ids(array)
  OBVIOUS
<1>3. ids = Ids(array)'
  BY <1>1, <1>2 DEF Ids
<1>4. Distinct(ids) /\ First(ids, Len(array)) /\ Whole(Len(array))
  BY <1>2 DEF Listing
<1>5. First(ids, Len(array))' /\ Whole(Len(array))'
  BY <1>1, <1>4, FirstStays
<1> QED
  BY <1>3, <1>4, <1>5 DEF Listing, Distinct, First

\* A request that stays, with an array that stays.
LEMMA FollowsStays ==
  ASSUME TypeInv, TypeInv', DOMAIN rows' \subseteq DOMAIN rows, kind' = kind,
         \A o \in 1..Len(objects) : objects'[o].id = objects[o].id,
         NEW r \in inFlight, arrays'[r.array] = arrays[r.array], Follows(r)
  PROVE  Follows(r)'
<1>1. PICK array : array = arrays[r.array]
  OBVIOUS
<1>2. /\ array \in Seq(1..Len(objects)) /\ Len(array) \in Nat /\ DOMAIN array = 1..Len(array)
      /\ \A k \in 1..Len(array) : array[k] \in 1..Len(objects)
  BY <1>1, RequestType, Types
<1>3. Listing(array)'
  BY <1>1, <1>2, ListingStays DEF Follows
<1>4. Listing(arrays[r.array])'
  <2>1. arrays'[r.array] = array
    BY <1>1
  <2> QED
    BY <1>3, <2>1 DEF Listing
<1>5. (Manages(r)' <=> Manages(r)) /\ Before(r)' = Before(r) /\ Before(r) \in Nat
  BY <1>1, <1>2, ConstantTypes DEF Manages, Before
<1>6. ASSUME NextPage(r) PROVE NextPage(r)'
  BY <1>5, <1>6, RowsShrink DEF NextPage
<1>7. ASSUME Continues(r), ~ Manages(r), r.answer.ok PROVE Continues(r)'
  <2>1. PICK n : n = Before(r) + Len(r.answer.data)
    OBVIOUS
  <2>2. PICK ids : ids = DataIds(r)
    OBVIOUS
  <2>3. r.answer.data \in Seq(Object) /\ n \in Nat
    BY <1>5, <1>7, <2>1, RequestType DEF Answers
  <2>4. Distinct(ids) /\ First(ids, n) /\ Whole(n)
    BY <1>7, <2>1, <2>2 DEF Continues
  <2>5. First(ids, n)' /\ Whole(n)'
    BY <2>3, <2>4, FirstStays
  <2>6. ids = DataIds(r)' /\ n = (Before(r) + Len(r.answer.data))'
    BY <1>5, <2>1, <2>2 DEF DataIds
  <2>7. Ids(arrays[r.array])' = Ids(arrays[r.array])
    BY <1>1, <1>2 DEF Ids
  <2>8. r.start # 0 =>
          \A k \in DOMAIN r.answer.data, j \in DOMAIN arrays'[r.array] :
            ids[k] # Ids(arrays[r.array])'[j]
    BY <1>1, <1>7, <2>2, <2>7 DEF Continues
  <2> QED
    BY <2>2, <2>4, <2>5, <2>6, <2>8 DEF Continues, Distinct
<1> QED
  BY <1>4, <1>5, <1>6, <1>7 DEF Follows

\* An array that is there, shown, is a listing if it was one.
LEMMA ShownStays ==
  ASSUME TypeInv, TypeInv', DOMAIN rows' \subseteq DOMAIN rows,
         \A o \in 1..Len(objects) : objects'[o].id = objects[o].id,
         NEW a \in 1..Len(arrays), Listing(arrays[a]), arrays'[table'] = arrays[a]
  PROVE  Listing(arrays[table])'
<1>1. PICK array : array = arrays[a]
  OBVIOUS
<1>2. array \in Seq(1..Len(objects))
  BY <1>1, Types
<1>3. Listing(array)'
  BY <1>1, <1>2, ListingStays
<1>4. arrays'[table'] = array
  BY <1>1
<1> QED
  BY <1>3, <1>4 DEF Listing

\* Steps that leave the table, or only delete rows.
LEMMA OnceStays ==
  ASSUME TypeInv, TypeInv', OncePart, DOMAIN rows' \subseteq DOMAIN rows,
         UNCHANGED <<kind, objects, arrays, table>>,
         \A q \in inFlight' : q \in inFlight \/ Follows(q)'
  PROVE  OncePart'
<1>1. table \in 1..Len(arrays)
  BY Types
<1>2. Listing(arrays[table])'
  BY <1>1, ShownStays DEF OncePart
<1>3. ASSUME NEW q \in inFlight PROVE Follows(q)'
  BY FollowsStays DEF OncePart
<1> QED
  BY <1>2, <1>3 DEF OncePart

LEMMA OnceInit ==
  ASSUME Init
  PROVE  OncePart
<1> DEFINE r == [n |-> MaxActs, op |-> "load", id |-> 0, start |-> 0, array |-> 1,
                 at |-> 0, goto |-> 0, answer |-> Pending]
<1>1. inFlight = {r} /\ arrays[table] = <<>> /\ arrays[1] = <<>>
  BY DEF Init
<1>2. r.answer.ok = FALSE /\ r.array = 1 /\ r.start = 0 /\ r.op = "load"
  BY DEF Pending
<1> HIDE DEF r
<1>3. Listing(<<>>)
  <2>1. Whole(0)
    <3>1. 0 = 0 * ItemsPerPage
      BY PageAssumption
    <3> QED
      BY <3>1 DEF Whole
  <2>2. Len(<<>>) = 0 /\ DOMAIN <<>> = {}
    OBVIOUS
  <2>3. DOMAIN Ids(<<>>) = {}
    BY <2>2 DEF Ids
  <2> QED
    BY <2>1, <2>2, <2>3 DEF Listing, Distinct, First
<1>4. NextPage(r)
  <2>1. 0 * ItemsPerPage = 0
    BY PageAssumption
  <2> QED
    BY <1>2, <2>1 DEF NextPage, Before
<1>5. Listing(arrays[table]) /\ Listing(arrays[r.array])
  BY <1>1, <1>2, <1>3
<1> QED
  BY <1>1, <1>2, <1>4, <1>5 DEF OncePart, Follows

LEMMA LoadSentOnce ==
  ASSUME TypeInv, TypeInv', OncePart, NEW op \in {"load", "search"}, NEW start, NEW goto,
         start = 0 \/ (op = "load" /\ start = Pages(arrays[table])),
         inFlight = {}, Ask(op, 0, start, 0, goto),
         UNCHANGED <<kind, patient, rows, objects, arrays, table, astray>>
  PROVE  OncePart'
<1>0. PICK r : r = Asked(op, 0, start, 0, goto)
  OBVIOUS
<1>1. inFlight' = {r} /\ r.array = table /\ r.op = op /\ r.start = start /\ r.answer.ok = FALSE
  BY <1>0 DEF Ask, Asked, Pending
<1>2. Listing(arrays[table])'
  BY Types, ShownStays DEF OncePart
<1>3. NextPage(r)
  <2>1. CASE start = 0
    <3>1. 0 * ItemsPerPage = 0
      BY PageAssumption
    <3> QED
      BY <1>1, <2>1, <3>1 DEF NextPage, Before
  <2>2. CASE start # 0
    <3>1. PICK n : n = Len(arrays[table])
      OBVIOUS
    <3>2. n \in Nat /\ Before(r) = n
      BY <1>1, <2>2, <3>1, Types DEF Before
    <3>3. start = (n + ItemsPerPage - 1) \div ItemsPerPage
      BY <2>2, <3>1 DEF Pages
    <3>4. /\ start * ItemsPerPage >= n
          /\ (\E q \in Nat : n = q * ItemsPerPage) => start * ItemsPerPage = n
      BY <3>2, <3>3, PagesCover
    <3>5. Whole(n)
      BY <3>1 DEF OncePart, Listing
    <3> QED
      BY <1>1, <3>2, <3>4, <3>5 DEF NextPage, Whole
  <2> QED
    BY <2>1, <2>2
<1>4. NextPage(r)'
  BY <1>3 DEF NextPage, Before
<1>5. Listing(arrays[r.array])'
  BY <1>1, <1>2
<1> QED
  BY <1>1, <1>2, <1>4, <1>5 DEF OncePart, Follows

LEMMA ManageSentOnce ==
  ASSUME TypeInv, TypeInv', OncePart, NEW op \in ManageOps, NEW id, NEW at,
         Ask(op, id, 0, at, 0),
         UNCHANGED <<kind, patient, rows, objects, arrays, table, astray>>
  PROVE  OncePart'
<1>0. PICK r : r = Asked(op, id, 0, at, 0)
  OBVIOUS
<1>1. inFlight' = inFlight \cup {r} /\ r.array = table /\ r.op = op
  BY <1>0 DEF Ask, Asked, Pending
<1>2. Listing(arrays[table])'
  BY Types, ShownStays DEF OncePart
<1>3. Listing(arrays[r.array])' /\ Manages(r)' /\ r.op # "search"
  <2>1. Listing(arrays[r.array])'
    BY <1>1, <1>2
  <2> QED
    BY <1>1, <2>1, ConstantTypes DEF Manages
<1>4. Follows(r)'
  BY <1>3 DEF Follows
<1> QED
  BY <1>1, <1>4, OnceStays

LEMMA SortOnce ==
  ASSUME TypeInv, TypeInv', OncePart, NEW column, Sort(column)
  PROVE  OncePart'
<1>1. /\ arrays' = Append(arrays, Sorted(arrays[table], column)) /\ table' = Len(arrays) + 1
      /\ UNCHANGED <<kind, patient, rows, objects, inFlight, astray>>
  BY DEF Sort
<1>2. /\ arrays \in Seq(Seq(1..Len(objects))) /\ table \in 1..Len(arrays)
      /\ Len(arrays) \in Nat /\ \A a \in 1..Len(arrays) : arrays[a] \in Seq(1..Len(objects))
  BY Types
<1>3. /\ Sorted(arrays[table], column) \in Seq(1..Len(objects))
      /\ Rearranged(Sorted(arrays[table], column), arrays[table])
  BY <1>2, SortedIs
<1>4. PICK s, t : s = Sorted(arrays[table], column) /\ t = arrays[table]
  OBVIOUS
<1>5. s \in Seq(1..Len(objects)) /\ t \in Seq(1..Len(objects)) /\ Rearranged(s, t)
  BY <1>2, <1>3, <1>4
<1>6. Len(s) = Len(t) /\ Objects(s) = Objects(t) /\ (Distinct(Ids(t)) => Distinct(Ids(s)))
  BY <1>5, RearrangedRows
<1>7. Listing(t)
  BY <1>4 DEF OncePart
<1>8. First(Ids(s), Len(s))
  <2>1. ASSUME NEW k \in DOMAIN s, objects[s[k]].id \in DOMAIN rows
        PROVE  Rank(objects[s[k]].id) <= Len(t)
    <3>1. PICK j \in DOMAIN t : s[k] = t[j]
      BY <1>6 DEF Objects
    <3>2. First(Ids(t), Len(t))
      BY <1>7 DEF Listing
    <3> QED
      BY <2>1, <3>1, <3>2 DEF First, Ids
  <2> QED
    BY <1>6, <2>1 DEF First, Ids
<1>9. Listing(s)
  BY <1>6, <1>7, <1>8 DEF Listing
<1>10. Listing(s)'
  BY <1>1, <1>5, <1>9, ListingStays
<1>11. arrays'[table'] = s /\ \A a \in 1..Len(arrays) : arrays'[a] = arrays[a]
  BY <1>1, <1>2, <1>4, <1>5
<1>12. Listing(arrays[table])'
  BY <1>10, <1>11 DEF Listing
<1>13. ASSUME NEW q \in inFlight' PROVE Follows(q)'
  <2>1. arrays'[q.array] = arrays[q.array] /\ Follows(q)
    BY <1>1, <1>11, RequestType DEF OncePart
  <2> QED
    BY <1>1, <2>1, FollowsStays
<1> QED
  BY <1>12, <1>13 DEF OncePart

LEMMA AnsweredOnce ==
  ASSUME TypeInv, TypeInv', OncePart, NEW r \in inFlight, NEW answer, Answered(r, answer),
         answer.done, DOMAIN rows' \subseteq DOMAIN rows,
         UNCHANGED <<kind, objects, arrays, table>>,
         Manages(r) \/ ~ answer.ok \/ Continues([r EXCEPT !.answer = answer])'
  PROVE  OncePart'
<1>0. PICK s : s = [r EXCEPT !.answer = answer]
  OBVIOUS
<1>1. r \in Request /\ Follows(r)
  BY RequestType DEF OncePart
<1>2. inFlight' = (inFlight \ {r}) \cup {s} /\ s.array = r.array /\ s.op = r.op
      /\ s.start = r.start /\ s.answer = answer
  BY <1>0, <1>1 DEF Answered, Request
<1>3. Follows(r)'
  BY <1>1, FollowsStays
<1>4. Listing(arrays[s.array])' /\ (s.op = "search" => s.start = 0)
  BY <1>2, <1>3 DEF Follows
<1>5. Manages(s)' <=> Manages(r)
  BY <1>2, ConstantTypes DEF Manages
<1>6. Follows(s)'
  BY <1>0, <1>2, <1>4, <1>5 DEF Follows
<1> QED
  BY <1>2, <1>6, OnceStays

\* How the ids of an answer come from the rows.
LEMMA AsObjectsIds ==
  ASSUME TypeInv, NEW ids \in Seq(DOMAIN rows), NEW s, s.answer = Answer(AsObjects(ids))
  PROVE  /\ Len(s.answer.data) = Len(ids) /\ Len(ids) \in Nat
         /\ DOMAIN s.answer.data = 1..Len(ids) /\ DOMAIN DataIds(s) = 1..Len(ids)
         /\ \A k \in 1..Len(ids) : DataIds(s)[k] = ids[k]
<1>1. PICK d : d = AsObjects(ids)
  OBVIOUS
<1>2. s.answer.data = d
  BY <1>1 DEF Answer
<1>3. /\ d \in Seq(Object) /\ Len(d) = Len(ids)
      /\ \A k \in 1..Len(ids) :
           d[k] = [id |-> ids[k], status |-> rows[ids[k]].status,
                   mark |-> rows[ids[k]].mark, deleted |-> FALSE]
  BY <1>1, AsObjectsType
<1>4. DOMAIN d = 1..Len(ids) /\ Len(ids) \in Nat
  BY <1>3
<1>5. ASSUME NEW k \in 1..Len(ids) PROVE d[k].id = ids[k]
  <2>1. d[k] = [id |-> ids[k], status |-> rows[ids[k]].status,
                mark |-> rows[ids[k]].mark, deleted |-> FALSE]
    BY <1>3
  <2> QED
    BY <2>1
<1> QED
  BY <1>2, <1>3, <1>4, <1>5 DEF DataIds

\* The newest row is the first, and so on.
LEMMA NewestRank ==
  ASSUME TypeInv
  PROVE  LET newest == NewestFirst(DOMAIN rows)
         IN  /\ newest \in Seq(DOMAIN rows) /\ Len(newest) = Cardinality(DOMAIN rows)
             /\ Len(newest) \in Nat
             /\ \A k \in 1..Len(newest) : newest[k] \in DOMAIN rows /\ Rank(newest[k]) = k
             /\ \A j, k \in 1..Len(newest) : newest[j] = newest[k] => j = k
BY RowsFinite, NewestFirstIs DEF Rank

\* The page that comes continues the array, and so do all rows.
LEMMA PageContinues ==
  ASSUME TypeInv, NEW r \in inFlight, Listing(arrays[r.array]), NextPage(r),
         NEW s, s.array = r.array, s.start = r.start,
         s.answer = Answer(AsObjects(PageOf(r)))
  PROVE  Continues(s)
<1> DEFINE newest == NewestFirst(DOMAIN rows)
           page == PageOf(r)
           b == r.start * ItemsPerPage
           N == Cardinality(DOMAIN rows)
           m == Len(page)
           L == Before(r)
           n == L + m
           last == PageEnd(r)
<1>1. /\ newest \in Seq(DOMAIN rows) /\ Len(newest) = N /\ N \in Nat
      /\ \A k \in 1..N : newest[k] \in DOMAIN rows /\ Rank(newest[k]) = k
      /\ \A j, k \in 1..N : newest[j] = newest[k] => j = k
  BY NewestRank
<1>2. /\ b \in Nat /\ page \in Seq(DOMAIN rows)
      /\ m = IF b <= last THEN last - b ELSE 0
      /\ \A k \in 1..m : page[k] = newest[b + k] /\ b + k <= N
  BY <1>1, PageIs
<1>3. last = IF (r.start + 1) * ItemsPerPage < N THEN (r.start + 1) * ItemsPerPage ELSE N
  BY <1>1 DEF PageEnd
<1>4. (r.start + 1) * ItemsPerPage = b + ItemsPerPage /\ ItemsPerPage \in Nat /\ ItemsPerPage > 0
      /\ r.start \in Nat
  BY RequestType, PageAssumption
<1>5. L \in Nat /\ b >= L /\ (b = L \/ N <= L)
  BY RequestType, Types DEF NextPage, Before
<1>6. /\ Len(s.answer.data) = m /\ m \in Nat
      /\ DOMAIN s.answer.data = 1..m /\ DOMAIN DataIds(s) = 1..m
      /\ \A k \in 1..m : DataIds(s)[k] = page[k]
  BY <1>2, AsObjectsIds
<1>7. Before(s) + Len(s.answer.data) = n
  BY <1>6 DEF Before
<1> HIDE DEF newest, page, b, N, m, L, n, last
<1>8. n = L + m
  BY DEF n
<1>9. ASSUME NEW k \in 1..m
      PROVE  /\ b + k \in 1..N /\ DataIds(s)[k] = newest[b + k]
             /\ Rank(DataIds(s)[k]) = b + k /\ DataIds(s)[k] \in DOMAIN rows
  <2>1. b + k \in 1..N
    BY <1>1, <1>2, <1>6
  <2> QED
    BY <1>1, <1>2, <1>6, <2>1
<1>10. Distinct(DataIds(s))
  <2>1. ASSUME NEW j \in 1..m, NEW k \in 1..m, DataIds(s)[j] = DataIds(s)[k] PROVE j = k
    <3>1. b + j = b + k
      BY <1>1, <1>9, <2>1
    <3> QED
      BY <1>2, <1>6, <3>1
  <2> QED
    BY <1>6, <2>1 DEF Distinct
<1>11. First(DataIds(s), n)
  <2>1. ASSUME NEW k \in 1..m PROVE b + k <= n
    BY <1>1, <1>2, <1>5, <1>6, <1>8, <1>9
  <2> QED
    BY <1>6, <1>9, <2>1 DEF First
<1>12. Whole(n)
  <2>1. CASE b = L /\ (r.start + 1) * ItemsPerPage < N
    <3>1. last = b + ItemsPerPage
      BY <1>3, <1>4, <2>1
    <3>2. n = b + ItemsPerPage
      BY <1>2, <1>4, <1>5, <1>8, <2>1, <3>1
    <3>3. n = (r.start + 1) * ItemsPerPage /\ r.start + 1 \in Nat
      BY <1>4, <3>2
    <3> QED
      BY <3>3 DEF Whole
  <2>2. CASE ~ (b = L /\ (r.start + 1) * ItemsPerPage < N)
    <3>1. N <= n
      <4>1. CASE N <= L
        BY <1>1, <1>5, <1>6, <1>8, <4>1
      <4>2. CASE b = L /\ last = N
        BY <1>1, <1>2, <1>5, <1>6, <1>8, <4>2
      <4> QED
        BY <1>3, <1>5, <2>2, <4>1, <4>2
    <3> QED
      BY <3>1 DEF Whole, N
  <2> QED
    BY <2>1, <2>2
<1>13. ASSUME r.start # 0, NEW k \in 1..m, NEW j \in DOMAIN arrays[r.array],
              DataIds(s)[k] = Ids(arrays[r.array])[j]
       PROVE  FALSE
  <2>1. Rank(DataIds(s)[k]) <= Len(arrays[r.array])
    BY <1>9, <1>13 DEF Listing, First, Ids
  <2>2. L = Len(arrays[r.array])
    BY <1>13 DEF L, Before
  <2>3. b + k <= L /\ k >= 1
    BY <1>9, <2>1, <2>2
  <2> QED
    BY <1>2, <1>5, <1>6, <2>3
<1> QED
  BY <1>6, <1>7, <1>10, <1>11, <1>12, <1>13 DEF Continues

LEMMA SearchContinues ==
  ASSUME TypeInv, NEW s, s.start = 0,
         s.answer = Answer(AsObjects(Reverse(NewestFirst(DOMAIN rows))))
  PROVE  Continues(s)
<1> DEFINE newest == NewestFirst(DOMAIN rows)
           all == Reverse(newest)
           N == Cardinality(DOMAIN rows)
<1>1. /\ newest \in Seq(DOMAIN rows) /\ Len(newest) = N /\ N \in Nat
      /\ \A j, k \in 1..N : newest[j] = newest[k] => j = k
  BY NewestRank
<1>2. /\ all \in Seq(DOMAIN rows) /\ Len(all) = N
      /\ \A k \in 1..N : all[k] = newest[(N - k) + 1]
  BY <1>1, ReverseIs
<1>3. /\ Len(s.answer.data) = N
      /\ DOMAIN s.answer.data = 1..N /\ DOMAIN DataIds(s) = 1..N
      /\ \A k \in 1..N : DataIds(s)[k] = all[k]
  <2>1. PICK ids : ids = all
    OBVIOUS
  <2>2. ids \in Seq(DOMAIN rows) /\ Len(ids) = N /\ s.answer = Answer(AsObjects(ids))
    BY <1>2, <2>1
  <2>3. /\ Len(s.answer.data) = Len(ids)
        /\ DOMAIN s.answer.data = 1..Len(ids) /\ DOMAIN DataIds(s) = 1..Len(ids)
        /\ \A k \in 1..Len(ids) : DataIds(s)[k] = ids[k]
    BY <2>2, AsObjectsIds
  <2> QED
    BY <2>1, <2>2, <2>3
<1>4. Before(s) + Len(s.answer.data) = N
  <2> HIDE DEF N
  <2> QED
    BY <1>1, <1>3 DEF Before
<1>5. First(DataIds(s), N)
  BY RankType DEF First
<1>6. Whole(N)
  BY <1>1 DEF Whole
<1> HIDE DEF newest, all, N
<1>7. Distinct(DataIds(s))
  <2>1. ASSUME NEW j \in 1..N, NEW k \in 1..N, DataIds(s)[j] = DataIds(s)[k] PROVE j = k
    <3>1. newest[(N - j) + 1] = newest[(N - k) + 1]
      BY <1>2, <1>3, <2>1
    <3>2. (N - j) + 1 \in 1..N /\ (N - k) + 1 \in 1..N
      BY <1>1
    <3>3. (N - j) + 1 = (N - k) + 1
      BY <1>1, <3>1, <3>2
    <3> QED
      BY <1>1, <3>3
  <2> QED
    BY <1>3, <2>1 DEF Distinct
<1> QED
  BY <1>4, <1>5, <1>6, <1>7 DEF Continues

LEMMA ServeOnce ==
  ASSUME TypeInv, TypeInv', OncePart, kind = "profiles", NEW r \in inFlight, Serve(r)
  PROVE  OncePart'
<1>1. /\ ~ r.answer.done
      /\ UNCHANGED <<kind, patient, objects, arrays, table, activePage, astray, acts>>
  BY DEF Serve
<1>2. r \in Request /\ Follows(r)
  BY RequestType DEF OncePart
<1>3. CASE GetAll(r)
  <2>1. Answered(r, Answer(AsObjects(PageOf(r)))) /\ rows' = rows /\ ~ Manages(r)
    BY <1>3, ConstantTypes DEF GetAll, PageOf, PageEnd, Manages
  <2>2. PICK answer : answer = Answer(AsObjects(PageOf(r)))
    OBVIOUS
  <2>3. PICK s : s = [r EXCEPT !.answer = answer]
    OBVIOUS
  <2>4. s.array = r.array /\ s.start = r.start /\ s.answer = answer
    BY <1>2, <2>3 DEF Request
  <2>5. Continues(s)
    BY <1>1, <1>2, <2>1, <2>2, <2>4, PageContinues DEF Follows
  <2>6. Continues(s)'
    BY <1>1, <2>1, <2>5 DEF Continues, Before, First, Whole, Rank, Ids
  <2>7. answer.done
    BY <2>2 DEF Answer
  <2> QED
    BY <1>1, <2>1, <2>2, <2>3, <2>6, <2>7, AnsweredOnce
<1>4. CASE SearchAll(r)
  <2>1. Answered(r, Answer(AsObjects(Reverse(NewestFirst(DOMAIN rows))))) /\ rows' = rows
        /\ r.start = 0
    BY <1>2, <1>4 DEF SearchAll, Follows
  <2>2. PICK answer : answer = Answer(AsObjects(Reverse(NewestFirst(DOMAIN rows))))
    OBVIOUS
  <2>3. PICK s : s = [r EXCEPT !.answer = answer]
    OBVIOUS
  <2>4. s.array = r.array /\ s.start = r.start /\ s.answer = answer
    BY <1>2, <2>3 DEF Request
  <2>5. Continues(s)
    BY <2>1, <2>2, <2>4, SearchContinues
  <2>6. Continues(s)'
    BY <1>1, <2>1, <2>5 DEF Continues, Before, First, Whole, Rank, Ids
  <2>7. answer.done
    BY <2>2 DEF Answer
  <2> QED
    BY <1>1, <2>1, <2>2, <2>3, <2>6, <2>7, AnsweredOnce
<1>5. CASE ManageProfile(r)
  <2>1. Manages(r)
    BY <1>5 DEF ManageProfile, Manages, ManageOps
  <2>2. PICK answer : Answered(r, answer) /\ answer.done
    BY <1>5 DEF ManageProfile, Answer
  <2>3. DOMAIN rows' \subseteq DOMAIN rows
    BY <1>5 DEF ManageProfile, Without
  <2> QED
    BY <1>1, <2>1, <2>2, <2>3, AnsweredOnce
<1>6. CASE ManageUser(r)
  BY <1>6 DEF ManageUser
<1>7. CASE Refuse(r)
  <2>1. Answered(r, Refusal) /\ rows' = rows
    BY <1>7 DEF Refuse
  <2>2. Refusal.done /\ Refusal.ok = FALSE
    BY DEF Refusal
  <2> QED
    BY <1>1, <2>1, <2>2, AnsweredOnce
<1> QED
  BY <1>3, <1>4, <1>5, <1>6, <1>7 DEF Serve

\* Rows that make a new array.
LEMMA ShownOnce ==
  ASSUME TypeInv, TypeInv', TruthPart, OncePart, NEW r \in inFlight, ~ Manages(r),
         r.answer.ok, r.start = 0, inFlight' = inFlight \ {r}, rows' = rows, kind' = kind,
         objects' = objects \o r.answer.data, Shows(New(r.answer.data))
  PROVE  OncePart'
<1>1. inFlight' = {}
  BY DEF TruthPart, Waits
<1>2. PICK data \in Seq(Object) : data = r.answer.data
  BY RequestType DEF Answers
<1>3. /\ objects' \in Seq(Object) /\ Len(objects) <= Len(objects')
      /\ \A o \in 1..Len(objects) : objects'[o].id = objects[o].id
      /\ \A k \in 1..Len(data) : objects'[Len(objects) + k] = data[k]
      /\ DOMAIN data = 1..Len(data) /\ Len(data) \in Nat
      /\ New(data) \in Seq(1..Len(objects')) /\ Len(New(data)) = Len(data)
      /\ \A k \in 1..Len(data) : New(data)[k] = Len(objects) + k
  BY <1>2, NewIs
<1>4. PICK t : t = New(data)
  OBVIOUS
<1>5. arrays'[table'] = t
  BY <1>2, <1>3, <1>4, ShowsGrows
<1>6. DOMAIN t = 1..Len(data) /\ Len(t) = Len(data)
  BY <1>3, <1>4
<1>7. PICK ids : ids = DataIds(r)
  OBVIOUS
<1>8. Distinct(ids) /\ First(ids, Len(data)) /\ Whole(Len(data))
  <2>1. Continues(r)
    BY DEF OncePart, Follows
  <2>2. Before(r) + Len(r.answer.data) = Len(data)
    BY <1>2, <1>3 DEF Before
  <2> QED
    BY <1>7, <2>1, <2>2 DEF Continues
<1>9. First(ids, Len(data))' /\ Whole(Len(data))'
  BY <1>3, <1>8, FirstStays
<1>10. ids = Ids(t)'
  <2>1. DOMAIN ids = 1..Len(data) /\ \A k \in 1..Len(data) : ids[k] = data[k].id
    BY <1>2, <1>3, <1>7 DEF DataIds
  <2>2. \A k \in 1..Len(data) : objects'[t[k]].id = data[k].id
    BY <1>3, <1>4
  <2>3. ids = [k \in 1..Len(data) |-> ids[k]]
    BY <1>2, <1>3, <1>7 DEF DataIds
  <2> QED
    BY <1>6, <2>1, <2>2, <2>3 DEF Ids
<1>11. Listing(t)'
  BY <1>6, <1>8, <1>9, <1>10 DEF Listing, Distinct
<1>12. Listing(arrays[table])'
  BY <1>5, <1>11 DEF Listing
<1> QED
  BY <1>1, <1>12 DEF OncePart

\* Rows that are added to an array.
LEMMA PushedOnce ==
  ASSUME TypeInv, TypeInv', TruthPart, OncePart, NEW r \in inFlight, ~ Manages(r),
         r.answer.ok, r.start # 0, inFlight' = inFlight \ {r}, rows' = rows, kind' = kind,
         objects' = objects \o r.answer.data, table' = r.array,
         arrays' = [arrays EXCEPT ![r.array] = @ \o New(r.answer.data)]
  PROVE  OncePart'
<1>1. inFlight' = {}
  BY DEF TruthPart, Waits
<1>2. PICK data \in Seq(Object) : data = r.answer.data
  BY RequestType DEF Answers
<1>3. PICK s, t, n, m : /\ s = arrays[r.array] /\ t = arrays'[r.array]
                        /\ n = Len(arrays[r.array]) /\ m = Len(data)
  OBVIOUS
<1>4. /\ s \in Seq(1..Len(objects)) /\ n \in Nat /\ DOMAIN s = 1..n /\ Len(s) = n
      /\ \A k \in 1..n : s[k] \in 1..Len(objects)
      /\ r.array \in 1..Len(arrays)
  BY <1>3, RequestType, Types
<1>5. /\ \A o \in 1..Len(objects) : objects'[o] = objects[o]
      /\ \A k \in 1..m : objects'[Len(objects) + k] = data[k]
      /\ DOMAIN data = 1..m /\ m \in Nat
  BY <1>2, <1>3, NewIs
<1>6. /\ Len(t) = n + m
      /\ \A k \in 1..n : t[k] = s[k]
      /\ \A k \in 1..m : t[n + k] = Len(objects) + k
      /\ Grows /\ Len(arrays') = Len(arrays)
  <2>1. /\ objects' = objects \o data
        /\ arrays' = [arrays EXCEPT ![r.array] = @ \o New(data)]
    BY <1>2
  <2>2. /\ Grows /\ Len(arrays') = Len(arrays)
        /\ Len(arrays'[r.array]) = Len(arrays[r.array]) + Len(data)
        /\ \A k \in 1..Len(arrays[r.array]) : arrays'[r.array][k] = arrays[r.array][k]
        /\ \A k \in 1..Len(data) :
             arrays'[r.array][Len(arrays[r.array]) + k] = Len(objects) + k
    BY <1>4, <2>1, PushGrows
  <2> QED
    BY <1>3, <2>2
<1>7. DOMAIN t = 1..(n + m)
  <2>1. t \in Seq(1..Len(objects'))
    <3>1. arrays' \in Seq(Seq(1..Len(objects'))) /\ r.array \in 1..Len(arrays')
      BY <1>4, <1>6 DEF Grows
    <3>2. ASSUME NEW S, NEW q \in Seq(S), NEW i \in 1..Len(q) PROVE q[i] \in S
      BY <3>2
    <3>3. arrays'[r.array] \in Seq(1..Len(objects'))
      BY <3>1, <3>2
    <3> QED
      BY <1>3, <3>3
  <2> QED
    BY <1>6, <2>1
<1>8. PICK old, new, ids : old = Ids(s) /\ new = DataIds(r) /\ ids = Ids(t)'
  OBVIOUS
<1>9. /\ DOMAIN ids = 1..(n + m)
      /\ \A k \in 1..n : ids[k] = old[k]
      /\ \A k \in 1..m : ids[n + k] = new[k]
  <2>1. DOMAIN ids = 1..(n + m) /\ \A k \in 1..(n + m) : ids[k] = objects'[t[k]].id
    BY <1>7, <1>8 DEF Ids
  <2>2. \A k \in 1..n : old[k] = objects[s[k]].id
    BY <1>4, <1>8 DEF Ids
  <2>3. \A k \in 1..m : new[k] = data[k].id
    BY <1>2, <1>5, <1>8 DEF DataIds
  <2>4. ASSUME NEW k \in 1..n PROVE ids[k] = old[k]
    <3>1. k \in 1..(n + m)
      BY <1>4, <1>5
    <3>2. objects'[t[k]] = objects[s[k]]
      BY <1>4, <1>5, <1>6
    <3> QED
      BY <2>1, <2>2, <3>1, <3>2
  <2>5. ASSUME NEW k \in 1..m PROVE ids[n + k] = new[k]
    <3>1. n + k \in 1..(n + m)
      BY <1>4, <1>5
    <3>2. objects'[t[n + k]] = data[k]
      BY <1>5, <1>6
    <3> QED
      BY <2>1, <2>3, <3>1, <3>2
  <2> QED
    BY <2>1, <2>4, <2>5
<1>10. /\ DOMAIN old = 1..n /\ Distinct(old) /\ First(old, n)
       /\ DOMAIN new = 1..m /\ Distinct(new) /\ First(new, n + m) /\ Whole(n + m)
       /\ \A k \in 1..m, j \in 1..n : new[k] # old[j]
  <2>1. Listing(s) /\ Continues(r)
    BY <1>3 DEF OncePart, Follows
  <2>2. Before(r) = n
    BY <1>3 DEF Before
  <2>3. DOMAIN old = 1..n /\ DOMAIN new = 1..m
    BY <1>2, <1>4, <1>5, <1>8 DEF Ids, DataIds
  <2> QED
    BY <1>2, <1>3, <1>4, <1>5, <1>8, <2>1, <2>2, <2>3 DEF Listing, Continues
<1>11. \A k \in 1..(n + m) : k \in 1..n \/ (k - n \in 1..m /\ k = n + (k - n))
  BY <1>4, <1>5
<1>12. Distinct(ids)
  <2>1. ASSUME NEW j \in 1..(n + m), NEW k \in 1..(n + m), ids[j] = ids[k] PROVE j = k
    <3>1. CASE j \in 1..n /\ k \in 1..n
      BY <1>9, <1>10, <2>1, <3>1 DEF Distinct
    <3>2. CASE j \in 1..n /\ k \notin 1..n
      <4>1. k - n \in 1..m /\ ids[k] = new[k - n] /\ ids[j] = old[j]
        BY <1>9, <1>11, <3>2
      <4> QED
        BY <1>10, <2>1, <3>2, <4>1
    <3>3. CASE j \notin 1..n /\ k \in 1..n
      <4>1. j - n \in 1..m /\ ids[j] = new[j - n] /\ ids[k] = old[k]
        BY <1>9, <1>11, <3>3
      <4> QED
        BY <1>10, <2>1, <3>3, <4>1
    <3>4. CASE j \notin 1..n /\ k \notin 1..n
      <4>1. j - n \in 1..m /\ ids[j] = new[j - n] /\ k - n \in 1..m /\ ids[k] = new[k - n]
        BY <1>9, <1>11, <3>4
      <4>2. j - n = k - n
        BY <1>10, <2>1, <4>1 DEF Distinct
      <4> QED
        BY <1>4, <4>2
    <3> QED
      BY <3>1, <3>2, <3>3, <3>4
  <2> QED
    BY <1>9, <2>1 DEF Distinct
<1>13. First(ids, n + m)
  <2>1. ASSUME NEW k \in 1..(n + m), ids[k] \in DOMAIN rows PROVE Rank(ids[k]) <= n + m
    <3>1. CASE k \in 1..n
      <4>1. Rank(ids[k]) <= n
        BY <1>9, <1>10, <2>1, <3>1 DEF First
      <4>2. Rank(ids[k]) \in Nat
        BY RankType
      <4> QED
        BY <1>4, <1>5, <4>1, <4>2
    <3>2. CASE k \notin 1..n
      <4>1. k - n \in 1..m /\ ids[k] = new[k - n]
        BY <1>9, <1>11, <3>2
      <4> QED
        BY <1>10, <2>1, <4>1 DEF First
    <3> QED
      BY <3>1, <3>2
  <2> QED
    BY <1>9, <2>1 DEF First
<1>14. First(ids, n + m)' /\ Whole(n + m)'
  <2>1. n + m \in Nat
    BY <1>4, <1>5
  <2> QED
    BY <1>10, <1>13, <2>1, FirstStays
<1>15. Listing(t)'
  BY <1>6, <1>8, <1>12, <1>14 DEF Listing, Distinct
<1>16. Listing(arrays[table])'
  BY <1>3, <1>15 DEF Listing
<1> QED
  BY <1>1, <1>16 DEF OncePart

LEMMA ReceiveOnce ==
  ASSUME TypeInv, TypeInv', TruthPart, OncePart, NEW r \in inFlight, Receive(r)
  PROVE  OncePart'
<1>1. inFlight' = inFlight \ {r} /\ UNCHANGED <<kind, patient, rows, astray, acts>>
  BY DEF Receive
<1>2. Follows(r) /\ r.array \in 1..Len(arrays)
  BY RequestType DEF OncePart
<1>3. CASE LoadAnswered(r)
  <2>1. ~ Manages(r)
    BY <1>3, ConstantTypes DEF LoadAnswered, Manages
  <2>2. CASE ~ r.answer.ok
    <3>1. UNCHANGED <<objects, arrays, table>>
      BY <1>3, <2>2 DEF LoadAnswered
    <3> QED
      BY <1>1, <3>1, OnceStays
  <2>3. CASE r.answer.ok /\ r.start = 0
    BY <1>1, <1>3, <2>1, <2>3, ShownOnce DEF LoadAnswered
  <2>4. CASE r.answer.ok /\ r.start # 0
    BY <1>1, <1>3, <2>1, <2>4, PushedOnce DEF LoadAnswered
  <2>5. r.answer.ok \in BOOLEAN
    BY RequestType
  <2> QED
    BY <2>2, <2>3, <2>4, <2>5
<1>4. CASE SearchAnswered(r)
  <2>1. ~ Manages(r) /\ r.start = 0 /\ r.answer.ok
    BY <1>2, <1>4, ConstantTypes DEF SearchAnswered, Manages, Follows
  <2> QED
    BY <1>1, <1>4, <2>1, ShownOnce DEF SearchAnswered
<1>5. CASE ManageAnswered(r)
  <2>1. /\ \A o \in 1..Len(objects) : objects'[o].id = objects[o].id
        /\ arrays'[table'] = arrays[r.array]
        /\ \A a \in 1..Len(arrays) : arrays'[a] = arrays[a]
    BY <1>1, <1>5, ManageAnsweredIs
  <2>2. Listing(arrays[r.array])
    BY <1>2 DEF Follows
  <2>3. Listing(arrays[table])'
    BY <1>1, <1>2, <2>1, <2>2, ShownStays
  <2>4. ASSUME NEW q \in inFlight' PROVE Follows(q)'
    <3>1. q \in inFlight /\ arrays'[q.array] = arrays[q.array] /\ Follows(q)
      BY <1>1, <2>1, RequestType DEF OncePart
    <3> QED
      BY <1>1, <2>1, <3>1, FollowsStays
  <2> QED
    BY <2>3, <2>4 DEF OncePart
<1>6. CASE RefusalShown(r)
  <2>1. UNCHANGED <<objects, arrays, table, activePage>>
    BY <1>6 DEF RefusalShown
  <2> QED
    BY <1>1, <2>1, OnceStays
<1> QED
  BY <1>3, <1>4, <1>5, <1>6 DEF Receive

LEMMA OnceStep ==
  ASSUME OnceInv, [Next]_vars
  PROVE  OnceInv'
<1>1. TruthInv' /\ TypeInv /\ TypeInv' /\ patient' = patient /\ kind' = kind
  <2>1. patient' = patient /\ kind' = kind
    BY DEF Next, vars, OnPaginationLoad, OnPaginationTurn, Search, Manage, Sort, Serve,
           Receive, Lose, Elsewhere
  <2> QED
    BY <2>1, TruthStep, TypeStep DEF OnceInv, TruthInv
<1>2. ASSUME patient, kind = "profiles" PROVE OncePart'
  <2>1. TruthPart /\ OncePart
    BY <1>2 DEF OnceInv, TruthInv
  <2>2. ASSUME NEW p \in 1..TotalPages, OnPaginationLoad(p) PROVE OncePart'
    <3>1. /\ inFlight = {} /\ Ask("load", 0, p - 1, 0, p) /\ p = Pages(arrays[table]) + 1
          /\ UNCHANGED <<kind, patient, rows, objects, arrays, table, astray>>
      BY <1>2, <2>2 DEF OnPaginationLoad, MayLoad
    <3>2. PICK start : start = p - 1
      OBVIOUS
    <3>3. start = Pages(arrays[table])
      <4>1. p \in Nat /\ Len(arrays[table]) \in Nat
        BY <1>1, PagesType, Types
      <4>2. Pages(arrays[table]) \in Nat
        BY <4>1, PagesCover DEF Pages
      <4> QED
        BY <3>1, <3>2, <4>2
    <3> QED
      BY <1>1, <2>1, <3>1, <3>2, <3>3, LoadSentOnce
  <2>3. ASSUME UNCHANGED <<rows, kind, objects, arrays, table, inFlight>> PROVE OncePart'
    BY <1>1, <2>1, <2>3, OnceStays
  <2>4. ASSUME Search PROVE OncePart'
    <3>1. PICK op \in {"load", "search"} : Ask(op, 0, 0, 0, 1)
      BY <2>4 DEF Search
    <3>2. /\ inFlight = {}
          /\ UNCHANGED <<kind, patient, rows, objects, arrays, table, astray>>
      BY <1>2, <2>4 DEF Search, MayLoad
    <3> QED
      BY <1>1, <2>1, <3>1, <3>2, LoadSentOnce
  <2>5. ASSUME NEW idx \in 1..ItemsPerPage, NEW op \in ManageOps, Manage(idx, op)
        PROVE  OncePart'
    <3>1. PICK at, id :
            /\ Ask(op, id, 0, at, 0)
            /\ UNCHANGED <<kind, patient, rows, objects, arrays, table, astray>>
      BY <2>5 DEF Manage
    <3> QED
      BY <1>1, <2>1, <3>1, ManageSentOnce
  <2>6. ASSUME NEW column \in {"id", "status"}, Sort(column) PROVE OncePart'
    BY <1>1, <2>1, <2>6, SortOnce
  <2>7. ASSUME NEW r \in inFlight, Serve(r) PROVE OncePart'
    BY <1>1, <1>2, <2>1, <2>7, ServeOnce
  <2>8. ASSUME NEW r \in inFlight, Receive(r) PROVE OncePart'
    BY <1>1, <2>1, <2>8, ReceiveOnce
  <2>9. ASSUME NEW r \in inFlight, Lose(r) PROVE OncePart'
    <3>1. inFlight' \subseteq inFlight /\ UNCHANGED <<rows, kind, objects, arrays, table>>
      BY <2>9 DEF Lose
    <3> QED
      BY <1>1, <2>1, <3>1, OnceStays
  <2>10. ASSUME NEW id \in Id, Elsewhere(id) PROVE OncePart'
    <3>1. DOMAIN rows' \subseteq DOMAIN rows
          /\ UNCHANGED <<kind, objects, arrays, table, inFlight>>
      BY <2>10 DEF Elsewhere, Without
    <3> QED
      BY <1>1, <2>1, <3>1, OnceStays
  <2> QED
    BY <2>2, <2>3, <2>4, <2>5, <2>6, <2>7, <2>8, <2>9, <2>10
    DEF Next, OnPaginationTurn, vars
<1> QED
  BY <1>1, <1>2 DEF OnceInv

\* No profile is listed twice to an administrator who waits: whatever is deleted, sorted or
\* searched between the loads, the page after the last one (onPaginationChange of
\* ProfilesTable.js) has only rows that the array does not have yet.
THEOREM ListedOnce == Spec => []NoRowTwice
<1>1. Init => OnceInv
  BY TypeInit, TruthInit, OnceInit DEF OnceInv, TruthInv
<1>2. OnceInv /\ [Next]_vars => OnceInv'
  BY OnceStep
<1>3. OnceInv => NoRowTwice
  <2> SUFFICES ASSUME Listing(arrays[table]), NEW j \in DOMAIN arrays[table],
                      NEW k \in DOMAIN arrays[table], Listed(j).id = Listed(k).id
               PROVE  j = k
    BY DEF OnceInv, OncePart, NoRowTwice
  <2> QED
    BY DEF Listing, Distinct, Ids, Listed
<1> QED
  BY <1>1, <1>2, <1>3, PTL DEF Spec
===============================================================================
