--------------------------- MODULE HashTableProofs ---------------------------
(***************************************************************************)
(* The open-addressed table, proved for every hash, capacity, kind of      *)
(* collection and number of callers: a backward shift and a growth keep    *)
(* every entry where a probe comes to it, and the table is a map whatever  *)
(* = runs between the probes.                                              *)
(***************************************************************************)
EXTENDS HashTable, FiniteSetTheorems, WellFoundedInduction, TLAPS

-----------------------------------------------------------------------------
\* Naturals and loops.

LEMMA FirstIsLeast ==
  ASSUME NEW ns, ns \subseteq Nat, ns # {}
  PROVE  First(ns) \in ns /\ \A m \in ns : First(ns) <= m
<1>1. \E n \in ns : \A m \in ns : ~ (<<m, n>> \in OpToRel(<, Nat))
  BY NatLessThanWellFounded, WFMin
<1>2. \A m, n \in Nat : <<m, n>> \in OpToRel(<, Nat) <=> m < n
  BY DEF OpToRel
<1>3. PICK n \in ns : \A m \in ns : ~ (<<m, n>> \in OpToRel(<, Nat))
  BY <1>1
<1>4. n \in Nat /\ \A m \in ns : m \in Nat /\ ~ (m < n)
  BY <1>2, <1>3
<1>5. \A m \in ns : n <= m
  BY <1>4
<1> QED
  BY <1>3, <1>5 DEF First

\* What holds at 0 and goes from n to n + 1 holds for every n up to N.
LEMMA UpTo ==
  ASSUME NEW N \in Nat, NEW good, good \subseteq 0 .. N, 0 \in good,
         \A n \in 0 .. N : n \in good /\ n < N => n + 1 \in good
  PROVE  \A n \in 0 .. N : n \in good
<1> SUFFICES ASSUME NEW k \in 0 .. N, k \notin good PROVE FALSE
  OBVIOUS
<1> DEFINE Bad == (0 .. N) \ good
<1>1. Bad \subseteq Nat /\ Bad # {}
  OBVIOUS
<1>2. First(Bad) \in Bad /\ \A m \in Bad : First(Bad) <= m
  BY <1>1, FirstIsLeast
<1> HIDE DEF Bad
<1>3. PICK b \in Bad : b = First(Bad)
  BY <1>2
<1>4. b \in 0 .. N /\ b \notin good /\ b # 0
  BY DEF Bad
<1>5. b - 1 \in 0 .. N /\ b - 1 < N
  BY <1>4
<1>6. b - 1 \notin Bad
  <2>1. ~ (b <= b - 1)
    BY <1>4
  <2> QED
    BY <1>2, <1>3, <2>1
<1>7. b - 1 \in good
  BY <1>5, <1>6 DEF Bad
<1>8. b - 1 + 1 \in good
  BY <1>5, <1>7
<1> QED
  BY <1>4, <1>5, <1>8

\* A loop over the states S, in which m decreases at every turn.
Loop(S, B, m, stop, next) ==
  /\ B \in Nat /\ m \in [S -> 0 .. B] /\ next \in [S -> S]
  /\ \A s \in S : s \notin stop => m[next[s]] < m[s]

\* There is the function that takes a state to the one in which the loop from it stops.
LEMMA LoopExists ==
  ASSUME NEW S, NEW B, NEW m, NEW stop, NEW next, Loop(S, B, m, stop, next)
  PROVE  \E f \in [S -> S] : f = [s \in S |-> IF s \in stop THEN s ELSE f[next[s]]]
<1> DEFINE Turn(f, s) == IF s \in stop THEN s ELSE f[next[s]]
           Fits(f, n) == \A s \in S : m[s] < n => f[s] = Turn(f, s)
           good == {n \in 0 .. B + 1 : \E f \in [S -> S] : Fits(f, n)}
<1>0. /\ B \in Nat /\ \A s \in S : m[s] \in 0 .. B /\ next[s] \in S
      /\ \A s \in S : s \notin stop => m[next[s]] < m[s]
  BY DEF Loop
<1>1. 0 \in good
  <2>1. [s \in S |-> s] \in [S -> S] /\ Fits([s \in S |-> s], 0)
    BY <1>0
  <2>2. \E f \in [S -> S] : Fits(f, 0)
    BY <2>1
  <2>3. 0 \in 0 .. B + 1
    BY <1>0
  <2> HIDE DEF Fits
  <2> QED
    BY <2>2, <2>3
<1>2. ASSUME NEW n \in 0 .. B + 1, n \in good, n < B + 1 PROVE n + 1 \in good
  <2>1. PICK f \in [S -> S] : Fits(f, n)
    BY <1>2
  <2> DEFINE g == [s \in S |-> Turn(f, s)]
  <2>2. g \in [S -> S]
    BY <1>0
  <2>3. ASSUME NEW s \in S, m[s] < n + 1, s \notin stop PROVE g[s] = g[next[s]]
    <3>1. m[next[s]] < n
      BY <2>3, <1>0
    <3>2. f[next[s]] = Turn(f, next[s])
      BY <2>1, <3>1, <1>0
    <3> QED
      BY <2>3, <3>2, <1>0
  <2>4. Fits(g, n + 1)
    BY <2>3
  <2>5. n + 1 \in 0 .. B + 1
    BY <1>0, <1>2
  <2>6. \E h \in [S -> S] : Fits(h, n + 1)
    BY <2>2, <2>4
  <2> HIDE DEF Fits
  <2> QED
    BY <2>5, <2>6
<1>3. B + 1 \in good
  <2>1. B + 1 \in Nat /\ good \subseteq 0 .. B + 1
    BY <1>0
  <2>2. \A n \in 0 .. B + 1 : n \in good /\ n < B + 1 => n + 1 \in good
    BY <1>2
  <2> HIDE DEF good
  <2>3. \A n \in 0 .. B + 1 : n \in good
    BY <2>1, <2>2, <1>1, UpTo
  <2> QED
    BY <2>1, <2>3
<1>4. PICK f \in [S -> S] : Fits(f, B + 1)
  BY <1>3
<1>5. \A s \in S : f[s] = IF s \in stop THEN s ELSE f[next[s]]
  BY <1>4, <1>0
<1>6. f = [s \in S |-> IF s \in stop THEN s ELSE f[next[s]]]
  BY <1>5
<1> QED
  BY <1>6

\* What a turn keeps, the loop keeps.
LEMMA LoopKeeps ==
  ASSUME NEW S, NEW B, NEW m, NEW stop, NEW next, Loop(S, B, m, stop, next),
         NEW f, \A s \in S : f[s] = IF s \in stop THEN s ELSE f[next[s]],
         NEW Inv, Inv \subseteq S, \A s \in Inv : s \notin stop => next[s] \in Inv,
         NEW s0 \in Inv
  PROVE  f[s0] \in Inv /\ f[s0] \in stop
<1> DEFINE Wrong == {s \in Inv : ~ (f[s] \in Inv /\ f[s] \in stop)}
           Costs == {m[s] : s \in Wrong}
<1> SUFFICES ASSUME Wrong # {} PROVE FALSE
  OBVIOUS
<1>0. /\ B \in Nat /\ \A s \in S : m[s] \in 0 .. B /\ next[s] \in S
      /\ \A s \in S : s \notin stop => m[next[s]] < m[s]
  BY DEF Loop
<1>1. Costs \subseteq Nat /\ Costs # {}
  BY <1>0
<1>2. First(Costs) \in Costs /\ \A c \in Costs : First(Costs) <= c
  BY <1>1, FirstIsLeast
<1>3. PICK s \in Wrong : m[s] = First(Costs)
  BY <1>2
<1>4. s \in S /\ s \in Inv
  OBVIOUS
<1>5. s \notin stop
  BY <1>4
<1>6. next[s] \in Inv /\ next[s] \in S /\ f[s] = f[next[s]]
  BY <1>0, <1>4, <1>5
<1>7. next[s] \in Wrong
  BY <1>6
<1>8. First(Costs) <= m[next[s]]
  BY <1>2, <1>7
<1>9. m[next[s]] < m[s] /\ m[next[s]] \in Nat /\ m[s] \in Nat
  BY <1>0, <1>4, <1>5, <1>6
<1> QED
  BY <1>3, <1>8, <1>9

-----------------------------------------------------------------------------
\* The ring of entries: how far the probe from a is when it comes to b.
Dist(a, b, N) == IF a <= b THEN b - a ELSE b - a + N

LEMMA HomeIn ==
  ASSUME NEW h \in 0 .. HashRange - 1, NEW N \in Nat \ {0}
  PROVE  Home(h, N) \in 0 .. N - 1
<1> DEFINE R == HashRange
           q == (h * N) \div R
<1>1. R \in Nat /\ R > 0 /\ h \in Nat /\ h < R /\ N \in Nat /\ N > 0
  BY HashTableAssumption
<1> HIDE DEF R
<1>2. h * N \in Nat /\ h * N < R * N
  BY <1>1
<1>3. q \in Int /\ R * q <= h * N /\ h * N < R * q + R
  BY <1>1, <1>2
<1> HIDE DEF q
<1>4. q >= 0
  <2>1. SUFFICES ASSUME q + 1 <= 0 PROVE FALSE
    BY <1>3
  <2>2. R * (q + 1) <= 0
    BY <1>1, <1>3, <2>1
  <2> QED
    BY <1>1, <1>2, <1>3, <2>2
<1>5. q < N
  <2>1. SUFFICES ASSUME N <= q PROVE FALSE
    BY <1>1, <1>3
  <2>2. R * N <= R * q
    BY <1>1, <1>3, <2>1
  <2>3. R * q \in Int /\ R * N \in Int
    BY <1>1, <1>3
  <2> QED
    BY <1>2, <1>3, <2>2, <2>3
<1>6. Home(h, N) = q
  BY DEF Home, q, R
<1> QED
  BY <1>1, <1>3, <1>4, <1>5, <1>6

LEMMA DistIn ==
  ASSUME NEW N \in Nat \ {0}, NEW a \in 0 .. N - 1, NEW b \in 0 .. N - 1
  PROVE  Dist(a, b, N) \in 0 .. N - 1
BY DEF Dist

\* The entry after n steps from a.
LEMMA StepsFrom ==
  ASSUME NEW N \in Nat \ {0}, NEW a \in 0 .. N - 1, NEW n \in 0 .. N - 1
  PROVE  /\ (a + n) % N \in 0 .. N - 1
         /\ Dist(a, (a + n) % N, N) = n
<1>1. CASE a + n < N
  <2>1. (a + n) % N = a + n
    BY <1>1
  <2> QED
    BY <1>1, <2>1 DEF Dist
<1>2. CASE a + n >= N
  <2>1. (a + n) % N = a + n - N
    <3>1. a + n - N \in 0 .. N - 1
      BY <1>2
    <3> QED
      BY <1>2, <3>1
  <2> QED
    BY <1>2, <2>1 DEF Dist
<1> QED
  BY <1>1, <1>2

LEMMA DistBack ==
  ASSUME NEW N \in Nat \ {0}, NEW a \in 0 .. N - 1, NEW b \in 0 .. N - 1
  PROVE  (a + Dist(a, b, N)) % N = b
<1>1. CASE a <= b
  <2>1. Dist(a, b, N) = b - a /\ a + (b - a) = b
    BY <1>1 DEF Dist
  <2>2. b % N = b
    OBVIOUS
  <2> QED
    BY <2>1, <2>2
<1>2. CASE b < a
  <2>1. Dist(a, b, N) = b - a + N /\ a + (b - a + N) = b + N
    BY <1>2 DEF Dist
  <2>2. (b + N) % N = b
    OBVIOUS
  <2> QED
    BY <2>1, <2>2
<1> QED
  BY <1>1, <1>2

LEMMA DistInjective ==
  ASSUME NEW N \in Nat \ {0}, NEW a \in 0 .. N - 1, NEW b \in 0 .. N - 1, NEW c \in 0 .. N - 1,
         Dist(a, b, N) = Dist(a, c, N)
  PROVE  b = c
BY DEF Dist

LEMMA NextIs ==
  ASSUME NEW N \in Nat \ {0}, NEW j \in 0 .. N - 1
  PROVE  (j + 1) % N = IF j = N - 1 THEN 0 ELSE j + 1
<1>1. CASE j = N - 1
  <2>1. (j + 1) = N /\ N % N = 0
    BY <1>1
  <2> QED
    BY <1>1, <2>1
<1>2. CASE j < N - 1
  <2>1. j + 1 \in 0 .. N - 1
    BY <1>2
  <2>2. (j + 1) % N = j + 1
    BY <2>1
  <2> QED
    BY <1>2, <2>2
<1> QED
  BY <1>1, <1>2

\* The test of the shift: the probe from h comes to j before it comes to the hole.
LEMMA StaysIs ==
  ASSUME NEW N \in Nat \ {0}, NEW hole \in 0 .. N - 1, NEW h \in 0 .. N - 1, NEW j \in 0 .. N - 1,
         hole # j
  PROVE  Stays(hole, h, j) <=> Dist(h, j, N) < Dist(h, hole, N)
BY DEF Stays, Dist

\* Seen from the hole, the loop comes to x before or at the next entry.
LEMMA RingNext ==
  ASSUME NEW N \in Nat \ {0}, NEW hole \in 0 .. N - 1, NEW j \in 0 .. N - 1, NEW x \in 0 .. N - 1,
         NEW k, k = (IF j = N - 1 THEN 0 ELSE j + 1), j # hole, x # hole,
         k = hole \/ Dist(hole, x, N) < Dist(hole, k, N)
  PROVE  x = j \/ Dist(hole, x, N) < Dist(hole, j, N)
BY DEF Dist

\* A probe that comes past the hole, and to x beyond j, comes past j.
LEMMA RingBeyond ==
  ASSUME NEW N \in Nat \ {0}, NEW h \in 0 .. N - 1, NEW hole \in 0 .. N - 1, NEW j \in 0 .. N - 1,
         NEW x \in 0 .. N - 1, Dist(h, hole, N) < Dist(h, x, N),
         ~ (Dist(hole, x, N) < Dist(hole, j, N)), x # j
  PROVE  Dist(h, j, N) < Dist(h, x, N)
BY DEF Dist

-----------------------------------------------------------------------------
\* Entries.
Values  == UNION {ValuesOf[k] : k \in Keys}
Entries == [key: Keys \cup {None}, value: Values \cup {None}, hash: 0 .. HashRange - 1]

TakenIn(E, N)   == {i \in 0 .. N - 1 : E[i + 1].key # None}
HomeOf(E, i, N) == Home(E[i + 1].hash, N)

\* The probe for the entry at i comes to p before.
Before(E, i, p, N) == Dist(HomeOf(E, i, N), p, N) < Dist(HomeOf(E, i, N), i, N)

\* Before the probe for any of I comes to it, it finds only entries of T.
Near(E, I, T, N) == \A i \in I, p \in 0 .. N - 1 : Before(E, i, p, N) => p \in T

\* No two of I have equal keys.
Apart(E, I) == \A i, j \in I : i # j => ~ Same(E[i + 1].key, E[j + 1].key)

\* What stands at I.
Stored(E, I) == {E[i + 1] : i \in I}

Hashed(E, I) == \A i \in I : E[i + 1].key \in Keys => E[i + 1].hash = Hash[E[i + 1].key]

LEMMA HomeOfIn ==
  ASSUME NEW N \in Nat \ {0}, NEW E \in [1 .. N -> Entries], NEW i \in 0 .. N - 1
  PROVE  /\ E[i + 1] \in Entries
         /\ HomeOf(E, i, N) \in 0 .. N - 1
<1>1. i + 1 \in 1 .. N
  OBVIOUS
<1>2. E[i + 1] \in Entries
  BY <1>1
<1>3. E[i + 1].hash \in 0 .. HashRange - 1
  BY <1>2 DEF Entries
<1> QED
  BY <1>2, <1>3, HomeIn DEF HomeOf

-----------------------------------------------------------------------------
\* The loop of the shift ends: with every move an entry comes nearer its home.

\* The probes that pass an entry before they come to the one they look for, a pair
\* for each.
Far(E, hole, N) ==
  {q \in (0 .. N - 1) \X (1 .. N) : q[1] # hole /\ q[2] <= Dist(HomeOf(E, q[1], N), q[1], N)}

LEMMA FarIsFinite ==
  ASSUME NEW N \in Nat \ {0}, NEW E, NEW hole
  PROVE  IsFiniteSet(Far(E, hole, N)) /\ Cardinality(Far(E, hole, N)) \in 0 .. N * N
<1> DEFINE A == 0 .. N - 1
           B == 1 .. N
           Pairs == A \X B
<1>1. IsFiniteSet(A) /\ Cardinality(A) = N
  BY FS_Interval
<1>2. IsFiniteSet(B) /\ Cardinality(B) = N
  BY FS_Interval
<1>4. Far(E, hole, N) \in SUBSET Pairs
  BY DEF Far
<1> HIDE DEF A, B
<1>3. IsFiniteSet(Pairs) /\ Cardinality(Pairs) = N * N
  <2>1. IsFiniteSet(Pairs) /\ Cardinality(Pairs) = Cardinality(A) * Cardinality(B)
    BY <1>1, <1>2, FS_Product
  <2> QED
    BY <2>1, <1>1, <1>2
<1> HIDE DEF Pairs
<1>5. IsFiniteSet(Far(E, hole, N)) /\ Cardinality(Far(E, hole, N)) <= N * N
  BY <1>3, <1>4, FS_Subset
<1>6. Cardinality(Far(E, hole, N)) \in Nat
  BY <1>5, FS_CardinalityType
<1>7. N * N \in Nat
  OBVIOUS
<1> QED
  BY <1>5, <1>6, <1>7

Filled(E, hole, j) == [E EXCEPT ![hole + 1] = E[j + 1]]

LEMMA FilledIs ==
  ASSUME NEW N \in Nat \ {0}, NEW E \in [1 .. N -> Entries], NEW hole \in 0 .. N - 1, NEW j \in 0 .. N - 1
  PROVE  \A p \in 0 .. N - 1 :
           Filled(E, hole, j)[p + 1] = IF p = hole THEN E[j + 1] ELSE E[p + 1]
<1>1. ASSUME NEW p \in 0 .. N - 1
      PROVE  Filled(E, hole, j)[p + 1] = IF p = hole THEN E[j + 1] ELSE E[p + 1]
  <2>1. p + 1 \in 1 .. N /\ (p + 1 = hole + 1 <=> p = hole)
    OBVIOUS
  <2> QED
    BY <2>1 DEF Filled
<1> QED
  BY <1>1

LEMMA FarDrops ==
  ASSUME NEW N \in Nat \ {0}, NEW E \in [1 .. N -> Entries], NEW hole \in 0 .. N - 1, NEW j \in 0 .. N - 1,
         hole # j, Dist(HomeOf(E, j, N), hole, N) < Dist(HomeOf(E, j, N), j, N)
  PROVE  Cardinality(Far(Filled(E, hole, j), j, N)) < Cardinality(Far(E, hole, N))
<1>01. \A p \in 0 .. N - 1 : Filled(E, hole, j)[p + 1] = IF p = hole THEN E[j + 1] ELSE E[p + 1]
  BY FilledIs
<1> DEFINE u == Filled(E, hole, j)
           h == HomeOf(E, j, N)
           last == <<j, Dist(h, j, N)>>
           Rest == Far(E, hole, N) \ {last}
           g == [q \in Far(u, j, N) |-> IF q[1] = hole THEN <<j, q[2]>> ELSE q]
<1>0. \A p \in 0 .. N - 1 : u[p + 1] = IF p = hole THEN E[j + 1] ELSE E[p + 1]
  BY <1>01
<1> HIDE DEF u
<1>1. \A p \in 0 .. N - 1 : p # hole => HomeOf(u, p, N) = HomeOf(E, p, N)
  BY <1>0 DEF HomeOf
<1>2. HomeOf(u, hole, N) = h
  BY <1>0 DEF HomeOf
<1>3. h \in 0 .. N - 1
  BY HomeOfIn
<1>4. Dist(h, j, N) \in 1 .. N /\ Dist(h, hole, N) \in 0 .. N - 1
  <2>1. Dist(h, j, N) \in 0 .. N - 1 /\ Dist(h, hole, N) \in 0 .. N - 1
    BY <1>3, DistIn
  <2> QED
    BY <2>1
<1> HIDE DEF h
<1>5. last \in Far(E, hole, N)
  <2>1. last \in (0 .. N - 1) \X (1 .. N)
    BY <1>4
  <2>2. last[1] = j /\ last[2] = Dist(h, j, N)
    OBVIOUS
  <2>3. last[2] <= Dist(HomeOf(E, last[1], N), last[1], N)
    BY <2>2, <1>4 DEF h
  <2> QED
    BY <2>1, <2>2, <2>3 DEF Far
<1>6. ASSUME NEW q \in Far(u, j, N)
      PROVE  g[q] \in Rest
  <2>0. /\ q[1] \in 0 .. N - 1 /\ q[2] \in 1 .. N /\ q = <<q[1], q[2]>>
        /\ q[1] # j /\ q[2] <= Dist(HomeOf(u, q[1], N), q[1], N)
    BY DEF Far
  <2>1. CASE q[1] = hole
    <3>1. q[2] <= Dist(h, hole, N)
      BY <2>0, <2>1, <1>2
    <3>2. q[2] < Dist(h, j, N)
      BY <3>1, <2>0, <1>4 DEF h
    <3>3. <<j, q[2]>> \in Far(E, hole, N)
      <4>1. <<j, q[2]>>[1] = j /\ <<j, q[2]>>[2] = q[2]
        OBVIOUS
      <4>2. q[2] <= Dist(HomeOf(E, j, N), j, N)
        BY <3>2, <2>0, <1>4 DEF h
      <4>3. <<j, q[2]>> \in (0 .. N - 1) \X (1 .. N)
        BY <2>0
      <4> QED
        BY <4>1, <4>2, <4>3 DEF Far
    <3>4. <<j, q[2]>> # last
      BY <3>2, <2>0, <1>4
    <3> QED
      BY <2>1, <3>3, <3>4
  <2>2. CASE q[1] # hole
    <3>1. q \in Far(E, hole, N)
      BY <2>0, <2>2, <1>1 DEF Far
    <3>2. q # last
      BY <2>0
    <3> QED
      BY <2>2, <3>1, <3>2
  <2> QED
    BY <2>1, <2>2
<1>7. ASSUME NEW q \in Far(u, j, N), NEW r \in Far(u, j, N), g[q] = g[r]
      PROVE  q = r
  <2>1. /\ q = <<q[1], q[2]>> /\ q[1] # j
        /\ r = <<r[1], r[2]>> /\ r[1] # j
    BY DEF Far
  <2>2. CASE q[1] = hole
    <3>1. g[q] = <<j, q[2]>>
      BY <2>2
    <3>2. r[1] = hole
      <4>1. SUFFICES ASSUME r[1] # hole PROVE FALSE
        OBVIOUS
      <4>2. r = <<j, q[2]>>
        BY <3>1, <4>1, <1>7
      <4> QED
        BY <4>2, <2>1
    <3>3. g[r] = <<j, r[2]>>
      BY <3>2
    <3>4. q[2] = r[2]
      BY <3>1, <3>3, <1>7
    <3> QED
      BY <2>1, <2>2, <3>2, <3>4
  <2>3. CASE q[1] # hole
    <3>1. g[q] = q
      BY <2>3
    <3>2. r[1] # hole
      <4>1. SUFFICES ASSUME r[1] = hole PROVE FALSE
        OBVIOUS
      <4>2. q = <<j, r[2]>>
        BY <3>1, <4>1, <1>7
      <4> QED
        BY <4>2, <2>1
    <3>3. g[r] = r
      BY <3>2
    <3> QED
      BY <3>1, <3>3, <1>7
  <2> QED
    BY <2>2, <2>3
<1>8. g \in [Far(u, j, N) -> Rest]
  BY <1>6
<1>9. DOMAIN g = Far(u, j, N)
  OBVIOUS
<1>10. IsFiniteSet(Far(E, hole, N)) /\ Cardinality(Far(E, hole, N)) \in Nat
  BY FarIsFinite, FS_CardinalityType
<1> HIDE DEF last
<1>11. IsFiniteSet(Rest) /\ Cardinality(Rest) = Cardinality(Far(E, hole, N)) - 1
  BY <1>5, <1>10, FS_RemoveElement
<1> HIDE DEF g, Rest
<1>12. g \in Injection(Far(u, j, N), Rest)
  BY <1>7, <1>8, <1>9 DEF Injection, IsInjective
<1>13. Cardinality(Far(u, j, N)) <= Cardinality(Rest)
  BY <1>11, <1>12, FS_Injection
<1>14. Cardinality(Far(u, j, N)) \in Nat
  BY FarIsFinite, FS_CardinalityType
<1> QED
  BY <1>10, <1>11, <1>13, <1>14 DEF u

Tabled(t) == t \in [id: Nat, gen: Nat, entries: Seq(Entries)] /\ Capacity(t) \in Nat \ {0}

LEMMA TableIs ==
  ASSUME NEW t, Tabled(t)
  PROVE  /\ Capacity(t) \in Nat \ {0}
         /\ t.entries \in [1 .. Capacity(t) -> Entries]
         /\ DOMAIN t.entries = 1 .. Capacity(t)
         /\ \A i \in 0 .. Capacity(t) - 1 : EntryAt(t, i) = t.entries[i + 1] /\ EntryAt(t, i) \in Entries
<1>1. Capacity(t) \in Nat \ {0} /\ t.entries \in Seq(Entries)
  BY DEF Tabled
<1>2. t.entries \in [1 .. Capacity(t) -> Entries] /\ DOMAIN t.entries = 1 .. Capacity(t)
  BY <1>1 DEF Capacity
<1>3. \A i \in 0 .. Capacity(t) - 1 : i + 1 \in 1 .. Capacity(t)
  BY <1>1
<1>4. \A i \in 0 .. Capacity(t) - 1 : EntryAt(t, i) = t.entries[i + 1]
  BY DEF EntryAt
<1> QED
  BY <1>1, <1>2, <1>3, <1>4

LEMMA ShiftsAre ==
  ASSUME NEW t, Tabled(t), NEW s \in Shifts(t)
  PROVE  /\ s.hole \in 0 .. Capacity(t) - 1 /\ s.j \in 0 .. Capacity(t) - 1
         /\ s.entries \in [1 .. Capacity(t) -> Range(t.entries)]
         /\ s.entries \in [1 .. Capacity(t) -> Entries]
         /\ DOMAIN s.entries = 1 .. Capacity(t)
<1>1. Range(t.entries) \subseteq Entries
  BY TableIs DEF Range
<1>2. /\ s.hole \in 0 .. Capacity(t) - 1 /\ s.j \in 0 .. Capacity(t) - 1
      /\ s.entries \in [1 .. Capacity(t) -> Range(t.entries)]
  BY DEF Shifts
<1> QED
  BY <1>1, <1>2

\* What a turn does: the entry at j stays, or it moves into the hole.
LEMMA ShiftTurn ==
  ASSUME NEW t, Tabled(t), NEW s \in Shifts(t), ~ ShiftEnds(s)
  PROVE  LET N == Capacity(t)
             h == HomeOf(s.entries, s.j, N)
             u == ShiftStep(t, s)
         IN /\ u \in Shifts(t)
            /\ u.j = IF s.j = N - 1 THEN 0 ELSE s.j + 1
            /\ h \in 0 .. N - 1 /\ s.j # s.hole
            /\ \/ /\ Dist(h, s.j, N) < Dist(h, s.hole, N)
                  /\ u.hole = s.hole /\ u.entries = s.entries
               \/ /\ Dist(h, s.hole, N) < Dist(h, s.j, N)
                  /\ u.hole = s.j /\ u.entries = Filled(s.entries, s.hole, s.j)
<1> DEFINE N == Capacity(t)
           e == s.entries[s.j + 1]
           h == HomeOf(s.entries, s.j, N)
           u == ShiftStep(t, s)
           next == (s.j + 1) % N
           Stay == Stays(s.hole, h, s.j)
<1>1. /\ N \in Nat \ {0} /\ s.hole \in 0 .. N - 1 /\ s.j \in 0 .. N - 1
      /\ s.entries \in [1 .. N -> Range(t.entries)] /\ s.entries \in [1 .. N -> Entries]
      /\ DOMAIN s.entries = 1 .. N
  BY TableIs, ShiftsAre
<1>2. s.j # s.hole
  BY DEF ShiftEnds
<1>3. h \in 0 .. N - 1
  BY <1>1, HomeOfIn
<1>4. next = (IF s.j = N - 1 THEN 0 ELSE s.j + 1) /\ next \in 0 .. N - 1
  BY <1>1, NextIs
<1>5. Stay <=> Dist(h, s.j, N) < Dist(h, s.hole, N)
  BY <1>1, <1>2, <1>3, StaysIs
<1>6. Dist(h, s.j, N) \in Nat /\ Dist(h, s.hole, N) \in Nat /\ Dist(h, s.j, N) # Dist(h, s.hole, N)
  <2>1. Dist(h, s.j, N) \in 0 .. N - 1 /\ Dist(h, s.hole, N) \in 0 .. N - 1
    BY <1>1, <1>3, DistIn
  <2>2. Dist(h, s.j, N) # Dist(h, s.hole, N)
    BY <1>1, <1>2, <1>3, DistInjective
  <2> QED
    BY <2>1, <2>2
<1>7. u = IF Stay THEN [s EXCEPT !.j = next]
          ELSE [entries |-> Filled(s.entries, s.hole, s.j), hole |-> s.j, j |-> next]
  BY DEF ShiftStep, HomeOf, Filled
<1> HIDE DEF Stay, next, N, u
<1>8. CASE Stay
  <2>1. u = [s EXCEPT !.j = next]
    BY <1>7, <1>8
  <2>2. u \in Shifts(t) /\ u.j = next /\ u.hole = s.hole /\ u.entries = s.entries
    BY <2>1, <1>4 DEF Shifts, N
  <2> QED
    BY <2>2, <1>2, <1>3, <1>4, <1>5, <1>8 DEF N, u
<1>9. CASE ~ Stay
  <2>1. u = [entries |-> Filled(s.entries, s.hole, s.j), hole |-> s.j, j |-> next]
    BY <1>7, <1>9
  <2>2. u.j = next /\ u.hole = s.j /\ u.entries = Filled(s.entries, s.hole, s.j)
    BY <2>1
  <2>3. Filled(s.entries, s.hole, s.j) \in [1 .. N -> Range(t.entries)]
    <3>1. s.j + 1 \in 1 .. N /\ s.hole + 1 \in 1 .. N
      BY <1>1
    <3> QED
      BY <3>1, <1>1 DEF Filled
  <2>4. u \in Shifts(t)
    BY <2>1, <2>3, <1>1, <1>4 DEF Shifts, N
  <2>5. Dist(h, s.hole, N) < Dist(h, s.j, N)
    BY <1>5, <1>6, <1>9
  <2> QED
    BY <2>2, <2>4, <2>5, <1>2, <1>3, <1>4 DEF N, u
<1> QED
  BY <1>8, <1>9

\* What is left of the loop: probes that pass an entry, and entries up to the hole.
Cost(t, s) == Cardinality(Far(s.entries, s.hole, Capacity(t))) * Capacity(t)
              + Dist(s.j, s.hole, Capacity(t))

LEMMA Less ==
  ASSUME NEW N \in Nat \ {0}, NEW a \in Nat, NEW b \in Nat, a < b, NEW d \in 0 .. N - 1, NEW e \in Nat
  PROVE  a * N + d < b * N + e
<1>1. (a + 1) * N <= b * N
  BY DEF Cost
<1>2. (a + 1) * N = a * N + N /\ a * N \in Nat /\ b * N \in Nat
  OBVIOUS
<1> QED
  BY <1>1, <1>2

LEMMA CostIs ==
  ASSUME NEW t, Tabled(t), NEW s \in Shifts(t)
  PROVE  Cost(t, s) \in 0 .. (Capacity(t) * Capacity(t)) * Capacity(t) + Capacity(t)
<1> DEFINE N == Capacity(t)
           c == Cardinality(Far(s.entries, s.hole, N))
           d == Dist(s.j, s.hole, N)
<1>1. N \in Nat \ {0}
  BY TableIs
<1>2. c \in 0 .. N * N
  BY <1>1, FarIsFinite
<1>3. d \in 0 .. N - 1
  BY <1>1, ShiftsAre, DistIn
<1>4. Cost(t, s) = c * N + d
  BY DEF Cost
<1> HIDE DEF N, c, d
<1>5. N * N \in Nat
  BY <1>1
<1> DEFINE M == N * N
<1> HIDE DEF M
<1>6. c * N <= M * N /\ c * N \in Nat /\ M * N \in Nat
  BY <1>1, <1>2, <1>5 DEF M
<1>7. c * N + d \in 0 .. M * N + N
  BY <1>1, <1>3, <1>6
<1> QED
  BY <1>4, <1>7 DEF M, N

LEMMA CostDrops ==
  ASSUME NEW t, Tabled(t), NEW s \in Shifts(t), ~ ShiftEnds(s)
  PROVE  Cost(t, ShiftStep(t, s)) < Cost(t, s)
<1> DEFINE N == Capacity(t)
           h == HomeOf(s.entries, s.j, N)
           u == ShiftStep(t, s)
           c(x) == Cardinality(Far(x.entries, x.hole, N))
<1>1. /\ N \in Nat \ {0} /\ s.hole \in 0 .. N - 1 /\ s.j \in 0 .. N - 1
      /\ s.entries \in [1 .. N -> Entries]
  BY TableIs, ShiftsAre
<1>2. /\ u \in Shifts(t) /\ u.j = (IF s.j = N - 1 THEN 0 ELSE s.j + 1) /\ s.j # s.hole
      /\ \/ /\ Dist(h, s.j, N) < Dist(h, s.hole, N)
            /\ u.hole = s.hole /\ u.entries = s.entries
         \/ /\ Dist(h, s.hole, N) < Dist(h, s.j, N)
            /\ u.hole = s.j /\ u.entries = Filled(s.entries, s.hole, s.j)
  BY ShiftTurn
<1>3. u.hole \in 0 .. N - 1 /\ u.j \in 0 .. N - 1
  BY <1>2, ShiftsAre
<1>4. c(u) \in Nat /\ c(s) \in Nat
  BY <1>1, FarIsFinite, FS_CardinalityType
<1>5. Dist(u.j, u.hole, N) \in 0 .. N - 1 /\ Dist(s.j, s.hole, N) \in 0 .. N - 1
  BY <1>1, <1>3, DistIn
<1>6. Cost(t, u) = c(u) * N + Dist(u.j, u.hole, N) /\ Cost(t, s) = c(s) * N + Dist(s.j, s.hole, N)
  BY DEF Cost
<1> HIDE DEF N, u, c, h
<1>7. CASE u.hole = s.hole /\ u.entries = s.entries
  <2>1. c(u) = c(s)
    BY <1>7 DEF c
  <2>2. Dist(u.j, u.hole, N) < Dist(s.j, s.hole, N)
    BY <1>1, <1>2, <1>7 DEF Dist
  <2>3. c(s) * N \in Nat
    BY <1>1, <1>4
  <2> QED
    BY <2>1, <2>2, <2>3, <1>5, <1>6 DEF u
<1>8. CASE /\ Dist(h, s.hole, N) < Dist(h, s.j, N)
           /\ u.hole = s.j /\ u.entries = Filled(s.entries, s.hole, s.j)
  <2>1. c(u) < c(s)
    BY <1>1, <1>2, <1>8, FarDrops DEF h, c
  <2>2. Dist(s.j, s.hole, N) \in Nat
    BY <1>5
  <2>3. c(u) * N + Dist(u.j, u.hole, N) < c(s) * N + Dist(s.j, s.hole, N)
    BY <1>1, <1>4, <1>5, <2>1, <2>2, Less
  <2> QED
    BY <2>3, <1>6 DEF u
<1> QED
  BY <1>2, <1>7, <1>8

LEMMA ShiftedIs ==
  ASSUME NEW t, Tabled(t)
  PROVE  \A s \in Shifts(t) :
           Shifted(t)[s] = IF ShiftEnds(s) THEN s ELSE Shifted(t)[ShiftStep(t, s)]
<1> DEFINE S == Shifts(t)
           N == Capacity(t)
           B == (N * N) * N + N
           m == [s \in S |-> Cost(t, s)]
           stop == {s \in S : ShiftEnds(s)}
           next == [s \in S |-> IF ShiftEnds(s) THEN s ELSE ShiftStep(t, s)]
           Is(f) == f = [s \in S |-> IF ShiftEnds(s) THEN s ELSE f[ShiftStep(t, s)]]
<1>1. B \in Nat
  <2>1. N \in Nat
    BY TableIs
  <2> QED
    BY <2>1
<1>2. m \in [S -> 0 .. B]
  BY CostIs
<1>3. next \in [S -> S]
  BY ShiftTurn
<1>4. \A s \in S : s \notin stop => m[next[s]] < m[s]
  BY <1>3, CostDrops, ShiftTurn
<1>5. \E f \in [S -> S] : f = [s \in S |-> IF s \in stop THEN s ELSE f[next[s]]]
  <2> HIDE DEF S, B, m, stop, next
  <2>1. Loop(S, B, m, stop, next)
    BY <1>1, <1>2, <1>3, <1>4 DEF Loop
  <2> QED
    BY <2>1, LoopExists
<1>6. PICK f \in [S -> S] : f = [s \in S |-> IF s \in stop THEN s ELSE f[next[s]]]
  BY <1>5
<1>7. \A s \in S : (IF s \in stop THEN s ELSE f[next[s]]) = (IF ShiftEnds(s) THEN s ELSE f[ShiftStep(t, s)])
  OBVIOUS
<1>8. Is(f)
  <2>1. f = [s \in S |-> IF ShiftEnds(s) THEN s ELSE f[ShiftStep(t, s)]]
    <3> DEFINE F(s) == IF s \in stop THEN s ELSE f[next[s]]
               G(s) == IF ShiftEnds(s) THEN s ELSE f[ShiftStep(t, s)]
    <3>1. \A s \in S : F(s) = G(s)
      BY <1>7
    <3>2. f = [s \in S |-> F(s)]
      BY <1>6
    <3> HIDE DEF F, G, S
    <3>3. [s \in S |-> F(s)] = [s \in S |-> G(s)]
      BY <3>1
    <3> QED
      BY <3>2, <3>3 DEF G
  <2> QED
    BY <2>1
<1>9. Shifted(t) = CHOOSE g : Is(g)
  BY DEF Shifted
<1>10. Is(Shifted(t))
  <2> HIDE DEF Is
  <2> QED
    BY <1>8, <1>9
<1> QED
  BY <1>10

-----------------------------------------------------------------------------
\* What the shift keeps.  T are the entries taken when it began.

\* The loop has looked at x since the hole was made.
Passed(s, x, N) == x # s.hole /\ (s.j = s.hole \/ Dist(s.hole, x, N) < Dist(s.hole, s.j, N))

Shifting(t, i, T, s) ==
  LET N == Capacity(t)
  IN /\ s \in Shifts(t) /\ s.hole \in T
     /\ TakenIn(s.entries, N) = T
     /\ Near(s.entries, T \ {s.hole}, T, N)
     /\ \A x \in 0 .. N - 1 : Passed(s, x, N) => x \in T /\ ~ Before(s.entries, x, s.hole, N)
     /\ Apart(s.entries, T \ {s.hole})
     /\ Stored(s.entries, T \ {s.hole}) = Stored(t.entries, T \ {i})

LEMMA ShiftBegins ==
  ASSUME NEW t, Tabled(t), NEW i \in Taken(t),
         NEW T, T = TakenIn(t.entries, Capacity(t)),
         Near(t.entries, T, T, Capacity(t)), Apart(t.entries, T)
  PROVE  Shifting(t, i, T, [entries |-> t.entries, hole |-> i, j |-> (i + 1) % Capacity(t)])
<1> DEFINE N == Capacity(t)
           s == [entries |-> t.entries, hole |-> i, j |-> (i + 1) % N]
<1>1. N \in Nat \ {0} /\ t.entries \in [1 .. N -> Entries] /\ DOMAIN t.entries = 1 .. N
  BY TableIs
<1>2. i \in 0 .. N - 1 /\ t.entries[i + 1].key # None
  BY DEF Taken, IsFree, EntryAt
<1>3. i \in T
  BY <1>2 DEF TakenIn
<1>4. (i + 1) % N = (IF i = N - 1 THEN 0 ELSE i + 1)
  BY <1>1, <1>2, NextIs
<1>5. s.hole = i /\ s.j = (i + 1) % N /\ s.entries = t.entries
  OBVIOUS
<1>6. s \in Shifts(t)
  <2>1. t.entries \in [1 .. N -> Range(t.entries)]
    BY <1>1 DEF Range
  <2>2. (i + 1) % N \in 0 .. N - 1
    BY <1>1, <1>2, <1>4
  <2> QED
    BY <2>1, <2>2, <1>2 DEF Shifts
<1>7. ASSUME NEW x \in 0 .. N - 1, Passed(s, x, N) PROVE FALSE
  <2>1. s.j \in 0 .. N - 1 /\ s.j = (IF i = N - 1 THEN 0 ELSE i + 1) /\ s.hole = i
    BY <1>1, <1>2, <1>4
  <2>2. x # i /\ (s.j = i \/ Dist(i, x, N) < Dist(i, s.j, N))
    BY <1>5, <1>7 DEF Passed
  <2> HIDE DEF s
  <2> QED
    BY <2>1, <2>2, <1>1, <1>2 DEF Dist
<1>8. Near(t.entries, T \ {i}, T, N) /\ Apart(t.entries, T \ {i})
  BY DEF Near, Apart
<1> QED
  BY <1>3, <1>5, <1>6, <1>7, <1>8 DEF Shifting

\* The hole is filled with the entry at j: each entry stands where it stood, but
\* that one.
LEMMA FilledKeeps ==
  ASSUME NEW N \in Nat \ {0}, NEW E \in [1 .. N -> Entries], NEW T, T = TakenIn(E, N),
         NEW hole \in T, NEW j \in T, hole # j
  PROVE  LET F == Filled(E, hole, j)
         IN /\ TakenIn(F, N) = T
            /\ \A p \in 0 .. N - 1 : F[p + 1] = E[(IF p = hole THEN j ELSE p) + 1]
            /\ Stored(F, T \ {j}) = Stored(E, T \ {hole})
            /\ Apart(E, T \ {hole}) => Apart(F, T \ {j})
<1> DEFINE F == Filled(E, hole, j)
           at(p) == IF p = hole THEN j ELSE p
<1>1. hole \in 0 .. N - 1 /\ j \in 0 .. N - 1 /\ T \subseteq 0 .. N - 1 /\ DOMAIN E = 1 .. N
      /\ E[hole + 1].key # None /\ E[j + 1].key # None
  BY DEF TakenIn
<1>2. \A p \in 0 .. N - 1 : F[p + 1] = IF p = hole THEN E[j + 1] ELSE E[p + 1]
  <2>1. hole \in 0 .. N - 1 /\ j \in 0 .. N - 1
    BY <1>1
  <2> HIDE DEF F
  <2>2. \A p \in 0 .. N - 1 : Filled(E, hole, j)[p + 1] = IF p = hole THEN E[j + 1] ELSE E[p + 1]
    BY <2>1, FilledIs
  <2> QED
    BY <2>2 DEF F
<1> HIDE DEF F
<1>3. \A p \in 0 .. N - 1 : F[p + 1] = E[at(p) + 1]
  BY <1>2
<1>4. TakenIn(F, N) = T
  BY <1>1, <1>2 DEF TakenIn
<1>5. \A p \in T \ {j} : at(p) \in T \ {hole}
  BY <1>1
<1>6. \A p \in T \ {hole} : \E q \in T \ {j} : at(q) = p
  <2> SUFFICES ASSUME NEW p \in T \ {hole} PROVE \E q \in T \ {j} : at(q) = p
    OBVIOUS
  <2>1. CASE p = j
    BY <2>1, <1>1
  <2>2. CASE p # j
    BY <2>2, <1>1
  <2> QED
    BY <2>1, <2>2
<1>7. \A p, q \in T \ {j} : at(p) = at(q) => p = q
  BY <1>1
<1> HIDE DEF at
<1>8. \A p \in T \ {j} : F[p + 1] = E[at(p) + 1]
  BY <1>1, <1>3
<1>9. Stored(F, T \ {j}) = Stored(E, T \ {hole})
  BY <1>5, <1>6, <1>8 DEF Stored
<1>10. Apart(E, T \ {hole}) => Apart(F, T \ {j})
  <2> SUFFICES ASSUME Apart(E, T \ {hole}), NEW p \in T \ {j}, NEW q \in T \ {j}, p # q
               PROVE  ~ Same(F[p + 1].key, F[q + 1].key)
    BY DEF Apart
  <2>1. at(p) # at(q) /\ at(p) \in T \ {hole} /\ at(q) \in T \ {hole}
    BY <1>5, <1>7
  <2>2. ~ Same(E[at(p) + 1].key, E[at(q) + 1].key)
    BY <2>1 DEF Apart
  <2> QED
    BY <2>2, <1>8
<1> QED
  BY <1>3, <1>4, <1>9, <1>10 DEF F, at

LEMMA ShiftKeeps ==
  ASSUME NEW t, Tabled(t), NEW i, NEW T, NEW s, Shifting(t, i, T, s), ~ ShiftEnds(s)
  PROVE  Shifting(t, i, T, ShiftStep(t, s))
<1> DEFINE N == Capacity(t)
           E == s.entries
           h == HomeOf(E, s.j, N)
           u == ShiftStep(t, s)
<1>0. /\ s \in Shifts(t) /\ s.hole \in T /\ TakenIn(E, N) = T
      /\ Near(E, T \ {s.hole}, T, N)
      /\ \A x \in 0 .. N - 1 : Passed(s, x, N) => x \in T /\ ~ Before(E, x, s.hole, N)
      /\ Apart(E, T \ {s.hole}) /\ Stored(E, T \ {s.hole}) = Stored(t.entries, T \ {i})
  BY DEF Shifting
<1>1. /\ N \in Nat \ {0} /\ s.hole \in 0 .. N - 1 /\ s.j \in 0 .. N - 1
      /\ E \in [1 .. N -> Entries] /\ DOMAIN E = 1 .. N
  BY <1>0, TableIs, ShiftsAre
<1>2. /\ u \in Shifts(t) /\ u.j = (IF s.j = N - 1 THEN 0 ELSE s.j + 1) /\ s.j # s.hole
      /\ h \in 0 .. N - 1
      /\ \/ /\ Dist(h, s.j, N) < Dist(h, s.hole, N)
            /\ u.hole = s.hole /\ u.entries = E
         \/ /\ Dist(h, s.hole, N) < Dist(h, s.j, N)
            /\ u.hole = s.j /\ u.entries = Filled(E, s.hole, s.j)
  BY <1>0, ShiftTurn
<1>3. u.hole \in 0 .. N - 1 /\ u.j \in 0 .. N - 1
  BY <1>2, ShiftsAre
<1>4. s.j \in T
  BY <1>0, <1>1 DEF TakenIn, ShiftEnds
<1>5. T \subseteq 0 .. N - 1
  BY <1>0 DEF TakenIn
<1> HIDE DEF N, E, u, h
<1>6. CASE Dist(h, s.j, N) < Dist(h, s.hole, N) /\ u.hole = s.hole /\ u.entries = E
  <2>1. ASSUME NEW x \in 0 .. N - 1, Passed(u, x, N)
        PROVE  x \in T /\ ~ Before(E, x, s.hole, N)
    <3>1. x # s.hole /\ (u.j = s.hole \/ Dist(s.hole, x, N) < Dist(s.hole, u.j, N))
      BY <1>6, <2>1 DEF Passed
    <3>2. x = s.j \/ Dist(s.hole, x, N) < Dist(s.hole, s.j, N)
      BY <3>1, <1>1, <1>2, RingNext
    <3>3. CASE x = s.j
      <4>1. ~ (Dist(h, s.hole, N) < Dist(h, s.j, N))
        <5>1. Dist(h, s.j, N) \in 0 .. N - 1 /\ Dist(h, s.hole, N) \in 0 .. N - 1
          BY <1>1, <1>2, DistIn
        <5> QED
          BY <5>1, <1>6
      <4> QED
        BY <3>3, <4>1, <1>4 DEF Before, h
    <3>4. CASE Dist(s.hole, x, N) < Dist(s.hole, s.j, N)
      BY <3>1, <3>4, <1>0 DEF Passed
    <3> QED
      BY <3>2, <3>3, <3>4
  <2> QED
    BY <2>1, <1>0, <1>2, <1>6 DEF Shifting, N, E, u
<1>7. CASE Dist(h, s.hole, N) < Dist(h, s.j, N) /\ u.hole = s.j /\ u.entries = Filled(E, s.hole, s.j)
  <2>1. /\ TakenIn(u.entries, N) = T
        /\ \A p \in 0 .. N - 1 : u.entries[p + 1] = E[(IF p = s.hole THEN s.j ELSE p) + 1]
        /\ Stored(u.entries, T \ {s.j}) = Stored(E, T \ {s.hole})
        /\ Apart(u.entries, T \ {s.j})
    <3>1. T = TakenIn(E, N)
      BY <1>0
    <3>2. /\ TakenIn(Filled(E, s.hole, s.j), N) = T
          /\ \A p \in 0 .. N - 1 : Filled(E, s.hole, s.j)[p + 1] = E[(IF p = s.hole THEN s.j ELSE p) + 1]
          /\ Stored(Filled(E, s.hole, s.j), T \ {s.j}) = Stored(E, T \ {s.hole})
          /\ Apart(E, T \ {s.hole}) => Apart(Filled(E, s.hole, s.j), T \ {s.j})
      BY <3>1, <1>0, <1>1, <1>2, <1>4, FilledKeeps
    <3> QED
      BY <3>2, <1>0, <1>7
  <2>2. Near(u.entries, T \ {s.j}, T, N)
    <3> SUFFICES ASSUME NEW x \in T \ {s.j}, NEW p \in 0 .. N - 1, Before(u.entries, x, p, N)
                 PROVE  p \in T
      BY DEF Near
    <3>1. x \in 0 .. N - 1
      BY <1>5
    <3>2. CASE x = s.hole
      <4>1. HomeOf(u.entries, x, N) = h
        BY <2>1, <3>1, <3>2 DEF HomeOf, h
      <4>2. Dist(h, p, N) < Dist(h, s.hole, N)
        BY <4>1, <3>2 DEF Before
      <4>3. Dist(h, p, N) \in Nat /\ Dist(h, s.hole, N) \in Nat /\ Dist(h, s.j, N) \in Nat
        <5>1. Dist(h, p, N) \in 0 .. N - 1 /\ Dist(h, s.hole, N) \in 0 .. N - 1 /\ Dist(h, s.j, N) \in 0 .. N - 1
          BY <1>1, <1>2, DistIn
        <5> QED
          BY <5>1
      <4>4. Before(E, s.j, p, N)
        BY <4>2, <4>3, <1>7 DEF Before, h
      <4> QED
        BY <4>4, <1>0, <1>2, <1>4 DEF Near
    <3>3. CASE x # s.hole
      <4>1. u.entries[x + 1] = E[x + 1]
        BY <2>1, <3>1, <3>3
      <4>2. Before(E, x, p, N)
        BY <4>1 DEF Before, HomeOf
      <4> QED
        BY <4>2, <3>3, <1>0 DEF Near
    <3> QED
      BY <3>2, <3>3
  <2>3. ASSUME NEW x \in 0 .. N - 1, Passed(u, x, N)
        PROVE  FALSE
    <3>1. x # s.j /\ (u.j = s.j \/ Dist(s.j, x, N) < Dist(s.j, u.j, N))
      BY <1>7, <2>3 DEF Passed
    <3> QED
      BY <3>1, <1>1, <1>2 DEF Dist
  <2> QED
    BY <2>1, <2>2, <2>3, <1>0, <1>2, <1>4, <1>7 DEF Shifting, N, E, u
<1> QED
  BY <1>2, <1>6, <1>7

LEMMA FreeIs == Free \in Entries /\ Free.key = None
<1>1. 0 \in 0 .. HashRange - 1
  BY HashTableAssumption
<1> QED
  BY <1>1 DEF Free, Entries

Without(S, x) == S \ {x}
Emptied(E, p) == [E EXCEPT ![p + 1] = Free]

\* Where the loop ends no probe has to come past the hole any more.
LEMMA ShiftLeaves ==
  ASSUME NEW t, Tabled(t), NEW i, NEW T, NEW s, Shifting(t, i, T, s), ShiftEnds(s)
  PROVE  LET N == Capacity(t)
             F == Emptied(s.entries, s.hole)
             R == Without(T, s.hole)
         IN /\ F \in [1 .. N -> Entries] /\ TakenIn(F, N) = R
            /\ Near(F, R, R, N) /\ Apart(F, R) /\ Stored(F, R) = Stored(t.entries, Without(T, i))
<1> DEFINE N == Capacity(t)
           E == s.entries
           F == Emptied(s.entries, s.hole)
           R == Without(T, s.hole)
<1>01. R = T \ {s.hole} /\ Without(T, i) = T \ {i}
  BY DEF Without
<1> HIDE DEF R
<1>0. /\ s \in Shifts(t) /\ s.hole \in T /\ TakenIn(E, N) = T
      /\ Near(E, T \ {s.hole}, T, N)
      /\ \A x \in 0 .. N - 1 : Passed(s, x, N) => x \in T /\ ~ Before(E, x, s.hole, N)
      /\ Apart(E, T \ {s.hole}) /\ Stored(E, T \ {s.hole}) = Stored(t.entries, T \ {i})
  BY DEF Shifting
<1>1. /\ N \in Nat \ {0} /\ s.hole \in 0 .. N - 1 /\ s.j \in 0 .. N - 1
      /\ E \in [1 .. N -> Entries] /\ DOMAIN E = 1 .. N
  BY <1>0, TableIs, ShiftsAre
<1>2. F \in [1 .. N -> Entries]
  BY <1>1, FreeIs DEF Emptied
<1>3. \A p \in 0 .. N - 1 : F[p + 1] = IF p = s.hole THEN Free ELSE E[p + 1]
  <2> SUFFICES ASSUME NEW p \in 0 .. N - 1 PROVE F[p + 1] = IF p = s.hole THEN Free ELSE E[p + 1]
    OBVIOUS
  <2>1. p + 1 \in 1 .. N /\ (p + 1 = s.hole + 1 <=> p = s.hole)
    BY <1>1
  <2> QED
    BY <2>1, <1>1 DEF Emptied
<1>4. T \subseteq 0 .. N - 1 /\ R \subseteq 0 .. N - 1
  BY <1>0, <1>01 DEF TakenIn
<1> HIDE DEF N, E, F
<1>5. TakenIn(F, N) = R
  BY <1>0, <1>01, <1>3, <1>4, FreeIs DEF TakenIn
<1>6. \A p \in R : F[p + 1] = E[p + 1]
  BY <1>01, <1>3, <1>4
<1>7. Stored(F, R) = Stored(E, R) /\ Apart(F, R)
  <2>1. Stored(F, R) = Stored(E, R)
    BY <1>6 DEF Stored
  <2>2. Apart(F, R)
    BY <1>0, <1>01, <1>6 DEF Apart
  <2> QED
    BY <2>1, <2>2
<1>8. Near(F, R, R, N)
  <2> SUFFICES ASSUME NEW x \in R, NEW p \in 0 .. N - 1, Before(F, x, p, N)
               PROVE  p \in R
    BY DEF Near
  <2> DEFINE h == HomeOf(E, x, N)
  <2>1. x \in 0 .. N - 1 /\ x # s.hole /\ h \in 0 .. N - 1
    BY <1>1, <1>01, <1>4, HomeOfIn
  <2>2. Before(E, x, p, N)
    BY <1>6 DEF Before, HomeOf
  <2>3. p \in T
    BY <2>2, <1>0, <1>01 DEF Near
  <2> SUFFICES ASSUME p = s.hole PROVE FALSE
    BY <2>3, <1>01
  <2>4. Before(E, x, s.hole, N)
    BY <2>2
  <2>5. ~ Passed(s, x, N)
    BY <2>1, <2>4, <1>0
  <2>6. s.j # s.hole /\ ~ (Dist(s.hole, x, N) < Dist(s.hole, s.j, N))
    BY <2>1, <2>5 DEF Passed
  <2>7. s.j \notin T
    BY <2>6, <1>0 DEF ShiftEnds, TakenIn, E
  <2>8. x # s.j
    BY <2>7, <1>01
  <2>9. Dist(h, s.hole, N) < Dist(h, x, N)
    BY <2>4 DEF Before
  <2> HIDE DEF h
  <2>10. Dist(h, s.j, N) < Dist(h, x, N)
    BY <2>1, <2>6, <2>8, <2>9, <1>1, RingBeyond
  <2>11. Before(E, x, s.j, N)
    BY <2>10 DEF Before, h
  <2> QED
    BY <2>7, <2>11, <1>0, <1>01, <1>1 DEF Near
<1> QED
  BY <1>0, <1>01, <1>2, <1>5, <1>7, <1>8 DEF N, E, F, R

-----------------------------------------------------------------------------
\* Whole tables: what a probe reads, and what stands in them.
Reads(t) == /\ Near(t.entries, Taken(t), Taken(t), Capacity(t))
            /\ Apart(t.entries, Taken(t))
StoredIn(t) == Stored(t.entries, Taken(t))

LEMMA TakenIs ==
  ASSUME NEW t
  PROVE  /\ Taken(t) = TakenIn(t.entries, Capacity(t))
         /\ Taken(t) \subseteq 0 .. Capacity(t) - 1
BY DEF Taken, TakenIn, IsFree, EntryAt

LEMMA SequenceIs ==
  ASSUME NEW S, NEW n \in Nat, NEW f \in [1 .. n -> S]
  PROVE  f \in Seq(S) /\ Len(f) = n
OBVIOUS

LEMMA RemoveEntryIs ==
  ASSUME NEW t, NEW i, NEW s,
         s = Shifted(t)[[entries |-> t.entries, hole |-> i, j |-> (i + 1) % Capacity(t)]]
  PROVE  RemoveEntry(t, i) = Bump([t EXCEPT !.entries = Emptied(s.entries, s.hole)])
BY DEF RemoveEntry, Emptied

\* The table with other entries, and its generation one on.
LEMMA BumpIs ==
  ASSUME NEW t, Tabled(t), NEW E \in [1 .. Capacity(t) -> Entries]
  PROVE  LET u == Bump([t EXCEPT !.entries = E])
         IN /\ Tabled(u) /\ u.id = t.id /\ u.gen = t.gen + 1 /\ u.entries = E
            /\ Capacity(u) = Capacity(t)
<1> DEFINE N == Capacity(t)
           u == Bump([t EXCEPT !.entries = E])
<1>1. N \in Nat \ {0} /\ t \in [id: Nat, gen: Nat, entries: Seq(Entries)]
  BY DEF Tabled
<1>2. E \in Seq(Entries) /\ Len(E) = N
  BY <1>1, SequenceIs
<1> HIDE DEF N
<1>3. u \in [id: Nat, gen: Nat, entries: Seq(Entries)] /\ u.id = t.id /\ u.gen = t.gen + 1 /\ u.entries = E
  <2> DEFINE w == [t EXCEPT !.entries = E]
  <2>1. w \in [id: Nat, gen: Nat, entries: Seq(Entries)] /\ w.id = t.id /\ w.gen = t.gen /\ w.entries = E
    BY <1>1, <1>2
  <2>2. u = [w EXCEPT !.gen = w.gen + 1]
    BY DEF Bump
  <2> HIDE DEF w, u
  <2> QED
    BY <2>1, <2>2
<1> HIDE DEF u
<1>4. Capacity(u) = N
  BY <1>2, <1>3 DEF Capacity
<1> QED
  BY <1>1, <1>3, <1>4 DEF Tabled, u, N

LEMMA Removal ==
  ASSUME NEW t, Tabled(t), Reads(t), NEW i \in Taken(t)
  PROVE  LET u == RemoveEntry(t, i)
         IN /\ Tabled(u) /\ u.id = t.id /\ u.gen = t.gen + 1 /\ Capacity(u) = Capacity(t)
            /\ Reads(u)
            /\ \E h \in Taken(t) : Taken(u) = Without(Taken(t), h)
            /\ StoredIn(u) = Stored(t.entries, Without(Taken(t), i))
<1> DEFINE N == Capacity(t)
           T == TakenIn(t.entries, N)
           S == Shifts(t)
           f == Shifted(t)
           s0 == [entries |-> t.entries, hole |-> i, j |-> (i + 1) % N]
           Inv == {s \in S : Shifting(t, i, T, s)}
           stop == {s \in S : ShiftEnds(s)}
           next == [s \in S |-> IF ShiftEnds(s) THEN s ELSE ShiftStep(t, s)]
           m == [s \in S |-> Cost(t, s)]
           B == (N * N) * N + N
<1>1. Taken(t) = T /\ Near(t.entries, T, T, N) /\ Apart(t.entries, T)
  BY TakenIs DEF Reads
<1>2. Shifting(t, i, T, s0)
  BY <1>1, ShiftBegins
<1>3. s0 \in Inv
  BY <1>2 DEF Shifting
<1>4. Loop(S, B, m, stop, next)
  <2>1. B \in Nat
    <3>1. N \in Nat
      BY TableIs
    <3> QED
      BY <3>1
  <2>2. m \in [S -> 0 .. B]
    BY CostIs
  <2>3. next \in [S -> S]
    BY ShiftTurn
  <2>4. \A s \in S : s \notin stop => m[next[s]] < m[s]
    BY <2>3, CostDrops, ShiftTurn
  <2> HIDE DEF S, B, m, stop, next
  <2> QED
    BY <2>1, <2>2, <2>3, <2>4 DEF Loop
<1>5. \A s \in S : f[s] = IF s \in stop THEN s ELSE f[next[s]]
  BY ShiftedIs
<1>6. \A s \in Inv : s \notin stop => next[s] \in Inv
  <2> SUFFICES ASSUME NEW s \in Inv, s \notin stop PROVE next[s] \in Inv
    OBVIOUS
  <2>1. s \in S /\ ~ ShiftEnds(s) /\ Shifting(t, i, T, s)
    OBVIOUS
  <2>2. Shifting(t, i, T, ShiftStep(t, s))
    BY <2>1, ShiftKeeps
  <2>3. ShiftStep(t, s) \in S
    BY <2>2 DEF Shifting
  <2> QED
    BY <2>1, <2>2, <2>3
<1>7. Inv \subseteq S
  OBVIOUS
<1>8. f[s0] \in Inv /\ f[s0] \in stop
  <2> HIDE DEF S, B, m, stop, next, Inv, f, s0
  <2> QED
    BY <1>3, <1>4, <1>5, <1>6, <1>7, LoopKeeps
<1> DEFINE s == f[s0]
           E == Emptied(s.entries, s.hole)
           R == Without(T, s.hole)
           K == Without(T, i)
           u == RemoveEntry(t, i)
<1>9. Shifting(t, i, T, s) /\ ShiftEnds(s)
  BY <1>8
<1>10. u = Bump([t EXCEPT !.entries = E])
  BY RemoveEntryIs
<1> HIDE DEF f, s0, s, S, Inv, stop, next, m, B, T
<1>11. /\ E \in [1 .. N -> Entries] /\ TakenIn(E, N) = R
       /\ Near(E, R, R, N) /\ Apart(E, R) /\ Stored(E, R) = Stored(t.entries, K)
  BY <1>9, ShiftLeaves
<1>12. s.hole \in T
  BY <1>9 DEF Shifting
<1> HIDE DEF E
<1>13. Tabled(u) /\ u.id = t.id /\ u.gen = t.gen + 1 /\ u.entries = E /\ Capacity(u) = N
  BY <1>10, <1>11, BumpIs
<1> HIDE DEF R, K
<1>14. Taken(u) = R
  BY <1>11, <1>13, TakenIs
<1>15. Reads(u) /\ StoredIn(u) = Stored(t.entries, K)
  BY <1>11, <1>13, <1>14 DEF Reads, StoredIn
<1> QED
  BY <1>1, <1>12, <1>13, <1>14, <1>15 DEF R, K

With(S, x) == S \cup {x}
Occupied(E, p, e) == [E EXCEPT ![p + 1] = e]

\* An entry more, where the probe from its home first finds room.
LEMMA Adding ==
  ASSUME NEW N \in Nat \ {0}, NEW E \in [1 .. N -> Entries], NEW T, T = TakenIn(E, N),
         Near(E, T, T, N), Apart(E, T),
         NEW e \in Entries, e.key # None, \A p \in T : ~ Same(E[p + 1].key, e.key),
         NEW f \in 0 .. N - 1, f \notin T,
         \A p \in 0 .. N - 1 : Dist(Home(e.hash, N), p, N) < Dist(Home(e.hash, N), f, N) => p \in T
  PROVE  LET F == Occupied(E, f, e)
             U == With(T, f)
         IN /\ F \in [1 .. N -> Entries] /\ TakenIn(F, N) = U
            /\ Near(F, U, U, N) /\ Apart(F, U) /\ Stored(F, U) = With(Stored(E, T), e)
<1> DEFINE F == Occupied(E, f, e)
           U == T \cup {f}
<1>1. T \subseteq 0 .. N - 1 /\ DOMAIN E = 1 .. N /\ \A p \in T : E[p + 1].key # None
  BY DEF TakenIn
<1>2. F \in [1 .. N -> Entries]
  BY DEF Occupied
<1>3. \A p \in 0 .. N - 1 : F[p + 1] = IF p = f THEN e ELSE E[p + 1]
  <2> SUFFICES ASSUME NEW p \in 0 .. N - 1 PROVE F[p + 1] = IF p = f THEN e ELSE E[p + 1]
    OBVIOUS
  <2>1. p + 1 \in 1 .. N /\ (p + 1 = f + 1 <=> p = f)
    OBVIOUS
  <2> QED
    BY <2>1, <1>1 DEF Occupied
<1> HIDE DEF F
<1>4. TakenIn(F, N) = U
  BY <1>1, <1>3 DEF TakenIn
<1>5. \A p \in T : F[p + 1] = E[p + 1] /\ p # f
  BY <1>1, <1>3
<1>6. F[f + 1] = e
  BY <1>3
<1>7. Near(F, U, U, N)
  <2> SUFFICES ASSUME NEW x \in U, NEW p \in 0 .. N - 1, Before(F, x, p, N) PROVE p \in U
    BY DEF Near
  <2>1. CASE x = f
    BY <2>1, <1>6 DEF Before, HomeOf
  <2>2. CASE x \in T
    <3>1. Before(E, x, p, N)
      BY <2>2, <1>5 DEF Before, HomeOf
    <3> QED
      BY <3>1, <2>2 DEF Near
  <2> QED
    BY <2>1, <2>2
<1>8. Apart(F, U)
  <2> SUFFICES ASSUME NEW x \in U, NEW y \in U, x # y PROVE ~ Same(F[x + 1].key, F[y + 1].key)
    BY DEF Apart
  <2>1. \A k, l : Same(k, l) => Same(l, k)
    BY DEF Same
  <2>2. CASE x \in T /\ y \in T
    BY <2>2, <1>5 DEF Apart
  <2>3. CASE x = f /\ y \in T
    BY <2>1, <2>3, <1>5, <1>6
  <2>4. CASE x \in T /\ y = f
    BY <2>4, <1>5, <1>6
  <2> QED
    BY <2>2, <2>3, <2>4
<1>9. Stored(F, U) = Stored(E, T) \cup {e}
  BY <1>5, <1>6 DEF Stored
<1> QED
  BY <1>2, <1>4, <1>7, <1>8, <1>9 DEF F, With

LEMMA NthIs ==
  ASSUME NEW t, Tabled(t), NEW hash \in 0 .. HashRange - 1
  PROVE  LET N == Capacity(t)
             h == Home(hash, N)
         IN /\ h \in 0 .. N - 1
            /\ \A n \in 0 .. N - 1 : Nth(t, hash, n) \in 0 .. N - 1 /\ Dist(h, Nth(t, hash, n), N) = n
            /\ \A p \in 0 .. N - 1 : Dist(h, p, N) \in 0 .. N - 1 /\ Nth(t, hash, Dist(h, p, N)) = p
<1> DEFINE N == Capacity(t)
           h == Home(hash, N)
<1>1. N \in Nat \ {0}
  BY TableIs
<1>2. h \in 0 .. N - 1
  BY <1>1, HomeIn
<1>3. \A n : Nth(t, hash, n) = (h + n) % N
  BY DEF Nth
<1> HIDE DEF N, h
<1>4. \A n \in 0 .. N - 1 : (h + n) % N \in 0 .. N - 1 /\ Dist(h, (h + n) % N, N) = n
  BY <1>1, <1>2, StepsFrom
<1>5. \A p \in 0 .. N - 1 : Dist(h, p, N) \in 0 .. N - 1 /\ (h + Dist(h, p, N)) % N = p
  BY <1>1, <1>2, DistIn, DistBack
<1> QED
  BY <1>2, <1>3, <1>4, <1>5 DEF N, h

LEMMA FreeEntryIs ==
  ASSUME NEW t, Tabled(t), NEW hash \in 0 .. HashRange - 1
  PROVE  LET N == Capacity(t)
             h == Home(hash, N)
             f == FreeEntry(t, hash)
         IN \/ f = NoEntry /\ Taken(t) = 0 .. N - 1
            \/ /\ f \in 0 .. N - 1 /\ f \notin Taken(t) /\ f # NoEntry
               /\ \A p \in 0 .. N - 1 : Dist(h, p, N) < Dist(h, f, N) => p \in Taken(t)
<1> DEFINE N == Capacity(t)
           h == Home(hash, N)
           f == FreeEntry(t, hash)
           free == {n \in 0 .. N - 1 : IsFree(t, Nth(t, hash, n))}
<1>1. f = IF free = {} THEN NoEntry ELSE Nth(t, hash, First(free))
  BY DEF FreeEntry
<1>2. /\ h \in 0 .. N - 1
      /\ \A n \in 0 .. N - 1 : Nth(t, hash, n) \in 0 .. N - 1 /\ Dist(h, Nth(t, hash, n), N) = n
      /\ \A p \in 0 .. N - 1 : Dist(h, p, N) \in 0 .. N - 1 /\ Nth(t, hash, Dist(h, p, N)) = p
  BY NthIs
<1>3. \A p \in 0 .. N - 1 : p \in Taken(t) <=> ~ IsFree(t, p)
  BY DEF Taken
<1>4. N \in Nat \ {0}
  BY TableIs
<1> HIDE DEF h, f, N
<1>5. CASE free = {}
  <2>1. \A p \in 0 .. N - 1 : p \in Taken(t)
    BY <1>2, <1>3, <1>5
  <2> QED
    BY <2>1, <1>1, <1>5, TakenIs DEF N, h, f
<1>6. CASE free # {}
  <2>1. free \subseteq Nat
    BY <1>4
  <2>2. First(free) \in free /\ \A n \in free : First(free) <= n
    BY <2>1, <1>6, FirstIsLeast
  <2> DEFINE n == First(free)
  <2>3. n \in 0 .. N - 1 /\ IsFree(t, Nth(t, hash, n)) /\ f = Nth(t, hash, n)
    BY <2>2, <1>1, <1>6
  <2>4. f \in 0 .. N - 1 /\ Dist(h, f, N) = n /\ f \notin Taken(t)
    BY <2>3, <1>2, <1>3
  <2>5. ASSUME NEW p \in 0 .. N - 1, Dist(h, p, N) < Dist(h, f, N) PROVE p \in Taken(t)
    <3>1. SUFFICES ASSUME IsFree(t, p) PROVE FALSE
      BY <1>3
    <3>2. Dist(h, p, N) \in free
      BY <3>1, <1>2
    <3>3. n <= Dist(h, p, N)
      BY <3>2, <2>2
    <3> QED
      BY <3>3, <2>3, <2>4, <2>5, <1>2
  <2>6. f # NoEntry
    BY <2>4 DEF NoEntry
  <2> QED
    BY <2>4, <2>5, <2>6 DEF N, h, f
<1> QED
  BY <1>5, <1>6

\* What stands in a table was put there by an operation.
Put == {e \in Entries : e.key \in Keys /\ e.hash = Hash[e.key] /\ e.value \in Values}
Sound(t) == Tabled(t) /\ Reads(t) /\ StoredIn(t) \subseteq Put

\* An operation found none of the stored keys = to its own.
Alone(t, key) == \A p \in Taken(t) : ~ Same(EntryAt(t, p).key, key)
NewEntry(key, value) == [key |-> key, value |-> value, hash |-> Hash[key]]

LEMMA HashOf ==
  ASSUME NEW k \in Keys
  PROVE  k # None /\ Hash[k] \in 0 .. HashRange - 1
BY HashTableAssumption

LEMMA PutEntryIs ==
  ASSUME NEW t, Tabled(t), NEW i \in 0 .. Capacity(t) - 1, NEW key, NEW value
  PROVE  PutEntry(t, i, key, value) = Bump([t EXCEPT !.entries = Occupied(t.entries, i, NewEntry(key, value))])
<1> DEFINE e == NewEntry(key, value)
<1>1. PutEntry(t, i, key, value) = Bump([t EXCEPT !.entries[i + 1] = e])
  BY DEF PutEntry, NewEntry
<1> HIDE DEF e
<1>2. [t EXCEPT !.entries[i + 1] = e] = [t EXCEPT !.entries = Occupied(t.entries, i, e)]
  BY DEF Occupied
<1> QED
  BY <1>1, <1>2 DEF e

LEMMA Insertion ==
  ASSUME NEW t, Sound(t), NEW key \in Keys, NEW value \in Values, Alone(t, key),
         NEW f, f = FreeEntry(t, Hash[key]), f # NoEntry
  PROVE  LET u == PutEntry(t, f, key, value)
         IN /\ Sound(u) /\ u.id = t.id /\ u.gen = t.gen + 1 /\ Capacity(u) = Capacity(t)
            /\ f \notin Taken(t) /\ Taken(u) = With(Taken(t), f)
            /\ StoredIn(u) = With(StoredIn(t), NewEntry(key, value))
<1> DEFINE N == Capacity(t)
           E == t.entries
           T == Taken(t)
           e == NewEntry(key, value)
           u == PutEntry(t, f, key, value)
           F == Occupied(E, f, e)
<1>1. /\ Tabled(t) /\ Near(E, T, T, N) /\ Apart(E, T) /\ T = TakenIn(E, N)
      /\ StoredIn(t) = Stored(E, T) /\ StoredIn(t) \subseteq Put
  BY TakenIs DEF Sound, Reads, StoredIn
<1>2. N \in Nat \ {0} /\ E \in [1 .. N -> Entries]
  BY <1>1, TableIs
<1>3. e \in Put /\ e.key = key /\ e.hash = Hash[key]
  BY HashOf DEF NewEntry, Put, Entries
<1>4. e \in Entries /\ e.key # None
  BY <1>3, HashOf DEF Put
<1>5. \A p \in T : ~ Same(E[p + 1].key, e.key)
  BY <1>3 DEF Alone, EntryAt
<1>6. /\ f \in 0 .. N - 1 /\ f \notin T
      /\ \A p \in 0 .. N - 1 : Dist(Home(e.hash, N), p, N) < Dist(Home(e.hash, N), f, N) => p \in T
  BY <1>1, <1>3, HashOf, FreeEntryIs
<1> HIDE DEF e, N, E, T
<1>7. /\ F \in [1 .. N -> Entries] /\ TakenIn(F, N) = With(T, f)
      /\ Near(F, With(T, f), With(T, f), N) /\ Apart(F, With(T, f))
      /\ Stored(F, With(T, f)) = With(Stored(E, T), e)
  BY <1>1, <1>2, <1>4, <1>5, <1>6, Adding
<1>8. u = Bump([t EXCEPT !.entries = F])
  BY <1>1, <1>6, PutEntryIs DEF e, N, E
<1> HIDE DEF F, u
<1>9. Tabled(u) /\ u.id = t.id /\ u.gen = t.gen + 1 /\ u.entries = F /\ Capacity(u) = N
  BY <1>1, <1>7, <1>8, BumpIs DEF N
<1>10. Taken(u) = With(T, f)
  BY <1>7, <1>9, TakenIs
<1>11. Reads(u) /\ StoredIn(u) = With(StoredIn(t), e)
  BY <1>1, <1>7, <1>9, <1>10 DEF Reads, StoredIn
<1>12. StoredIn(u) \subseteq Put
  BY <1>1, <1>3, <1>11 DEF With
<1> QED
  BY <1>6, <1>9, <1>10, <1>11, <1>12 DEF Sound, u, N, T, e
-----------------------------------------------------------------------------
\* Growth: the entries one after another, each where there is room.
Below(t, i) == {p \in Taken(t) : p < i}

LEMMA TakenFinite ==
  ASSUME NEW t, Tabled(t)
  PROVE  /\ IsFiniteSet(Taken(t)) /\ Cardinality(Taken(t)) \in 0 .. Capacity(t)
         /\ Taken(t) = 0 .. Capacity(t) - 1 => Cardinality(Taken(t)) = Capacity(t)
<1> DEFINE N == Capacity(t)
           A == 0 .. N - 1
           T == Taken(t)
<1>1. N \in Nat \ {0} /\ T \subseteq A
  BY TableIs, TakenIs
<1>2. IsFiniteSet(A) /\ Cardinality(A) = N
  BY <1>1, FS_Interval
<1> HIDE DEF A, N, T
<1>3. IsFiniteSet(T) /\ Cardinality(T) <= Cardinality(A)
  BY <1>1, <1>2, FS_Subset
<1>4. Cardinality(T) \in Nat
  BY <1>3, FS_CardinalityType
<1>5. Cardinality(T) \in 0 .. N
  BY <1>1, <1>2, <1>3, <1>4
<1>6. T = A => Cardinality(T) = N
  BY <1>2
<1> QED
  BY <1>3, <1>5, <1>6 DEF A, N, T

LEMMA BelowIs ==
  ASSUME NEW t, Tabled(t)
  PROVE  /\ Below(t, 0) = {} /\ Cardinality(Below(t, 0)) = 0
         /\ Below(t, Capacity(t)) = Taken(t)
         /\ \A n \in Nat : IsFiniteSet(Below(t, n)) /\ Below(t, n) \subseteq Taken(t)
<1>1. Taken(t) \subseteq 0 .. Capacity(t) - 1 /\ Capacity(t) \in Nat
  BY TableIs, TakenIs
<1>2. Below(t, 0) = {}
  BY <1>1 DEF Below
<1>3. Below(t, Capacity(t)) = Taken(t)
  BY <1>1 DEF Below
<1>4. ASSUME NEW n \in Nat PROVE IsFiniteSet(Below(t, n)) /\ Below(t, n) \subseteq Taken(t)
  <2>1. Below(t, n) \subseteq Taken(t)
    BY DEF Below
  <2> QED
    BY <2>1, TakenFinite, FS_Subset
<1> QED
  BY <1>2, <1>3, <1>4, FS_EmptySet

LEMMA BelowNext ==
  ASSUME NEW t, Tabled(t), NEW n \in Nat
  PROVE  /\ n \notin Taken(t) => Below(t, n + 1) = Below(t, n)
         /\ n \in Taken(t) =>
              /\ Below(t, n + 1) = With(Below(t, n), n) /\ n \notin Below(t, n)
              /\ Cardinality(Below(t, n + 1)) = Cardinality(Below(t, n)) + 1
<1>1. Taken(t) \subseteq 0 .. Capacity(t) - 1 /\ Capacity(t) \in Nat
  BY TableIs, TakenIs
<1>2. \A p \in Taken(t) : p < n + 1 <=> p < n \/ p = n
  BY <1>1
<1>3. n \notin Taken(t) => Below(t, n + 1) = Below(t, n)
  BY <1>2 DEF Below
<1>4. n \in Taken(t) => Below(t, n + 1) = With(Below(t, n), n)
  BY <1>2 DEF Below, With
<1>5. n \notin Below(t, n)
  BY DEF Below
<1>6. IsFiniteSet(Below(t, n))
  BY BelowIs
<1>7. Cardinality(With(Below(t, n), n)) = Cardinality(Below(t, n)) + 1
  BY <1>5, <1>6, FS_AddElement DEF With
<1> QED
  BY <1>3, <1>4, <1>5, <1>7

LEMMA FreshIs ==
  ASSUME NEW N \in Nat \ {0}, NEW id \in Nat
  PROVE  LET t == NewArray(N, id)
         IN /\ Sound(t) /\ t.id = id /\ t.gen = 0 /\ Capacity(t) = N
            /\ Taken(t) = {} /\ StoredIn(t) = {}
<1> DEFINE E == [i \in 1 .. N |-> Free]
           t == NewArray(N, id)
<1>1. E \in [1 .. N -> Entries]
  BY FreeIs
<1>2. E \in Seq(Entries) /\ Len(E) = N
  <2> HIDE DEF E
  <2> QED
    BY <1>1, SequenceIs
<1>3. \A p \in 0 .. N - 1 : E[p + 1].key = None
  <2> SUFFICES ASSUME NEW p \in 0 .. N - 1 PROVE E[p + 1].key = None
    OBVIOUS
  <2>1. p + 1 \in 1 .. N
    OBVIOUS
  <2> QED
    BY <2>1, FreeIs
<1>4. t = [id |-> id, gen |-> 0, entries |-> E]
  BY DEF NewArray
<1> HIDE DEF E, t
<1>5. t.id = id /\ t.gen = 0 /\ t.entries = E /\ Capacity(t) = N /\ Tabled(t)
  BY <1>2, <1>4 DEF Capacity, Tabled
<1>6. Taken(t) = {}
  BY <1>3, <1>5, TakenIs DEF TakenIn
<1>7. Reads(t) /\ StoredIn(t) = {}
  BY <1>6 DEF Reads, Near, Apart, StoredIn, Stored
<1> QED
  BY <1>5, <1>6, <1>7 DEF Sound, t

LEMMA PlacedIs ==
  ASSUME NEW t, Tabled(t), NEW id
  PROVE  LET place == Placed(t, id)
         IN /\ place[0] = NewArray(Capacity(t) * 2, id)
            /\ \A n \in 1 .. Capacity(t) : place[n] = Place(place[n - 1], t.entries[n])
<1> DEFINE N == Capacity(t)
           new == NewArray(N * 2, id)
           Turn(f, k) == IF k = 0 THEN new ELSE Place(f[k - 1], t.entries[k])
           Fits(f, n) == \A k \in 0 .. n : f[k] = Turn(f, k)
           good == {n \in 0 .. N : \E f : Fits(f, n)}
<1>0. N \in Nat
  BY TableIs
<1>1. 0 \in good
  <2>1. Fits([k \in 0 .. 0 |-> new], 0)
    OBVIOUS
  <2> HIDE DEF Fits
  <2> QED
    BY <2>1, <1>0
<1>2. ASSUME NEW n \in 0 .. N, n \in good, n < N PROVE n + 1 \in good
  <2>1. PICK f : Fits(f, n)
    BY <1>2
  <2> DEFINE g == [k \in 0 .. n + 1 |-> Turn(f, k)]
  <2> HIDE DEF new
  <2>2. \A k \in 0 .. n + 1 : g[k] = Turn(f, k)
    OBVIOUS
  <2>3. \A k \in 0 .. n : g[k] = f[k]
    <3> HIDE DEF Turn, g
    <3>1. \A k \in 0 .. n : k \in 0 .. n + 1
      BY <1>0
    <3> QED
      BY <2>1, <2>2, <3>1
  <2> HIDE DEF g
  <2>4. Fits(g, n + 1)
    <3>1. ASSUME NEW k \in 0 .. n + 1 PROVE g[k] = Turn(g, k)
      <4>1. CASE k = 0
        BY <4>1, <2>2
      <4>2. CASE k # 0
        <5>1. k - 1 \in 0 .. n
          BY <4>2, <1>0
        <5>2. g[k - 1] = f[k - 1]
          BY <5>1, <2>3
        <5> QED
          BY <5>2, <4>2, <2>2
      <4> QED
        BY <4>1, <4>2
    <3> QED
      BY <3>1
  <2>5. n + 1 \in 0 .. N
    BY <1>0, <1>2
  <2>6. \E h : Fits(h, n + 1)
    BY <2>4
  <2> HIDE DEF Fits
  <2> QED
    BY <2>5, <2>6
<1>3. N \in good
  <2>1. good \subseteq 0 .. N
    OBVIOUS
  <2> HIDE DEF good
  <2>2. \A n \in 0 .. N : n \in good
    BY <1>0, <1>1, <1>2, <2>1, UpTo
  <2> QED
    BY <2>2, <1>0
<1>4. PICK f : Fits(f, N)
  BY <1>3
<1> DEFINE Is(h) == h = [n \in 0 .. N |-> Turn(h, n)]
           g == [n \in 0 .. N |-> Turn(f, n)]
<1>5. Is(g)
  <2>1. \A k \in 0 .. N : g[k] = f[k]
    <3>1. \A k \in 0 .. N : g[k] = Turn(f, k)
      OBVIOUS
    <3> HIDE DEF Turn, g
    <3> QED
      BY <1>4, <3>1
  <2>2. \A k \in 0 .. N : Turn(g, k) = Turn(f, k)
    <3> SUFFICES ASSUME NEW k \in 0 .. N PROVE Turn(g, k) = Turn(f, k)
      OBVIOUS
    <3>1. k # 0 => k - 1 \in 0 .. N
      BY <1>0
    <3>2. k # 0 => g[k - 1] = f[k - 1]
      BY <2>1, <3>1
    <3> HIDE DEF g
    <3> QED
      BY <3>2
  <2>3. g = [n \in 0 .. N |-> Turn(g, n)]
    <3> DEFINE F(n) == Turn(f, n)
               G(n) == Turn(g, n)
    <3>1. \A n \in 0 .. N : F(n) = G(n)
      BY <2>2
    <3>2. g = [n \in 0 .. N |-> F(n)]
      OBVIOUS
    <3> HIDE DEF F, G, g
    <3>3. [n \in 0 .. N |-> F(n)] = [n \in 0 .. N |-> G(n)]
      BY <3>1
    <3> QED
      BY <3>2, <3>3 DEF G
  <2> HIDE DEF g, Turn
  <2> QED
    BY <2>3
<1>6. Placed(t, id) = CHOOSE h : Is(h)
  BY DEF Placed
<1>7. Is(Placed(t, id))
  <2> HIDE DEF Is, g
  <2> QED
    BY <1>5, <1>6
<1> DEFINE place == Placed(t, id)
<1> HIDE DEF place
<1>8. \A n \in 0 .. N : place[n] = Turn(place, n)
  BY <1>7 DEF place
<1>9. place[0] = new
  BY <1>8, <1>0
<1>10. ASSUME NEW n \in 1 .. N PROVE place[n] = Place(place[n - 1], t.entries[n])
  <2>1. n \in 0 .. N /\ n # 0
    BY <1>0
  <2> QED
    BY <1>8, <2>1
<1> QED
  BY <1>9, <1>10 DEF place
LEMMA PlaceIs ==
  ASSUME NEW t, Tabled(t), NEW e, e.key # None, NEW f, f = FreeEntry(t, e.hash), f \in 0 .. Capacity(t) - 1
  PROVE  Place(t, e) = [t EXCEPT !.entries = Occupied(t.entries, f, e)]
<1>1. Place(t, e) = [t EXCEPT !.entries[f + 1] = e]
  BY DEF Place
<1>2. [t EXCEPT !.entries[f + 1] = e] = [t EXCEPT !.entries = Occupied(t.entries, f, e)]
  BY DEF Occupied
<1> QED
  BY <1>1, <1>2

LEMMA OtherEntries ==
  ASSUME NEW t, Tabled(t), NEW E \in [1 .. Capacity(t) -> Entries]
  PROVE  LET u == [t EXCEPT !.entries = E]
         IN Tabled(u) /\ u.id = t.id /\ u.gen = t.gen /\ u.entries = E /\ Capacity(u) = Capacity(t)
<1> DEFINE N == Capacity(t)
           u == [t EXCEPT !.entries = E]
<1>1. N \in Nat \ {0} /\ t \in [id: Nat, gen: Nat, entries: Seq(Entries)]
  BY DEF Tabled
<1>2. E \in Seq(Entries) /\ Len(E) = N
  BY <1>1, SequenceIs
<1> HIDE DEF N
<1>3. u \in [id: Nat, gen: Nat, entries: Seq(Entries)] /\ u.id = t.id /\ u.gen = t.gen /\ u.entries = E
  BY <1>1, <1>2
<1> HIDE DEF u
<1>4. Capacity(u) = N
  BY <1>2, <1>3 DEF Capacity
<1> QED
  BY <1>1, <1>3, <1>4 DEF Tabled, u, N

LEMMA Placement ==
  ASSUME NEW t, Sound(t), Cardinality(Taken(t)) < Capacity(t), NEW e \in Put,
         \A d \in StoredIn(t) : ~ Same(d.key, e.key)
  PROVE  LET u == Place(t, e)
         IN /\ Sound(u) /\ u.id = t.id /\ u.gen = t.gen /\ Capacity(u) = Capacity(t)
            /\ StoredIn(u) = With(StoredIn(t), e)
            /\ Cardinality(Taken(u)) = Cardinality(Taken(t)) + 1
<1> DEFINE N == Capacity(t)
           E == t.entries
           T == Taken(t)
           f == FreeEntry(t, e.hash)
           u == Place(t, e)
           F == Occupied(E, f, e)
<1>1. /\ Tabled(t) /\ Near(E, T, T, N) /\ Apart(E, T) /\ T = TakenIn(E, N)
      /\ StoredIn(t) = Stored(E, T) /\ StoredIn(t) \subseteq Put
  BY TakenIs DEF Sound, Reads, StoredIn
<1>2. N \in Nat \ {0} /\ E \in [1 .. N -> Entries]
  BY <1>1, TableIs
<1>3. e \in Entries /\ e.key # None /\ e.key \in Keys /\ e.hash \in 0 .. HashRange - 1
  BY HashOf DEF Put, Entries
<1>4. IsFiniteSet(T) /\ Cardinality(T) \in Nat /\ T # 0 .. N - 1
  BY <1>1, <1>2, TakenFinite
<1>5. \A p \in T : ~ Same(E[p + 1].key, e.key)
  BY <1>1 DEF Stored
<1>6. /\ f \in 0 .. N - 1 /\ f \notin T
      /\ \A p \in 0 .. N - 1 : Dist(Home(e.hash, N), p, N) < Dist(Home(e.hash, N), f, N) => p \in T
  BY <1>1, <1>3, <1>4, FreeEntryIs
<1>7. u = [t EXCEPT !.entries = F]
  BY <1>1, <1>3, <1>6, PlaceIs
<1> HIDE DEF N, E, T, f, u
<1>8. /\ F \in [1 .. N -> Entries] /\ TakenIn(F, N) = With(T, f)
      /\ Near(F, With(T, f), With(T, f), N) /\ Apart(F, With(T, f))
      /\ Stored(F, With(T, f)) = With(Stored(E, T), e)
  BY <1>1, <1>2, <1>3, <1>5, <1>6, Adding
<1> HIDE DEF F
<1>9. Tabled(u) /\ u.id = t.id /\ u.gen = t.gen /\ u.entries = F /\ Capacity(u) = N
  BY <1>1, <1>7, <1>8, OtherEntries DEF N
<1>10. Taken(u) = With(T, f)
  BY <1>8, <1>9, TakenIs
<1>11. Reads(u) /\ StoredIn(u) = With(StoredIn(t), e)
  BY <1>1, <1>8, <1>9, <1>10 DEF Reads, StoredIn
<1>12. StoredIn(u) \subseteq Put
  BY <1>1, <1>11 DEF With
<1>13. Cardinality(Taken(u)) = Cardinality(T) + 1
  BY <1>4, <1>6, <1>10, FS_AddElement DEF With
<1> QED
  BY <1>9, <1>11, <1>12, <1>13 DEF Sound, u, N, T

\* The new array after n entries of the old one.
Growing(t, id, n, new) ==
  /\ Sound(new) /\ new.id = id /\ new.gen = 0 /\ Capacity(new) = Capacity(t) * 2
  /\ StoredIn(new) = Stored(t.entries, Below(t, n))
  /\ Cardinality(Taken(new)) = Cardinality(Below(t, n)) /\ Cardinality(Below(t, n)) <= n

LEMMA GrowingKeeps ==
  ASSUME NEW t, Sound(t), NEW id \in Nat, NEW n \in 0 .. Capacity(t) - 1,
         NEW new, Growing(t, id, n, new)
  PROVE  Growing(t, id, n + 1, Place(new, t.entries[n + 1]))
<1> DEFINE N == Capacity(t)
           e == t.entries[n + 1]
           u == Place(new, e)
<1>1. Tabled(t) /\ Apart(t.entries, Taken(t)) /\ StoredIn(t) = Stored(t.entries, Taken(t)) /\ StoredIn(t) \subseteq Put
  BY DEF Sound, Reads, StoredIn
<1>2. N \in Nat \ {0} /\ n \in Nat /\ n + 1 \in Nat
  BY <1>1, TableIs
<1>3. IsFiniteSet(Below(t, n)) /\ Below(t, n) \subseteq Taken(t) /\ Cardinality(Below(t, n)) \in Nat
  BY <1>1, <1>2, BelowIs, FS_CardinalityType
<1>4. n \in Taken(t) <=> e.key # None
  BY <1>1 DEF Taken, IsFree, EntryAt
<1>5. /\ Sound(new) /\ new.id = id /\ new.gen = 0 /\ Capacity(new) = N * 2
      /\ StoredIn(new) = Stored(t.entries, Below(t, n))
      /\ Cardinality(Taken(new)) = Cardinality(Below(t, n)) /\ Cardinality(Below(t, n)) <= n
  BY DEF Growing
<1> HIDE DEF N, u
<1>6. CASE n \notin Taken(t)
  <2>1. Below(t, n + 1) = Below(t, n)
    BY <1>1, <1>2, <1>6, BelowNext
  <2>2. u = new
    BY <1>4, <1>6 DEF Place, u
  <2>3. Cardinality(Below(t, n)) <= n + 1
    BY <1>2, <1>3, <1>5
  <2> QED
    BY <1>5, <2>1, <2>2, <2>3 DEF Growing, u, N
<1>7. CASE n \in Taken(t)
  <2>1. /\ Below(t, n + 1) = With(Below(t, n), n) /\ n \notin Below(t, n)
        /\ Cardinality(Below(t, n + 1)) = Cardinality(Below(t, n)) + 1
    BY <1>1, <1>2, <1>7, BelowNext
  <2>2. e \in Put
    BY <1>1, <1>7 DEF Stored
  <2>3. \A d \in StoredIn(new) : ~ Same(d.key, e.key)
    <3>1. \A p \in Below(t, n) : ~ Same(t.entries[p + 1].key, e.key)
      BY <1>1, <1>3, <1>7, <2>1 DEF Apart
    <3> QED
      BY <3>1, <1>5 DEF Stored
  <2>4. Cardinality(Taken(new)) < Capacity(new)
    <3>1. n < N
      BY <1>2 DEF N
    <3> QED
      BY <3>1, <1>2, <1>3, <1>5
  <2> HIDE DEF e
  <2>5. /\ Sound(u) /\ u.id = new.id /\ u.gen = new.gen /\ Capacity(u) = Capacity(new)
        /\ StoredIn(u) = With(StoredIn(new), e)
        /\ Cardinality(Taken(u)) = Cardinality(Taken(new)) + 1
    BY <1>5, <2>2, <2>3, <2>4, Placement DEF u
  <2>6. StoredIn(u) = Stored(t.entries, Below(t, n + 1))
    <3>1. With(Stored(t.entries, Below(t, n)), e) = Stored(t.entries, With(Below(t, n), n))
      BY DEF With, Stored, e
    <3> QED
      BY <3>1, <1>5, <2>1, <2>5
  <2>7. /\ Cardinality(Taken(u)) = Cardinality(Below(t, n + 1))
        /\ Cardinality(Below(t, n + 1)) <= n + 1
    BY <1>2, <1>3, <1>5, <2>1, <2>5
  <2> QED
    BY <1>5, <2>5, <2>6, <2>7 DEF Growing, u, N, e
<1> QED
  BY <1>6, <1>7

LEMMA Growth ==
  ASSUME NEW t, Sound(t), NEW id \in Nat
  PROVE  LET u == Grow(t, id)
         IN /\ Sound(u) /\ u.id = id /\ u.gen = 0 /\ Capacity(u) = Capacity(t) * 2
            /\ StoredIn(u) = StoredIn(t)
            /\ Cardinality(Taken(u)) = Cardinality(Taken(t))
<1> DEFINE N == Capacity(t)
           place == Placed(t, id)
           good == {n \in 0 .. N : Growing(t, id, n, place[n])}
<1>1. Tabled(t) /\ N \in Nat \ {0}
  BY TableIs DEF Sound
<1>2. place[0] = NewArray(N * 2, id) /\ \A n \in 1 .. N : place[n] = Place(place[n - 1], t.entries[n])
  BY <1>1, PlacedIs
<1> HIDE DEF place
<1>3. 0 \in good
  <2> DEFINE M == N * 2
  <2>1. M \in Nat \ {0}
    BY <1>1
  <2> HIDE DEF M
  <2>2. /\ Sound(NewArray(M, id)) /\ NewArray(M, id).id = id /\ NewArray(M, id).gen = 0
        /\ Capacity(NewArray(M, id)) = M
        /\ Taken(NewArray(M, id)) = {} /\ StoredIn(NewArray(M, id)) = {}
    BY <2>1, FreshIs
  <2>3. Below(t, 0) = {} /\ Cardinality(Below(t, 0)) = 0
    BY <1>1, BelowIs
  <2>4. Stored(t.entries, Below(t, 0)) = {}
    BY <2>3 DEF Stored
  <2>5. Cardinality(Taken(NewArray(M, id))) = Cardinality(Below(t, 0))
    BY <2>2, <2>3
  <2>6. 0 \in 0 .. N
    BY <1>1
  <2>7. Growing(t, id, 0, NewArray(M, id))
    BY <2>2, <2>3, <2>4, <2>5 DEF Growing, M
  <2> QED
    BY <1>2, <2>6, <2>7 DEF M
<1>4. \A n \in 0 .. N : n \in good /\ n < N => n + 1 \in good
  <2> SUFFICES ASSUME NEW n \in 0 .. N, n \in good, n < N PROVE n + 1 \in good
    OBVIOUS
  <2>1. n \in 0 .. N - 1 /\ n + 1 \in 1 .. N /\ n + 1 - 1 = n /\ n + 1 \in 0 .. N
    BY <1>1
  <2>2. place[n + 1] = Place(place[n], t.entries[n + 1])
    BY <1>2, <2>1
  <2>3. Growing(t, id, n, place[n])
    OBVIOUS
  <2>4. Growing(t, id, n + 1, Place(place[n], t.entries[n + 1]))
    BY <2>1, <2>3, GrowingKeeps
  <2> QED
    BY <2>1, <2>2, <2>4
<1>5. Growing(t, id, N, place[N])
  <2>1. good \subseteq 0 .. N /\ N \in Nat
    BY <1>1
  <2>2. \A n \in 0 .. N : n \in good
    <3> HIDE DEF good
    <3> QED
      BY <1>3, <1>4, <2>1, UpTo
  <2>3. N \in 0 .. N
    BY <2>1
  <2> QED
    BY <2>2, <2>3
<1>6. Grow(t, id) = place[N]
  BY DEF Grow, place
<1>7. Below(t, N) = Taken(t)
  BY <1>1, BelowIs
<1> QED
  BY <1>5, <1>6, <1>7 DEF Growing, StoredIn, N
-----------------------------------------------------------------------------
\* Probing.

LEMMA SameIs ==
  ASSUME NEW k \in Keys, NEW l \in Keys
  PROVE  /\ Same(k, l) <=> ClassOf(k) = ClassOf(l)
         /\ Same(k, l) => Hash[k] = Hash[l]
<1>1. k # None /\ l # None
  BY HashOf
<1>2. Same(k, l) <=> ClassOf(k) = ClassOf(l)
  BY <1>1 DEF Same, ClassOf
<1>3. Same(k, l) => Hash[k] = Hash[l]
  BY HashTableAssumption DEF Same
<1> QED
  BY <1>2, <1>3

LEMMA SoundIs ==
  ASSUME NEW t, Sound(t), NEW i \in Taken(t)
  PROVE  /\ i \in 0 .. Capacity(t) - 1 /\ ~ IsFree(t, i)
         /\ EntryAt(t, i) = t.entries[i + 1] /\ EntryAt(t, i) \in Put /\ EntryAt(t, i) \in StoredIn(t)
         /\ EntryAt(t, i).key \in Keys /\ EntryAt(t, i).hash = Hash[EntryAt(t, i).key]
         /\ EntryAt(t, i).value \in Values
<1>1. i \in 0 .. Capacity(t) - 1 /\ ~ IsFree(t, i)
  BY DEF Taken
<1>2. EntryAt(t, i) = t.entries[i + 1]
  BY DEF EntryAt
<1>3. EntryAt(t, i) \in StoredIn(t)
  BY <1>2 DEF StoredIn, Stored
<1>4. EntryAt(t, i) \in Put
  BY <1>3 DEF Sound
<1> QED
  BY <1>1, <1>2, <1>3, <1>4 DEF Put

\* A probe comes to the entry for its key through taken entries only.
LEMMA Reached ==
  ASSUME NEW t, Sound(t), NEW i \in Taken(t)
  PROVE  LET N == Capacity(t)
             hash == EntryAt(t, i).hash
             d == Dist(Home(hash, N), i, N)
         IN /\ d \in 0 .. N - 1 /\ Nth(t, hash, d) = i /\ hash \in 0 .. HashRange - 1
            /\ \A m \in 0 .. N - 1 : Nth(t, hash, m) = i => m = d
            /\ \A m \in 0 .. d - 1 : Nth(t, hash, m) \in Taken(t)
<1> DEFINE N == Capacity(t)
           hash == EntryAt(t, i).hash
           h == Home(hash, N)
           d == Dist(h, i, N)
<1>1. Tabled(t) /\ Near(t.entries, Taken(t), Taken(t), N)
  BY DEF Sound, Reads
<1>2. N \in Nat \ {0} /\ i \in 0 .. N - 1
  BY <1>1, TableIs, TakenIs
<1>3. hash \in 0 .. HashRange - 1
  BY SoundIs, HashOf
<1>4. /\ h \in 0 .. N - 1
      /\ \A n \in 0 .. N - 1 : Nth(t, hash, n) \in 0 .. N - 1 /\ Dist(h, Nth(t, hash, n), N) = n
      /\ \A p \in 0 .. N - 1 : Dist(h, p, N) \in 0 .. N - 1 /\ Nth(t, hash, Dist(h, p, N)) = p
  BY <1>1, <1>3, NthIs
<1>5. HomeOf(t.entries, i, N) = h
  BY DEF HomeOf, EntryAt
<1> HIDE DEF N, hash, h
<1>6. d \in 0 .. N - 1 /\ Nth(t, hash, d) = i
  BY <1>2, <1>4
<1>7. \A m \in 0 .. N - 1 : Nth(t, hash, m) = i => m = d
  BY <1>4
<1>8. ASSUME NEW m \in 0 .. d - 1 PROVE Nth(t, hash, m) \in Taken(t)
  <2>1. m \in 0 .. N - 1 /\ m < d
    BY <1>6, <1>2
  <2>2. Nth(t, hash, m) \in 0 .. N - 1 /\ Dist(h, Nth(t, hash, m), N) < d
    BY <2>1, <1>4
  <2>3. Before(t.entries, i, Nth(t, hash, m), N)
    BY <2>2, <1>5 DEF Before
  <2> QED
    BY <2>2, <2>3, <1>1 DEF Near
<1> QED
  BY <1>3, <1>6, <1>7, <1>8 DEF N, hash, h

\* The first n probes for key came to other keys.
Unlike(t, key, n) ==
  \A m \in 0 .. n - 1 : LET i == Nth(t, Hash[key], m)
                        IN i \in Taken(t) /\ ~ Same(EntryAt(t, i).key, key)

LEMMA StopsIs ==
  ASSUME Sound(table), NEW key \in Keys, NEW n \in Nat
  PROVE  /\ Stops(key, n) \subseteq Nat
         /\ \A m : m \in Stops(key, n) <=>
              LET i == Nth(table, Hash[key], m)
                  e == EntryAt(table, i)
              IN /\ m \in n .. Capacity(table) - 1
                 /\ i \notin Taken(table) \/ (e.hash = Hash[key] /\ (e.key = key \/ ~ Identity))
<1> DEFINE N == Capacity(table)
<1>1. Tabled(table) /\ N \in Nat \ {0}
  BY TableIs DEF Sound
<1>2. \A m \in 0 .. N - 1 : Nth(table, Hash[key], m) \in 0 .. N - 1
  BY <1>1, HashOf, NthIs
<1>3. \A i \in 0 .. N - 1 : EntryAt(table, i).key = None <=> i \notin Taken(table)
  BY DEF Taken, IsFree
<1> HIDE DEF N
<1>4. n .. N - 1 \subseteq 0 .. N - 1 /\ n .. N - 1 \subseteq Nat
  BY <1>1
<1> QED
  BY <1>2, <1>3, <1>4 DEF Stops, N

\* Where a probe that goes on at the n-th entry ends.
LEMMA SearchIs ==
  ASSUME Sound(table), NEW key \in Keys, NEW n \in Nat, Unlike(table, key, n),
         NEW s, s = Search(key, n)
  PROVE  \/ s = [is |-> "absent"] /\ Alone(table, key)
         \/ s = [is |-> "found", at |-> s.at] /\ s.at \in Taken(table) /\ EntryAt(table, s.at).key = key
         \/ /\ s = [is |-> "asks", n |-> s.n, at |-> s.at] /\ s.n \in 0 .. Capacity(table) - 1
            /\ s.at = Nth(table, Hash[key], s.n) /\ s.at \in Taken(table) /\ Unlike(table, key, s.n)
<1> DEFINE N == Capacity(table)
           hash == Hash[key]
           stops == Stops(key, n)
           m == First(stops)
           i == Nth(table, hash, m)
<1>1. Tabled(table) /\ N \in Nat \ {0}
  BY TableIs DEF Sound
<1>2. s = IF stops = {} THEN [is |-> "absent"]
          ELSE IF IsFree(table, i) THEN [is |-> "absent"]
          ELSE IF EntryAt(table, i).key = key THEN [is |-> "found", at |-> i]
          ELSE [is |-> "asks", n |-> m, at |-> i]
  BY DEF Search
<1>3. /\ stops \subseteq Nat
      /\ \A x : x \in stops <=>
           /\ x \in n .. N - 1
           /\ \/ Nth(table, hash, x) \notin Taken(table)
              \/ /\ EntryAt(table, Nth(table, hash, x)).hash = hash
                 /\ EntryAt(table, Nth(table, hash, x)).key = key \/ ~ Identity
  BY StopsIs
<1>4. stops # {} => m \in stops /\ \A x \in stops : m <= x
  BY <1>3, FirstIsLeast
<1> HIDE DEF N, stops, m
<1>5. \A x \in n .. N - 1 : x \notin stops =>
        Nth(table, hash, x) \in Taken(table) /\ ~ Same(EntryAt(table, Nth(table, hash, x)).key, key)
  <2> SUFFICES ASSUME NEW x \in n .. N - 1, x \notin stops
               PROVE  /\ Nth(table, hash, x) \in Taken(table)
                      /\ ~ Same(EntryAt(table, Nth(table, hash, x)).key, key)
    OBVIOUS
  <2> DEFINE e == EntryAt(table, Nth(table, hash, x))
  <2>1. Nth(table, hash, x) \in Taken(table) /\ ~ (e.hash = hash /\ (e.key = key \/ ~ Identity))
    BY <1>3
  <2>2. e.key \in Keys /\ e.hash = Hash[e.key]
    BY <2>1, SoundIs
  <2> HIDE DEF e
  <2>3. ASSUME Same(e.key, key) PROVE FALSE
    <3>1. e.hash = hash
      BY <2>2, <2>3, SameIs
    <3>2. Identity => e.key = key
      BY <2>3 DEF Same
    <3> QED
      BY <2>1, <3>1, <3>2
  <2> QED
    BY <2>1, <2>3 DEF e
<1>6. ASSUME NEW p \in Taken(table), Same(EntryAt(table, p).key, key)
      PROVE  stops # {} /\ i \in Taken(table)
  <2> DEFINE e == EntryAt(table, p)
             d == Dist(Home(hash, N), p, N)
  <2>1. e.key \in Keys /\ e.hash = Hash[e.key]
    BY SoundIs
  <2>2. e.hash = hash
    BY <2>1, <1>6, SameIs
  <2>3. /\ d \in 0 .. N - 1 /\ Nth(table, hash, d) = p
        /\ \A x \in 0 .. d - 1 : Nth(table, hash, x) \in Taken(table)
    BY <2>2, Reached DEF N
  <2> HIDE DEF d
  <2>4. d >= n
    <3>1. SUFFICES ASSUME d < n PROVE FALSE
      BY <2>3
    <3>2. d \in 0 .. n - 1
      BY <2>3, <3>1
    <3> QED
      BY <3>2, <2>3, <1>6 DEF Unlike
  <2>5. d \in n .. N - 1
    BY <2>3, <2>4, <1>1
  <2>6. d \in stops
    BY <2>5, <2>3, <1>5, <1>6
  <2>7. m \in stops /\ m <= d /\ m \in Nat
    BY <2>6, <1>3, <1>4
  <2>8. m = d \/ m \in 0 .. d - 1
    BY <2>3, <2>7
  <2> QED
    BY <2>3, <2>6, <2>8
<1>7. CASE stops = {} \/ IsFree(table, i)
  <2>1. ~ (stops # {} /\ i \in Taken(table))
    BY <1>7 DEF Taken
  <2> QED
    BY <2>1, <1>2, <1>6, <1>7 DEF Alone
<1>8. CASE stops # {} /\ ~ IsFree(table, i)
  <2>1. m \in stops /\ m \in n .. N - 1 /\ m \in 0 .. N - 1
    <3>1. m \in stops /\ m \in n .. N - 1
      BY <1>3, <1>4, <1>8
    <3> QED
      BY <3>1, <1>1
  <2>2. i \in 0 .. N - 1
    BY <2>1, <1>1, HashOf, NthIs DEF N
  <2>3. i \in Taken(table)
    BY <2>2, <1>8 DEF Taken, N
  <2>4. Unlike(table, key, m)
    <3> SUFFICES ASSUME NEW x \in 0 .. m - 1
                 PROVE  /\ Nth(table, hash, x) \in Taken(table)
                        /\ ~ Same(EntryAt(table, Nth(table, hash, x)).key, key)
      BY DEF Unlike
    <3>1. CASE x < n
      <4>1. x \in 0 .. n - 1
        BY <3>1, <2>1
      <4> QED
        BY <4>1 DEF Unlike
    <3>2. CASE x >= n
      <4>1. x \in n .. N - 1 /\ ~ (m <= x)
        BY <3>2, <2>1, <1>1
      <4>2. x \notin stops
        BY <4>1, <1>4, <1>8
      <4> QED
        BY <4>1, <4>2, <1>5
    <3> QED
      BY <3>1, <3>2, <2>1
  <2>5. CASE EntryAt(table, i).key = key
    <3>1. s = [is |-> "found", at |-> i]
      BY <1>2, <1>8, <2>5
    <3> QED
      BY <3>1, <2>3, <2>5
  <2>6. CASE EntryAt(table, i).key # key
    <3>1. s = [is |-> "asks", n |-> m, at |-> i]
      BY <1>2, <1>8, <2>6
    <3> HIDE DEF i
    <3>2. s.n = m /\ s.at = i
      BY <3>1
    <3> QED
      BY <3>1, <3>2, <2>1, <2>3, <2>4 DEF i, N
  <2> QED
    BY <2>5, <2>6
<1> QED
  BY <1>7, <1>8
-----------------------------------------------------------------------------
\* The inductive invariant: the table reads right, and what a call that waits has seen
\* of the present array and generation is so.
AnOp       == {"at:put:", "add:", "removeKey:", "at:"}
Asked      == [op: AnOp, key: Keys, value: Values, n: Nat, at: Nat, array: Nat, gen: Nat, compared: Keys]
Enumerated == [op: {"do:"}, done: BOOLEAN, i: Nat, visited: Seq(Keys), array: Nat, gen: Nat]

Typed ==
  /\ Capacity(table) >= MinCapacity /\ tally \in 0 .. Capacity(table)
  /\ arrays \in Nat /\ table.id <= arrays /\ lies \in Nat
  /\ calls \in [Callers -> {Idle} \cup Asked \cup Enumerated]

\* A call was made in this array and generation, or in earlier ones.
Past(t, call, n) == call.array <= n /\ (call.array = t.id => call.gen <= t.gen)
Present(t, call) == call.array = t.id /\ call.gen = t.gen

\* = is asked of the entry that the n-th probe came to.
AsksAt(t, call) ==
  /\ call.n \in 0 .. Capacity(t) - 1 /\ call.at = Nth(t, Hash[call.key], call.n)
  /\ call.at \in Taken(t) /\ EntryAt(t, call.at).key = call.compared
  /\ Unlike(t, call.key, call.n)

\* The enumeration has been through the entries before i.
KeysAt(t, I) == {EntryAt(t, p).key : p \in I}
HasVisited(t, call) ==
  /\ Len(call.visited) = Cardinality(Below(t, call.i))
  /\ Range(call.visited) = KeysAt(t, Below(t, call.i))
  /\ call.done => Below(t, call.i) = Taken(t)

Fits(t, call, n) ==
  /\ call # Idle => Past(t, call, n)
  /\ call \in Asked /\ Present(t, call) => AsksAt(t, call)
  /\ call \in Enumerated /\ Present(t, call) => HasVisited(t, call)

CallsFit == \A c \in Callers : Fits(table, calls[c], arrays)

IInv == Typed /\ Sound(table) /\ TallyCounts /\ CallsFit

LEMMA CallIs ==
  ASSUME Typed, NEW c \in Callers
  PROVE  /\ calls[c] \in {Idle} \cup Asked \cup Enumerated
         /\ calls[c] \in Asked <=> Asking(c)
         /\ calls[c] \in Enumerated <=> calls[c].op = "do:"
         /\ calls[c] = Idle => ~ Asking(c) /\ calls[c].op # "do:"
<1>1. calls[c] \in {Idle} \cup Asked \cup Enumerated
  BY DEF Typed
<1>2. calls[c] = Idle => calls[c].op = "idle"
  BY DEF Idle
<1>3. calls[c] \in Asked => calls[c].op \in AnOp
  BY DEF Asked
<1>4. calls[c] \in Enumerated => calls[c].op = "do:"
  BY DEF Enumerated
<1> QED
  BY <1>1, <1>2, <1>3, <1>4 DEF Asking, AnOp

\* The invariant says what the run checks.
LEMMA SoundTable == IInv => TableSound
<1> SUFFICES ASSUME IInv PROVE TableSound
  OBVIOUS
<1> DEFINE N == Capacity(table)
           E == table.entries
<1>0. Typed /\ Sound(table) /\ TallyCounts /\ CallsFit
  BY DEF IInv
<1>1. /\ Tabled(table) /\ N \in Nat \ {0} /\ E \in [1 .. N -> Entries] /\ DOMAIN E = 1 .. N
      /\ Apart(E, Taken(table)) /\ table.gen \in Nat
  BY <1>0, TableIs DEF Sound, Reads, Tabled
<1>2. TypeOK
  <2>1. ASSUME NEW e \in Range(E), e.key \in Keys PROVE e.hash = Hash[e.key]
    <3>1. PICK k \in 1 .. N : e = E[k]
      BY <1>1 DEF Range
    <3>2. k - 1 \in 0 .. N - 1 /\ k - 1 + 1 = k
      BY <1>1
    <3>3. EntryAt(table, k - 1) = e
      BY <3>1, <3>2 DEF EntryAt
    <3>4. k - 1 \in Taken(table)
      BY <3>2, <3>3, <2>1, HashOf DEF Taken, IsFree
    <3> QED
      BY <3>3, <3>4, <1>0, SoundIs
  <2> QED
    BY <2>1, <1>0, <1>1 DEF TypeOK, Typed
<1>3. EntriesReachable
  <2> SUFFICES ASSUME NEW i \in 0 .. N - 1, ~ IsFree(table, i)
               PROVE  LET e == EntryAt(table, i)
                          n == First({m \in 0 .. N - 1 : Nth(table, e.hash, m) = i})
                      IN /\ \A m \in 0 .. n - 1 : ~ IsFree(table, Nth(table, e.hash, m))
                         /\ \A j \in 0 .. N - 1 :
                              ~ IsFree(table, j) /\ j # i => ~ Same(EntryAt(table, j).key, e.key)
    BY DEF EntriesReachable
  <2> DEFINE e == EntryAt(table, i)
             hash == e.hash
             ns == {m \in 0 .. N - 1 : Nth(table, hash, m) = i}
             n == First(ns)
             d == Dist(Home(hash, N), i, N)
  <2>1. i \in Taken(table)
    BY DEF Taken
  <2>2. /\ d \in 0 .. N - 1 /\ Nth(table, hash, d) = i
        /\ \A m \in 0 .. N - 1 : Nth(table, hash, m) = i => m = d
        /\ \A m \in 0 .. d - 1 : Nth(table, hash, m) \in Taken(table)
    BY <2>1, <1>0, Reached
  <2> HIDE DEF N, d, hash
  <2>3. ns \subseteq Nat /\ d \in ns
    BY <2>2, <1>1
  <2>4. n \in ns
    BY <2>3, FirstIsLeast
  <2>5. n = d
    BY <2>2, <2>4
  <2> HIDE DEF n
  <2>6. \A m \in 0 .. n - 1 : ~ IsFree(table, Nth(table, hash, m))
    BY <2>2, <2>5 DEF Taken
  <2>7. \A j \in 0 .. N - 1 : ~ IsFree(table, j) /\ j # i => ~ Same(EntryAt(table, j).key, e.key)
    BY <2>1, <1>1 DEF Taken, Apart, EntryAt, N
  <2> QED
    BY <2>6, <2>7 DEF n, N, hash
<1>4. EnumeratesAll
  <2> SUFFICES ASSUME NEW c \in Callers, calls[c].op = "do:", calls[c].done,
                      table.id = calls[c].array, table.gen = calls[c].gen
               PROVE  /\ Len(calls[c].visited) = Cardinality(Taken(table))
                      /\ Range(calls[c].visited) = {EntryAt(table, i).key : i \in Taken(table)}
    BY DEF EnumeratesAll
  <2>1. calls[c] \in Enumerated
    BY <1>0, CallIs
  <2>2. HasVisited(table, calls[c])
    BY <2>1, <1>0 DEF CallsFit, Fits, Present
  <2> QED
    BY <2>2 DEF HasVisited, KeysAt
<1> QED
  BY <1>0, <1>2, <1>3, <1>4 DEF TableSound
-----------------------------------------------------------------------------
\* From one table to the next.

\* The same array and generation, with other values at most.
Alike(t, u) ==
  /\ u.id = t.id /\ u.gen = t.gen /\ Capacity(u) = Capacity(t) /\ Taken(u) = Taken(t)
  /\ \A p \in Taken(t) : EntryAt(u, p).key = EntryAt(t, p).key

\* It is alike, of a later generation, or a new array; there were n arrays and are m.
Onward(t, u, n, m) ==
  \/ m = n /\ Alike(t, u)
  \/ m = n /\ u.id = t.id /\ u.gen > t.gen
  \/ m = n + 1 /\ u.id = m

LEMMA FitsIdle ==
  ASSUME NEW t, NEW n
  PROVE  Fits(t, Idle, n)
<1>1. Idle \notin Asked /\ Idle \notin Enumerated
  <2>1. Idle.op = "idle"
    BY DEF Idle
  <2> QED
    BY <2>1 DEF Asked, Enumerated, AnOp
<1> QED
  BY <1>1 DEF Fits

LEMMA AlikeFits ==
  ASSUME NEW t, NEW u, Alike(t, u), NEW call, NEW n, Fits(t, call, n)
  PROVE  Fits(u, call, n)
<1>1. \A i : Below(u, i) = Below(t, i)
  BY DEF Alike, Below
<1>2. \A i : KeysAt(u, Below(t, i)) = KeysAt(t, Below(t, i))
  <2>1. \A i : \A p \in Below(t, i) : EntryAt(u, p).key = EntryAt(t, p).key
    BY DEF Alike, Below
  <2> QED
    BY <2>1 DEF KeysAt
<1>3. HasVisited(t, call) => HasVisited(u, call)
  <2>1. Taken(u) = Taken(t)
    BY DEF Alike
  <2> QED
    BY <1>1, <1>2, <2>1 DEF HasVisited
<1>4. \A hash, m : Nth(u, hash, m) = Nth(t, hash, m)
  BY DEF Alike, Nth
<1>5. \A key, m : Unlike(t, key, m) => Unlike(u, key, m)
  BY <1>4 DEF Unlike, Alike
<1>6. AsksAt(t, call) => AsksAt(u, call)
  BY <1>4, <1>5 DEF AsksAt, Alike
<1> QED
  BY <1>3, <1>6 DEF Fits, Past, Present, Alike

LEMMA FitsOn ==
  ASSUME NEW t, Tabled(t), NEW u, Tabled(u), NEW n \in Nat, NEW m, Onward(t, u, n, m),
         NEW call \in {Idle} \cup Asked \cup Enumerated, Fits(t, call, n)
  PROVE  Fits(u, call, m)
<1>1. CASE m = n /\ Alike(t, u)
  BY <1>1, AlikeFits
<1>2. CASE call = Idle
  BY <1>2, FitsIdle
<1>3. CASE /\ call # Idle
           /\ \/ m = n /\ u.id = t.id /\ u.gen > t.gen
              \/ m = n + 1 /\ u.id = m
  <2>1. Past(t, call, n) /\ call.array \in Nat /\ call.gen \in Nat
    BY <1>3 DEF Fits, Asked, Enumerated
  <2>2. t.gen \in Nat /\ u.gen \in Nat
    BY DEF Tabled
  <2>3. Past(u, call, m) /\ ~ Present(u, call)
    BY <1>3, <2>1, <2>2 DEF Past, Present
  <2> QED
    BY <2>3 DEF Fits
<1> QED
  BY <1>1, <1>2, <1>3 DEF Onward

LEMMA SoundLater ==
  ASSUME kind' = kind, Sound(table')
  PROVE  Sound(table)'
BY DEF Sound, Reads, Apart, Same, Identity

LEMMA FitsLater ==
  ASSUME kind' = kind, NEW c, Fits(table', calls'[c], arrays')
  PROVE  Fits(table, calls[c], arrays)'
BY DEF Fits, AsksAt, Unlike, Same, Identity

LEMMA StepKeeps ==
  ASSUME IInv, kind' = kind, NEW c \in Callers, NEW call \in {Idle} \cup Asked \cup Enumerated,
         calls' = [calls EXCEPT ![c] = call], Fits(table', call, arrays'),
         Sound(table'), Onward(table, table', arrays, arrays'), Capacity(table') >= Capacity(table),
         tally' \in 0 .. Capacity(table'), lies' \in Nat, arrays' \in Nat, table'.id <= arrays',
         TallyCounts'
  PROVE  IInv'
<1>1. Typed /\ Sound(table) /\ CallsFit
  BY DEF IInv
<1>2. Tabled(table) /\ Tabled(table') /\ Capacity(table) \in Nat /\ Capacity(table') \in Nat
  BY <1>1, TableIs DEF Sound
<1>3. Typed'
  <2>1. Capacity(table') >= MinCapacity
    BY <1>1, <1>2, HashTableAssumption DEF Typed
  <2>2. calls' \in [Callers -> {Idle} \cup Asked \cup Enumerated]
    BY <1>1 DEF Typed
  <2> QED
    BY <2>1, <2>2 DEF Typed
<1>4. ASSUME NEW d \in Callers PROVE Fits(table', calls'[d], arrays')
  <2>1. CASE d = c
    BY <2>1, <1>1 DEF Typed
  <2>2. CASE d # c
    <3>1. calls'[d] = calls[d] /\ calls[d] \in {Idle} \cup Asked \cup Enumerated
      BY <2>2, <1>1 DEF Typed
    <3>2. Fits(table, calls[d], arrays) /\ arrays \in Nat
      BY <1>1 DEF CallsFit, Typed
    <3> QED
      BY <3>1, <3>2, <1>2, FitsOn
  <2> QED
    BY <2>1, <2>2
<1>5. CallsFit'
  <2>1. \A d \in Callers : Fits(table, calls[d], arrays)'
    BY <1>4, FitsLater
  <2> QED
    BY <2>1 DEF CallsFit
<1>6. Sound(table)'
  BY SoundLater
<1> QED
  BY <1>3, <1>5, <1>6 DEF IInv
-----------------------------------------------------------------------------
\* The map that a table is.
Groups == {Class[k] : k \in Keys} \cup Keys
ClassIn(kd, k) ==
  IF k = None THEN None ELSE IF kd \in {"IdentityDictionary", "IdentitySet"} THEN k ELSE Class[k]
HeldIn(kd, t, c) == {i \in DOMAIN t.entries : ClassIn(kd, t.entries[i].key) = c}
ValueOf(t, held) == IF held = {} THEN None ELSE t.entries[First(held)].value
MapIn(kd, t) == [c \in Groups |-> ValueOf(t, HeldIn(kd, t, c))]

LEMMA MapOfIs == MapOf = MapIn(kind, table) /\ MapOf' = MapIn(kind', table')
<1>1. MapOf = MapIn(kind, table)
  BY DEF MapOf, MapIn, Groups, ValueIn, ValueOf, Holds, HeldIn, ClassOf, ClassIn, Identity
<1>2. MapOf' = MapIn(kind', table')
  BY DEF MapOf, MapIn, Groups, ValueIn, ValueOf, Holds, HeldIn, ClassOf, ClassIn, Identity
<1> QED
  BY <1>1, <1>2

LEMMA ClassIs ==
  ASSUME NEW k
  PROVE  /\ ClassOf(k) = ClassIn(kind, k)
         /\ k \in Keys => ClassOf(k) \in Groups /\ ClassOf(k) # None
<1>1. ClassOf(k) = ClassIn(kind, k)
  BY DEF ClassOf, ClassIn, Identity
<1>2. k \in Keys => ClassOf(k) \in Groups /\ ClassOf(k) # None
  BY HashTableAssumption DEF ClassOf, Groups
<1> QED
  BY <1>1, <1>2

LEMMA MapIs ==
  ASSUME NEW t, Sound(t), NEW c \in Groups
  PROVE  /\ (\A e \in StoredIn(t) : ClassOf(e.key) # c) => MapIn(kind, t)[c] = None
         /\ \A e \in StoredIn(t) : ClassOf(e.key) = c => MapIn(kind, t)[c] = e.value
<1> DEFINE N == Capacity(t)
           E == t.entries
           H == HeldIn(kind, t, c)
<1>1. N \in Nat \ {0} /\ DOMAIN E = 1 .. N /\ Apart(E, Taken(t))
  BY TableIs DEF Sound, Reads
<1>2. MapIn(kind, t)[c] = IF H = {} THEN None ELSE E[First(H)].value
  BY DEF MapIn, ValueOf
<1>3. c # None
  BY HashTableAssumption DEF Groups
<1>4. ASSUME NEW k \in H
      PROVE  k \in Nat /\ k - 1 \in Taken(t) /\ E[k] \in StoredIn(t) /\ ClassOf(E[k].key) = c
  <2>1. k \in 1 .. N /\ ClassOf(E[k].key) = c
    BY <1>1, ClassIs DEF HeldIn
  <2>2. E[k].key # None
    BY <2>1, <1>3 DEF ClassOf
  <2>3. k - 1 \in 0 .. N - 1 /\ k - 1 + 1 = k
    BY <2>1, <1>1
  <2>4. k - 1 \in Taken(t)
    BY <2>2, <2>3 DEF Taken, IsFree, EntryAt
  <2>5. E[k] \in StoredIn(t)
    BY <2>3, <2>4 DEF StoredIn, Stored
  <2> QED
    BY <2>1, <2>4, <2>5, <1>1
<1>5. ASSUME NEW e \in StoredIn(t), ClassOf(e.key) = c PROVE \E k \in H : e = E[k]
  <2>1. PICK p \in Taken(t) : e = E[p + 1]
    BY DEF StoredIn, Stored
  <2>2. p + 1 \in 1 .. N
    BY <1>1, TakenIs
  <2>3. p + 1 \in H
    BY <2>1, <2>2, <1>1, <1>5, ClassIs DEF HeldIn
  <2> QED
    BY <2>1, <2>3
<1>6. \A k, l \in H : k = l
  <2> SUFFICES ASSUME NEW k \in H, NEW l \in H, k # l PROVE FALSE
    OBVIOUS
  <2>1. /\ k \in Nat /\ k - 1 \in Taken(t) /\ E[k] \in StoredIn(t) /\ ClassOf(E[k].key) = c
        /\ l \in Nat /\ l - 1 \in Taken(t) /\ E[l] \in StoredIn(t) /\ ClassOf(E[l].key) = c
    BY <1>4
  <2>2. E[k].key \in Keys /\ E[l].key \in Keys
    BY <2>1 DEF Sound, Put
  <2>3. Same(E[k].key, E[l].key)
    BY <2>1, <2>2, SameIs
  <2>4. k - 1 # l - 1 /\ k - 1 + 1 = k /\ l - 1 + 1 = l
    BY <2>1
  <2>5. ~ Same(E[k - 1 + 1].key, E[l - 1 + 1].key)
    BY <2>1, <2>4, <1>1 DEF Apart
  <2> QED
    BY <2>3, <2>4, <2>5
<1> HIDE DEF H, E
<1>7. (\A e \in StoredIn(t) : ClassOf(e.key) # c) => MapIn(kind, t)[c] = None
  BY <1>2, <1>4
<1>8. ASSUME NEW e \in StoredIn(t), ClassOf(e.key) = c PROVE MapIn(kind, t)[c] = e.value
  <2>1. PICK k \in H : e = E[k]
    BY <1>5, <1>8
  <2>2. H \subseteq Nat
    BY <1>4
  <2>3. First(H) \in H
    BY <2>1, <2>2, FirstIsLeast
  <2>4. First(H) = k
    BY <2>3, <1>6
  <2> QED
    BY <2>1, <2>4, <1>2
<1> QED
  BY <1>7, <1>8

\* Only what a table holds of one class has changed.
LEMMA MapChanges ==
  ASSUME NEW t, Sound(t), NEW u, Sound(u), NEW c \in Groups, NEW v, MapIn(kind, u)[c] = v,
         \A e \in Put : ClassOf(e.key) # c => (e \in StoredIn(t) <=> e \in StoredIn(u))
  PROVE  MapIn(kind, u) = [MapIn(kind, t) EXCEPT ![c] = v]
<1> DEFINE M == MapIn(kind, t)
           W == MapIn(kind, u)
<1>1. DOMAIN M = Groups /\ DOMAIN W = Groups
      /\ M = [d \in Groups |-> M[d]] /\ W = [d \in Groups |-> W[d]]
  BY DEF MapIn
<1>2. ASSUME NEW d \in Groups, d # c PROVE W[d] = M[d]
  <2>1. StoredIn(t) \subseteq Put /\ StoredIn(u) \subseteq Put
    BY DEF Sound
  <2>2. \A e \in Put : ClassOf(e.key) = d => (e \in StoredIn(t) <=> e \in StoredIn(u))
    BY <1>2
  <2>3. CASE \E e \in StoredIn(t) : ClassOf(e.key) = d
    <3>1. PICK e \in StoredIn(t) : ClassOf(e.key) = d
      BY <2>3
    <3>2. e \in StoredIn(u)
      BY <2>1, <2>2, <3>1
    <3> QED
      BY <3>1, <3>2, MapIs
  <2>4. CASE \A e \in StoredIn(t) : ClassOf(e.key) # d
    <3>1. \A e \in StoredIn(u) : ClassOf(e.key) # d
      BY <2>1, <2>2, <2>4
    <3> QED
      BY <3>1, <2>4, MapIs
  <2> QED
    BY <2>3, <2>4
<1> HIDE DEF M, W
<1> QED
  <2>1. W = [M EXCEPT ![c] = v]
    BY <1>1, <1>2 DEF W
  <2> QED
    BY <2>1 DEF W, M
-----------------------------------------------------------------------------
\* What the operations do to the table and to the map.

LEMMA AloneIs ==
  ASSUME NEW t, Sound(t), NEW key \in Keys
  PROVE  Alone(t, key) <=> \A e \in StoredIn(t) : ClassOf(e.key) # ClassOf(key)
<1>1. \A e \in StoredIn(t) : e.key \in Keys
  BY DEF Sound, Put
<1>2. Alone(t, key) <=> \A e \in StoredIn(t) : ~ Same(e.key, key)
  BY DEF Alone, StoredIn, Stored, EntryAt
<1> QED
  BY <1>1, <1>2, SameIs

LEMMA AbsentIs ==
  ASSUME NEW t, Sound(t), NEW key \in Keys, Alone(t, key)
  PROVE  MapIn(kind, t)[ClassOf(key)] = None
BY AloneIs, ClassIs, MapIs

LEMMA HeldIs ==
  ASSUME NEW t, Sound(t), NEW i \in Taken(t)
  PROVE  MapIn(kind, t)[ClassOf(EntryAt(t, i).key)] = EntryAt(t, i).value
BY SoundIs, ClassIs, MapIs

LEMMA Puts ==
  ASSUME NEW t, Sound(t), NEW key \in Keys, NEW value \in Values, Alone(t, key),
         FreeEntry(t, Hash[key]) # NoEntry
  PROVE  LET u == PutEntry(t, FreeEntry(t, Hash[key]), key, value)
         IN /\ Sound(u) /\ u.id = t.id /\ u.gen = t.gen + 1 /\ Capacity(u) = Capacity(t)
            /\ Cardinality(Taken(u)) = Cardinality(Taken(t)) + 1
            /\ MapIn(kind, u) = [MapIn(kind, t) EXCEPT ![ClassOf(key)] = value]
<1> DEFINE f == FreeEntry(t, Hash[key])
           u == PutEntry(t, f, key, value)
           e == NewEntry(key, value)
           c == ClassOf(key)
<1>1. /\ Sound(u) /\ u.id = t.id /\ u.gen = t.gen + 1 /\ Capacity(u) = Capacity(t)
      /\ f \notin Taken(t) /\ Taken(u) = With(Taken(t), f)
      /\ StoredIn(u) = With(StoredIn(t), e)
  BY Insertion
<1> HIDE DEF u
<1>2. Cardinality(Taken(u)) = Cardinality(Taken(t)) + 1
  <2> DEFINE T == Taken(t)
  <2>1. IsFiniteSet(T)
    BY TakenFinite DEF Sound
  <2> HIDE DEF T, f
  <2>2. Cardinality(With(T, f)) = Cardinality(T) + 1
    BY <1>1, <2>1, FS_AddElement DEF With, T
  <2> QED
    BY <1>1, <2>2 DEF T
<1>3. e.key = key /\ e.value = value
  BY DEF NewEntry
<1> HIDE DEF e, f
<1>4. c \in Groups
  BY ClassIs
<1>5. e \in StoredIn(u) /\ ClassOf(e.key) = c
  BY <1>1, <1>3 DEF With
<1>6. MapIn(kind, u)[c] = value
  BY <1>1, <1>3, <1>4, <1>5, MapIs
<1>7. \A d \in Put : ClassOf(d.key) # c => (d \in StoredIn(t) <=> d \in StoredIn(u))
  BY <1>1, <1>5 DEF With
<1> HIDE DEF c
<1>8. MapIn(kind, u) = [MapIn(kind, t) EXCEPT ![c] = value]
  BY <1>1, <1>4, <1>6, <1>7, MapChanges
<1> QED
  BY <1>1, <1>2, <1>8 DEF u, c, f

LEMMA Removes ==
  ASSUME NEW t, Sound(t), NEW i \in Taken(t)
  PROVE  LET u == RemoveEntry(t, i)
         IN /\ Sound(u) /\ u.id = t.id /\ u.gen = t.gen + 1 /\ Capacity(u) = Capacity(t)
            /\ Cardinality(Taken(u)) = Cardinality(Taken(t)) - 1
            /\ MapIn(kind, u) = [MapIn(kind, t) EXCEPT ![ClassOf(EntryAt(t, i).key)] = None]
<1> DEFINE u == RemoveEntry(t, i)
           c == ClassOf(EntryAt(t, i).key)
           E == t.entries
           T == Taken(t)
<1>1. /\ Tabled(t) /\ Apart(E, T) /\ Reads(t) /\ StoredIn(t) = Stored(E, T) /\ StoredIn(t) \subseteq Put
  BY DEF Sound, Reads, StoredIn
<1>2. /\ Tabled(u) /\ u.id = t.id /\ u.gen = t.gen + 1 /\ Capacity(u) = Capacity(t) /\ Reads(u)
      /\ \E h \in T : Taken(u) = Without(T, h)
      /\ StoredIn(u) = Stored(E, Without(T, i))
  BY <1>1, Removal
<1> HIDE DEF u
<1>3. StoredIn(u) \subseteq StoredIn(t)
  BY <1>1, <1>2 DEF Stored, Without
<1>4. Sound(u)
  BY <1>1, <1>2, <1>3 DEF Sound
<1>5. Cardinality(Taken(u)) = Cardinality(T) - 1
  BY <1>1, <1>2, TakenFinite, FS_RemoveElement DEF Without
<1>6. EntryAt(t, i).key \in Keys /\ EntryAt(t, i) = E[i + 1]
  BY SoundIs
<1>7. c \in Groups
  BY <1>6, ClassIs
<1>8. ASSUME NEW d \in StoredIn(u) PROVE ClassOf(d.key) # c
  <2>1. PICK p \in Without(T, i) : d = E[p + 1]
    BY <1>2 DEF Stored
  <2>2. p \in T /\ p # i
    BY DEF Without
  <2>3. ~ Same(d.key, EntryAt(t, i).key)
    BY <2>1, <2>2, <1>1, <1>6 DEF Apart
  <2>4. d.key \in Keys
    BY <1>1, <1>3 DEF Put
  <2> QED
    BY <2>3, <2>4, <1>6, SameIs
<1>9. \A d \in StoredIn(t) : ClassOf(d.key) # c => d \in StoredIn(u)
  BY <1>1, <1>2, <1>6 DEF Stored, Without
<1> HIDE DEF c
<1>10. MapIn(kind, u)[c] = None
  BY <1>4, <1>7, <1>8, MapIs
<1>11. \A d \in Put : ClassOf(d.key) # c => (d \in StoredIn(t) <=> d \in StoredIn(u))
  BY <1>3, <1>9
<1>12. MapIn(kind, u) = [MapIn(kind, t) EXCEPT ![c] = None]
  BY <1>4, <1>7, <1>10, <1>11, MapChanges
<1> QED
  BY <1>2, <1>4, <1>5, <1>12 DEF u, c

LEMMA Overwrites ==
  ASSUME NEW t, Sound(t), NEW i \in Taken(t), NEW value \in Values
  PROVE  LET u == [t EXCEPT !.entries[i + 1].value = value]
         IN /\ Sound(u) /\ Alike(t, u)
            /\ MapIn(kind, u) = [MapIn(kind, t) EXCEPT ![ClassOf(EntryAt(t, i).key)] = value]
<1> DEFINE N == Capacity(t)
           E == t.entries
           T == Taken(t)
           e == [E[i + 1] EXCEPT !.value = value]
           F == [E EXCEPT ![i + 1] = e]
           u == [t EXCEPT !.entries[i + 1].value = value]
           c == ClassOf(EntryAt(t, i).key)
<1>1. /\ Tabled(t) /\ N \in Nat \ {0} /\ E \in [1 .. N -> Entries] /\ DOMAIN E = 1 .. N /\ Near(E, T, T, N) /\ Apart(E, T)
      /\ StoredIn(t) = Stored(E, T) /\ StoredIn(t) \subseteq Put /\ T = TakenIn(E, N) /\ T \subseteq 0 .. N - 1
  BY TableIs, TakenIs DEF Sound, Reads, StoredIn
<1>2. /\ i \in 0 .. N - 1 /\ EntryAt(t, i) = E[i + 1] /\ E[i + 1] \in Put /\ E[i + 1].key \in Keys
  BY SoundIs
<1>3. /\ e \in Put /\ e \in Entries /\ e.key = E[i + 1].key /\ e.hash = E[i + 1].hash /\ e.value = value
  BY <1>2 DEF Put, Entries
<1>4. u = [t EXCEPT !.entries = F]
  OBVIOUS
<1> HIDE DEF e, E, N, T
<1>5. F \in [1 .. N -> Entries]
  BY <1>1, <1>3
<1>6. \A p \in 0 .. N - 1 : F[p + 1] = IF p = i THEN e ELSE E[p + 1]
  <2> SUFFICES ASSUME NEW p \in 0 .. N - 1 PROVE F[p + 1] = IF p = i THEN e ELSE E[p + 1]
    OBVIOUS
  <2>1. p + 1 \in 1 .. N /\ (p + 1 = i + 1 <=> p = i)
    BY <1>1, <1>2
  <2> QED
    BY <2>1, <1>1
<1> HIDE DEF F, u
<1>7. Tabled(u) /\ u.id = t.id /\ u.gen = t.gen /\ u.entries = F /\ Capacity(u) = N
  BY <1>1, <1>4, <1>5, OtherEntries DEF N
<1>8. \A p \in 0 .. N - 1 : F[p + 1].key = E[p + 1].key /\ F[p + 1].hash = E[p + 1].hash
  BY <1>3, <1>6
<1>9. Taken(u) = T
  BY <1>1, <1>7, <1>8, TakenIs DEF TakenIn
<1>10. Near(F, T, T, N)
  <2>1. \A x \in T, p \in 0 .. N - 1 : Before(F, x, p, N) <=> Before(E, x, p, N)
    BY <1>1, <1>8 DEF Before, HomeOf
  <2> QED
    BY <2>1, <1>1 DEF Near
<1>11. Apart(F, T)
  BY <1>1, <1>8 DEF Apart
<1>12. \A p \in T : F[p + 1] = IF p = i THEN e ELSE E[p + 1]
  BY <1>1, <1>6
<1>13. StoredIn(u) \subseteq Put
  BY <1>1, <1>3, <1>7, <1>9, <1>12 DEF StoredIn, Stored
<1>14. Sound(u)
  BY <1>7, <1>9, <1>10, <1>11, <1>13 DEF Sound, Reads
<1>15. Alike(t, u)
  BY <1>1, <1>7, <1>8, <1>9 DEF Alike, EntryAt, E, N, T
<1>16. c \in Groups
  BY <1>2, ClassIs
<1>17. e \in StoredIn(u) /\ ClassOf(e.key) = c
  <2>1. i \in T
    BY DEF T
  <2> QED
    BY <2>1, <1>2, <1>3, <1>7, <1>9, <1>12 DEF StoredIn, Stored
<1>18. MapIn(kind, u)[c] = value
  BY <1>3, <1>14, <1>16, <1>17, MapIs
<1>19. ASSUME NEW d \in Put, ClassOf(d.key) # c PROVE d \in StoredIn(t) <=> d \in StoredIn(u)
  <2>1. d # e /\ d # E[i + 1]
    BY <1>2, <1>17, <1>19
  <2> QED
    BY <2>1, <1>1, <1>7, <1>9, <1>12 DEF StoredIn, Stored
<1> HIDE DEF c
<1>20. MapIn(kind, u) = [MapIn(kind, t) EXCEPT ![c] = value]
  BY <1>14, <1>16, <1>18, <1>19, MapChanges
<1> QED
  BY <1>14, <1>15, <1>20 DEF u, c
-----------------------------------------------------------------------------
\* What an operation that ends is of the map.
View   == [op |-> answer.op, class |-> ClassOf(answer.key), value |-> answer.value]
Mapped == [P!Next]_<<MapOf, View>>

Basic(call) == call.op \in AnOp /\ call.key \in Keys /\ call.value \in Values

LEMMA ViewIs ==
  ASSUME kind' = kind, NEW op, NEW key \in Keys, NEW value,
         answer' = [op |-> op, key |-> key, value |-> value]
  PROVE  /\ P!Answer(op, ClassOf(key), value)
         /\ ClassOf(key) \in Groups
<1>1. View' = [op |-> op, class |-> ClassOf(key), value |-> value]
  BY DEF View, ClassOf, Identity
<1>2. P!Answer(op, ClassOf(key), value)
  BY <1>1 DEF P!Answer, View
<1> QED
  BY <1>2, ClassIs

LEMMA PutIs ==
  ASSUME kind' = kind, NEW key \in Keys, NEW value \in Values,
         answer' = [op |-> "at:put:", key |-> key, value |-> value],
         MapIn(kind, table') = [MapIn(kind, table) EXCEPT ![ClassOf(key)] = value]
  PROVE  Mapped
<1> DEFINE c == ClassOf(key)
<1>1. P!Answer("at:put:", c, value) /\ c \in Groups
  BY ViewIs
<1>2. MapOf' = [MapOf EXCEPT ![c] = value]
  BY MapOfIs
<1> HIDE DEF c
<1>3. P!Put(c, value)
  BY <1>1, <1>2 DEF P!Put
<1> QED
  BY <1>1, <1>3 DEF P!Next, P!Operation, P!Answer, View, Mapped, Groups, Values

LEMMA AddIs ==
  ASSUME kind' = kind, NEW key \in Keys, NEW value \in Values,
         answer' = [op |-> "add:", key |-> key, value |-> value],
         \/ /\ MapIn(kind, table)[ClassOf(key)] = None
            /\ MapIn(kind, table') = [MapIn(kind, table) EXCEPT ![ClassOf(key)] = value]
         \/ /\ MapIn(kind, table)[ClassOf(key)] # None
            /\ MapIn(kind, table') = MapIn(kind, table)
  PROVE  Mapped
<1> DEFINE c == ClassOf(key)
           M == MapIn(kind, table)
<1>1. P!Answer("add:", c, value) /\ c \in Groups
  BY ViewIs
<1>2. MapOf' = MapIn(kind, table') /\ MapOf = M
  BY MapOfIs
<1>3. DOMAIN M = Groups /\ M = [d \in Groups |-> M[d]]
  BY DEF MapIn
<1> HIDE DEF c, M
<1>4. MapOf' = [M EXCEPT ![c] = IF M[c] = None THEN value ELSE M[c]]
  <2>1. CASE M[c] = None /\ MapIn(kind, table') = [M EXCEPT ![c] = value]
    BY <2>1, <1>2
  <2>2. CASE M[c] # None /\ MapIn(kind, table') = M
    <3>1. M = [M EXCEPT ![c] = M[c]]
      BY <1>3
    <3> QED
      BY <2>2, <3>1, <1>2
  <2> QED
    BY <2>1, <2>2 DEF c, M
<1>5. P!Add(c, value)
  BY <1>1, <1>2, <1>4 DEF P!Add
<1> QED
  BY <1>1, <1>5 DEF P!Next, P!Operation, P!Answer, View, Mapped, Groups, Values

LEMMA RemoveIs ==
  ASSUME kind' = kind, NEW key \in Keys,
         answer' = [op |-> "removeKey:", key |-> key, value |-> MapIn(kind, table)[ClassOf(key)]],
         MapIn(kind, table') = [MapIn(kind, table) EXCEPT ![ClassOf(key)] = None]
  PROVE  Mapped
<1> DEFINE c == ClassOf(key)
           v == MapIn(kind, table)[c]
<1>1. P!Answer("removeKey:", c, v) /\ c \in Groups
  BY ViewIs
<1>2. MapOf' = [MapOf EXCEPT ![c] = None] /\ v = MapOf[c]
  BY MapOfIs
<1> HIDE DEF c, v
<1>3. P!Remove(c)
  BY <1>1, <1>2 DEF P!Remove
<1> QED
  BY <1>1, <1>3 DEF P!Next, P!Operation, P!Answer, View, Mapped, Groups

LEMMA FindIs ==
  ASSUME kind' = kind, NEW key \in Keys,
         answer' = [op |-> "at:", key |-> key, value |-> MapIn(kind, table)[ClassOf(key)]],
         MapIn(kind, table') = MapIn(kind, table)
  PROVE  Mapped
<1> DEFINE c == ClassOf(key)
           v == MapIn(kind, table)[c]
<1>1. P!Answer("at:", c, v) /\ c \in Groups
  BY ViewIs
<1>2. MapOf' = MapOf /\ v = MapOf[c]
  BY MapOfIs
<1> HIDE DEF c, v
<1>3. P!Find(c)
  BY <1>1, <1>2 DEF P!Find
<1> QED
  BY <1>1, <1>3 DEF P!Next, P!Operation, P!Answer, View, Mapped, Groups

LEMMA FailsIs ==
  ASSUME kind' = kind, NEW key \in Keys, NEW op \in AnOp,
         answer' = [op |-> op, key |-> key, value |-> "failed"],
         MapIn(kind, table') = MapIn(kind, table)
  PROVE  Mapped
<1> DEFINE c == ClassOf(key)
<1>1. P!Answer(op, c, "failed") /\ c \in Groups
  BY ViewIs
<1>2. MapOf' = MapOf
  BY MapOfIs
<1> HIDE DEF c
<1>3. P!Fails(op, c)
  BY <1>1, <1>2 DEF P!Fails
<1> QED
  BY <1>1, <1>3 DEF P!Next, P!Operation, P!Answer, View, Mapped, Groups, AnOp

LEMMA NothingIs ==
  ASSUME kind' = kind, answer' = answer, MapIn(kind, table') = MapIn(kind, table)
  PROVE  Mapped
<1>1. MapOf' = MapOf
  BY MapOfIs
<1>2. View' = View
  BY DEF View, ClassOf, Identity
<1> QED
  BY <1>1, <1>2 DEF Mapped
-----------------------------------------------------------------------------
\* The steps of an operation.

\* The facts that a step starts from.
Steps(c, call) == IInv /\ kind' = kind /\ lies' = lies /\ c \in Callers /\ Basic(call)

LEMMA InvIs ==
  ASSUME IInv
  PROVE  /\ Sound(table) /\ Tabled(table) /\ Capacity(table) \in Nat \ {0}
         /\ arrays \in Nat /\ table.id \in Nat /\ table.id <= arrays /\ table.gen \in Nat /\ lies \in Nat
         /\ tally \in 0 .. Capacity(table)
         /\ IsFiniteSet(Taken(table)) /\ Cardinality(Taken(table)) \in 0 .. Capacity(table)
         /\ lies = 0 => /\ tally = Cardinality(Taken(table))
                        /\ Cardinality(Taken(table)) * 4 <= Capacity(table) * 3
<1>1. Sound(table) /\ Tabled(table)
  BY DEF IInv, Sound
<1>2. Capacity(table) \in Nat \ {0} /\ table.id \in Nat /\ table.gen \in Nat
  BY <1>1, TableIs DEF Tabled
<1>3. arrays \in Nat /\ table.id <= arrays /\ lies \in Nat /\ tally \in 0 .. Capacity(table)
  BY DEF IInv, Typed
<1>4. IsFiniteSet(Taken(table)) /\ Cardinality(Taken(table)) \in 0 .. Capacity(table)
  BY <1>1, TakenFinite
<1>5. lies = 0 => /\ tally = Cardinality(Taken(table))
                  /\ Cardinality(Taken(table)) * 4 <= Capacity(table) * 3
  BY DEF IInv, TallyCounts
<1> QED
  BY <1>1, <1>2, <1>3, <1>4, <1>5

\* The operation ends, or another call is made, and the table holds the same entries.
LEMMA TableStays ==
  ASSUME IInv, kind' = kind, lies' = lies, NEW c \in Callers,
         NEW call \in {Idle} \cup Asked \cup Enumerated, calls' = [calls EXCEPT ![c] = call],
         Sound(table'), Alike(table, table'), tally' = tally, arrays' = arrays,
         Fits(table', call, arrays)
  PROVE  IInv'
<1>1. table'.id <= arrays /\ Capacity(table') = Capacity(table) /\ Taken(table') = Taken(table)
  BY InvIs DEF Alike
<1>2. TallyCounts'
  BY <1>1, InvIs DEF TallyCounts
<1>3. Onward(table, table', arrays, arrays')
  BY DEF Onward
<1>4. Capacity(table') >= Capacity(table) /\ tally' \in 0 .. Capacity(table') /\ lies' \in Nat /\ arrays' \in Nat
  BY <1>1, InvIs
<1> QED
  BY <1>1, <1>2, <1>3, <1>4, StepKeeps

LEMMA EndsStill ==
  ASSUME NEW c, NEW call, Steps(c, call), NEW value, Ends(c, call, value),
         UNCHANGED <<table, tally, arrays>>
  PROVE  IInv' /\ answer' = [op |-> call.op, key |-> call.key, value |-> value]
<1>1. calls' = [calls EXCEPT ![c] = Idle] /\ answer' = [op |-> call.op, key |-> call.key, value |-> value]
  BY DEF Ends
<1>2. Alike(table, table') /\ Sound(table') /\ Fits(table', Idle, arrays)
  BY InvIs, FitsIdle DEF Alike, Steps
<1> QED
  BY <1>1, <1>2, TableStays DEF Steps

LEMMA InsertsKeeps ==
  ASSUME NEW c, NEW call, Steps(c, call), call.op \in {"at:put:", "add:"}, Alone(table, call.key),
         Inserts(c, call)
  PROVE  IInv' /\ Mapped
<1> DEFINE key == call.key
           value == call.value
           t == table
<1>1. /\ IInv /\ kind' = kind /\ lies' = lies /\ c \in Callers
      /\ key \in Keys /\ value \in Values /\ call.op \in AnOp
  BY DEF Steps, Basic
<1>2. MapIn(kind, t)[ClassOf(key)] = None
  BY <1>1, InvIs, AbsentIs
<1>3. ASSUME Ends(c, call, value),
             MapIn(kind, table') = [MapIn(kind, t) EXCEPT ![ClassOf(key)] = value]
      PROVE  Mapped
  <2>1. answer' = [op |-> call.op, key |-> key, value |-> value]
    BY <1>3 DEF Ends
  <2>2. CASE call.op = "at:put:"
    BY <2>1, <2>2, <1>1, <1>3, PutIs
  <2>3. CASE call.op = "add:"
    BY <2>1, <2>3, <1>1, <1>2, <1>3, AddIs
  <2> QED
    BY <2>2, <2>3
<1>4. CASE /\ ~ Grows(key)
           /\ table' = Inserted(t, call) /\ tally' = tally + 1
           /\ Ends(c, call, value) /\ UNCHANGED arrays
  <2>1. FreeEntry(t, Hash[key]) # NoEntry /\ ~ MustGrow(t, tally)
    BY <1>4 DEF Grows
  <2>2. table' = PutEntry(t, FreeEntry(t, Hash[key]), key, value)
    BY <1>4 DEF Inserted
  <2>3. /\ Sound(table') /\ table'.id = t.id /\ table'.gen = t.gen + 1 /\ Capacity(table') = Capacity(t)
        /\ Cardinality(Taken(table')) = Cardinality(Taken(t)) + 1
        /\ MapIn(kind, table') = [MapIn(kind, t) EXCEPT ![ClassOf(key)] = value]
    BY <2>1, <2>2, <1>1, InvIs, Puts
  <2>4. (tally + 1) * 4 <= Capacity(t) * 3
    BY <2>1, <1>1, InvIs DEF MustGrow
  <2>5. tally' \in 0 .. Capacity(table') /\ table'.gen > t.gen /\ table'.id <= arrays'
    BY <2>3, <2>4, <1>1, <1>4, InvIs
  <2>6. TallyCounts'
    <3>1. lies = 0 => /\ tally' = Cardinality(Taken(table'))
                      /\ Cardinality(Taken(table')) * 4 <= Capacity(table') * 3
      BY <2>3, <2>4, <1>1, <1>4, InvIs
    <3> QED
      BY <3>1, <1>1 DEF TallyCounts
  <2>7. Onward(t, table', arrays, arrays')
    BY <2>3, <2>5, <1>4 DEF Onward
  <2>8. calls' = [calls EXCEPT ![c] = Idle] /\ Fits(table', Idle, arrays')
    BY <1>4, FitsIdle DEF Ends
  <2>9. Capacity(table') >= Capacity(t) /\ lies' \in Nat /\ arrays' \in Nat
    BY <2>3, <1>1, <1>4, InvIs
  <2>10. IInv'
    BY <2>3, <2>5, <2>6, <2>7, <2>8, <2>9, <1>1, StepKeeps
  <2> QED
    BY <2>3, <2>10, <1>3, <1>4
<1>5. CASE /\ Grows(key)
           /\ table' = Inserted(Grow(t, arrays + 1), call) /\ arrays' = arrays + 1
           /\ tally' = Cardinality(Taken(t)) + 1 /\ Ends(c, call, value)
  <2> DEFINE g == Grow(t, arrays + 1)
             N == Capacity(t)
             n == Cardinality(Taken(t))
  <2>1. arrays + 1 \in Nat /\ Sound(t) /\ N \in Nat \ {0} /\ n \in 0 .. N
    BY <1>1, InvIs
  <2>2. /\ Sound(g) /\ g.id = arrays + 1 /\ g.gen = 0 /\ Capacity(g) = N * 2
        /\ StoredIn(g) = StoredIn(t) /\ Cardinality(Taken(g)) = n
    BY <2>1, Growth
  <2> HIDE DEF g, N, n
  <2>3. FreeEntry(g, Hash[key]) # NoEntry
    <3>1. Cardinality(Taken(g)) # Capacity(g)
      BY <2>1, <2>2
    <3>2. Tabled(g)
      BY <2>2 DEF Sound
    <3>3. Taken(g) # 0 .. Capacity(g) - 1
      BY <3>1, <3>2, TakenFinite
    <3>4. Hash[key] \in 0 .. HashRange - 1
      BY <1>1, HashOf
    <3>5. FreeEntry(g, Hash[key]) = NoEntry => Taken(g) = 0 .. Capacity(g) - 1
      BY <3>2, <3>4, FreeEntryIs
    <3> QED
      BY <3>3, <3>5
  <2>4. Alone(g, key)
    BY <2>1, <2>2, <1>1, AloneIs
  <2>5. table' = PutEntry(g, FreeEntry(g, Hash[key]), key, value)
    BY <1>5 DEF Inserted, g
  <2>6. /\ Sound(table') /\ table'.id = arrays + 1 /\ Capacity(table') = N * 2
        /\ Cardinality(Taken(table')) = n + 1
        /\ MapIn(kind, table') = [MapIn(kind, g) EXCEPT ![ClassOf(key)] = value]
    BY <2>2, <2>3, <2>4, <2>5, <1>1, Puts
  <2>7. MapIn(kind, table') = [MapIn(kind, t) EXCEPT ![ClassOf(key)] = value]
    <3> DEFINE d == ClassOf(key)
    <3>1. MapIn(kind, g)[d] = None /\ d \in Groups
      BY <2>2, <2>4, <1>1, AbsentIs, ClassIs
    <3>2. \A e \in Put : ClassOf(e.key) # d => (e \in StoredIn(t) <=> e \in StoredIn(g))
      BY <2>2
    <3> HIDE DEF d
    <3>3. MapIn(kind, g) = [MapIn(kind, t) EXCEPT ![d] = None]
      BY <2>1, <2>2, <3>1, <3>2, MapChanges
    <3>4. [[MapIn(kind, t) EXCEPT ![d] = None] EXCEPT ![d] = value] = [MapIn(kind, t) EXCEPT ![d] = value]
      OBVIOUS
    <3> QED
      BY <2>6, <3>3, <3>4 DEF d
  <2>8. tally' = n + 1 /\ tally' \in 0 .. Capacity(table') /\ table'.id <= arrays'
        /\ Capacity(table') >= N /\ arrays' \in Nat /\ lies' \in Nat
    BY <2>1, <2>6, <1>1, <1>5, InvIs DEF n
  <2>9. TallyCounts'
    <3>1. lies = 0 => n * 4 <= N * 3
      BY <1>1, InvIs DEF n, N
    <3>2. lies = 0 => (n + 1) * 4 <= (N * 2) * 3
      BY <3>1, <2>1
    <3> QED
      BY <3>2, <2>6, <2>8, <1>1 DEF TallyCounts
  <2>10. Onward(t, table', arrays, arrays')
    BY <2>6, <1>5 DEF Onward
  <2>11. calls' = [calls EXCEPT ![c] = Idle] /\ Fits(table', Idle, arrays')
    BY <1>5, FitsIdle DEF Ends
  <2>12. IInv'
    BY <2>6, <2>8, <2>9, <2>10, <2>11, <1>1, StepKeeps DEF N
  <2> QED
    BY <2>7, <2>12, <1>3, <1>5
<1>6. CASE Ends(c, call, "failed") /\ UNCHANGED <<table, tally, arrays>>
  <2>1. IInv' /\ answer' = [op |-> call.op, key |-> key, value |-> "failed"]
    BY <1>6, EndsStill
  <2>2. Mapped
    BY <2>1, <1>1, <1>6, FailsIs
  <2> QED
    BY <2>1, <2>2
<1> QED
  BY <1>4, <1>5, <1>6 DEF Inserts

LEMMA FoundKeeps ==
  ASSUME NEW c, NEW call, Steps(c, call), NEW i \in Taken(table),
         Same(EntryAt(table, i).key, call.key), Found(c, call, i)
  PROVE  IInv' /\ Mapped
<1> DEFINE key == call.key
           value == call.value
           old == EntryAt(table, i).value
<1>1. /\ IInv /\ kind' = kind /\ lies' = lies /\ c \in Callers
      /\ key \in Keys /\ value \in Values /\ call.op \in AnOp /\ Sound(table) /\ Tabled(table)
  BY InvIs DEF Steps, Basic
<1>2. EntryAt(table, i).key \in Keys /\ old \in Values
  BY <1>1, SoundIs
<1>3. ClassOf(EntryAt(table, i).key) = ClassOf(key)
  BY <1>1, <1>2, SameIs
<1>4. MapIn(kind, table)[ClassOf(key)] = old /\ old # None
  <2>1. old # None
    BY <1>2, HashTableAssumption DEF Values
  <2> QED
    BY <2>1, <1>1, <1>3, HeldIs
<1>5. CASE call.op = "at:put:"
  <2>1. /\ table' = [table EXCEPT !.entries[i + 1].value = value]
        /\ Ends(c, call, value) /\ UNCHANGED <<tally, arrays>>
    BY <1>5 DEF Found
  <2>2. /\ Sound(table') /\ Alike(table, table')
        /\ MapIn(kind, table') = [MapIn(kind, table) EXCEPT ![ClassOf(key)] = value]
    BY <2>1, <1>1, <1>3, Overwrites
  <2>3. calls' = [calls EXCEPT ![c] = Idle] /\ answer' = [op |-> "at:put:", key |-> key, value |-> value]
    BY <2>1, <1>5 DEF Ends
  <2>4. IInv'
    BY <2>1, <2>2, <2>3, <1>1, FitsIdle, TableStays
  <2>5. Mapped
    BY <2>2, <2>3, <1>1, PutIs
  <2> QED
    BY <2>4, <2>5
<1>6. CASE call.op = "add:"
  <2>1. Ends(c, call, value) /\ UNCHANGED <<table, tally, arrays>>
    BY <1>6 DEF Found
  <2>2. IInv' /\ answer' = [op |-> "add:", key |-> key, value |-> value]
    BY <2>1, <1>6, EndsStill
  <2>3. Mapped
    BY <2>1, <2>2, <1>1, <1>4, AddIs
  <2> QED
    BY <2>2, <2>3
<1>7. CASE call.op = "at:"
  <2>1. Ends(c, call, old) /\ UNCHANGED <<table, tally, arrays>>
    BY <1>7 DEF Found
  <2>2. IInv' /\ answer' = [op |-> "at:", key |-> key, value |-> old]
    BY <2>1, <1>7, EndsStill
  <2>3. Mapped
    BY <2>1, <2>2, <1>1, <1>4, FindIs
  <2> QED
    BY <2>2, <2>3
<1>8. CASE call.op = "removeKey:"
  <2> DEFINE t == table
  <2>1. /\ table' = RemoveEntry(t, i) /\ tally' = (IF tally > 0 THEN tally - 1 ELSE 0)
        /\ Ends(c, call, old) /\ arrays' = arrays
    BY <1>8 DEF Found
  <2>2. /\ Sound(table') /\ table'.id = t.id /\ table'.gen = t.gen + 1 /\ Capacity(table') = Capacity(t)
        /\ Cardinality(Taken(table')) = Cardinality(Taken(t)) - 1
        /\ MapIn(kind, table') = [MapIn(kind, t) EXCEPT ![ClassOf(key)] = None]
    BY <2>1, <1>1, <1>3, Removes
  <2>3. calls' = [calls EXCEPT ![c] = Idle] /\ answer' = [op |-> "removeKey:", key |-> key, value |-> old]
    BY <2>1, <1>8 DEF Ends
  <2>4. Mapped
    BY <2>2, <2>3, <1>1, <1>4, RemoveIs
  <2>5. Cardinality(Taken(t)) # 0
    BY <1>1, InvIs, FS_EmptySet
  <2>6. tally' \in 0 .. Capacity(table') /\ table'.gen > t.gen /\ table'.id <= arrays'
        /\ Capacity(table') >= Capacity(t) /\ arrays' \in Nat /\ lies' \in Nat
    BY <2>1, <2>2, <1>1, InvIs
  <2>7. TallyCounts'
    <3>1. lies = 0 => /\ tally' = Cardinality(Taken(table'))
                      /\ Cardinality(Taken(table')) * 4 <= Capacity(table') * 3
      BY <2>1, <2>2, <2>5, <1>1, InvIs
    <3> QED
      BY <3>1, <1>1 DEF TallyCounts
  <2>8. Onward(t, table', arrays, arrays') /\ Fits(table', Idle, arrays')
    BY <2>1, <2>2, <2>6, FitsIdle DEF Onward
  <2>9. IInv'
    BY <2>2, <2>3, <2>6, <2>7, <2>8, <1>1, StepKeeps
  <2> QED
    BY <2>4, <2>9
<1> QED
  BY <1>1, <1>5, <1>6, <1>7, <1>8 DEF AnOp
LEMMA AbsentKeeps ==
  ASSUME NEW c, NEW call, Steps(c, call), Alone(table, call.key), Absent(c, call)
  PROVE  IInv' /\ Mapped
<1> DEFINE key == call.key
           M == MapIn(kind, table)
<1>1. /\ IInv /\ kind' = kind /\ c \in Callers /\ key \in Keys /\ call.op \in AnOp /\ Sound(table)
  BY InvIs DEF Steps, Basic
<1>2. CASE call.op \in {"at:put:", "add:"}
  BY <1>2, InsertsKeeps DEF Absent
<1>3. CASE call.op \notin {"at:put:", "add:"}
  <2>1. Ends(c, call, None) /\ UNCHANGED <<table, tally, arrays>>
    BY <1>3 DEF Absent
  <2>2. IInv' /\ answer' = [op |-> call.op, key |-> key, value |-> None]
    BY <2>1, EndsStill
  <2>3. M[ClassOf(key)] = None
    BY <1>1, AbsentIs
  <2>4. CASE call.op = "removeKey:"
    <3> DEFINE d == ClassOf(key)
    <3>1. M = [e \in Groups |-> M[e]]
      BY DEF MapIn
    <3> HIDE DEF M, d
    <3>2. M = [M EXCEPT ![d] = None]
      BY <3>1, <2>3 DEF d
    <3>3. MapIn(kind, table') = [MapIn(kind, table) EXCEPT ![ClassOf(key)] = None]
      BY <3>2, <2>1 DEF M, d
    <3>4. answer' = [op |-> "removeKey:", key |-> key, value |-> MapIn(kind, table)[ClassOf(key)]]
      BY <2>2, <2>3, <2>4 DEF M
    <3> QED
      BY <3>3, <3>4, <2>2, <1>1, RemoveIs
  <2>5. CASE call.op = "at:"
    <3>1. answer' = [op |-> "at:", key |-> key, value |-> MapIn(kind, table)[ClassOf(key)]]
      BY <2>2, <2>3, <2>5
    <3> QED
      BY <3>1, <2>1, <2>2, <1>1, FindIs
  <2> QED
    BY <2>4, <2>5, <1>1, <1>3 DEF AnOp
<1> QED
  BY <1>2, <1>3

LEMMA AsksKeeps ==
  ASSUME NEW c, NEW call, Steps(c, call), NEW s, Asks(c, call, s),
         s.n \in 0 .. Capacity(table) - 1, s.at = Nth(table, Hash[call.key], s.n),
         s.at \in Taken(table), Unlike(table, call.key, s.n)
  PROVE  IInv' /\ Mapped
<1> DEFINE new == [op |-> call.op, key |-> call.key, value |-> call.value, n |-> s.n,
                   at |-> s.at, array |-> table.id, gen |-> table.gen,
                   compared |-> EntryAt(table, s.at).key]
<1>1. /\ calls' = [calls EXCEPT ![c] = new]
      /\ UNCHANGED <<table, tally, arrays, answer>>
  BY DEF Asks
<1>2. /\ IInv /\ kind' = kind /\ lies' = lies /\ c \in Callers
      /\ call.op \in AnOp /\ call.key \in Keys /\ call.value \in Values
      /\ Sound(table) /\ table.id \in Nat /\ table.gen \in Nat /\ table.id <= arrays
  BY InvIs DEF Steps, Basic
<1>3. /\ new.op = call.op /\ new.key = call.key /\ new.value = call.value /\ new.n = s.n /\ new.at = s.at
      /\ new.array = table.id /\ new.gen = table.gen /\ new.compared = EntryAt(table, s.at).key
  OBVIOUS
<1>4. new \in Asked
  <2>1. EntryAt(table, s.at).key \in Keys /\ s.at \in Nat /\ s.n \in Nat
    BY <1>2, SoundIs, InvIs
  <2> QED
    BY <2>1, <1>2 DEF Asked
<1> HIDE DEF new
<1>5. Fits(table, new, arrays)
  <2>1. Past(table, new, arrays)
    BY <1>2, <1>3 DEF Past
  <2>2. AsksAt(table, new)
    BY <1>3 DEF AsksAt
  <2>3. new \notin Enumerated
    BY <1>4 DEF Asked, Enumerated, AnOp
  <2> QED
    BY <2>1, <2>2, <2>3 DEF Fits
<1>6. IInv'
  <2>1. Sound(table') /\ Alike(table, table') /\ Fits(table', new, arrays)
    BY <1>1, <1>2, <1>5 DEF Alike
  <2> QED
    BY <2>1, <1>1, <1>2, <1>4, TableStays
<1>7. Mapped
  BY <1>1, <1>2, NothingIs
<1> QED
  BY <1>6, <1>7

LEMMA ContinuesKeeps ==
  ASSUME NEW c, NEW call, Steps(c, call), NEW n \in Nat, Unlike(table, call.key, n), Continues(c, call, n)
  PROVE  IInv' /\ Mapped
<1> DEFINE s == Search(call.key, n)
<1>1. IInv /\ Sound(table) /\ call.key \in Keys
  BY InvIs DEF Steps, Basic
<1>2. \/ s = [is |-> "absent"] /\ Alone(table, call.key)
      \/ s = [is |-> "found", at |-> s.at] /\ s.at \in Taken(table) /\ EntryAt(table, s.at).key = call.key
      \/ /\ s = [is |-> "asks", n |-> s.n, at |-> s.at] /\ s.n \in 0 .. Capacity(table) - 1
         /\ s.at = Nth(table, Hash[call.key], s.n) /\ s.at \in Taken(table) /\ Unlike(table, call.key, s.n)
  BY <1>1, SearchIs
<1>3. /\ s.is = "absent" => Absent(c, call)
      /\ s.is = "found" => Found(c, call, s.at)
      /\ s.is = "asks" => Asks(c, call, s)
  BY DEF Continues
<1> HIDE DEF s
<1>4. CASE s = [is |-> "absent"] /\ Alone(table, call.key)
  <2>1. s.is = "absent"
    BY <1>4
  <2> QED
    BY <2>1, <1>3, <1>4, AbsentKeeps
<1>5. CASE s = [is |-> "found", at |-> s.at] /\ s.at \in Taken(table) /\ EntryAt(table, s.at).key = call.key
  <2>1. s.is = "found"
    BY <1>5
  <2>2. Same(EntryAt(table, s.at).key, call.key)
    BY <1>5 DEF Same
  <2> QED
    BY <2>1, <2>2, <1>3, <1>5, FoundKeeps
<1>6. CASE /\ s = [is |-> "asks", n |-> s.n, at |-> s.at] /\ s.n \in 0 .. Capacity(table) - 1
           /\ s.at = Nth(table, Hash[call.key], s.n) /\ s.at \in Taken(table) /\ Unlike(table, call.key, s.n)
  <2>1. s.is = "asks"
    BY <1>6
  <2> QED
    BY <2>1, <1>3, <1>6, AsksKeeps
<1> QED
  BY <1>2, <1>4, <1>5, <1>6

LEMMA BeginsKeeps ==
  ASSUME IInv, NEW c \in Callers, Begins(c)
  PROVE  IInv' /\ Mapped
<1>0. PICK op \in Operations, k \in Keys :
        \E v \in ValuesOf[k] : Continues(c, [op |-> op, key |-> k, value |-> v], 0)
  BY DEF Begins
<1>1. PICK v \in ValuesOf[k] : Continues(c, [op |-> op, key |-> k, value |-> v], 0)
  BY <1>0
<1> DEFINE call == [op |-> op, key |-> k, value |-> v]
<1>2. call.op = op /\ call.key = k /\ call.value = v
  OBVIOUS
<1>3. Continues(c, call, 0)
  BY <1>1
<1> HIDE DEF call
<1>4. op \in AnOp /\ v \in Values
  BY DEF Operations, AnOp, Values
<1>5. Steps(c, call)
  BY <1>2, <1>4 DEF Steps, Basic, Begins
<1>6. Unlike(table, call.key, 0)
  BY DEF Unlike
<1> QED
  BY <1>3, <1>5, <1>6, ContinuesKeeps

LEMMA UnlikeNext ==
  ASSUME NEW t, NEW key, NEW n \in Nat, Unlike(t, key, n),
         NEW i, i = Nth(t, Hash[key], n), i \in Taken(t), ~ Same(EntryAt(t, i).key, key)
  PROVE  Unlike(t, key, n + 1)
<1> DEFINE Other(m) == LET j == Nth(t, Hash[key], m)
                       IN j \in Taken(t) /\ ~ Same(EntryAt(t, j).key, key)
<1>1. Other(n) /\ \A m \in 0 .. n - 1 : Other(m)
  BY DEF Unlike
<1> HIDE DEF Other
<1>2. \A m \in 0 .. n + 1 - 1 : Other(m)
  <2>1. \A m \in 0 .. n + 1 - 1 : m = n \/ m \in 0 .. n - 1
    OBVIOUS
  <2> QED
    BY <1>1, <2>1
<1>3. Unlike(t, key, n + 1) <=> \A m \in 0 .. n + 1 - 1 : Other(m)
  BY DEF Unlike, Other
<1> QED
  BY <1>2, <1>3

LEMMA RepliesKeeps ==
  ASSUME IInv, NEW c \in Callers, Replies(c)
  PROVE  IInv' /\ Mapped
<1> DEFINE call == calls[c]
<1>1. /\ Asking(c) /\ kind' = kind /\ lies' = lies
      /\ IF Restarted(call) THEN Continues(c, call, 0)
         ELSE IF Same(call.key, call.compared) THEN Found(c, call, call.at)
         ELSE Continues(c, call, call.n + 1)
  BY DEF Replies
<1>2. call \in Asked
  BY <1>1, CallIs DEF IInv
<1>3. Steps(c, call)
  BY <1>1, <1>2 DEF Steps, Basic, Asked
<1>4. Fits(table, call, arrays)
  BY DEF IInv, CallsFit
<1>5. call.n \in Nat /\ call.key \in Keys
  BY <1>2 DEF Asked
<1> HIDE DEF call
<1>6. CASE Restarted(call)
  <2>1. Unlike(table, call.key, 0)
    BY DEF Unlike
  <2> QED
    BY <2>1, <1>1, <1>3, <1>6, ContinuesKeeps
<1>7. CASE ~ Restarted(call)
  <2>1. AsksAt(table, call)
    BY <1>2, <1>4, <1>7 DEF Restarted, Fits, Present
  <2>2. /\ call.n \in 0 .. Capacity(table) - 1 /\ call.at = Nth(table, Hash[call.key], call.n)
        /\ call.at \in Taken(table) /\ EntryAt(table, call.at).key = call.compared
        /\ Unlike(table, call.key, call.n)
    BY <2>1 DEF AsksAt
  <2>3. Same(call.key, call.compared) <=> Same(EntryAt(table, call.at).key, call.key)
    BY <2>2 DEF Same
  <2>4. CASE Same(call.key, call.compared)
    <3>1. Found(c, call, call.at)
      BY <1>1, <1>7, <2>4
    <3> QED
      BY <3>1, <1>3, <2>2, <2>3, <2>4, FoundKeeps
  <2>5. CASE ~ Same(call.key, call.compared)
    <3>1. Unlike(table, call.key, call.n + 1)
      BY <1>5, <2>2, <2>3, <2>5, UnlikeNext
    <3>2. Continues(c, call, call.n + 1) /\ call.n + 1 \in Nat
      BY <1>1, <1>5, <1>7, <2>5
    <3> QED
      BY <3>1, <3>2, <1>3, ContinuesKeeps
  <2> QED
    BY <2>4, <2>5
<1> QED
  BY <1>6, <1>7

LEMMA EqualsFailsKeeps ==
  ASSUME IInv, NEW c \in Callers, EqualsFails(c)
  PROVE  IInv' /\ Mapped
<1> DEFINE call == calls[c]
<1>1. Asking(c) /\ Ends(c, call, "failed") /\ UNCHANGED <<table, tally, kind, arrays, writes, lies>>
  BY DEF EqualsFails
<1>2. call \in Asked
  BY <1>1, CallIs DEF IInv
<1>3. Steps(c, call) /\ call.op \in AnOp /\ call.key \in Keys
  BY <1>1, <1>2 DEF Steps, Basic, Asked
<1> HIDE DEF call
<1>4. IInv' /\ answer' = [op |-> call.op, key |-> call.key, value |-> "failed"]
  BY <1>1, <1>3, EndsStill
<1> QED
  BY <1>1, <1>3, <1>4, FailsIs
-----------------------------------------------------------------------------
\* Enumerations, and a tally written over.

LEMMA RangeOfAppend ==
  ASSUME NEW S, NEW s \in Seq(S), NEW x \in S
  PROVE  /\ Append(s, x) \in Seq(S) /\ Len(Append(s, x)) = Len(s) + 1
         /\ Range(Append(s, x)) = With(Range(s), x)
<1> DEFINE u == Append(s, x)
<1>1. u \in Seq(S) /\ Len(u) = Len(s) + 1 /\ Len(s) \in Nat
  OBVIOUS
<1>2. \A k \in 1 .. Len(s) : u[k] = s[k]
  OBVIOUS
<1>3. u[Len(s) + 1] = x
  OBVIOUS
<1>4. DOMAIN s = 1 .. Len(s) /\ DOMAIN u = 1 .. Len(s) + 1
  BY <1>1
<1> HIDE DEF u
<1>5. \A k : k \in 1 .. Len(s) + 1 <=> k \in 1 .. Len(s) \/ k = Len(s) + 1
  BY <1>1
<1>6. Range(u) = With(Range(s), x)
  BY <1>2, <1>3, <1>4, <1>5 DEF Range, With
<1> QED
  BY <1>1, <1>6 DEF u

LEMMA CallSteps ==
  ASSUME IInv, NEW c \in Callers, NEW call \in {Idle} \cup Asked \cup Enumerated,
         calls' = [calls EXCEPT ![c] = call], UNCHANGED <<table, tally, kind, answer, arrays, lies>>,
         Fits(table, call, arrays)
  PROVE  IInv' /\ Mapped
<1>1. Sound(table') /\ Alike(table, table') /\ Fits(table', call, arrays)
  BY InvIs DEF Alike
<1>2. IInv'
  BY <1>1, TableStays
<1>3. Mapped
  BY NothingIs
<1> QED
  BY <1>2, <1>3

LEMMA BeginsDoKeeps ==
  ASSUME IInv, NEW c \in Callers, BeginsDo(c)
  PROVE  IInv' /\ Mapped
<1> DEFINE call == Enumeration
<1>1. calls' = [calls EXCEPT ![c] = call] /\ UNCHANGED <<table, tally, kind, answer, arrays, lies>>
  BY DEF BeginsDo
<1>2. /\ call.op = "do:" /\ call.done = FALSE /\ call.i = 0 /\ call.visited = <<>>
      /\ call.array = table.id /\ call.gen = table.gen
  BY DEF Enumeration
<1>3. call \in Enumerated
  <2>1. table.id \in Nat /\ table.gen \in Nat /\ <<>> \in Seq(Keys)
    BY InvIs
  <2> QED
    BY <2>1 DEF Enumerated, Enumeration
<1> HIDE DEF call
<1>4. Past(table, call, arrays)
  BY <1>2, InvIs DEF Past
<1>5. HasVisited(table, call)
  <2>1. Below(table, 0) = {} /\ Cardinality(Below(table, 0)) = 0
    BY InvIs, BelowIs
  <2>2. Len(<<>>) = 0 /\ Range(<<>>) = {}
    BY DEF Range
  <2>3. KeysAt(table, {}) = {}
    BY DEF KeysAt
  <2> QED
    BY <1>2, <2>1, <2>2, <2>3 DEF HasVisited
<1>6. call \notin Asked
  BY <1>3 DEF Asked, Enumerated, AnOp
<1>7. Fits(table, call, arrays)
  BY <1>4, <1>5, <1>6 DEF Fits
<1> QED
  BY <1>1, <1>3, <1>7, CallSteps

LEMMA DoEndsKeeps ==
  ASSUME IInv, NEW c \in Callers, DoEnds(c)
  PROVE  IInv' /\ Mapped
<1>1. calls' = [calls EXCEPT ![c] = Idle] /\ UNCHANGED <<table, tally, kind, answer, arrays, lies>>
  BY DEF DoEnds
<1> QED
  BY <1>1, FitsIdle, CallSteps

\* The entries before the next taken one.
LEMMA BelowFirst ==
  ASSUME NEW t, Tabled(t), NEW i \in Nat,
         NEW next, next = {p \in i .. Capacity(t) - 1 : ~ IsFree(t, p)}
  PROVE  /\ next = {} => Below(t, i) = Taken(t)
         /\ next # {} => /\ First(next) \in Taken(t) /\ First(next) \notin Below(t, i)
                         /\ Below(t, First(next) + 1) = With(Below(t, i), First(next))
<1>1. Capacity(t) \in Nat \ {0} /\ Taken(t) \subseteq 0 .. Capacity(t) - 1
  BY TableIs, TakenIs
<1>2. \A p : p \in next <=> p \in Taken(t) /\ p >= i
  <2>1. \A p : p \in i .. Capacity(t) - 1 <=> p \in 0 .. Capacity(t) - 1 /\ p >= i
    BY <1>1
  <2> QED
    BY <2>1 DEF Taken
<1>3. CASE next = {}
  <2>1. \A p \in Taken(t) : p < i
    BY <1>1, <1>2, <1>3
  <2> QED
    BY <2>1, <1>3 DEF Below
<1>4. CASE next # {}
  <2> DEFINE j == First(next)
  <2>1. next \subseteq Nat
    BY <1>1, <1>2
  <2>2. j \in next /\ \A p \in next : j <= p
    BY <2>1, <1>4, FirstIsLeast
  <2> HIDE DEF j
  <2>3. j \in Taken(t) /\ j >= i /\ j \in Nat
    BY <2>1, <2>2, <1>2
  <2>4. j \notin Below(t, i)
    BY <2>3 DEF Below
  <2>5. \A p \in Taken(t) : p < j + 1 <=> p < i \/ p = j
    <3> SUFFICES ASSUME NEW p \in Taken(t) PROVE p < j + 1 <=> p < i \/ p = j
      OBVIOUS
    <3>1. p \in Nat
      BY <1>1
    <3>2. p >= i => j <= p
      BY <1>2, <2>2
    <3> QED
      BY <3>1, <3>2, <2>3
  <2>6. Below(t, j + 1) = With(Below(t, i), j)
    BY <2>3, <2>5 DEF Below, With
  <2> QED
    BY <1>4, <2>3, <2>4, <2>6 DEF j
<1> QED
  BY <1>3, <1>4

LEMMA VisitsKeeps ==
  ASSUME IInv, NEW c \in Callers, Visits(c)
  PROVE  IInv' /\ Mapped
<1> DEFINE call == calls[c]
           next == {i \in call.i .. Capacity(table) - 1 : ~ IsFree(table, i)}
           j == First(next)
           ended == [call EXCEPT !.done = TRUE]
           moved == [call EXCEPT !.i = j + 1, !.visited = Append(@, EntryAt(table, j).key)]
<1>1. /\ call.op = "do:" /\ ~ call.done
      /\ UNCHANGED <<table, tally, kind, answer, arrays, lies>>
      /\ IF next = {} THEN calls' = [calls EXCEPT ![c].done = TRUE]
         ELSE calls' = [calls EXCEPT ![c].i = j + 1, ![c].visited = Append(@, EntryAt(table, j).key)]
  BY DEF Visits
<1>2. IF next = {} THEN calls' = [calls EXCEPT ![c] = ended] ELSE calls' = [calls EXCEPT ![c] = moved]
  <2>1. [calls EXCEPT ![c].done = TRUE] = [calls EXCEPT ![c] = ended]
    OBVIOUS
  <2>2. [calls EXCEPT ![c].i = j + 1, ![c].visited = Append(@, EntryAt(table, j).key)] = [calls EXCEPT ![c] = moved]
    <3>1. calls \in [Callers -> {Idle} \cup Asked \cup Enumerated]
      BY DEF IInv, Typed
    <3> HIDE DEF j, next
    <3> QED
      BY <3>1
  <2> QED
    BY <1>1, <2>1, <2>2
<1>3. call \in Enumerated
  BY <1>1, CallIs DEF IInv
<1>4. Fits(table, call, arrays)
  BY DEF IInv, CallsFit
<1>5. Past(table, call, arrays) /\ (Present(table, call) => HasVisited(table, call))
  <2>1. call # Idle
    BY <1>1 DEF Idle
  <2> QED
    BY <2>1, <1>3, <1>4 DEF Fits
<1>6. Tabled(table) /\ Sound(table) /\ call.i \in Nat /\ call.visited \in Seq(Keys)
  BY <1>3, InvIs DEF Enumerated
<1>7. /\ next = {} => Below(table, call.i) = Taken(table)
      /\ next # {} => /\ j \in Taken(table) /\ j \notin Below(table, call.i)
                      /\ Below(table, j + 1) = With(Below(table, call.i), j)
  BY <1>6, BelowFirst
<1> HIDE DEF next, j
<1>8. CASE next = {}
  <2>1. ended \in Enumerated /\ ended.done = TRUE /\ ended.i = call.i /\ ended.visited = call.visited
        /\ ended.array = call.array /\ ended.gen = call.gen
    BY <1>3 DEF Enumerated
  <2> HIDE DEF ended, call
  <2>2. Past(table, ended, arrays) /\ (Present(table, ended) => HasVisited(table, ended))
    BY <2>1, <1>5, <1>7, <1>8 DEF Past, Present, HasVisited
  <2>3. ended \notin Asked
    BY <2>1 DEF Asked, Enumerated, AnOp
  <2>4. Fits(table, ended, arrays)
    BY <2>2, <2>3 DEF Fits
  <2> QED
    BY <2>1, <2>4, <1>1, <1>2, <1>8, CallSteps
<1>9. CASE next # {}
  <2> DEFINE k == EntryAt(table, j).key
  <2>1. k \in Keys /\ j \in Nat
    BY <1>6, <1>7, <1>9, SoundIs, InvIs
  <2>2. /\ Append(call.visited, k) \in Seq(Keys) /\ Len(Append(call.visited, k)) = Len(call.visited) + 1
        /\ Range(Append(call.visited, k)) = With(Range(call.visited), k)
    BY <1>6, <2>1, RangeOfAppend
  <2>3. moved = [call EXCEPT !.i = j + 1, !.visited = Append(call.visited, k)]
    OBVIOUS
  <2> DEFINE visited == Append(call.visited, k)
             n == j + 1
  <2>30. visited \in Seq(Keys) /\ n \in Nat
    BY <2>1, <2>2
  <2>31. moved = [call EXCEPT !.i = n, !.visited = visited]
    BY <2>3
  <2> HIDE DEF moved, call, visited, n
  <2>32. moved \in Enumerated
    BY <2>30, <2>31, <1>3 DEF Enumerated
  <2>33. /\ moved.done = call.done /\ moved.i = n /\ moved.visited = visited
         /\ moved.array = call.array /\ moved.gen = call.gen
    BY <2>31, <1>3 DEF Enumerated
  <2>4. moved \in Enumerated /\ moved.done = call.done /\ moved.i = j + 1 /\ moved.visited = Append(call.visited, k)
        /\ moved.array = call.array /\ moved.gen = call.gen
    BY <2>32, <2>33 DEF visited, n
  <2>5. ASSUME HasVisited(table, call) PROVE HasVisited(table, moved)
    <3>1. IsFiniteSet(Below(table, call.i))
      BY <1>6, BelowIs
    <3>2. Cardinality(With(Below(table, call.i), j)) = Cardinality(Below(table, call.i)) + 1
      <4> DEFINE B == Below(table, call.i)
      <4>1. IsFiniteSet(B) /\ j \notin B
        BY <3>1, <1>7, <1>9
      <4> HIDE DEF B
      <4>2. Cardinality(With(B, j)) = Cardinality(B) + 1
        BY <4>1, FS_AddElement DEF With
      <4> QED
        BY <4>2 DEF B
    <3>3. KeysAt(table, With(Below(table, call.i), j)) = With(KeysAt(table, Below(table, call.i)), k)
      BY DEF KeysAt, With
    <3> QED
      BY <3>2, <3>3, <2>2, <2>4, <2>5, <1>1, <1>7, <1>9 DEF HasVisited
  <2>6. Past(table, moved, arrays) /\ (Present(table, moved) => HasVisited(table, moved))
    BY <2>4, <2>5, <1>5 DEF Past, Present
  <2>7. moved \notin Asked
    BY <2>4 DEF Asked, Enumerated, AnOp
  <2>8. Fits(table, moved, arrays)
    BY <2>6, <2>7 DEF Fits
  <2> QED
    BY <2>4, <2>8, <1>1, <1>2, <1>9, CallSteps
<1> QED
  BY <1>8, <1>9

\* The table and the calls stay; the tally is what it was, or counts no more.
LEMMA TableKept ==
  ASSUME IInv, UNCHANGED <<table, kind, calls, answer, arrays>>, lies' \in Nat,
         tally' \in 0 .. Capacity(table), lies' = 0 => tally' = tally /\ lies = 0
  PROVE  IInv' /\ Mapped
<1>1. Sound(table)'
  BY InvIs, SoundLater
<1>2. CallsFit'
  <2>1. \A c \in Callers : Fits(table, calls[c], arrays)'
    BY FitsLater DEF IInv, CallsFit
  <2> QED
    BY <2>1 DEF CallsFit
<1>3. Typed'
  BY DEF IInv, Typed
<1>4. TallyCounts'
  BY DEF IInv, TallyCounts
<1>5. Mapped
  BY NothingIs
<1> QED
  BY <1>1, <1>2, <1>3, <1>4, <1>5 DEF IInv

LEMMA LiesKeeps ==
  ASSUME IInv, Lies
  PROVE  IInv' /\ Mapped
<1>1. UNCHANGED <<table, kind, calls, answer, arrays>> /\ lies' = lies + 1 /\ tally' \in 0 .. Capacity(table)
  BY DEF Lies
<1>2. lies' \in Nat /\ lies' # 0
  BY <1>1, InvIs
<1> QED
  BY <1>1, <1>2, TableKept

LEMMA Initially == Init => IInv /\ P!Init
<1> SUFFICES ASSUME Init PROVE IInv /\ P!Init
  OBVIOUS
<1>1. /\ table = NewArray(MinCapacity, 1) /\ arrays = 1 /\ tally = 0
      /\ calls = [c \in Callers |-> Idle] /\ lies = 0
      /\ answer = [op |-> "none", key |-> None, value |-> None]
  BY DEF Init
<1>2. /\ Sound(table) /\ table.id = 1 /\ Capacity(table) = MinCapacity
      /\ Taken(table) = {} /\ StoredIn(table) = {}
  BY <1>1, FreshIs, HashTableAssumption
<1>3. MinCapacity \in Nat \ {0}
  BY HashTableAssumption
<1>4. Typed
  BY <1>1, <1>2, <1>3 DEF Typed
<1>5. TallyCounts
  <2>1. Cardinality(Taken(table)) = 0
    BY <1>2, FS_EmptySet
  <2> QED
    BY <2>1, <1>1, <1>2, <1>3 DEF TallyCounts
<1>6. CallsFit
  BY <1>1, FitsIdle DEF CallsFit
<1>7. P!Init
  <2>1. MapOf = MapIn(kind, table)
    BY MapOfIs
  <2>2. \A c \in Groups : MapIn(kind, table)[c] = None
    BY <1>2, MapIs
  <2>3. MapOf = [c \in Groups |-> None]
    <3>1. MapOf = [c \in Groups |-> MapOf[c]]
      BY <2>1 DEF MapIn
    <3> QED
      BY <3>1, <2>1, <2>2
  <2>4. View = [op |-> "none", class |-> None, value |-> None]
    BY <1>1 DEF View, ClassOf
  <2> QED
    BY <2>3, <2>4 DEF P!Init, View, Groups
<1> QED
  BY <1>2, <1>4, <1>5, <1>6, <1>7 DEF IInv

LEMMA Stepping == IInv /\ [Next]_vars => IInv' /\ Mapped
<1> SUFFICES ASSUME IInv, [Next]_vars PROVE IInv' /\ Mapped
  OBVIOUS
<1>1. ASSUME NEW c \in Callers, Begins(c) PROVE IInv' /\ Mapped
  BY <1>1, BeginsKeeps
<1>2. ASSUME NEW c \in Callers, BeginsDo(c) PROVE IInv' /\ Mapped
  BY <1>2, BeginsDoKeeps
<1>3. ASSUME NEW c \in Callers, Replies(c) PROVE IInv' /\ Mapped
  BY <1>3, RepliesKeeps
<1>4. ASSUME NEW c \in Callers, Visits(c) PROVE IInv' /\ Mapped
  BY <1>4, VisitsKeeps
<1>5. ASSUME NEW c \in Callers, DoEnds(c) PROVE IInv' /\ Mapped
  BY <1>5, DoEndsKeeps
<1>6. ASSUME NEW c \in Callers, EqualsFails(c) PROVE IInv' /\ Mapped
  BY <1>6, EqualsFailsKeeps
<1>7. CASE Lies
  BY <1>7, LiesKeeps
<1>8. CASE UNCHANGED vars
  <2>1. UNCHANGED <<table, kind, calls, answer, arrays>> /\ lies' = lies /\ tally' = tally
    BY <1>8 DEF vars
  <2> QED
    BY <2>1, InvIs, TableKept
<1> QED
  BY <1>1, <1>2, <1>3, <1>4, <1>5, <1>6, <1>7, <1>8 DEF Next, Call

-----------------------------------------------------------------------------
\* Between any two steps the table is one that every probe and enumeration reads
\* right: the operations of HashedCollection.cpp, with the = of the user between
\* their probes.
THEOREM TableIsSound == Spec => []TableSound
<1>1. Spec => []IInv
  BY Initially, Stepping, PTL DEF Spec
<1> QED
  BY <1>1, SoundTable, PTL

\* The table implements PartialMap: each operation takes effect at one moment, on
\* the value of one class of equal keys.
THEOREM IsAMap == Spec => ImplementsMap
<1>1. Init => IInv /\ P!Init
  BY Initially
<1>2. IInv /\ [Next]_vars => IInv' /\ Mapped
  BY Stepping
<1> QED
  BY <1>1, <1>2, PTL DEF Spec, ImplementsMap, P!Spec, Mapped, View

=============================================================================
