----------------------------- MODULE BasicLemmas -----------------------------
(***************************************************************************)
(* What the proofs of several modules need: positions in rows of equal     *)
(* length, which is how offsets of tiles, strips, bands and pixels are     *)
(* made; induction over a set of numbers, and what follows from it for     *)
(* loops over a vector: a loop is a function from the number of passes to  *)
(* its state, defined by its first state and one step for each element;    *)
(* and what sorting by a key and filtering yield.                          *)
(***************************************************************************)
EXTENDS Integers, Sorting, FiniteSetTheorems, SequenceTheorems,
        WellFoundedInduction, TLAPS

-----------------------------------------------------------------------------
(* Quotient and remainder *)

LEMMA Division ==
  ASSUME NEW n \in Nat, NEW d \in Nat \ {0}
  PROVE  /\ n \div d \in Nat
         /\ n % d \in 0 .. d - 1
         /\ n = (n \div d) * d + (n % d)
BY SMTT(10)

\* Quotient and remainder are the only way to write n with a small remainder.
LEMMA MixedRadix ==
  ASSUME NEW d \in Nat \ {0}, NEW q \in Nat, NEW r \in 0 .. d - 1,
         NEW u \in Nat, NEW v \in 0 .. d - 1,
         q * d + r = u * d + v
  PROVE  q = u /\ r = v
<1>1. ASSUME NEW a \in Nat, NEW b \in Nat, NEW s \in 0 .. d - 1, NEW t \in 0 .. d - 1,
             a < b
      PROVE  a * d + s < b * d + t
  <2>1. (a + 1) * d <= b * d
    BY <1>1, SMTT(10)
  <2>2. (a + 1) * d = a * d + d
    BY SMTT(10)
  <2>3. a * d \in Nat /\ b * d \in Nat
    BY SMTT(10)
  <2>4. QED
    BY <2>1, <2>2, <2>3
<1>2. ~(q < u) /\ ~(u < q)
  BY <1>1
<1>3. q = u
  BY <1>2
<1>4. q * d \in Nat
  BY SMTT(10)
<1>5. QED
  BY <1>3, <1>4

LEMMA QuotientAndRemainder ==
  ASSUME NEW d \in Nat \ {0}, NEW q \in Nat, NEW r \in 0 .. d - 1
  PROVE  q * d + r \in Nat /\ (q * d + r) \div d = q /\ (q * d + r) % d = r
<1>1. q * d + r \in Nat
  BY SMTT(10)
<1> DEFINE n == q * d + r
<1>2. n \div d \in Nat /\ n % d \in 0 .. d - 1 /\ n = (n \div d) * d + (n % d)
  BY <1>1, Division
<1>3. n \div d = q /\ n % d = r
  <2> HIDE DEF n
  <2>1. n = q * d + r
    BY DEF n
  <2>2. QED
    BY <1>2, <2>1, MixedRadix
<1>4. QED
  BY <1>1, <1>3

\* Row-major positions of a grid with d columns and m rows.
LEMMA RowMajor ==
  ASSUME NEW d \in Nat \ {0}, NEW m \in Nat
  PROVE  /\ \A q \in 0 .. m - 1, r \in 0 .. d - 1 : q * d + r \in 0 .. m * d - 1
         /\ \A n \in 0 .. m * d - 1 : n \div d \in 0 .. m - 1 /\ n % d \in 0 .. d - 1
<1>1. ASSUME NEW q \in 0 .. m - 1, NEW r \in 0 .. d - 1
      PROVE  q * d + r \in 0 .. m * d - 1
  <2>1. (q + 1) * d <= m * d
    BY SMTT(10)
  <2>2. (q + 1) * d = q * d + d
    BY SMTT(10)
  <2>3. q * d \in Nat /\ m * d \in Nat
    BY SMTT(10)
  <2>4. QED
    BY <2>1, <2>2, <2>3
<1>2. ASSUME NEW n \in 0 .. m * d - 1
      PROVE  n \div d \in 0 .. m - 1 /\ n % d \in 0 .. d - 1
  <2>1. n \in Nat /\ m * d \in Nat /\ n < m * d
    BY SMTT(10)
  <2>2. n \div d \in Nat /\ n % d \in 0 .. d - 1 /\ n = (n \div d) * d + (n % d)
    BY <2>1, Division
  <2>3. CASE n \div d >= m
    <3>1. (n \div d) * d >= m * d
      BY <2>2, <2>3, SMTT(10)
    <3>2. (n \div d) * d \in Nat
      BY <2>2, SMTT(10)
    <3>3. QED
      BY <2>1, <2>2, <3>1, <3>2
  <2>4. QED
    BY <2>2, <2>3
<1>3. QED
  BY <1>1, <1>2

-----------------------------------------------------------------------------
(* Loops *)

Less == {p \in Nat \X Nat : p[1] < p[2]}

LEMMA LessIsWellFounded == IsWellFoundedOn(Less, Nat)
<1>1. OpToRel(<, Nat) = Less
  BY DEF OpToRel, Less
<1>2. QED
  BY <1>1, NatLessThanWellFounded

\* A set of naturals has a least element.
LEMMA LeastNumber ==
  ASSUME NEW S \in SUBSET Nat, S # {}
  PROVE  \E x \in S : \A y \in S : x <= y
<1>1. PICK x \in S : \A y \in S : ~(<<y, x>> \in Less)
  BY WFMin, LessIsWellFounded, Zenon
<1>2. ASSUME NEW y \in S
      PROVE  x <= y
  <2>1. x \in Nat /\ y \in Nat /\ <<y, x>> \notin Less
    BY <1>1
  <2>2. QED
    BY <2>1 DEF Less
<1>3. QED
  BY <1>1, <1>2

\* Induction, for a set instead of a predicate.
LEMMA SetInduction ==
  ASSUME NEW n \in Nat, NEW S, 0 \in S, \A i \in 0 .. n - 1 : i \in S => i + 1 \in S
  PROVE  \A i \in 0 .. n : i \in S
<1> SUFFICES ASSUME NEW k \in 0 .. n, k \notin S
             PROVE  FALSE
  OBVIOUS
<1> DEFINE out == {i \in 0 .. n : i \notin S}
<1>1. out \in SUBSET Nat /\ out # {}
  OBVIOUS
<1>2. PICK x \in out : \A y \in out : x <= y
  BY <1>1, LeastNumber
<1>3. x \in 0 .. n /\ x # 0 /\ x \notin S
  BY <1>2
<1>4. x - 1 \in 0 .. n - 1 /\ x - 1 \notin out
  BY <1>2, <1>3
<1>5. QED
  BY <1>3, <1>4

\* The first m passes of a loop.
IsRun(m, f, S, base, step) ==
  /\ f \in [0 .. m -> S]
  /\ f[0] = base
  /\ \A i \in 1 .. m : f[i] = step[<<i, f[i - 1]>>]

\* A loop of n passes has its sequence of states.
LEMMA LoopExists ==
  ASSUME NEW n \in Nat, NEW S, NEW base \in S, NEW step \in [(1 .. n) \X S -> S]
  PROVE  \E f : IsRun(n, f, S, base, step)
<1> DEFINE reached == {m \in 0 .. n : \E f : IsRun(m, f, S, base, step)}
<1>1. 0 \in reached
  <2>1. IsRun(0, [i \in 0 .. 0 |-> base], S, base, step)
    BY DEF IsRun
  <2>2. \E f : IsRun(0, f, S, base, step)
    BY <2>1
  <2>3. QED
    BY <2>2
<1>2. ASSUME NEW m \in 0 .. n - 1, m \in reached
      PROVE  m + 1 \in reached
  <2>1. PICK f : IsRun(m, f, S, base, step)
    BY <1>2
  <2> DEFINE g == [i \in 0 .. m + 1 |-> IF i <= m THEN f[i] ELSE step[<<m + 1, f[m]>>]]
  <2>2. f[m] \in S /\ m + 1 \in 1 .. n
    BY <2>1 DEF IsRun
  <2>3. step[<<m + 1, f[m]>>] \in S
    BY <2>2
  <2>4. g \in [0 .. m + 1 -> S] /\ g[0] = base
    BY <2>1, <2>3 DEF IsRun
  <2>5. ASSUME NEW i \in 1 .. m + 1
        PROVE  g[i] = step[<<i, g[i - 1]>>]
    <3>1. CASE i <= m
      BY <2>1, <3>1 DEF IsRun
    <3>2. CASE i = m + 1
      <4>1. g[m + 1] = step[<<m + 1, f[m]>>] /\ g[m] = f[m] /\ (m + 1) - 1 = m
        OBVIOUS
      <4>2. QED
        BY <3>2, <4>1, Zenon
    <3>3. QED
      BY <3>1, <3>2
  <2>6. IsRun(m + 1, g, S, base, step)
    BY <2>4, <2>5 DEF IsRun
  <2> HIDE DEF g
  <2>7. \E h : IsRun(m + 1, h, S, base, step)
    BY <2>6
  <2>8. QED
    BY <2>7, <2>2
<1>3. n \in reached
  <2> HIDE DEF reached
  <2>1. \A i \in 0 .. n : i \in reached
    BY <1>1, <1>2, SetInduction
  <2>2. QED
    BY <2>1
<1>4. QED
  BY <1>3

-----------------------------------------------------------------------------
(* Sorting *)

\* before puts any two elements of S in one order.
IsOrderOf(before, S) ==
  /\ \A x \in S : <<x, x>> \notin before
  /\ \A x, y \in S : x # y => <<x, y>> \in before \/ <<y, x>> \in before
  /\ \A x, y, z \in S : <<x, y>> \in before /\ <<y, z>> \in before => <<x, z>> \in before

\* An element that comes later has more elements before it.
LEMMA RankRises ==
  ASSUME NEW S, IsFiniteSet(S), NEW before, IsOrderOf(before, S), NEW x \in S
  PROVE  /\ Rank(S, before, x) \in 0 .. Cardinality(S) - 1
         /\ \A y \in S : <<x, y>> \in before => Rank(S, before, x) < Rank(S, before, y)
<1> DEFINE first(y) == {z \in S : <<z, y>> \in before}
<1>1. ASSUME NEW y \in S
      PROVE  /\ IsFiniteSet(first(y)) /\ Cardinality(first(y)) \in Nat
             /\ Cardinality(first(y)) < Cardinality(S)
  <2>1. first(y) \in SUBSET S /\ first(y) # S
    BY DEF IsOrderOf
  <2>2. IsFiniteSet(first(y)) /\ Cardinality(first(y)) <= Cardinality(S)
        /\ Cardinality(first(y)) # Cardinality(S)
    <3> HIDE DEF first
    <3>1. QED
      BY <2>1, FS_Subset
  <2>3. Cardinality(first(y)) \in Nat /\ Cardinality(S) \in Nat
    BY <2>2, FS_CardinalityType
  <2>4. QED
    BY <2>2, <2>3
<1>2. ASSUME NEW y \in S, <<x, y>> \in before
      PROVE  Cardinality(first(x)) < Cardinality(first(y))
  <2>1. first(x) \in SUBSET first(y) /\ first(x) # first(y)
    BY <1>2 DEF IsOrderOf
  <2>2. Cardinality(first(x)) <= Cardinality(first(y)) /\ Cardinality(first(x)) # Cardinality(first(y))
    <3>1. IsFiniteSet(first(y))
      BY <1>1
    <3> HIDE DEF first
    <3>2. QED
      BY <2>1, <3>1, FS_Subset
  <2>3. QED
    BY <2>2, <1>1
<1>3. Cardinality(S) \in Nat
  BY FS_CardinalityType
<1>4. QED
  BY <1>1, <1>2, <1>3 DEF Rank

\* Arranged lists every element of the set, in the order.
LEMMA ArrangedInOrder ==
  ASSUME NEW S, IsFiniteSet(S), NEW before, IsOrderOf(before, S),
         NEW o, o = Arranged(S, before)
  PROVE  /\ Cardinality(S) \in Nat
         /\ o \in [1 .. Cardinality(S) -> S]
         /\ \A x \in S : \E k \in 1 .. Cardinality(S) : o[k] = x
         /\ \A j, k \in 1 .. Cardinality(S) : j < k => <<o[j], o[k]>> \in before
<1> DEFINE n == Cardinality(S)
           rank == [x \in S |-> Rank(S, before, x)]
<1>1. n \in Nat
  BY FS_CardinalityType
<1>2. /\ rank \in [S -> 0 .. n - 1]
      /\ \A x, y \in S : <<x, y>> \in before => rank[x] < rank[y]
  BY RankRises
<1>3. \A x, y \in S : rank[x] = rank[y] => x = y
  <2>1. SUFFICES ASSUME NEW x \in S, NEW y \in S, x # y
                 PROVE  rank[x] # rank[y]
    BY Zenon
  <2>2. rank[x] \in Int /\ rank[y] \in Int
    BY <1>1, <1>2
  <2> HIDE DEF rank
  <2>3. <<x, y>> \in before \/ <<y, x>> \in before
    BY <2>1 DEF IsOrderOf
  <2>4. rank[x] < rank[y] \/ rank[y] < rank[x]
    BY <1>2, <2>3
  <2>5. QED
    BY <2>2, <2>4
<1>4. rank \in Surjection(S, 0 .. n - 1)
  <2> HIDE DEF rank
  <2>1. rank \in Injection(S, 0 .. n - 1)
    BY <1>2, <1>3 DEF Injection, IsInjective
  <2>2. IsFiniteSet(0 .. n - 1) /\ Cardinality(0 .. n - 1) = n
    BY <1>1, FS_Interval
  <2>3. QED
    BY <2>1, <2>2, FS_Injection
<1>5. \A m \in 0 .. n - 1 : \E x \in S : rank[x] = m
  <2> HIDE DEF rank, n
  <2>1. QED
    BY <1>4 DEF Surjection
<1>6. \A k \in 1 .. n : o[k] \in S /\ rank[o[k]] = k - 1
  <2>1. SUFFICES ASSUME NEW k \in 1 .. n
                 PROVE  o[k] \in S /\ rank[o[k]] = k - 1
    OBVIOUS
  <2>2. o[k] = CHOOSE x \in S : Rank(S, before, x) = k - 1
    BY DEF Arranged
  <2>3. \E x \in S : Rank(S, before, x) = k - 1
    BY <1>1, <1>5
  <2>4. QED
    BY <2>2, <2>3
<1>7. o \in [1 .. n -> S]
  BY <1>6 DEF Arranged
<1>8. ASSUME NEW x \in S
      PROVE  \E k \in 1 .. n : o[k] = x
  <2>1. rank[x] + 1 \in 1 .. n /\ (rank[x] + 1) - 1 = rank[x]
    BY <1>1, <1>2
  <2>2. o[rank[x] + 1] = x
    <3> HIDE DEF rank, n
    <3>1. QED
      BY <2>1, <1>3, <1>6
  <2>3. QED
    BY <2>1, <2>2
<1>9. ASSUME NEW j \in 1 .. n, NEW k \in 1 .. n, j < k
      PROVE  <<o[j], o[k]>> \in before
  <2> HIDE DEF rank, n
  <2>1. rank[o[j]] = j - 1 /\ rank[o[k]] = k - 1 /\ o[j] \in S /\ o[k] \in S
    BY <1>6
  <2>2. o[j] # o[k] /\ ~(rank[o[k]] < rank[o[j]])
    BY <2>1, <1>9, <1>1
  <2>3. QED
    BY <2>1, <2>2, <1>2 DEF IsOrderOf
<1>10. QED
  BY <1>1, <1>7, <1>8, <1>9

\* Sorting positions by integer keys: the order is total, ties fall to the earlier position.
LEMMA ByKeyIsOrder ==
  ASSUME NEW D \in SUBSET Int, NEW keys \in [D -> Int], NEW S \in SUBSET D
  PROVE  IsOrderOf(ByKey(keys), S)
<1>1. \A i, j \in S : <<i, j>> \in ByKey(keys)
         <=> keys[i] < keys[j] \/ (keys[i] = keys[j] /\ i < j)
  BY DEF ByKey
<1>2. S \subseteq Int /\ \A i \in S : keys[i] \in Int
  OBVIOUS
<1>3. \A x \in S : <<x, x>> \notin ByKey(keys)
  BY <1>1, <1>2
<1>4. \A x, y \in S : x # y => <<x, y>> \in ByKey(keys) \/ <<y, x>> \in ByKey(keys)
  BY <1>1, <1>2
<1>5. ASSUME NEW x \in S, NEW y \in S, NEW z \in S,
             <<x, y>> \in ByKey(keys), <<y, z>> \in ByKey(keys)
      PROVE  <<x, z>> \in ByKey(keys)
  <2>1. /\ keys[x] < keys[y] \/ (keys[x] = keys[y] /\ x < y)
        /\ keys[y] < keys[z] \/ (keys[y] = keys[z] /\ y < z)
    BY <1>1, <1>5
  <2>2. keys[x] < keys[z] \/ (keys[x] = keys[z] /\ x < z)
    BY <1>2, <2>1
  <2>3. QED
    BY <1>1, <2>2
<1>6. QED
  BY <1>3, <1>4, <1>5 DEF IsOrderOf

-----------------------------------------------------------------------------
(* Filtering *)

\* A rising function onto itself stays where it is.
LEMMA RisingIsIdentity ==
  ASSUME NEW N \in Nat, NEW p \in [1 .. N -> 1 .. N],
         \A m, n \in 1 .. N : m < n => p[m] < p[n]
  PROVE  \A n \in 1 .. N : p[n] = n
<1> DEFINE S == {d \in 0 .. N : d > 0 => p[d] >= d}
           T == {d \in 0 .. N : d < N => p[N - d] <= N - d}
<1>1. \A n \in 1 .. N : p[n] \in 1 .. N
  OBVIOUS
<1>2. 0 \in S /\ 0 \in T
  BY <1>1
<1>3. ASSUME NEW d \in 0 .. N - 1, d \in S
      PROVE  d + 1 \in S
  <2>1. d + 1 \in 1 .. N /\ p[d + 1] \in 1 .. N
    BY <1>1
  <2>2. CASE d = 0
    BY <2>1, <2>2
  <2>3. CASE d # 0
    <3>1. d \in 1 .. N /\ p[d] \in 1 .. N /\ p[d] >= d
      BY <1>1, <1>3, <2>3
    <3>2. p[d] < p[d + 1]
      BY <2>1, <3>1
    <3>3. p[d + 1] >= d + 1
      BY <2>1, <3>1, <3>2
    <3>4. QED
      BY <2>1, <3>3
  <2>4. QED
    BY <2>2, <2>3
<1>4. ASSUME NEW d \in 0 .. N - 1, d \in T
      PROVE  d + 1 \in T
  <2> SUFFICES ASSUME d + 1 < N
               PROVE  p[N - (d + 1)] <= N - (d + 1)
    OBVIOUS
  <2>1. N - (d + 1) \in 1 .. N /\ N - d \in 1 .. N /\ N - (d + 1) < N - d
    OBVIOUS
  <2>2. p[N - d] <= N - d
    BY <1>4
  <2>3. p[N - (d + 1)] < p[N - d]
    BY <2>1
  <2>4. p[N - (d + 1)] \in 1 .. N /\ p[N - d] \in 1 .. N
    BY <1>1, <2>1
  <2>5. QED
    BY <2>1, <2>2, <2>3, <2>4
<1>5. \A d \in 0 .. N : d \in S
  <2> HIDE DEF S
  <2>1. QED
    BY <1>2, <1>3, SetInduction
<1>6. \A d \in 0 .. N : d \in T
  <2> HIDE DEF T
  <2>1. QED
    BY <1>2, <1>4, SetInduction
<1>7. ASSUME NEW n \in 1 .. N
      PROVE  p[n] = n
  <2>1. p[n] >= n
    BY <1>5
  <2>2. N - n \in 0 .. N /\ N - n < N /\ N - (N - n) = n
    OBVIOUS
  <2>3. p[n] <= n
    BY <1>6, <2>2
  <2>4. QED
    BY <1>1, <2>1, <2>3
<1>8. QED
  BY <1>7

\* a lists the numbers of D in their order.
Lists(a, n, D) ==
  /\ n \in Nat /\ a \in [1 .. n -> D]
  /\ \A x \in D : \E k \in 1 .. n : a[k] = x
  /\ \A j, k \in 1 .. n : j < k => a[j] < a[k]

LEMMA AscendingLists ==
  ASSUME NEW m \in Nat, NEW D \in SUBSET (1 .. m)
  PROVE  Lists(Ascending(D), Cardinality(D), D)
<1> DEFINE before == {p \in D \X D : p[1] < p[2]}
<1>1. IsFiniteSet(D)
  <2>1. IsFiniteSet(1 .. m)
    BY FS_Interval
  <2>2. QED
    BY <2>1, FS_Subset
<1>2. \A x, y \in D : <<x, y>> \in before <=> x < y
  OBVIOUS
<1>3. D \subseteq Int
  OBVIOUS
<1>4. Ascending(D) = Arranged(D, before)
  BY DEF Ascending
<1> HIDE DEF before
<1>5. IsOrderOf(before, D)
  BY <1>2, <1>3 DEF IsOrderOf
<1>6. /\ Cardinality(D) \in Nat
      /\ Ascending(D) \in [1 .. Cardinality(D) -> D]
      /\ \A x \in D : \E k \in 1 .. Cardinality(D) : Ascending(D)[k] = x
      /\ \A j, k \in 1 .. Cardinality(D) : j < k => <<Ascending(D)[j], Ascending(D)[k]>> \in before
  BY <1>1, <1>4, <1>5, ArrangedInOrder
<1>7. QED
  BY <1>2, <1>6 DEF Lists

\* There is one way only to list a set of numbers in their order.
LEMMA OneListing ==
  ASSUME NEW D \in SUBSET Int, NEW n, NEW a, Lists(a, n, D), NEW m, NEW b, Lists(b, m, D)
  PROVE  n = m /\ a = b
<1>1. /\ n \in Nat /\ m \in Nat /\ a \in [1 .. n -> D] /\ b \in [1 .. m -> D]
      /\ \A k \in 1 .. n : a[k] \in Int
      /\ \A k \in 1 .. m : b[k] \in Int
  BY DEF Lists
<1>2. \A j, k \in 1 .. n : a[j] = a[k] => j = k
  <2>1. SUFFICES ASSUME NEW j \in 1 .. n, NEW k \in 1 .. n, j # k
                 PROVE  a[j] # a[k]
    BY Zenon
  <2>2. j < k \/ k < j
    BY <1>1, <2>1
  <2>3. a[j] < a[k] \/ a[k] < a[j]
    BY <2>2 DEF Lists
  <2>4. QED
    BY <1>1, <2>3
<1>3. \A j, k \in 1 .. m : b[j] = b[k] => j = k
  <2>1. SUFFICES ASSUME NEW j \in 1 .. m, NEW k \in 1 .. m, j # k
                 PROVE  b[j] # b[k]
    BY Zenon
  <2>2. j < k \/ k < j
    BY <1>1, <2>1
  <2>3. b[j] < b[k] \/ b[k] < b[j]
    BY <2>2 DEF Lists
  <2>4. QED
    BY <1>1, <2>3
<1>4. n = m
  <2>1. a \in Bijection(1 .. n, D) /\ b \in Bijection(1 .. m, D)
    <3>1. \A x \in D : \E k \in 1 .. n : a[k] = x
      BY DEF Lists
    <3>2. \A x \in D : \E k \in 1 .. m : b[k] = x
      BY DEF Lists
    <3>3. QED
      BY <1>1, <1>2, <1>3, <3>1, <3>2
      DEF Bijection, Injection, IsInjective, Surjection
  <2>2. /\ IsFiniteSet(1 .. n) /\ Cardinality(1 .. n) = n
        /\ IsFiniteSet(1 .. m) /\ Cardinality(1 .. m) = m
    BY <1>1, FS_Interval
  <2>3. Cardinality(D) = n
    BY <2>1, <2>2, FS_Bijection DEF ExistsBijection
  <2>4. Cardinality(D) = m
    BY <2>1, <2>2, FS_Bijection DEF ExistsBijection
  <2>5. QED
    BY <2>3, <2>4
<1> DEFINE p == [k \in 1 .. n |-> CHOOSE j \in 1 .. n : b[j] = a[k]]
<1>5. \A k \in 1 .. n : p[k] \in 1 .. n /\ b[p[k]] = a[k]
  <2>1. SUFFICES ASSUME NEW k \in 1 .. n
                 PROVE  p[k] \in 1 .. n /\ b[p[k]] = a[k]
    OBVIOUS
  <2>2. \E j \in 1 .. n : b[j] = a[k]
    BY <1>1, <1>4 DEF Lists
  <2>3. QED
    BY <2>2
<1>6. p \in [1 .. n -> 1 .. n]
  BY <1>5
<1> HIDE DEF p
<1>7. ASSUME NEW j \in 1 .. n, NEW k \in 1 .. n, j < k
      PROVE  p[j] < p[k]
  <2>1. b[p[j]] < b[p[k]]
    BY <1>5, <1>7 DEF Lists
  <2>2. p[j] \in 1 .. m /\ p[k] \in 1 .. m
    BY <1>4, <1>5
  <2>3. p[k] < p[j] => b[p[k]] < b[p[j]]
    BY <2>2 DEF Lists
  <2>4. QED
    BY <1>1, <2>1, <2>2, <2>3
<1>8. \A k \in 1 .. n : p[k] = k
  BY <1>1, <1>6, <1>7, RisingIsIdentity
<1>9. \A k \in 1 .. n : a[k] = b[k]
  BY <1>5, <1>8
<1>10. QED
  BY <1>1, <1>4, <1>9

\* What a filter leaves.
LEMMA PickedElements ==
  ASSUME NEW S, NEW seq \in Seq(S), NEW D \in SUBSET (DOMAIN seq)
  PROVE  /\ Cardinality(D) \in Nat
         /\ Picked(seq, D) \in Seq(S) /\ Len(Picked(seq, D)) = Cardinality(D)
         /\ DOMAIN Picked(seq, D) = 1 .. Cardinality(D)
         /\ Lists(Ascending(D), Cardinality(D), D)
         /\ \A k \in 1 .. Cardinality(D) : /\ Ascending(D)[k] \in D
                                           /\ Picked(seq, D)[k] = seq[Ascending(D)[k]]
<1>1. Len(seq) \in Nat /\ DOMAIN seq = 1 .. Len(seq)
  OBVIOUS
<1>2. Lists(Ascending(D), Cardinality(D), D)
  BY <1>1, AscendingLists
<1>3. \A k \in 1 .. Cardinality(D) : Ascending(D)[k] \in D
  BY <1>2 DEF Lists
<1>4. \A k \in 1 .. Cardinality(D) : seq[Ascending(D)[k]] \in S
  BY <1>3
<1>5. Cardinality(D) \in Nat
  BY <1>2 DEF Lists
<1>6. Picked(seq, D) \in [1 .. Cardinality(D) -> S]
  BY <1>4 DEF Picked
<1>7. Picked(seq, D) \in Seq(S) /\ Len(Picked(seq, D)) = Cardinality(D)
  BY <1>5, <1>6
<1>8. QED
  BY <1>2, <1>3, <1>5, <1>6, <1>7 DEF Picked

\* g leads from the elements of x at D to equal ones of y at E, in their order.
Matches(g, x, D, y, E) ==
  /\ \E n \in Nat : D \in SUBSET (1 .. n)
  /\ \E n \in Nat : E \in SUBSET (1 .. n)
  /\ g \in [D -> E]
  /\ \A e \in E : \E d \in D : g[d] = e
  /\ \A c, d \in D : c < d => g[c] < g[d]
  /\ \A d \in D : y[g[d]] = x[d]

\* Two filters agree if the elements they leave match.
LEMMA SamePicked ==
  ASSUME NEW g, NEW x, NEW D, NEW y, NEW E, Matches(g, x, D, y, E)
  PROVE  Picked(x, D) = Picked(y, E)
<1> DEFINE k == Cardinality(D)
           a == Ascending(D)
           b == [j \in 1 .. k |-> g[a[j]]]
<1>b. \E n \in Nat : D \in SUBSET (1 .. n)
  BY DEF Matches
<1>c. \E n \in Nat : E \in SUBSET (1 .. n)
  BY DEF Matches
<1>a. /\ g \in [D -> E]
      /\ \A e \in E : \E d \in D : g[d] = e
      /\ \A c, d \in D : c < d => g[c] < g[d]
      /\ \A d \in D : y[g[d]] = x[d]
  BY DEF Matches
<1>1. Lists(a, k, D)
  BY <1>b, AscendingLists
<1>2. Lists(Ascending(E), Cardinality(E), E)
  BY <1>c, AscendingLists
<1> HIDE DEF k, a
<1>3. k \in Nat /\ a \in [1 .. k -> D]
  BY <1>1 DEF Lists
<1>4. Lists(b, k, E)
  <2>1. \A j \in 1 .. k : b[j] \in E
    BY <1>3, <1>a
  <2>2. b \in [1 .. k -> E]
    BY <2>1
  <2>3. ASSUME NEW e \in E
        PROVE  \E j \in 1 .. k : b[j] = e
    <3>1. PICK d \in D : g[d] = e
      BY <1>a
    <3>2. PICK j \in 1 .. k : a[j] = d
      BY <1>1 DEF Lists
    <3>3. b[j] = e
      BY <3>1, <3>2
    <3>4. QED
      BY <3>3
  <2>4. ASSUME NEW i \in 1 .. k, NEW j \in 1 .. k, i < j
        PROVE  b[i] < b[j]
    <3>1. a[i] < a[j] /\ a[i] \in D /\ a[j] \in D
      BY <1>1, <1>3, <2>4 DEF Lists
    <3>2. g[a[i]] < g[a[j]]
      BY <1>a, <3>1
    <3>3. QED
      BY <3>2
  <2> HIDE DEF b
  <2>5. QED
    BY <1>3, <2>2, <2>3, <2>4 DEF Lists
<1>5. E \in SUBSET Int
  BY <1>c
<1>6. Cardinality(E) = k /\ Ascending(E) = b
  <2> HIDE DEF b
  <2>1. QED
    BY <1>2, <1>4, <1>5, OneListing
<1>7. \A j \in 1 .. k : x[a[j]] = y[Ascending(E)[j]]
  <2>1. SUFFICES ASSUME NEW j \in 1 .. k
                 PROVE  x[a[j]] = y[Ascending(E)[j]]
    OBVIOUS
  <2>2. a[j] \in D /\ Ascending(E)[j] = g[a[j]]
    BY <1>3, <1>6
  <2>3. QED
    BY <1>a, <2>2
<1>8. Picked(x, D) = [j \in 1 .. k |-> x[a[j]]]
  BY DEF Picked, k, a
<1>9. Picked(y, E) = [j \in 1 .. k |-> y[Ascending(E)[j]]]
  BY <1>6 DEF Picked
<1>10. QED
  BY <1>7, <1>8, <1>9

\* What sorting a vector yields: its elements, in the order of their keys.
LEMMA SortedElements ==
  ASSUME NEW S, NEW seq \in Seq(S), NEW keys \in [DOMAIN seq -> Int]
  PROVE  /\ SortedBy(keys, seq) \in Seq(S)
         /\ Len(SortedBy(keys, seq)) = Len(seq)
         /\ \E o \in [DOMAIN seq -> DOMAIN seq] :
               /\ \A i \in DOMAIN seq : \E k \in DOMAIN seq : o[k] = i
               /\ \A k \in DOMAIN seq : SortedBy(keys, seq)[k] = seq[o[k]]
               /\ \A j, k \in DOMAIN seq : j < k =>
                     \/ keys[o[j]] < keys[o[k]]
                     \/ keys[o[j]] = keys[o[k]] /\ o[j] < o[k]
<1> DEFINE n == Len(seq)
           D == 1 .. n
           o == Arranged(DOMAIN keys, ByKey(keys))
<1>1. n \in Nat /\ DOMAIN seq = D /\ DOMAIN keys = D /\ D \in SUBSET Int
  OBVIOUS
<1>2. IsOrderOf(ByKey(keys), D)
  BY <1>1, ByKeyIsOrder
<1>3. IsFiniteSet(1 .. n) /\ Cardinality(1 .. n) = n
  <2> HIDE DEF n, D
  <2>1. QED
    BY <1>1, FS_Interval
<1>b. o = Arranged(DOMAIN keys, ByKey(keys))
  OBVIOUS
<1>c. SortedBy(keys, seq) = [k \in D |-> seq[o[k]]]
  BY <1>1 DEF SortedBy
<1> HIDE DEF n, D, o
<1>4. D = 1 .. n
  BY DEF D
<1>a. IsFiniteSet(D) /\ Cardinality(D) = n /\ o = Arranged(D, ByKey(keys))
  BY <1>1, <1>3, <1>4, <1>b
<1>5. /\ o \in [1 .. n -> D]
      /\ \A x \in D : \E k \in 1 .. n : o[k] = x
      /\ \A j, k \in 1 .. n : j < k => <<o[j], o[k]>> \in ByKey(keys)
  BY <1>2, <1>a, ArrangedInOrder
<1>7. \A k \in D : seq[o[k]] \in S
  <2>1. \A k \in D : o[k] \in D
    BY <1>4, <1>5
  <2>2. \A i \in D : seq[i] \in S
    BY <1>1, ElementOfSeq DEF n, D
  <2>3. QED
    BY <2>1, <2>2
<1>8. SortedBy(keys, seq) \in Seq(S) /\ Len(SortedBy(keys, seq)) = n
  BY <1>1, <1>4, <1>c, <1>7
<1>9. \A j, k \in D : j < k => \/ keys[o[j]] < keys[o[k]]
                               \/ keys[o[j]] = keys[o[k]] /\ o[j] < o[k]
  <2>1. \A i, h \in D : <<i, h>> \in ByKey(keys) =>
           keys[i] < keys[h] \/ (keys[i] = keys[h] /\ i < h)
    BY <1>1 DEF ByKey
  <2>2. \A k \in D : o[k] \in D
    BY <1>4, <1>5
  <2>3. QED
    BY <1>4, <1>5, <2>1, <2>2
<1>10. QED
  <2>1. o \in [DOMAIN seq -> DOMAIN seq]
    BY <1>1, <1>4, <1>5
  <2>2. \A i \in DOMAIN seq : \E k \in DOMAIN seq : o[k] = i
    BY <1>1, <1>4, <1>5
  <2>3. \A k \in DOMAIN seq : SortedBy(keys, seq)[k] = seq[o[k]]
    BY <1>1, <1>c
  <2>4. \A j, k \in DOMAIN seq : j < k =>
           \/ keys[o[j]] < keys[o[k]]
           \/ keys[o[j]] = keys[o[k]] /\ o[j] < o[k]
    BY <1>1, <1>9
  <2>5. QED
    BY <1>8, <2>1, <2>2, <2>3, <2>4 DEF n

\* What is in order stays as it is.
LEMMA SortedIsItself ==
  ASSUME NEW S, NEW seq \in Seq(S), NEW keys \in [DOMAIN seq -> Int],
         \A j, k \in DOMAIN seq : j < k => keys[j] <= keys[k]
  PROVE  SortedBy(keys, seq) = seq
<1> DEFINE n == Len(seq)
<1>1. /\ SortedBy(keys, seq) \in Seq(S)
      /\ Len(SortedBy(keys, seq)) = Len(seq)
  BY SortedElements
<1>a. PICK o \in [DOMAIN seq -> DOMAIN seq] :
        /\ \A k \in DOMAIN seq : SortedBy(keys, seq)[k] = seq[o[k]]
        /\ \A j, k \in DOMAIN seq : j < k =>
              \/ keys[o[j]] < keys[o[k]]
              \/ keys[o[j]] = keys[o[k]] /\ o[j] < o[k]
  BY SortedElements
<1>2. n \in Nat /\ DOMAIN seq = 1 .. n
  OBVIOUS
<1>3. ASSUME NEW j \in 1 .. n, NEW k \in 1 .. n, j < k
      PROVE  o[j] < o[k]
  <2>1. o[j] \in 1 .. n /\ o[k] \in 1 .. n
    BY <1>a, <1>2
  <2>2. keys[o[j]] \in Int /\ keys[o[k]] \in Int
    BY <1>2, <2>1
  <2>3. o[k] < o[j] => keys[o[k]] <= keys[o[j]]
    BY <1>2, <2>1
  <2>5. \/ keys[o[j]] < keys[o[k]]
        \/ keys[o[j]] = keys[o[k]] /\ o[j] < o[k]
    BY <1>a, <1>2, <1>3
  <2>4. o[j] # o[k]
    <3>1. SUFFICES ASSUME o[j] = o[k] PROVE FALSE
      OBVIOUS
    <3>2. keys[o[j]] = keys[o[k]]
      BY <3>1
    <3>3. QED
      BY <2>1, <2>2, <2>5, <3>1, <3>2
  <2>6. QED
    BY <2>1, <2>2, <2>3, <2>4, <2>5
<1>4. \A k \in 1 .. n : o[k] = k
  <2>1. o \in [1 .. n -> 1 .. n]
    BY <1>a, <1>2
  <2> HIDE DEF n
  <2>2. QED
    BY <1>2, <1>3, <2>1, RisingIsIdentity
<1>5. \A k \in 1 .. Len(seq) : SortedBy(keys, seq)[k] = seq[k]
  BY <1>a, <1>2, <1>4
<1>6. QED
  BY <1>1, <1>5, SeqEqual
=============================================================================
