---------------------------- MODULE JbpFileProofs ----------------------------
(***************************************************************************)
(* What is proved of JbpFile, for all TREs, tags, assets and bounds.       *)
(*                                                                         *)
(* A reader puts a container's TREs together and groups them by tag.  So   *)
(* the proof needs two things: a container is split into parts that the    *)
(* reader finds again (SplitParts, SpilledParts, SplitComesBack), and the  *)
(* TREs a writer is given are grouped already, as they come from a         *)
(* provider, so that grouping them again changes nothing (GroupedStays).   *)
(* Where a segment stands is a matter of sums (SumStep, OneTerm).          *)
(***************************************************************************)
EXTENDS JbpFile, BasicLemmas

-----------------------------------------------------------------------------
(* The order of TREs *)

\* The instances of a tag stand together.
Grouped(tres) ==
  \A i, j, k \in DOMAIN tres :
    i < j /\ j < k /\ tres[i].tag = tres[k].tag => tres[j].tag = tres[i].tag

LEMMA TagsType ==
  ASSUME NEW tres \in Seq(Tre)
  PROVE  /\ Len(tres) \in Nat /\ DOMAIN tres = 1 .. Len(tres)
         /\ \A i \in DOMAIN tres : /\ tres[i] \in Tre
                                   /\ tres[i].tag \in ToSet(TagOrder)
                                   /\ tres[i].size \in Nat
<1>1. Len(tres) \in Nat /\ DOMAIN tres = 1 .. Len(tres)
  OBVIOUS
<1>2. \A i \in DOMAIN tres : tres[i] \in Tre
  BY <1>1, ElementOfSeq
<1>3. QED
  BY <1>1, <1>2 DEF Tre

\* Every tag has a first instance, and only its instances have that place.
LEMMA FirstInstance ==
  ASSUME NEW tres \in Seq(Tre), NEW i \in DOMAIN tres
  PROVE  /\ FirstOfTag(tres, tres[i].tag) \in DOMAIN tres
         /\ FirstOfTag(tres, tres[i].tag) <= i
         /\ tres[FirstOfTag(tres, tres[i].tag)].tag = tres[i].tag
<1> DEFINE S == {j \in DOMAIN tres : tres[j].tag = tres[i].tag}
<1>1. i \in S /\ S \subseteq DOMAIN tres
  OBVIOUS
<1>2. S \in SUBSET Nat /\ S # {}
  BY <1>1, TagsType
<1>3. FirstOfTag(tres, tres[i].tag) = CHOOSE x \in S : \A y \in S : x <= y
  BY DEF FirstOfTag, Min
<1> DEFINE first == CHOOSE x \in S : \A y \in S : x <= y
<1>4. first \in S /\ \A y \in S : first <= y
  <2> HIDE DEF S
  <2>1. \E x \in S : \A y \in S : x <= y
    BY <1>2, LeastNumber
  <2>2. QED
    BY <2>1
<1> HIDE DEF first
<1>5. FirstOfTag(tres, tres[i].tag) = first
  BY <1>3 DEF first
<1>6. QED
  BY <1>1, <1>4, <1>5

\* Sorting by a number that each tag has for itself groups the tags.
LEMMA SortingGroups ==
  ASSUME NEW tres \in Seq(Tre), NEW keys \in [DOMAIN tres -> Int],
         \A i, j \in DOMAIN tres : keys[i] = keys[j] => tres[i].tag = tres[j].tag,
         \A i, j \in DOMAIN tres : tres[i].tag = tres[j].tag => keys[i] = keys[j]
  PROVE  SortedBy(keys, tres) \in Seq(Tre) /\ Grouped(SortedBy(keys, tres))
<1> DEFINE t == SortedBy(keys, tres)
           D == DOMAIN tres
<1>1. t \in Seq(Tre) /\ Len(t) = Len(tres)
  BY SortedElements
<1>2. PICK o \in [D -> D] :
        /\ \A k \in D : t[k] = tres[o[k]]
        /\ \A j, k \in D : j < k => \/ keys[o[j]] < keys[o[k]]
                                    \/ keys[o[j]] = keys[o[k]] /\ o[j] < o[k]
  BY SortedElements
<1>3. DOMAIN t = D /\ D \subseteq Int
  BY <1>1
<1> HIDE DEF t
<1>4. ASSUME NEW i \in D, NEW j \in D, NEW k \in D, i < j, j < k, t[i].tag = t[k].tag
      PROVE  t[j].tag = t[i].tag
  <2>1. o[i] \in D /\ o[j] \in D /\ o[k] \in D
    BY <1>2
  <2>2. /\ t[i].tag = tres[o[i]].tag
        /\ t[j].tag = tres[o[j]].tag
        /\ t[k].tag = tres[o[k]].tag
    BY <1>2
  <2>8. tres[o[i]].tag = tres[o[k]].tag
    BY <1>4, <2>2
  <2>3. keys[o[i]] = keys[o[k]]
    BY <2>1, <2>8
  <2>4. keys[o[i]] <= keys[o[j]] /\ keys[o[j]] <= keys[o[k]]
    <3>1. keys[o[i]] \in Int /\ keys[o[j]] \in Int /\ keys[o[k]] \in Int
      BY <2>1
    <3>2. keys[o[i]] < keys[o[j]] \/ keys[o[i]] = keys[o[j]]
      BY <1>2, <1>4
    <3>3. keys[o[j]] < keys[o[k]] \/ keys[o[j]] = keys[o[k]]
      BY <1>2, <1>4
    <3>4. QED
      BY <3>1, <3>2, <3>3
  <2>5. keys[o[j]] = keys[o[i]]
    <3>1. keys[o[i]] \in Int /\ keys[o[j]] \in Int /\ keys[o[k]] \in Int
      BY <2>1
    <3>2. QED
      BY <2>3, <2>4, <3>1
  <2>6. tres[o[j]].tag = tres[o[i]].tag
    BY <2>1, <2>5
  <2>7. QED
    BY <2>2, <2>6
<1>5. Grouped(t)
  BY <1>3, <1>4 DEF Grouped
<1>6. QED
  BY <1>1, <1>5 DEF t

ReaderKeys(tres) == [i \in DOMAIN tres |-> FirstOfTag(tres, tres[i].tag)]

LEMMA ReaderKeysType ==
  ASSUME NEW tres \in Seq(Tre)
  PROVE  /\ ReaderKeys(tres) \in [DOMAIN tres -> Int]
         /\ ReaderProvider(tres) = SortedBy(ReaderKeys(tres), tres)
         /\ \A i, j \in DOMAIN tres :
               ReaderKeys(tres)[i] = ReaderKeys(tres)[j] <=> tres[i].tag = tres[j].tag
<1>1. DOMAIN tres \subseteq Int
  OBVIOUS
<1>2. \A i \in DOMAIN tres : /\ FirstOfTag(tres, tres[i].tag) \in DOMAIN tres
                             /\ tres[FirstOfTag(tres, tres[i].tag)].tag = tres[i].tag
  BY FirstInstance
<1>3. ReaderKeys(tres) \in [DOMAIN tres -> Int]
  BY <1>1, <1>2 DEF ReaderKeys
<1>4. \A i \in DOMAIN tres : ReaderKeys(tres)[i] = FirstOfTag(tres, tres[i].tag)
  BY DEF ReaderKeys
<1>5. ASSUME NEW i \in DOMAIN tres, NEW j \in DOMAIN tres
      PROVE  ReaderKeys(tres)[i] = ReaderKeys(tres)[j] <=> tres[i].tag = tres[j].tag
  <2>1. ReaderKeys(tres)[i] = ReaderKeys(tres)[j] => tres[i].tag = tres[j].tag
    <3>1. SUFFICES ASSUME ReaderKeys(tres)[i] = ReaderKeys(tres)[j]
                   PROVE  tres[i].tag = tres[j].tag
      OBVIOUS
    <3>2. FirstOfTag(tres, tres[i].tag) = FirstOfTag(tres, tres[j].tag)
      BY <1>4, <3>1
    <3>3. /\ tres[FirstOfTag(tres, tres[i].tag)].tag = tres[i].tag
          /\ tres[FirstOfTag(tres, tres[j].tag)].tag = tres[j].tag
      BY <1>2
    <3>4. QED
      BY <3>2, <3>3, Zenon
  <2>2. tres[i].tag = tres[j].tag => ReaderKeys(tres)[i] = ReaderKeys(tres)[j]
    BY <1>4
  <2>3. QED
    BY <2>1, <2>2
<1>6. ReaderProvider(tres) = SortedBy(ReaderKeys(tres), tres)
  BY DEF ReaderProvider, ReaderKeys
<1>7. QED
  BY <1>3, <1>5, <1>6

\* What a provider hands out is grouped.
LEMMA ProvidersGroup ==
  ASSUME NEW tres \in Seq(Tre)
  PROVE  /\ ReaderProvider(tres) \in Seq(Tre) /\ Grouped(ReaderProvider(tres))
         /\ BufferedProvider(tres) \in Seq(Tre) /\ Grouped(BufferedProvider(tres))
<1>1. ReaderProvider(tres) \in Seq(Tre) /\ Grouped(ReaderProvider(tres))
  <2>1. /\ ReaderKeys(tres) \in [DOMAIN tres -> Int]
        /\ ReaderProvider(tres) = SortedBy(ReaderKeys(tres), tres)
        /\ \A i, j \in DOMAIN tres :
              ReaderKeys(tres)[i] = ReaderKeys(tres)[j] <=> tres[i].tag = tres[j].tag
    BY ReaderKeysType
  <2>2. QED
    BY <2>1, SortingGroups
<1>2. BufferedProvider(tres) \in Seq(Tre) /\ Grouped(BufferedProvider(tres))
  <2> DEFINE keys == [i \in DOMAIN tres |-> TagRank(tres[i].tag)]
  <2>1. ASSUME NEW i \in DOMAIN tres
        PROVE  /\ TagRank(tres[i].tag) \in DOMAIN TagOrder
               /\ TagOrder[TagRank(tres[i].tag)] = tres[i].tag
    <3>1. tres[i].tag \in ToSet(TagOrder)
      BY TagsType
    <3>2. \E n \in DOMAIN TagOrder : TagOrder[n] = tres[i].tag
      BY <3>1 DEF ToSet
    <3>3. QED
      BY <3>2 DEF TagRank
  <2>2. DOMAIN TagOrder \subseteq Int
    BY TagAssumption
  <2>3. keys \in [DOMAIN tres -> Int]
    BY <2>1, <2>2
  <2>4. ASSUME NEW i \in DOMAIN tres, NEW j \in DOMAIN tres, keys[i] = keys[j]
        PROVE  tres[i].tag = tres[j].tag
    <3>1. TagRank(tres[i].tag) = TagRank(tres[j].tag)
      BY <2>4
    <3>2. QED
      BY <2>1, <3>1
  <2>5. \A i, j \in DOMAIN tres : tres[i].tag = tres[j].tag => keys[i] = keys[j]
    OBVIOUS
  <2>6. BufferedProvider(tres) = SortedBy(keys, tres)
    BY DEF BufferedProvider
  <2> HIDE DEF keys
  <2>7. QED
    BY <2>3, <2>4, <2>5, <2>6, SortingGroups
<1>3. QED
  BY <1>1, <1>2

\* What is grouped passes through a reader's provider as it is.
LEMMA GroupedStays ==
  ASSUME NEW tres \in Seq(Tre), Grouped(tres)
  PROVE  ReaderProvider(tres) = tres
<1> DEFINE keys == ReaderKeys(tres)
           D == DOMAIN tres
<1>1. keys \in [DOMAIN tres -> Int] /\ ReaderProvider(tres) = SortedBy(keys, tres)
  BY ReaderKeysType
<1>2. \A i \in D : keys[i] \in D /\ keys[i] <= i /\ tres[keys[i]].tag = tres[i].tag
  BY FirstInstance DEF ReaderKeys
<1>3. D \subseteq Int
  OBVIOUS
<1>4. \A i, j \in D : tres[i].tag = tres[j].tag => keys[i] = keys[j]
  BY ReaderKeysType
<1> HIDE DEF keys
<1>5. ASSUME NEW j \in D, NEW k \in D, j < k
      PROVE  keys[j] <= keys[k]
  <2>1. SUFFICES ASSUME keys[k] < keys[j]
                 PROVE  FALSE
    BY <1>2, <1>3
  <2>2. keys[k] \in D /\ keys[j] \in D /\ keys[j] <= j
    BY <1>2
  <2>3. keys[j] < k
    BY <1>3, <1>5, <2>2
  <2>4. tres[keys[k]].tag = tres[k].tag /\ tres[keys[j]].tag = tres[j].tag
    BY <1>2
  <2>5. tres[keys[j]].tag = tres[keys[k]].tag
    BY <2>1, <2>2, <2>3, <2>4 DEF Grouped
  <2>6. tres[j].tag = tres[k].tag
    BY <2>4, <2>5
  <2>7. keys[j] = keys[k]
    BY <1>4, <2>6
  <2>8. QED
    BY <1>3, <2>1, <2>2, <2>7
<1>6. SortedBy(keys, tres) = tres
  BY <1>1, <1>5, SortedIsItself
<1>7. QED
  BY <1>1, <1>6

\* Leaving out tags keeps the others together.
LEMMA WritableGrouped ==
  ASSUME NEW tres \in Seq(Tre)
  PROVE  /\ Writable(tres) \in Seq(Tre)
         /\ Grouped(tres) => Grouped(Writable(tres))
<1> DEFINE D == {i \in DOMAIN tres : tres[i].tag \in Known}
           n == Cardinality(D)
           a == Ascending(D)
<1>1. D \in SUBSET (DOMAIN tres)
  OBVIOUS
<1>2. Writable(tres) = Picked(tres, D)
  BY DEF Writable
<1> HIDE DEF D
<1>3. /\ Writable(tres) \in Seq(Tre)
      /\ DOMAIN Writable(tres) = 1 .. n
      /\ Lists(a, n, D)
      /\ \A k \in 1 .. n : a[k] \in D /\ Writable(tres)[k] = tres[a[k]]
  BY <1>1, <1>2, PickedElements
<1>4. \A j, k \in 1 .. n : j < k => a[j] < a[k]
  BY <1>3 DEF Lists
<1> HIDE DEF a, n
<1>5. \A k \in 1 .. n : a[k] \in DOMAIN tres
  BY <1>1, <1>3
<1>6. Grouped(tres) => Grouped(Writable(tres))
  BY <1>3, <1>4, <1>5 DEF Grouped
<1>7. QED
  BY <1>3, <1>6

\* What is said of one known tag is not changed by leaving out unknown ones.
LEMMA OfTagWritable ==
  ASSUME NEW tres \in Seq(Tre), NEW tag \in Known
  PROVE  OfTag(Writable(tres), tag) = OfTag(tres, tag)
<1> DEFINE D == {i \in DOMAIN tres : tres[i].tag \in Known}
           n == Cardinality(D)
           a == Ascending(D)
           w == Writable(tres)
           X == {k \in DOMAIN w : w[k].tag = tag}
           E == {i \in DOMAIN tres : tres[i].tag = tag}
           g == [k \in X |-> a[k]]
<1>1. D \in SUBSET (DOMAIN tres)
  OBVIOUS
<1>2. w = Picked(tres, D)
  BY DEF Writable
<1>a. E \in SUBSET (1 .. Len(tres)) /\ E \subseteq D
  OBVIOUS
<1>b. OfTag(w, tag) = Picked(w, X) /\ OfTag(tres, tag) = Picked(tres, E)
  BY DEF OfTag
<1>3. /\ DOMAIN w = 1 .. n /\ n \in Nat
      /\ Lists(a, n, D)
      /\ \A k \in 1 .. n : a[k] \in D /\ w[k] = tres[a[k]]
  <2> HIDE DEF D
  <2>1. QED
    BY <1>1, <1>2, PickedElements
<1>c. X \in SUBSET (1 .. n)
  BY <1>3
<1> HIDE DEF a, n, w
<1>4. \A k \in X : a[k] \in E /\ tres[a[k]] = w[k]
  BY <1>1, <1>3
<1>5. g \in [X -> E]
  BY <1>4
<1>6. ASSUME NEW e \in E
      PROVE  \E k \in X : g[k] = e
  <2>1. e \in D /\ tres[e].tag = tag
    BY <1>a
  <2>2. PICK k \in 1 .. n : a[k] = e
    BY <1>3, <2>1 DEF Lists
  <2>3. k \in X
    BY <1>3, <2>1, <2>2
  <2>4. QED
    BY <2>2, <2>3
<1>7. ASSUME NEW c \in X, NEW d \in X, c < d
      PROVE  g[c] < g[d]
  <2>1. a[c] < a[d]
    BY <1>3, <1>7, <1>c DEF Lists
  <2>2. QED
    BY <2>1
<1>8. \A d \in X : tres[g[d]] = w[d]
  BY <1>4
<1>9. Len(tres) \in Nat
  OBVIOUS
<1>10. Picked(w, X) = Picked(tres, E)
  <2> HIDE DEF X, E, g
  <2>1. Matches(g, w, X, tres, E)
    BY <1>3, <1>5, <1>6, <1>7, <1>8, <1>9, <1>a, <1>c DEF Matches
  <2>2. QED
    BY <2>1, SamePicked
<1>11. QED
  BY <1>b, <1>10 DEF w

\* The instances of a tag keep their order: the grouping is stable.
LEMMA OfTagProvider ==
  ASSUME NEW tres \in Seq(Tre), NEW tag
  PROVE  OfTag(ReaderProvider(tres), tag) = OfTag(tres, tag)
<1> DEFINE n == Len(tres)
           keys == ReaderKeys(tres)
           t == SortedBy(keys, tres)
           X == {k \in DOMAIN t : t[k].tag = tag}
           E == {i \in DOMAIN tres : tres[i].tag = tag}
<1>1. /\ keys \in [DOMAIN tres -> Int]
      /\ ReaderProvider(tres) = t
      /\ \A i, j \in DOMAIN tres : tres[i].tag = tres[j].tag => keys[i] = keys[j]
  BY ReaderKeysType
<1>2. OfTag(t, tag) = Picked(t, X) /\ OfTag(tres, tag) = Picked(tres, E)
  BY DEF OfTag
<1>3. n \in Nat /\ DOMAIN tres = 1 .. n
  OBVIOUS
<1> HIDE DEF keys
<1>4. t \in Seq(Tre) /\ Len(t) = n
  BY <1>1, SortedElements
<1>5. PICK o \in [DOMAIN tres -> DOMAIN tres] :
        /\ \A i \in DOMAIN tres : \E k \in DOMAIN tres : o[k] = i
        /\ \A k \in DOMAIN tres : t[k] = tres[o[k]]
        /\ \A j, k \in DOMAIN tres : j < k =>
              \/ keys[o[j]] < keys[o[k]]
              \/ keys[o[j]] = keys[o[k]] /\ o[j] < o[k]
  BY <1>1, SortedElements
<1>6. DOMAIN t = 1 .. n
  BY <1>4
<1> HIDE DEF t, n
<1>7. X \in SUBSET (1 .. n) /\ E \in SUBSET (1 .. n)
  BY <1>3, <1>6
<1> DEFINE g == [k \in X |-> o[k]]
<1>8. \A k \in X : k \in 1 .. n /\ o[k] \in E /\ tres[o[k]] = t[k]
  BY <1>3, <1>5, <1>6
<1>9. g \in [X -> E] /\ \A k \in X : tres[g[k]] = t[k]
  BY <1>8
<1>10. ASSUME NEW e \in E
       PROVE  \E k \in X : g[k] = e
  <2>1. PICK k \in 1 .. n : o[k] = e
    BY <1>3, <1>5
  <2>2. k \in X
    BY <1>3, <1>5, <1>6, <2>1
  <2>3. QED
    BY <2>1, <2>2
<1>11. ASSUME NEW c \in X, NEW d \in X, c < d
       PROVE  g[c] < g[d]
  <2>1. c \in 1 .. n /\ d \in 1 .. n /\ o[c] \in E /\ o[d] \in E
    BY <1>8
  <2>2. tres[o[c]].tag = tres[o[d]].tag
    BY <2>1
  <2>3. keys[o[c]] = keys[o[d]] /\ keys[o[c]] \in Int
    BY <1>1, <1>3, <1>7, <2>1, <2>2
  <2>4. \/ keys[o[c]] < keys[o[d]]
        \/ keys[o[c]] = keys[o[d]] /\ o[c] < o[d]
    BY <1>3, <1>5, <1>11, <2>1
  <2>5. o[c] < o[d]
    BY <2>3, <2>4
  <2>6. QED
    BY <2>5
<1>12. Picked(t, X) = Picked(tres, E)
  <2> HIDE DEF X, E, g
  <2>1. Matches(g, t, X, tres, E)
    BY <1>3, <1>7, <1>9, <1>10, <1>11 DEF Matches
  <2>2. QED
    BY <2>1, SamePicked
<1>13. QED
  BY <1>1, <1>2, <1>12

-----------------------------------------------------------------------------
(* Sums *)

Numbers(n, f) == \A i \in 1 .. n : f[i] \in Nat

\* The sums of the beginnings of a list of numbers.
LEMMA SumStep ==
  ASSUME NEW n \in Nat, NEW f, Numbers(n, f)
  PROVE  /\ SumTo(0, f) = 0
         /\ \A k \in 0 .. n : SumTo(k, f) \in Nat
         /\ \A k \in 1 .. n : SumTo(k, f) = SumTo(k - 1, f) + f[k]
<1> DEFINE step == [x \in (1 .. n) \X Nat |-> x[2] + f[x[1]]]
<1>1. step \in [(1 .. n) \X Nat -> Nat]
  BY DEF Numbers
<1>2. PICK p : IsRun(n, p, Nat, 0, step)
  <2> HIDE DEF step
  <2>1. QED
    BY <1>1, LoopExists
<1>3. /\ p \in [0 .. n -> Nat]
      /\ p[0] = 0
      /\ \A k \in 1 .. n : p[k] = p[k - 1] + f[k]
  <2>1. p \in [0 .. n -> Nat] /\ p[0] = 0 /\ \A k \in 1 .. n : p[k] = step[<<k, p[k - 1]>>]
    <3> HIDE DEF step
    <3>1. QED
      BY <1>2 DEF IsRun
  <2>2. \A k \in 1 .. n : p[k - 1] \in Nat
    BY <2>1
  <2>3. \A k \in 1 .. n : step[<<k, p[k - 1]>>] = p[k - 1] + f[k]
    BY <2>2
  <2>4. QED
    BY <2>1, <2>3
<1>4. ASSUME NEW k \in 0 .. n
      PROVE  SumTo(k, f) = p[k]
  <2> DEFINE Loop(s) == s = [j \in 0 .. k |-> IF j = 0 THEN 0 ELSE s[j - 1] + f[j]]
             r == [j \in 0 .. k |-> p[j]]
  <2>1. Loop(r)
    <3>1. ASSUME NEW j \in 0 .. k
          PROVE  r[j] = IF j = 0 THEN 0 ELSE r[j - 1] + f[j]
      <4>1. CASE j = 0
        BY <1>3, <4>1
      <4>2. CASE j # 0
        <5>1. j \in 1 .. n /\ j - 1 \in 0 .. k
          BY <4>2
        <5>2. QED
          BY <1>3, <4>2, <5>1
      <4>3. QED
        BY <4>1, <4>2
    <3>2. QED
      BY <3>1
  <2>2. Loop(CHOOSE s : Loop(s))
    <3> HIDE DEF r
    <3>1. QED
      BY <2>1, Zenon
  <2>3. SumTo(k, f) = (CHOOSE s : Loop(s))[k]
    BY Zenon DEF SumTo
  <2> DEFINE s == CHOOSE s_1 : Loop(s_1)
  <2>4. s = [j \in 0 .. k |-> IF j = 0 THEN 0 ELSE s[j - 1] + f[j]]
    BY <2>2
  <2> HIDE DEF s
  <2> DEFINE same == {j \in 0 .. k : s[j] = p[j]}
  <2>5. k \in Nat /\ 0 \in same
    BY <1>3, <2>4
  <2>6. ASSUME NEW j \in 0 .. k - 1, j \in same
        PROVE  j + 1 \in same
    <3>1. j + 1 \in 0 .. k /\ j + 1 # 0 /\ (j + 1) - 1 = j /\ j + 1 \in 1 .. n
      OBVIOUS
    <3>2. s[j + 1] = s[j] + f[j + 1]
      BY <2>4, <3>1
    <3>3. p[j + 1] = p[j] + f[j + 1]
      BY <1>3, <3>1
    <3>4. QED
      BY <2>6, <3>1, <3>2, <3>3
  <2>7. \A j \in 0 .. k : j \in same
    <3> HIDE DEF same
    <3>1. QED
      BY <2>5, <2>6, SetInduction
  <2>8. s[k] = p[k]
    BY <2>7
  <2>9. QED
    BY <2>3, <2>8 DEF s
<1>5. \A k \in 1 .. n : k - 1 \in 0 .. n /\ k \in 0 .. n
  OBVIOUS
<1> HIDE DEF step
<1>6. QED
  BY <1>3, <1>4, <1>5

LEMMA SameSums ==
  ASSUME NEW n \in Nat, NEW f, NEW g, Numbers(n, f), \A i \in 1 .. n : g[i] = f[i]
  PROVE  SumTo(n, g) = SumTo(n, f)
<1> DEFINE S == {k \in 0 .. n : SumTo(k, g) = SumTo(k, f)}
<1>1. Numbers(n, g)
  BY DEF Numbers
<1>2. /\ SumTo(0, f) = 0 /\ SumTo(0, g) = 0
      /\ \A k \in 1 .. n : SumTo(k, f) = SumTo(k - 1, f) + f[k]
      /\ \A k \in 1 .. n : SumTo(k, g) = SumTo(k - 1, g) + g[k]
  BY <1>1, SumStep
<1>3. 0 \in S
  BY <1>2
<1>4. ASSUME NEW k \in 0 .. n - 1, k \in S
      PROVE  k + 1 \in S
  <2>1. k + 1 \in 1 .. n /\ k + 1 \in 0 .. n /\ (k + 1) - 1 = k
    OBVIOUS
  <2>2. SumTo(k + 1, f) = SumTo(k, f) + f[k + 1] /\ SumTo(k + 1, g) = SumTo(k, g) + g[k + 1]
    BY <1>2, <2>1
  <2>3. QED
    BY <1>4, <2>1, <2>2
<1>5. \A k \in 0 .. n : k \in S
  <2> HIDE DEF S
  <2>1. QED
    BY <1>3, <1>4, SetInduction
<1>6. QED
  BY <1>5

\* A sum in which one number is another one.
LEMMA OneTerm ==
  ASSUME NEW n \in Nat, NEW f, NEW g, Numbers(n, f), Numbers(n, g), NEW i \in 1 .. n,
         \A j \in 1 .. n : j # i => g[j] = f[j]
  PROVE  SumTo(n, f) + g[i] = SumTo(n, g) + f[i]
<1> DEFINE S == {k \in 0 .. n : IF k < i THEN SumTo(k, g) = SumTo(k, f)
                                ELSE SumTo(k, f) + g[i] = SumTo(k, g) + f[i]}
<1>2. /\ SumTo(0, f) = 0 /\ SumTo(0, g) = 0
      /\ \A k \in 0 .. n : SumTo(k, f) \in Nat
      /\ \A k \in 0 .. n : SumTo(k, g) \in Nat
      /\ \A k \in 1 .. n : SumTo(k, f) = SumTo(k - 1, f) + f[k]
      /\ \A k \in 1 .. n : SumTo(k, g) = SumTo(k - 1, g) + g[k]
  BY SumStep
<1>3. 0 \in S
  BY <1>2
<1>4. ASSUME NEW k \in 0 .. n - 1, k \in S
      PROVE  k + 1 \in S
  <2>1. k + 1 \in 1 .. n /\ k \in 0 .. n /\ k + 1 \in 0 .. n /\ (k + 1) - 1 = k
    OBVIOUS
  <2>2. /\ SumTo(k + 1, f) = SumTo(k, f) + f[k + 1] /\ SumTo(k + 1, g) = SumTo(k, g) + g[k + 1]
        /\ SumTo(k, f) \in Nat /\ SumTo(k, g) \in Nat
    BY <1>2, <2>1
  <2>3. f[k + 1] \in Nat /\ g[k + 1] \in Nat /\ f[i] \in Nat /\ g[i] \in Nat
    BY <2>1 DEF Numbers
  <2>4. CASE k + 1 < i
    BY <1>4, <2>1, <2>2, <2>3, <2>4
  <2>5. CASE k + 1 = i
    BY <1>4, <2>1, <2>2, <2>3, <2>5
  <2>6. CASE k + 1 > i
    BY <1>4, <2>1, <2>2, <2>3, <2>6
  <2>7. QED
    BY <2>1, <2>4, <2>5, <2>6
<1>5. \A k \in 0 .. n : k \in S
  <2> HIDE DEF S
  <2>1. QED
    BY <1>3, <1>4, SetInduction
<1>6. n \in S
  BY <1>5
<1>7. QED
  BY <1>6

LEMMA SizeType ==
  ASSUME NEW tres \in Seq(Tre)
  PROVE  Numbers(Len(tres), Sizes(tres)) /\ TresSize(tres) \in Nat
<1>1. Numbers(Len(tres), Sizes(tres))
  BY TagsType DEF Numbers, Sizes
<1>2. Len(tres) \in Nat /\ Len(tres) \in 0 .. Len(tres)
  OBVIOUS
<1>3. QED
  BY <1>1, <1>2, SumStep DEF TresSize

-----------------------------------------------------------------------------
(* Fields *)

\* A split loses nothing and mixes up nothing.
LEMMA SplitParts ==
  ASSUME NEW tres \in Seq(Tre)
  PROVE  /\ Split(tres).fit \in Seq(Tre) /\ Split(tres).spill \in Seq(Tre)
         /\ Split(tres).fit \o Split(tres).spill = tres
         /\ Split(tres).spill = <<>> => Split(tres).fit = tres
<1> DEFINE n == Len(tres)
           fits(k) == SumTo(k, Sizes(tres)) <= Cap
           Is(k) == (\A j \in 0 .. k : fits(j)) /\ (k < n => ~fits(k + 1))
           at == CHOOSE k \in 0 .. n : Is(k)
<1>1. n \in Nat
  OBVIOUS
<1>2. \E k \in 0 .. n : Is(k)
  <2> DEFINE S == {k \in 0 .. n : k < n => ~fits(k + 1)}
  <2>1. S \in SUBSET Nat /\ n \in S
    BY <1>1
  <2>2. PICK k \in S : \A j \in S : k <= j
    <3> HIDE DEF S
    <3>1. QED
      BY <2>1, LeastNumber
  <2>3. fits(0)
    <3>1. SumTo(0, Sizes(tres)) = 0
      BY <1>1, SizeType, SumStep
    <3>2. QED
      BY <3>1, LengthAssumption
  <2>4. ASSUME NEW j \in 0 .. k
        PROVE  fits(j)
    <3>1. CASE j = 0
      BY <2>3, <3>1
    <3>2. CASE j # 0
      <4>1. j - 1 \in 0 .. n /\ j - 1 < n /\ (j - 1) + 1 = j /\ j - 1 < k
        BY <2>2, <3>2
      <4>2. j - 1 \notin S
        BY <2>2, <4>1
      <4>3. QED
        BY <4>1, <4>2
    <3>3. QED
      BY <3>1, <3>2
  <2>5. Is(k)
    BY <2>2, <2>4
  <2>6. QED
    BY <2>2, <2>5
<1>3. at \in 0 .. n
  <2> HIDE DEF Is
  <2>1. QED
    BY <1>2
<1>4. Split(tres) = [fit |-> SubSeq(tres, 1, at), spill |-> SubSeq(tres, at + 1, n)]
  BY DEF Split
<1> HIDE DEF at
<1>5. \A i \in 1 .. n : tres[i] \in Tre
  BY ElementOfSeq
<1>6. SubSeq(tres, 1, at) \in Seq(Tre) /\ SubSeq(tres, at + 1, n) \in Seq(Tre)
  <2>1. at \in Int /\ n \in Int /\ at + 1 \in Int
    BY <1>1, <1>3
  <2>2. \A i \in 1 .. at : tres[i] \in Tre
    BY <1>3, <1>5
  <2>3. \A i \in at + 1 .. n : tres[i] \in Tre
    BY <1>3, <1>5
  <2>4. QED
    BY <2>1, <2>2, <2>3, SubSeqProperties
<1>7. SubSeq(tres, 1, at) \o SubSeq(tres, at + 1, n) = tres
  <2>1. 1 \in 1 .. Len(tres) + 1 /\ at \in 1 - 1 .. Len(tres) /\ n \in at .. Len(tres)
    BY <1>1, <1>3
  <2>2. SubSeq(tres, 1, at) \o SubSeq(tres, at + 1, n) = SubSeq(tres, 1, n)
    BY <2>1, ConcatAdjacentSubSeq
  <2>3. SubSeq(tres, 1, n) = tres
    BY SubSeqFull
  <2>4. QED
    BY <2>2, <2>3
<1>8. SubSeq(tres, at + 1, n) = <<>> => SubSeq(tres, 1, at) = tres
  <2>1. SubSeq(tres, 1, at) \o <<>> = SubSeq(tres, 1, at)
    BY <1>6, ConcatEmptySeq
  <2>2. QED
    BY <1>7, <2>1
<1>9. /\ Split(tres).fit = SubSeq(tres, 1, at)
      /\ Split(tres).spill = SubSeq(tres, at + 1, n)
  <2> DEFINE one == SubSeq(tres, 1, at)
             two == SubSeq(tres, at + 1, n)
  <2>1. Split(tres) = [fit |-> one, spill |-> two]
    BY <1>4
  <2> HIDE DEF one, two
  <2>2. Split(tres).fit = one /\ Split(tres).spill = two
    BY <2>1
  <2>3. QED
    BY <2>2 DEF one, two
<1> HIDE DEF n
<1>10. QED
  BY <1>6, <1>7, <1>8, <1>9, Zenon

Ofl == Nat \cup {Placeholder}

LEMMA EmptySize == TresSize(<<>>) = 0
<1>1. <<>> \in Seq(Tre) /\ Len(<<>>) = 0
  BY EmptySeq
<1>2. SumTo(0, Sizes(<<>>)) = 0
  BY <1>1, SizeType, SumStep
<1>3. QED
  BY <1>1, <1>2 DEF TresSize

\* What create_image_subheader_with_tres puts in the field.
LEMMA ImageFieldParts ==
  ASSUME NEW tres \in Seq(Tre)
  PROVE  /\ ImageField(tres) \in Field
         /\ ImageField(tres).tres = Split(tres).fit
         /\ ImageField(tres).ofl = IF Split(tres).fit # <<>> /\ Spills(tres) THEN Placeholder ELSE 0
<1>1. Split(tres).fit \in Seq(Tre) /\ TresSize(Split(tres).fit) \in Nat
  BY SplitParts, SizeType
<1>2. NoField \in Field
  BY EmptySeq DEF NoField, Field
<1>3. \A o \in Ofl : FilledField(Split(tres).fit, o) \in Field
  BY <1>1 DEF FilledField, Field, Ofl
<1>4. CASE Split(tres).fit = <<>>
  BY <1>2, <1>4 DEF ImageField, NoField
<1>5. CASE Split(tres).fit # <<>>
  <2>1. ImageField(tres) = FilledField(Split(tres).fit, IF Split(tres).spill = <<>> THEN 0 ELSE Placeholder)
    BY <1>5 DEF ImageField
  <2>2. ImageField(tres) \in Field
    <3>1. 0 \in Ofl /\ Placeholder \in Ofl
      BY DEF Ofl
    <3>2. \/ ImageField(tres) = FilledField(Split(tres).fit, 0)
          \/ ImageField(tres) = FilledField(Split(tres).fit, Placeholder)
      BY <2>1
    <3>3. QED
      BY <1>3, <3>1, <3>2, Zenon
  <2>3. /\ ImageField(tres).tres = Split(tres).fit
        /\ ImageField(tres).ofl = IF Split(tres).spill = <<>> THEN 0 ELSE Placeholder
    BY <2>1 DEF FilledField
  <2>4. QED
    BY <1>5, <2>2, <2>3 DEF Spills
<1>6. QED
  BY <1>4, <1>5

\* The header is as long as calculate_header_length says.
LEMMA HeaderFieldParts ==
  ASSUME NEW tres \in Seq(Tre), NEW index \in Ofl
  PROVE  /\ HeaderField(tres, index) \in Field
         /\ HeaderField(tres, index).tres = Split(tres).fit
         /\ HeaderField(tres, index).ofl = IF Spills(tres) THEN index ELSE 0
         /\ HeaderFieldLen(tres) = FieldBytes(HeaderField(tres, index))
         /\ HeaderFieldLen(tres) \in Nat
<1>1. Split(tres).fit \in Seq(Tre) /\ TresSize(Split(tres).fit) \in Nat
  BY SplitParts, SizeType
<1>2. NoField \in Field
  BY EmptySeq DEF NoField, Field
<1>3. \A o \in Ofl : FilledField(Split(tres).fit, o) \in Field
  BY <1>1 DEF FilledField, Field, Ofl
<1>4. CASE tres = <<>>
  <2>1. Split(tres).fit = <<>> /\ Split(tres).spill = <<>>
    <3>1. Split(tres).fit \o Split(tres).spill = <<>>
      BY <1>4, SplitParts
    <3>2. QED
      BY <3>1, SplitParts, ConcatEqualIffEmpty
  <2>2. QED
    BY <1>2, <1>4, <2>1 DEF HeaderField, HeaderFieldLen, FieldBytes, NoField, Spills
<1>5. CASE tres # <<>>
  <2>1. HeaderField(tres, index) = FilledField(Split(tres).fit, IF Spills(tres) THEN index ELSE 0)
    BY <1>5 DEF HeaderField, Spills
  <2>2. HeaderFieldLen(tres) = 5 + 3 + TresSize(Split(tres).fit)
    BY <1>5 DEF HeaderFieldLen
  <2>3. QED
    BY <1>1, <1>3, <2>1, <2>2 DEF Ofl, FilledField, FieldBytes
<1>6. QED
  BY <1>4, <1>5

-----------------------------------------------------------------------------
(* The file that close writes *)

\* The assets of a type are those of the queue.
LEMMA TypeParts ==
  ASSUME NEW q \in Seq(Asset), NEW type
  PROVE  /\ OfType(q, type) \in Seq(Asset) /\ Len(OfType(q, type)) \in Nat
         /\ DOMAIN OfType(q, type) = 1 .. Len(OfType(q, type))
         /\ \A k \in DOMAIN OfType(q, type) :
               \E i \in DOMAIN q : OfType(q, type)[k] = q[i] /\ q[i].type = type
<1> DEFINE D == {i \in DOMAIN q : q[i].type = type}
<1>1. D \in SUBSET (DOMAIN q) /\ OfType(q, type) = Picked(q, D)
  BY DEF OfType
<1>2. \A i \in D : i \in DOMAIN q /\ q[i].type = type
  OBVIOUS
<1> HIDE DEF D
<1>3. /\ OfType(q, type) \in Seq(Asset)
      /\ Cardinality(D) \in Nat /\ Len(OfType(q, type)) = Cardinality(D)
      /\ DOMAIN OfType(q, type) = 1 .. Cardinality(D)
      /\ \A k \in 1 .. Cardinality(D) : /\ Ascending(D)[k] \in D
                                        /\ OfType(q, type)[k] = q[Ascending(D)[k]]
  BY <1>1, PickedElements
<1>4. \A k \in DOMAIN OfType(q, type) :
         \E i \in DOMAIN q : OfType(q, type)[k] = q[i] /\ q[i].type = type
  BY <1>2, <1>3
<1>5. QED
  BY <1>3, <1>4

LEMMA TypeCount ==
  ASSUME NEW q \in Seq(Asset), NEW type
  PROVE  Len(OfType(q, type)) = Cardinality({i \in DOMAIN q : q[i].type = type})
<1> DEFINE D == {i \in DOMAIN q : q[i].type = type}
<1>1. D \in SUBSET (DOMAIN q) /\ OfType(q, type) = Picked(q, D)
  BY DEF OfType
<1>2. Len(OfType(q, type)) = Cardinality(D)
  <2> HIDE DEF D
  <2>1. QED
    BY <1>1, PickedElements
<1>3. QED
  BY <1>2

\* Every asset is of one of the three types.
LEMMA TypesCount ==
  ASSUME NEW q \in Seq(Asset)
  PROVE  Len(q) = Len(Images(q)) + Len(Texts(q)) + Len(Des(q))
<1> DEFINE D(type) == {i \in DOMAIN q : q[i].type = type}
           A == D("image")  B == D("text")  C == D("data")
<1>1. Len(q) \in Nat /\ DOMAIN q = 1 .. Len(q)
  OBVIOUS
<1>2. \A i \in DOMAIN q : q[i].type \in {"image", "text", "data"}
  <2>1. \A i \in DOMAIN q : q[i] \in Asset
    BY <1>1, ElementOfSeq
  <2>2. QED
    BY <2>1 DEF Asset
<1>3. DOMAIN q = (A \cup B) \cup C /\ A \cap B = {} /\ (A \cup B) \cap C = {}
  BY <1>2
<1>4. IsFiniteSet(DOMAIN q) /\ Cardinality(DOMAIN q) = Len(q)
  <2>1. IsFiniteSet(1 .. Len(q)) /\ Cardinality(1 .. Len(q)) = Len(q)
    BY <1>1, FS_Interval
  <2>2. QED
    BY <1>1, <2>1
<1>5. A \subseteq DOMAIN q /\ B \subseteq DOMAIN q /\ C \subseteq DOMAIN q
  OBVIOUS
<1>6. /\ Len(Images(q)) = Cardinality(A)
      /\ Len(Texts(q)) = Cardinality(B)
      /\ Len(Des(q)) = Cardinality(C)
  BY TypeCount DEF Images, Texts, Des
<1> HIDE DEF A, B, C
<1>7. IsFiniteSet(A) /\ IsFiniteSet(B) /\ IsFiniteSet(C)
  BY <1>4, <1>5, FS_Subset
<1>8. IsFiniteSet(A \cup B) /\ Cardinality(A \cup B) = Cardinality(A) + Cardinality(B)
  <2>1. /\ IsFiniteSet(A \cup B)
        /\ Cardinality(A \cup B) = Cardinality(A) + Cardinality(B) - Cardinality(A \cap B)
    BY <1>7, FS_Union
  <2>2. Cardinality(A \cap B) = 0
    BY <1>3, FS_EmptySet
  <2>3. Cardinality(A) \in Nat /\ Cardinality(B) \in Nat
    BY <1>7, FS_CardinalityType
  <2>4. QED
    BY <2>1, <2>2, <2>3
<1>9. Cardinality((A \cup B) \cup C) = Cardinality(A \cup B) + Cardinality(C)
  <2>1. Cardinality((A \cup B) \cup C) =
          Cardinality(A \cup B) + Cardinality(C) - Cardinality((A \cup B) \cap C)
    BY <1>7, <1>8, FS_Union
  <2>2. Cardinality((A \cup B) \cap C) = 0
    BY <1>3, FS_EmptySet
  <2>3. Cardinality(A \cup B) \in Nat /\ Cardinality(C) \in Nat
    BY <1>7, <1>8, FS_CardinalityType
  <2>4. QED
    BY <2>1, <2>2, <2>3
<1>10. QED
  BY <1>3, <1>4, <1>6, <1>8, <1>9

LEMMA AssetParts ==
  ASSUME NEW q \in Seq(Asset)
  PROVE  \A i \in DOMAIN q :
            /\ q[i] \in Asset
            /\ q[i].tres \in Seq(Tre) /\ q[i].owner \in Owner /\ q[i].len \in Nat
            /\ q[i].marked \in BOOLEAN
<1>1. \A i \in DOMAIN q : q[i] \in Asset
  BY ElementOfSeq
<1>2. QED
  BY <1>1 DEF Asset

\* The overflow segments: one for each container that spills, in a known order.
LEMMA OverflowParts ==
  ASSUME NEW q \in Seq(Asset), NEW m \in Seq(Tre)
  PROVE  LET over == OverflowSegments(q, m)
         IN  /\ over \in Seq(FileDes) /\ Len(over) \in Nat /\ DOMAIN over = 1 .. Len(over)
             /\ \A i \in DOMAIN Images(q) : Spills(Images(q)[i].tres) =>
                   \E k \in DOMAIN over : /\ over[k].owner = i
                                          /\ over[k].held = Split(Images(q)[i].tres).spill
             /\ Spills(m) => \E k \in DOMAIN over : /\ over[k].owner = 0
                                                    /\ over[k].held = Split(m).spill
             /\ \A j, k \in DOMAIN over : over[j].owner = over[k].owner => j = k
<1> DEFINE over == OverflowSegments(q, m)
           images == Images(q)
           D == {i \in DOMAIN images : Spills(images[i].tres)}
           n == Cardinality(D)
           a == Ascending(D)
           seg(owner, tres) == [owner |-> owner, held |-> tres, len |-> TresSize(tres)]
           one == [k \in 1 .. n |-> seg(a[k], Split(images[a[k]].tres).spill)]
           two == IF Spills(m) THEN <<seg(0, Split(m).spill)>> ELSE <<>>
<1>1. images \in Seq(Asset) /\ DOMAIN images = 1 .. Len(images) /\ Len(images) \in Nat
  BY TypeParts DEF Images
<1>2. \A i \in DOMAIN images : images[i].tres \in Seq(Tre)
  BY <1>1, AssetParts
<1>3. D \in SUBSET (1 .. Len(images)) /\ \A i \in D : i \in DOMAIN images /\ i # 0
  BY <1>1
<1>4. over = [k \in DOMAIN a |-> seg(a[k], Split(images[a[k]].tres).spill)] \o two
  BY DEF OverflowSegments
<1>5. Lists(a, n, D)
  <2> HIDE DEF D, images
  <2>1. QED
    BY <1>1, <1>3, AscendingLists
<1>6. D = {i \in DOMAIN images : Spills(images[i].tres)}
  OBVIOUS
<1>7. \A tres \in Seq(Tre) : Split(tres).spill \in Seq(Tre) /\ TresSize(Split(tres).spill) \in Nat
  BY SplitParts, SizeType
<1> HIDE DEF D, a, n, images
<1>8. /\ n \in Nat /\ DOMAIN a = 1 .. n
      /\ \A k \in 1 .. n : a[k] \in D /\ a[k] \in Nat /\ a[k] # 0
      /\ \A x \in D : \E k \in 1 .. n : a[k] = x
      /\ \A j, k \in 1 .. n : j < k => a[j] < a[k]
  <2>1. n \in Nat /\ a \in [1 .. n -> D]
    BY <1>5 DEF Lists
  <2>2. /\ \A x \in D : \E k \in 1 .. n : a[k] = x
        /\ \A j, k \in 1 .. n : j < k => a[j] < a[k]
    BY <1>5 DEF Lists
  <2>3. \A k \in 1 .. n : a[k] \in D
    BY <2>1
  <2>4. \A i \in D : i \in Nat /\ i # 0
    BY <1>1, <1>3
  <2>5. QED
    BY <2>1, <2>2, <2>3, <2>4
<1>9. \A j, k \in 1 .. n : a[j] = a[k] => j = k
  <2>1. SUFFICES ASSUME NEW j \in 1 .. n, NEW k \in 1 .. n, j # k
                 PROVE  a[j] # a[k]
    BY Zenon
  <2>2. j < k \/ k < j
    BY <1>8, <2>1
  <2>3. a[j] < a[k] \/ a[k] < a[j]
    BY <1>8, <2>2
  <2>4. QED
    BY <1>8, <2>3
<1>10. \A x \in Nat, tres \in Seq(Tre) : TresSize(tres) \in Nat => seg(x, tres) \in FileDes
  BY DEF FileDes, Owner
<1>11. one \in Seq(FileDes) /\ Len(one) = n
  <2>1. ASSUME NEW k \in 1 .. n
        PROVE  seg(a[k], Split(images[a[k]].tres).spill) \in FileDes
    <3>1. images[a[k]].tres \in Seq(Tre) /\ a[k] \in Nat
      BY <1>2, <1>3, <1>8
    <3> HIDE DEF seg
    <3>2. QED
      BY <1>7, <1>10, <3>1
  <2> HIDE DEF seg
  <2>2. one \in [1 .. n -> FileDes]
    BY <2>1
  <2>3. QED
    BY <1>8, <2>2
<1>12. two \in Seq(FileDes) /\ Len(two) = IF Spills(m) THEN 1 ELSE 0
  <2>1. seg(0, Split(m).spill) \in FileDes
    <3> HIDE DEF seg
    <3>1. QED
      BY <1>7, <1>10
  <2> HIDE DEF seg
  <2>2. QED
    BY <2>1
<1>13. over = one \o two
  BY <1>4, <1>8
<1>14. \A k \in 1 .. n : /\ one[k].owner = a[k]
                         /\ one[k].held = Split(images[a[k]].tres).spill
  OBVIOUS
<1>15. Spills(m) => two[1].owner = 0 /\ two[1].held = Split(m).spill
  OBVIOUS
<1> HIDE DEF one, two, over
<1>16. /\ over \in Seq(FileDes) /\ Len(over) = n + Len(two) /\ Len(over) \in Nat
       /\ DOMAIN over = 1 .. Len(over)
       /\ \A i \in 1 .. n : i \in DOMAIN over /\ over[i] = one[i]
       /\ Spills(m) => n + 1 \in DOMAIN over /\ over[n + 1] = two[1]
       /\ \A i \in DOMAIN over : i \in 1 .. n \/ (i = n + 1 /\ Spills(m))
  <2>1. /\ over \in Seq(FileDes) /\ Len(over) = n + Len(two)
        /\ \A i \in 1 .. n + Len(two) :
              over[i] = IF i <= n THEN one[i] ELSE two[i - n]
    BY <1>11, <1>12, <1>13, ConcatProperties
  <2>2. Len(over) \in Nat /\ DOMAIN over = 1 .. n + Len(two)
    BY <2>1
  <2>3. (n + 1) - n = 1
    BY <1>8
  <2>4. QED
    BY <1>8, <1>12, <2>1, <2>2, <2>3
<1>17. ASSUME NEW i \in DOMAIN images, Spills(images[i].tres)
       PROVE  \E k \in DOMAIN over : /\ over[k].owner = i
                                     /\ over[k].held = Split(images[i].tres).spill
  <2>1. i \in D
    BY <1>6, <1>17
  <2>2. PICK k \in 1 .. n : a[k] = i
    BY <1>8, <2>1
  <2>3. QED
    BY <1>14, <1>16, <2>2
<1>18. Spills(m) => \E k \in DOMAIN over : /\ over[k].owner = 0
                                           /\ over[k].held = Split(m).spill
  BY <1>15, <1>16
<1>19. ASSUME NEW j \in DOMAIN over, NEW k \in DOMAIN over, over[j].owner = over[k].owner
       PROVE  j = k
  <2>1. CASE j \in 1 .. n /\ k \in 1 .. n
    BY <1>9, <1>14, <1>16, <1>19, <2>1
  <2>a. ASSUME NEW i \in 1 .. n
        PROVE  over[i].owner # 0
    <3>1. over[i].owner = a[i]
      BY <1>14, <1>16
    <3>2. a[i] # 0
      BY <1>8
    <3>3. QED
      BY <3>1, <3>2, Zenon
  <2>b. Spills(m) => over[n + 1].owner = 0
    BY <1>15, <1>16
  <2>2. CASE j \in 1 .. n /\ k = n + 1 /\ Spills(m)
    BY <1>19, <2>2, <2>a, <2>b
  <2>3. CASE k \in 1 .. n /\ j = n + 1 /\ Spills(m)
    BY <1>19, <2>3, <2>a, <2>b
  <2>4. QED
    BY <1>16, <2>1, <2>2, <2>3
<1>20. QED
  BY <1>16, <1>17, <1>18, <1>19 DEF over, images

\* The segments behind the queued ones are the overflow segments.
LEMMA DesParts ==
  ASSUME NEW q \in Seq(Asset), NEW m \in Seq(Tre)
  PROVE  LET des == WrittenFile(q, m).des
             over == OverflowSegments(q, m)
         IN  /\ des \in Seq(FileDes)
             /\ Len(Des(q)) \in Nat /\ Len(des) = Len(Des(q)) + Len(over)
             /\ DOMAIN des = 1 .. Len(des)
             /\ \A k \in DOMAIN over : des[Len(Des(q)) + k] = over[k]
<1> DEFINE over == OverflowSegments(q, m)
           queued == [i \in DOMAIN Des(q) |-> [owner |-> Des(q)[i].owner, held |-> Des(q)[i].tres,
                                               len |-> Des(q)[i].len]]
<1>1. Des(q) \in Seq(Asset) /\ Len(Des(q)) \in Nat /\ DOMAIN Des(q) = 1 .. Len(Des(q))
  BY TypeParts DEF Des
<1>2. WrittenFile(q, m).des = queued \o over
  BY DEF WrittenFile
<1>3. queued \in Seq(FileDes) /\ Len(queued) = Len(Des(q))
  <2>1. \A i \in DOMAIN Des(q) : queued[i] \in FileDes
    BY <1>1, AssetParts DEF FileDes
  <2>2. queued \in [1 .. Len(Des(q)) -> FileDes]
    BY <1>1, <2>1
  <2>3. QED
    BY <1>1, <2>2
<1>4. over \in Seq(FileDes) /\ Len(over) \in Nat /\ DOMAIN over = 1 .. Len(over)
  BY OverflowParts
<1> HIDE DEF over, queued
<1>5. /\ queued \o over \in Seq(FileDes)
      /\ Len(queued \o over) = Len(queued) + Len(over)
      /\ \A i \in 1 .. Len(queued) + Len(over) :
            (queued \o over)[i] = IF i <= Len(queued) THEN queued[i] ELSE over[i - Len(queued)]
  BY <1>3, <1>4, ConcatProperties
<1>6. \A k \in 1 .. Len(over) : (queued \o over)[Len(queued) + k] = over[k]
  BY <1>1, <1>3, <1>4, <1>5
<1>7. QED
  BY <1>1, <1>2, <1>3, <1>4, <1>5, <1>6 DEF over

\* IndexFor finds the segment that was made for a container that spills.
LEMMA IndexParts ==
  ASSUME NEW q \in Seq(Asset), NEW m \in Seq(Tre), NEW owner,
         NEW k \in DOMAIN OverflowSegments(q, m), OverflowSegments(q, m)[k].owner = owner
  PROVE  IndexFor(q, m, owner) = Len(Des(q)) + k
<1> DEFINE over == OverflowSegments(q, m)
           I == {i \in 1 .. Len(over) : over[i].owner = owner}
<1>1. /\ Len(over) \in Nat /\ DOMAIN over = 1 .. Len(over)
      /\ \A i, j \in DOMAIN over : over[i].owner = over[j].owner => i = j
  BY OverflowParts
<1>2. IndexFor(q, m, owner) = Len(Des(q)) + IF I # {} THEN Min(I) ELSE 0
  BY DEF IndexFor, SelectInSeq
<1>3. over[k].owner = owner /\ k \in DOMAIN over
  OBVIOUS
<1> HIDE DEF over
<1>4. I = {k}
  BY <1>1, <1>3
<1> HIDE DEF I
<1>5. Min(I) = k
  <2>1. k \in Int
    BY <1>1, <1>3
  <2>2. Min(I) \in I
    <3>1. \E x \in I : \A y \in I : x <= y
      BY <1>4, <2>1
    <3>2. QED
      BY <3>1 DEF Min
  <2>3. QED
    BY <1>4, <2>2
<1>6. QED
  BY <1>2, <1>4, <1>5

\* A container that spills finds what it has spilled.
LEMMA SpilledParts ==
  ASSUME NEW q \in Seq(Asset), NEW m \in Seq(Tre)
  PROVE  LET des == WrittenFile(q, m).des
         IN  /\ \A i \in DOMAIN Images(q) : Spills(Images(q)[i].tres) =>
                  LET k == IndexFor(q, m, i)
                  IN  /\ k \in DOMAIN des /\ k > Len(Des(q))
                      /\ des[k].owner = i /\ des[k].held = Split(Images(q)[i].tres).spill
             /\ Spills(m) =>
                  LET k == IndexFor(q, m, 0)
                  IN  /\ k \in DOMAIN des /\ k > Len(Des(q))
                      /\ des[k].owner = 0 /\ des[k].held = Split(m).spill
<1> DEFINE des == WrittenFile(q, m).des
           over == OverflowSegments(q, m)
<1>1. /\ Len(over) \in Nat /\ DOMAIN over = 1 .. Len(over)
      /\ \A i \in DOMAIN Images(q) : Spills(Images(q)[i].tres) =>
            \E k \in DOMAIN over : /\ over[k].owner = i
                                   /\ over[k].held = Split(Images(q)[i].tres).spill
      /\ Spills(m) => \E k \in DOMAIN over : /\ over[k].owner = 0
                                             /\ over[k].held = Split(m).spill
  BY OverflowParts
<1>2. /\ Len(Des(q)) \in Nat /\ Len(des) = Len(Des(q)) + Len(over)
      /\ DOMAIN des = 1 .. Len(des)
      /\ \A k \in DOMAIN over : des[Len(Des(q)) + k] = over[k]
  BY DesParts
<1>3. \A owner : \A k \in DOMAIN over : over[k].owner = owner =>
         IndexFor(q, m, owner) = Len(Des(q)) + k
  BY IndexParts
<1> HIDE DEF des, over
<1>4. ASSUME NEW owner, NEW held, NEW k \in DOMAIN over, over[k].owner = owner, over[k].held = held
      PROVE  LET x == IndexFor(q, m, owner)
             IN  x \in DOMAIN des /\ x > Len(Des(q)) /\ des[x].owner = owner /\ des[x].held = held
  <2>1. IndexFor(q, m, owner) = Len(Des(q)) + k
    BY <1>3, <1>4
  <2>2. Len(Des(q)) + k \in DOMAIN des /\ Len(Des(q)) + k > Len(Des(q))
    BY <1>1, <1>2
  <2>3. QED
    BY <1>2, <1>4, <2>1, <2>2
<1>5. ASSUME NEW i \in DOMAIN Images(q), Spills(Images(q)[i].tres)
      PROVE  LET x == IndexFor(q, m, i)
             IN  /\ x \in DOMAIN des /\ x > Len(Des(q))
                 /\ des[x].owner = i /\ des[x].held = Split(Images(q)[i].tres).spill
  <2>1. PICK k \in DOMAIN over : /\ over[k].owner = i
                                 /\ over[k].held = Split(Images(q)[i].tres).spill
    BY <1>1, <1>5
  <2>2. QED
    BY <1>4, <2>1
<1>6. ASSUME Spills(m)
      PROVE  LET x == IndexFor(q, m, 0)
             IN  /\ x \in DOMAIN des /\ x > Len(Des(q))
                 /\ des[x].owner = 0 /\ des[x].held = Split(m).spill
  <2>1. PICK k \in DOMAIN over : /\ over[k].owner = 0
                                 /\ over[k].held = Split(m).spill
    BY <1>1, <1>6
  <2>2. QED
    BY <1>4, <2>1
<1>7. QED
  BY <1>5, <1>6 DEF des

-----------------------------------------------------------------------------
LEMMA IndexType ==
  ASSUME NEW q \in Seq(Asset), NEW m \in Seq(Tre), NEW owner
  PROVE  IndexFor(q, m, owner) \in Nat
<1> DEFINE over == OverflowSegments(q, m)
           I == {i \in 1 .. Len(over) : over[i].owner = owner}
<1>1. IndexFor(q, m, owner) = Len(Des(q)) + IF I # {} THEN Min(I) ELSE 0
  BY DEF IndexFor, SelectInSeq
<1>2. Len(Des(q)) \in Nat
  BY TypeParts DEF Des
<1>3. I \in SUBSET Nat
  OBVIOUS
<1> HIDE DEF I
<1>4. ASSUME I # {}
      PROVE  Min(I) \in Nat
  <2>1. \E x \in I : \A y \in I : x <= y
    BY <1>3, <1>4, LeastNumber
  <2>2. Min(I) \in I
    BY <2>1 DEF Min
  <2>3. QED
    BY <1>3, <2>2
<1>5. QED
  BY <1>1, <1>2, <1>4

\* What stands in the subheader of an image once close has patched it.
LEMMA ImageParts ==
  ASSUME NEW q \in Seq(Asset), NEW m \in Seq(Tre), NEW i \in DOMAIN Images(q)
  PROVE  LET a == Images(q)[i]
             w == WrittenImage(q, m, i)
         IN  /\ w \in FileImage
             /\ w.ixshd = NoField /\ w.len = a.len
             /\ w.udid.tres = Split(a.tres).fit
             /\ w.udid.ofl \in {0, Placeholder, IndexFor(q, m, i)}
             /\ ~Spills(a.tres) => w.udid.ofl = 0
             /\ Spills(a.tres) /\ ~LosesTres(a) => w.udid.ofl = IndexFor(q, m, i)
             /\ w.udid.ofl = Placeholder => a.marked
<1> DEFINE a == Images(q)[i]
           w == WrittenImage(q, m, i)
           index == IndexFor(q, m, i)
           udid == ImageField(a.tres)
           fresh == [marked |-> a.marked, udid |-> udid, ixshd |-> NoField, len |-> a.len]
<1>1. a.tres \in Seq(Tre) /\ a.len \in Nat /\ a.marked \in BOOLEAN
  <2>1. Images(q) \in Seq(Asset)
    BY TypeParts DEF Images
  <2>2. QED
    BY <2>1, AssetParts
<1>2. index \in Nat
  BY IndexType
<1>3. /\ udid \in Field /\ udid.tres = Split(a.tres).fit
      /\ udid.ofl = IF Split(a.tres).fit # <<>> /\ Spills(a.tres) THEN Placeholder ELSE 0
  BY <1>1, ImageFieldParts
<1>4. NoField \in Field
  BY EmptySeq DEF NoField, Field
<1>5. w = IF Spills(a.tres) THEN Patched(fresh, index) ELSE fresh
  BY DEF WrittenImage
<1>6. LosesTres(a) <=> Spills(a.tres) /\ (Split(a.tres).fit = <<>> \/ a.marked)
  BY DEF LosesTres
<1> HIDE DEF a, w, index, udid
<1>7. fresh \in FileImage
  BY <1>1, <1>3, <1>4 DEF FileImage
<1>8. Placeholder # 0 /\ Placeholder \notin Nat
  BY DEF Placeholder
<1>9. CASE ~Spills(a.tres)
  <2>1. w = fresh
    BY <1>5, <1>9
  <2>2. udid.ofl = 0
    BY <1>3, <1>9
  <2>3. w.udid = udid /\ w.ixshd = NoField /\ w.len = a.len
    BY <2>1
  <2>4. QED
    BY <1>3, <1>7, <1>8, <1>9, <2>1, <2>2, <2>3 DEF a, w, index
<1>10. CASE Spills(a.tres) /\ a.marked
  <2>1. w = [fresh EXCEPT !.marked = FALSE]
    BY <1>5, <1>10 DEF Patched
  <2>2. w.udid = udid /\ w.ixshd = NoField /\ w.len = a.len
    BY <2>1
  <2>3. w \in FileImage
    BY <1>7, <2>1 DEF FileImage
  <2>4. QED
    BY <1>3, <1>6, <1>8, <1>10, <2>2, <2>3 DEF a, w, index
<1>11. CASE Spills(a.tres) /\ ~a.marked /\ Split(a.tres).fit = <<>>
  <2>1. udid.ofl = 0
    BY <1>3, <1>11
  <2>2. w = fresh
    BY <1>5, <1>8, <1>11, <2>1 DEF Patched
  <2>3. w.udid = udid /\ w.ixshd = NoField /\ w.len = a.len
    BY <2>2
  <2>4. QED
    BY <1>3, <1>6, <1>7, <1>8, <1>11, <2>1, <2>2, <2>3 DEF a, w, index
<1>12. CASE Spills(a.tres) /\ ~a.marked /\ Split(a.tres).fit # <<>>
  <2>1. udid.ofl = Placeholder
    BY <1>3, <1>12
  <2>2. w = [fresh EXCEPT !.udid.ofl = index]
    BY <1>5, <1>12, <2>1 DEF Patched
  <2>3. w.udid = [udid EXCEPT !.ofl = index] /\ w.ixshd = NoField /\ w.len = a.len
    BY <2>2
  <2>4. /\ [udid EXCEPT !.ofl = index] \in Field
        /\ [udid EXCEPT !.ofl = index].tres = udid.tres
        /\ [udid EXCEPT !.ofl = index].ofl = index
    BY <1>2, <1>3 DEF Field
  <2>5. w \in FileImage
    BY <1>1, <1>4, <2>2, <2>4 DEF FileImage
  <2>6. w.udid.ofl = index /\ w.udid.tres = Split(a.tres).fit
    BY <1>3, <2>3, <2>4
  <2>7. index # Placeholder
    BY <1>2, <1>8
  <2>8. QED
    BY <1>12, <2>3, <2>5, <2>6, <2>7 DEF a, w, index
<1>13. QED
  BY <1>1, <1>9, <1>10, <1>11, <1>12 DEF a

\* What close writes is a file, and its header is as long as it says.
LEMMA FileParts ==
  ASSUME NEW q \in Seq(Asset), NEW m \in Seq(Tre)
  PROVE  LET f == WrittenFile(q, m)
         IN  /\ f \in File /\ f.exists
             /\ DOMAIN f.images = DOMAIN Images(q)
             /\ \A i \in DOMAIN Images(q) : f.images[i] = WrittenImage(q, m, i)
             /\ f.xhd.tres = Split(m).fit
             /\ f.xhd.ofl = IF Spills(m) THEN IndexFor(q, m, 0) ELSE 0
             /\ f.hl = WrittenHeader(f)
<1> DEFINE f == WrittenFile(q, m)
           over == OverflowSegments(q, m)
           index == IndexFor(q, m, 0)
           images == [i \in DOMAIN Images(q) |-> WrittenImage(q, m, i)]
           texts == [i \in DOMAIN Texts(q) |-> [len |-> Texts(q)[i].len]]
<1>1. /\ f.exists = TRUE
      /\ f.hl = HeaderFieldLen(m) + EntryLen * (Len(q) + Len(over))
      /\ f.xhd = HeaderField(m, index)
      /\ f.images = images
      /\ f.texts = texts
      /\ f = [exists |-> f.exists, hl |-> f.hl, xhd |-> f.xhd, images |-> f.images,
              texts |-> f.texts, des |-> f.des]
  BY DEF WrittenFile
<1>2. index \in Nat
  BY IndexType
<1>3. /\ HeaderField(m, index) \in Field
      /\ HeaderField(m, index).tres = Split(m).fit
      /\ HeaderField(m, index).ofl = IF Spills(m) THEN index ELSE 0
      /\ HeaderFieldLen(m) = FieldBytes(HeaderField(m, index))
      /\ HeaderFieldLen(m) \in Nat
  <2>1. index \in Ofl
    BY <1>2 DEF Ofl
  <2> HIDE DEF index
  <2>2. QED
    BY <2>1, HeaderFieldParts
<1>4. /\ Images(q) \in Seq(Asset) /\ Len(Images(q)) \in Nat
      /\ DOMAIN Images(q) = 1 .. Len(Images(q))
      /\ Texts(q) \in Seq(Asset) /\ Len(Texts(q)) \in Nat
      /\ DOMAIN Texts(q) = 1 .. Len(Texts(q))
  BY TypeParts DEF Images, Texts
<1>5. images \in Seq(FileImage) /\ Len(images) = Len(Images(q))
  <2>1. \A i \in DOMAIN Images(q) : images[i] \in FileImage
    BY ImageParts
  <2>2. images \in [1 .. Len(Images(q)) -> FileImage]
    BY <1>4, <2>1
  <2>3. QED
    BY <1>4, <2>2
<1>6. texts \in Seq([len : Nat]) /\ Len(texts) = Len(Texts(q))
  <2>1. \A i \in DOMAIN Texts(q) : texts[i] \in [len : Nat]
    BY <1>4, AssetParts
  <2>2. texts \in [1 .. Len(Texts(q)) -> [len : Nat]]
    BY <1>4, <2>1
  <2>3. QED
    BY <1>4, <2>2
<1>7. /\ f.des \in Seq(FileDes) /\ Len(f.des) = Len(Des(q)) + Len(over)
      /\ Len(Des(q)) \in Nat
  BY DesParts
<1>8. Len(over) \in Nat /\ Len(q) \in Nat
  BY OverflowParts
<1>9. Len(q) = Len(Images(q)) + Len(Texts(q)) + Len(Des(q))
  BY TypesCount
<1>10. DOMAIN images = DOMAIN Images(q) /\ \A i \in DOMAIN Images(q) : images[i] = WrittenImage(q, m, i)
  OBVIOUS
<1> HIDE DEF f, over, index, images, texts
<1>11. Len(Segments(f)) = Len(q) + Len(over)
  <2> DEFINE x == [i \in DOMAIN f.images |->
                     SegmentOf(ImageSub(f.images[i]), f.images[i].len, Limit.li)]
             y == [i \in DOMAIN f.texts |-> SegmentOf(SubLen, f.texts[i].len, Limit.lt)]
             z == [i \in DOMAIN f.des |-> SegmentOf(SubLen, f.des[i].len, Limit.ld)]
  <2>1. Segments(f) = x \o y \o z
    BY DEF Segments
  <2>2. Len(x) = Len(Images(q)) /\ Len(y) = Len(Texts(q)) /\ Len(z) = Len(f.des)
    BY <1>1, <1>4, <1>5, <1>6, <1>7
  <2>3. Len(x \o y \o z) = Len(x) + Len(y) + Len(z)
    BY <1>1, <1>4, <1>5, <1>6, <1>7, <2>2
  <2> HIDE DEF x, y, z
  <2>4. QED
    BY <1>4, <1>7, <1>8, <1>9, <2>1, <2>2, <2>3
<1>12. f.hl = WrittenHeader(f)
  BY <1>1, <1>3, <1>11 DEF WrittenHeader
<1>13. f.hl \in Nat
  <2>1. EntryLen \in Nat
    BY LengthAssumption
  <2>2. EntryLen * (Len(q) + Len(over)) \in Nat
    BY <1>8, <2>1
  <2>3. QED
    BY <1>1, <1>3, <2>2
<1>14. f \in File
  BY <1>1, <1>3, <1>5, <1>6, <1>7, <1>13 DEF File
<1>15. QED
  BY <1>1, <1>3, <1>10, <1>12, <1>14 DEF f, index

-----------------------------------------------------------------------------
(* Reading a file *)

LEMMA CollectType ==
  ASSUME NEW f \in File, NEW first \in Field, NEW second \in Field
  PROVE  Collect(f, first, second) \in Seq(Tre)
<1>1. first.tres \in Seq(Tre) /\ second.tres \in Seq(Tre)
  BY DEF Field
<1>2. ASSUME NEW index
      PROVE  Fetch(f, index) \in Seq(Tre)
  <2>1. CASE index \in DOMAIN f.des
    <3>1. f.des \in Seq(FileDes)
      BY DEF File
    <3>2. f.des[index] \in FileDes
      BY <2>1, <3>1, ElementOfSeq
    <3>3. QED
      BY <2>1, <3>2 DEF Fetch, FileDes
  <2>2. CASE index \notin DOMAIN f.des
    BY <2>2, EmptySeq DEF Fetch
  <2>3. QED
    BY <2>1, <2>2
<1> DEFINE tail == IF Placeholder \in {first.ofl, second.ofl} THEN <<>>
                   ELSE Fetch(f, first.ofl) \o Fetch(f, second.ofl)
<1>3. tail \in Seq(Tre)
  <2>1. Fetch(f, first.ofl) \o Fetch(f, second.ofl) \in Seq(Tre)
    BY <1>2, ConcatProperties
  <2>2. QED
    BY <2>1, EmptySeq
<1>4. first.tres \o second.tres \in Seq(Tre)
  BY <1>1, ConcatProperties
<1> HIDE DEF tail
<1>5. first.tres \o second.tres \o tail \in Seq(Tre)
  BY <1>3, <1>4, ConcatProperties
<1>6. QED
  BY <1>5 DEF Collect, tail

\* A reader puts together what the writer has split.
LEMMA SplitComesBack ==
  ASSUME NEW q \in Seq(Asset), NEW m \in Seq(Tre)
  PROVE  LET f == WrittenFile(q, m)
         IN  /\ Collect(f, NoField, f.xhd) = m
             /\ \A i \in DOMAIN f.images : LosesTres(Images(q)[i]) \/
                   Collect(f, f.images[i].udid, f.images[i].ixshd) = Images(q)[i].tres
<1> DEFINE f == WrittenFile(q, m)
<1>1. /\ DOMAIN f.images = DOMAIN Images(q)
      /\ \A i \in DOMAIN Images(q) : f.images[i] = WrittenImage(q, m, i)
      /\ f.xhd.tres = Split(m).fit
      /\ f.xhd.ofl = IF Spills(m) THEN IndexFor(q, m, 0) ELSE 0
  BY FileParts
<1>2. /\ \A i \in DOMAIN Images(q) : Spills(Images(q)[i].tres) =>
            /\ IndexFor(q, m, i) \in DOMAIN f.des
            /\ f.des[IndexFor(q, m, i)].held = Split(Images(q)[i].tres).spill
      /\ Spills(m) => /\ IndexFor(q, m, 0) \in DOMAIN f.des
                      /\ f.des[IndexFor(q, m, 0)].held = Split(m).spill
  BY SpilledParts
<1>3. 0 \notin DOMAIN f.des /\ Placeholder \notin DOMAIN f.des
  <2>1. DOMAIN f.des = 1 .. Len(f.des)
    BY DesParts
  <2>2. QED
    BY <2>1 DEF Placeholder
<1>4. /\ NoField.tres = <<>> /\ NoField.ofl = 0 /\ Placeholder # 0
  BY DEF NoField, Placeholder
<1> HIDE DEF f
<1>5. Fetch(f, 0) = <<>>
  BY <1>3 DEF Fetch
<1>6. ASSUME NEW tres \in Seq(Tre), NEW index,
             Spills(tres) => index \in DOMAIN f.des /\ f.des[index].held = Split(tres).spill,
             ~Spills(tres) => index = 0
      PROVE  /\ index # Placeholder
             /\ Split(tres).fit \o Fetch(f, index) = tres
             /\ Fetch(f, index) \in Seq(Tre) /\ Split(tres).fit \in Seq(Tre)
  <2>1. CASE Spills(tres)
    <3>1. Fetch(f, index) = Split(tres).spill
      BY <1>6, <2>1 DEF Fetch
    <3>2. QED
      BY <1>3, <1>6, <2>1, <3>1, SplitParts
  <2>2. CASE ~Spills(tres)
    <3>1. Split(tres).fit = tres
      BY <2>2, SplitParts DEF Spills
    <3>2. Fetch(f, index) = <<>>
      BY <1>5, <1>6, <2>2
    <3>3. QED
      BY <1>4, <1>6, <2>2, <3>1, <3>2, EmptySeq, ConcatEmptySeq
  <2>3. QED
    BY <2>1, <2>2
<1>7. \A t \in Seq(Tre) : t \o <<>> = t /\ <<>> \o t = t
  BY ConcatEmptySeq
<1>8. <<>> \in Seq(Tre)
  BY EmptySeq
<1>9. Collect(f, NoField, f.xhd) = m
  <2>1. /\ f.xhd.ofl # Placeholder
        /\ Split(m).fit \o Fetch(f, f.xhd.ofl) = m
        /\ Fetch(f, f.xhd.ofl) \in Seq(Tre) /\ Split(m).fit \in Seq(Tre)
    BY <1>1, <1>2, <1>6
  <2>2. Collect(f, NoField, f.xhd) =
          <<>> \o Split(m).fit \o (<<>> \o Fetch(f, f.xhd.ofl))
    BY <1>1, <1>4, <1>5, <2>1 DEF Collect
  <2>3. QED
    BY <1>7, <2>1, <2>2
<1>10. ASSUME NEW i \in DOMAIN f.images, ~LosesTres(Images(q)[i])
       PROVE  Collect(f, f.images[i].udid, f.images[i].ixshd) = Images(q)[i].tres
  <2> DEFINE a == Images(q)[i]
             udid == f.images[i].udid
  <2>1. /\ f.images[i].ixshd = NoField
        /\ udid.tres = Split(a.tres).fit
        /\ ~Spills(a.tres) => udid.ofl = 0
        /\ Spills(a.tres) => udid.ofl = IndexFor(q, m, i)
    BY <1>1, <1>10, ImageParts
  <2>2. a.tres \in Seq(Tre)
    <3>1. Images(q) \in Seq(Asset)
      BY TypeParts DEF Images
    <3>2. QED
      BY <1>1, <3>1, AssetParts
  <2>3. Spills(a.tres) => udid.ofl \in DOMAIN f.des /\ f.des[udid.ofl].held = Split(a.tres).spill
    BY <1>1, <1>2, <2>1
  <2> HIDE DEF a, udid
  <2>4. /\ udid.ofl # Placeholder
        /\ Split(a.tres).fit \o Fetch(f, udid.ofl) = a.tres
        /\ Fetch(f, udid.ofl) \in Seq(Tre) /\ Split(a.tres).fit \in Seq(Tre)
    BY <1>6, <2>1, <2>2, <2>3
  <2>5. Collect(f, udid, NoField) = Split(a.tres).fit \o <<>> \o (Fetch(f, udid.ofl) \o <<>>)
    BY <1>4, <1>5, <2>1, <2>4 DEF Collect
  <2>6. Collect(f, udid, NoField) = a.tres
    BY <1>7, <2>4, <2>5
  <2>7. QED
    BY <2>1, <2>6 DEF a, udid
<1>11. QED
  BY <1>9, <1>10 DEF f

-----------------------------------------------------------------------------
(* Where the segments stand *)

Segment == [sub : Nat, data : Nat, open : BOOLEAN]

LEMMA MappedSeq ==
  ASSUME NEW S, NEW s \in Seq(S), NEW T, NEW g \in [DOMAIN s -> T]
  PROVE  g \in Seq(T) /\ Len(g) = Len(s)
<1>1. Len(s) \in Nat /\ DOMAIN s = 1 .. Len(s)
  OBVIOUS
<1>2. g \in [1 .. Len(s) -> T]
  BY <1>1
<1>3. QED
  BY <1>1, <1>2

LEMMA SegmentOfType ==
  ASSUME NEW sub \in Nat, NEW data \in Nat, NEW limit
  PROVE  SegmentOf(sub, data, limit) \in Segment
<1>1. (data = limit - 1) \in BOOLEAN
  OBVIOUS
<1>2. QED
  BY <1>1 DEF SegmentOf, Segment

LEMMA SegmentsType ==
  ASSUME NEW f \in File
  PROVE  Segments(f) \in Seq(Segment)
<1> DEFINE x == [i \in DOMAIN f.images |->
                   SegmentOf(ImageSub(f.images[i]), f.images[i].len, Limit.li)]
           y == [i \in DOMAIN f.texts |-> SegmentOf(SubLen, f.texts[i].len, Limit.lt)]
           z == [i \in DOMAIN f.des |-> SegmentOf(SubLen, f.des[i].len, Limit.ld)]
<1>1. f.images \in Seq(FileImage) /\ f.texts \in Seq([len : Nat]) /\ f.des \in Seq(FileDes)
  BY DEF File
<1>a. \A i \in DOMAIN f.texts : f.texts[i].len \in Nat
  <2> DEFINE T == [len : Nat]
  <2>1. \A t \in T : t.len \in Nat
    OBVIOUS
  <2>2. f.texts \in Seq(T)
    BY <1>1
  <2> HIDE DEF T
  <2>3. \A i \in DOMAIN f.texts : f.texts[i] \in T
    BY <2>2, ElementOfSeq
  <2>4. QED
    BY <2>1, <2>3
<1>2. SubLen \in Nat
  BY LengthAssumption
<1>3. x \in Seq(Segment)
  <2>1. ASSUME NEW i \in DOMAIN f.images
        PROVE  x[i] \in Segment
    <3>1. f.images[i] \in FileImage
      BY <1>1, ElementOfSeq
    <3>2. f.images[i].udid.len \in Nat /\ f.images[i].ixshd.len \in Nat /\ f.images[i].len \in Nat
      BY <3>1 DEF FileImage, Field
    <3>3. ImageSub(f.images[i]) \in Nat
      BY <1>2, <3>2 DEF ImageSub, FieldBytes
    <3>4. QED
      BY <3>2, <3>3, SegmentOfType
  <2>2. x \in [DOMAIN f.images -> Segment]
    BY <2>1
  <2> HIDE DEF x
  <2>3. QED
    BY <1>1, <2>2, MappedSeq
<1>4. y \in Seq(Segment)
  <2>1. ASSUME NEW i \in DOMAIN f.texts
        PROVE  y[i] \in Segment
    <3>1. f.texts[i].len \in Nat
      BY <1>a
    <3>2. QED
      BY <1>2, <3>1, SegmentOfType
  <2>2. y \in [DOMAIN f.texts -> Segment]
    BY <2>1
  <2> HIDE DEF y
  <2>3. QED
    BY <1>1, <2>2, MappedSeq
<1>5. z \in Seq(Segment)
  <2>1. ASSUME NEW i \in DOMAIN f.des
        PROVE  z[i] \in Segment
    <3>1. f.des[i] \in FileDes
      BY <1>1, ElementOfSeq
    <3>2. f.des[i].len \in Nat
      BY <3>1 DEF FileDes
    <3>3. QED
      BY <1>2, <3>2, SegmentOfType
  <2>2. z \in [DOMAIN f.des -> Segment]
    BY <2>1
  <2> HIDE DEF z
  <2>3. QED
    BY <1>1, <2>2, MappedSeq
<1>6. Segments(f) = x \o y \o z
  BY DEF Segments
<1> HIDE DEF x, y, z
<1>7. x \o y \in Seq(Segment)
  BY <1>3, <1>4, ConcatProperties
<1>8. QED
  BY <1>5, <1>6, <1>7, ConcatProperties

\* With the header as long as it says, every segment is where it is looked for.
LEMMA SegmentsFound ==
  ASSUME NEW f \in File, f.hl = WrittenHeader(f), Readable(f), NEW i \in DOMAIN Segments(f)
  PROVE  /\ FoundAt(f, i) = StandsAt(f, i)
         /\ DataLength(f, Segments(f)[i]) = Segments(f)[i].data
<1> DEFINE segs == Segments(f)
           n == Len(segs)
           O == {j \in DOMAIN segs : segs[j].open}
           bytes == BytesOf(segs)
<1>1. segs \in Seq(Segment) /\ n \in Nat /\ DOMAIN segs = 1 .. n
  <2>1. segs \in Seq(Segment)
    BY SegmentsType
  <2> HIDE DEF segs
  <2>2. QED
    BY <2>1
<1>2. f.hl \in Nat
  BY DEF File
<1>3. Cardinality(O) <= 1
  BY DEF Readable
<1>4. /\ WrittenHeader(f) = f.hl
      /\ FileSize(f) = f.hl + SumTo(n, bytes)
      /\ StandsAt(f, i) = f.hl + SumTo(i - 1, bytes)
  BY DEF FileSize, StandsAt, SegmentBytes
<1> HIDE DEF segs
<1>5. /\ \A j \in 1 .. n : segs[j].sub \in Nat /\ segs[j].data \in Nat
      /\ \A j \in 1 .. n :
            segs[j] = [sub |-> segs[j].sub, data |-> segs[j].data, open |-> segs[j].open]
  <2>1. \A j \in 1 .. n : segs[j] \in Segment
    BY <1>1, ElementOfSeq
  <2>2. \A s \in Segment : /\ s.sub \in Nat /\ s.data \in Nat
                           /\ s = [sub |-> s.sub, data |-> s.data, open |-> s.open]
    BY DEF Segment
  <2>3. QED
    BY <2>1, <2>2
<1>a. \A j \in 1 .. n : segs[j].sub \in Nat /\ segs[j].data \in Nat
  BY <1>5
<1>6. \A j \in 1 .. n : bytes[j] = segs[j].sub + segs[j].data
  BY <1>1 DEF BytesOf
<1>7. Numbers(n, bytes)
  <2> HIDE DEF bytes
  <2>1. \A j \in 1 .. n : segs[j].sub + segs[j].data \in Nat
    BY <1>a
  <2>2. QED
    BY <1>6, <2>1 DEF Numbers
<1>8. ASSUME NEW j \in 1 .. n
      PROVE  DataLength(f, segs[j]) = segs[j].data
  <2>1. CASE ~segs[j].open
    BY <2>1 DEF DataLength
  <2>2. CASE segs[j].open
    <3> DEFINE known == [k \in 1 .. n |-> [segs[k] EXCEPT !.data = IF segs[k].open THEN 0 ELSE @]]
               rest == BytesOf(known)
    <3>1. O = {j}
      <4>1. j \in O
        BY <1>1, <2>2
      <4>2. IsFiniteSet(1 .. n)
        BY <1>1, FS_Interval
      <4>3. IsFiniteSet(O)
        BY <1>1, <4>2, FS_Subset
      <4>4. IsFiniteSet(O \ {j}) /\ Cardinality(O \ {j}) = Cardinality(O) - 1
        BY <4>1, <4>3, FS_RemoveElement
      <4>5. Cardinality(O \ {j}) = 0
        BY <1>3, <4>3, <4>4, FS_CardinalityType
      <4>6. O \ {j} = {}
        BY <4>4, <4>5, FS_EmptySet
      <4>7. QED
        BY <4>1, <4>6
    <3>2. DataLength(f, segs[j]) = FileSize(f) - (f.hl + SumTo(Len(known), rest))
      BY <1>1, <2>2 DEF DataLength, SegmentBytes, segs
    <3>3. Len(known) = n
      BY <1>1
    <3>4. ASSUME NEW k \in 1 .. n
          PROVE  /\ known[k].sub = segs[k].sub
                 /\ known[k].data = IF segs[k].open THEN 0 ELSE segs[k].data
      <4> DEFINE s == segs[k]
      <4>1. s = [sub |-> s.sub, data |-> s.data, open |-> s.open]
        BY <1>5
      <4>2. known[k] = [s EXCEPT !.data = IF s.open THEN 0 ELSE @]
        OBVIOUS
      <4> HIDE DEF s, known
      <4>3. known[k].sub = s.sub /\ known[k].data = IF s.open THEN 0 ELSE s.data
        BY <4>1, <4>2
      <4>4. QED
        BY <4>3 DEF s
    <3>5. \A k \in 1 .. n : rest[k] = known[k].sub + known[k].data
      BY DEF BytesOf
    <3> HIDE DEF known, rest
    <3>6. rest[j] = segs[j].sub
      <4>1. known[j].sub = segs[j].sub /\ known[j].data = 0
        BY <2>2, <3>4
      <4>2. segs[j].sub \in Nat /\ segs[j].sub + 0 = segs[j].sub
        BY <1>a
      <4>3. QED
        BY <3>5, <4>1, <4>2
    <3>7. \A k \in 1 .. n : k # j => rest[k] = bytes[k]
      <4>1. \A k \in 1 .. n : k # j => ~segs[k].open
        BY <1>1, <3>1
      <4>2. QED
        BY <1>6, <3>4, <3>5, <4>1
    <3>8. Numbers(n, rest)
      BY <1>a, <1>7, <3>6, <3>7 DEF Numbers
    <3>9. SumTo(n, bytes) + rest[j] = SumTo(n, rest) + bytes[j]
      <4> HIDE DEF bytes
      <4>1. QED
        BY <1>1, <1>7, <3>7, <3>8, OneTerm
    <3>10. SumTo(n, bytes) \in Nat /\ SumTo(n, rest) \in Nat
      <4>1. n \in 0 .. n
        BY <1>1
      <4>2. QED
        BY <1>1, <1>7, <3>8, <4>1, SumStep
    <3>11. segs[j].sub \in Nat /\ segs[j].data \in Nat /\ bytes[j] = segs[j].sub + segs[j].data
      BY <1>a, <1>6
    <3>12. DataLength(f, segs[j]) =
             (f.hl + SumTo(n, bytes)) - (f.hl + SumTo(n, rest))
      BY <1>4, <3>2, <3>3
    <3> HIDE DEF bytes, n
    <3>13. SumTo(n, bytes) = SumTo(n, rest) + segs[j].data
      BY <3>6, <3>9, <3>10, <3>11
    <3> DEFINE r == SumTo(n, rest)
               d == segs[j].data
               h == f.hl
    <3>14. h \in Nat /\ r \in Nat /\ d \in Nat
      BY <1>2, <3>10, <3>11
    <3>15. DataLength(f, segs[j]) = (h + (r + d)) - (h + r)
      BY <3>12, <3>13
    <3> HIDE DEF r, d, h
    <3>16. (h + (r + d)) - (h + r) = d
      BY <3>14
    <3>17. QED
      BY <3>15, <3>16 DEF d
  <2>3. QED
    BY <2>1, <2>2
<1>9. FoundAt(f, i) = StandsAt(f, i)
  <2> DEFINE found == [k \in 1 .. n |-> [segs[k] EXCEPT !.data = DataLength(f, segs[k])]]
             places == BytesOf(found)
  <2>1. FoundAt(f, i) = f.hl + SumTo(i - 1, places)
    BY <1>1 DEF FoundAt, SegmentBytes, segs
  <2>2. ASSUME NEW k \in 1 .. n
        PROVE  found[k].sub = segs[k].sub /\ found[k].data = segs[k].data
    <3> DEFINE s == segs[k]
    <3>1. s = [sub |-> s.sub, data |-> s.data, open |-> s.open]
      BY <1>5
    <3>2. found[k] = [s EXCEPT !.data = DataLength(f, s)] /\ DataLength(f, s) = s.data
      BY <1>8
    <3> HIDE DEF s, found
    <3>3. found[k].sub = s.sub /\ found[k].data = s.data
      BY <3>1, <3>2
    <3>4. QED
      BY <3>3 DEF s
  <2>3. \A k \in 1 .. n : places[k] = found[k].sub + found[k].data
    BY DEF BytesOf
  <2>4. i \in 1 .. n
    BY <1>1 DEF segs
  <2> HIDE DEF found, places
  <2>5. \A k \in 1 .. n : places[k] = bytes[k]
    BY <1>6, <2>2, <2>3
  <2>6. i - 1 \in Nat /\ Numbers(i - 1, bytes) /\ \A k \in 1 .. i - 1 : places[k] = bytes[k]
    BY <1>1, <1>7, <2>4, <2>5 DEF Numbers
  <2>7. SumTo(i - 1, places) = SumTo(i - 1, bytes)
    BY <2>6, SameSums
  <2>8. QED
    BY <1>4, <2>1, <2>7
<1>10. QED
  BY <1>1, <1>8, <1>9 DEF segs

-----------------------------------------------------------------------------
(* The inductive invariant *)

\* How an asset is when it is queued while f is open: the TREs of an image are
\* grouped, and those of a copy are what the library can write of the original's.
AsAdded(f, a) ==
  /\ a.type = "image" => Grouped(a.tres)
  /\ a.key[1] = "image" =>
       /\ a.type = "image" /\ f.exists /\ a.key[2] \in DOMAIN f.images
       /\ a.tres = Writable(ImageTres(f, a.key[2]))

\* A file, if there is one, is the one that close writes for this queue.
JbpInv ==
  /\ source \in File \cup {NoFile}
  /\ queue \in Seq(Asset) /\ Len(queue) <= MaxAssets
  /\ \A i, j \in DOMAIN queue : queue[i].key = queue[j].key => i = j
  /\ \A i \in DOMAIN queue : AsAdded(source, queue[i])
  /\ meta \in Seq(Tre) /\ Grouped(meta)
  /\ file = NoFile \/ file = WrittenFile(queue, meta)
  /\ copies \in 0 .. MaxCopies

LEMMA NoneExists == ~NoFile.exists /\ \A f \in File : f.exists
  BY DEF NoFile, File

\* What a reader hands out of a file, image or header, is a grouped list.
LEMMA HandedOut ==
  ASSUME NEW f \in File
  PROVE  /\ HeaderTres(f) \in Seq(Tre) /\ Grouped(HeaderTres(f))
         /\ \A i \in DOMAIN f.images : /\ f.images[i] \in FileImage
                                       /\ Collect(f, f.images[i].udid, f.images[i].ixshd) \in Seq(Tre)
                                       /\ ImageTres(f, i) \in Seq(Tre) /\ Grouped(ImageTres(f, i))
<1>1. NoField \in Field
  BY EmptySeq DEF NoField, Field
<1>2. f.xhd \in Field /\ f.images \in Seq(FileImage)
  BY DEF File
<1>3. HeaderTres(f) \in Seq(Tre) /\ Grouped(HeaderTres(f))
  BY <1>1, <1>2, CollectType, ProvidersGroup DEF HeaderTres
<1>4. ASSUME NEW i \in DOMAIN f.images
      PROVE  /\ f.images[i] \in FileImage
             /\ Collect(f, f.images[i].udid, f.images[i].ixshd) \in Seq(Tre)
             /\ ImageTres(f, i) \in Seq(Tre) /\ Grouped(ImageTres(f, i))
  <2>1. f.images[i] \in FileImage
    BY <1>2, ElementOfSeq
  <2>2. f.images[i].udid \in Field /\ f.images[i].ixshd \in Field
    BY <2>1 DEF FileImage
  <2>3. Collect(f, f.images[i].udid, f.images[i].ixshd) \in Seq(Tre)
    BY <2>2, CollectType
  <2>4. QED
    BY <2>1, <2>3, ProvidersGroup DEF ImageTres
<1>5. QED
  BY <1>3, <1>4

\* Queueing an asset that is as it has to be keeps the invariant.
LEMMA QueueKeepsInv ==
  ASSUME JbpInv, NEW a \in Asset, AsAdded(source, a), Queue(a)
  PROVE  JbpInv'
<1>1. /\ ~file.exists /\ Len(queue) < MaxAssets
      /\ \A i \in DOMAIN queue : queue[i].key # a.key
      /\ queue' = Append(queue, a)
      /\ source' = source /\ meta' = meta /\ file' = file /\ copies' = copies
  BY DEF Queue
<1>2. /\ queue \in Seq(Asset) /\ Len(queue) <= MaxAssets
      /\ \A i, j \in DOMAIN queue : queue[i].key = queue[j].key => i = j
      /\ \A i \in DOMAIN queue : AsAdded(source, queue[i])
  BY DEF JbpInv
<1>3. file = NoFile
  <2>1. WrittenFile(queue, meta).exists
    BY FileParts DEF JbpInv
  <2>2. QED
    BY <1>1, <2>1 DEF JbpInv
<1>4. /\ Len(queue) \in Nat /\ DOMAIN queue = 1 .. Len(queue)
      /\ queue' \in Seq(Asset) /\ Len(queue') = Len(queue) + 1
      /\ \A i \in 1 .. Len(queue) : queue'[i] = queue[i]
      /\ queue'[Len(queue) + 1] = a
  BY <1>1, <1>2, AppendProperties
<1>5. DOMAIN queue' = 1 .. Len(queue) + 1
  BY <1>4
<1>6. Len(queue') <= MaxAssets
  BY <1>1, <1>4, BoundAssumption
<1>7. ASSUME NEW i \in DOMAIN queue', NEW j \in DOMAIN queue', queue'[i].key = queue'[j].key
      PROVE  i = j
  <2>1. CASE i \in DOMAIN queue /\ j \in DOMAIN queue
    BY <1>2, <1>4, <1>7, <2>1
  <2>2. CASE i \in DOMAIN queue /\ j = Len(queue) + 1
    BY <1>1, <1>4, <1>7, <2>2
  <2>3. CASE j \in DOMAIN queue /\ i = Len(queue) + 1
    BY <1>1, <1>4, <1>7, <2>3
  <2>4. QED
    BY <1>4, <1>5, <2>1, <2>2, <2>3
<1>8. ASSUME NEW i \in DOMAIN queue'
      PROVE  AsAdded(source, queue'[i])
  <2>1. CASE i \in DOMAIN queue
    BY <1>2, <1>4, <2>1
  <2>2. CASE i = Len(queue) + 1
    BY <1>4, <2>2
  <2>3. QED
    BY <1>4, <1>5, <2>1, <2>2
<1>9. QED
  BY <1>1, <1>3, <1>4, <1>6, <1>7, <1>8 DEF JbpInv

LEMMA JbpInvInit == Init => JbpInv
<1>1. SUFFICES ASSUME Init
               PROVE  JbpInv
  OBVIOUS
<1>2. /\ source \in Foreign \cup {NoFile} /\ queue = <<>> /\ meta = <<>> /\ file = NoFile
      /\ copies = IF source.exists THEN 1 ELSE 0
  BY <1>1 DEF Init
<1>3. source \in File \cup {NoFile}
  BY <1>2, InputAssumption
<1>4. copies \in 0 .. MaxCopies
  BY <1>2, BoundAssumption
<1>5. /\ queue \in Seq(Asset) /\ Len(queue) = 0 /\ DOMAIN queue = {}
      /\ meta \in Seq(Tre) /\ DOMAIN meta = {}
  BY <1>2, EmptySeq
<1>6. Grouped(meta)
  BY <1>5 DEF Grouped
<1>7. Len(queue) <= MaxAssets
  BY <1>5, BoundAssumption
<1>8. QED
  BY <1>2, <1>3, <1>4, <1>5, <1>6, <1>7 DEF JbpInv

LEMMA JbpInvStep == JbpInv /\ [Next]_vars => JbpInv'
<1> SUFFICES ASSUME JbpInv, [Next]_vars
             PROVE  JbpInv'
  OBVIOUS
<1>1. source.exists => source \in File
  BY NoneExists DEF JbpInv
<1>2. ASSUME NEW a \in NewAssets, AddAsset(a)
      PROVE  JbpInv'
  <2> DEFINE tres == Writable(BufferedProvider(a.tres))
             b == [a EXCEPT !.tres = Writable(BufferedProvider(@))]
  <2>1. a \in Asset /\ a.key[1] = "new" /\ a.tres \in Seq(Tre)
    BY InputAssumption DEF Asset
  <2>2. tres \in Seq(Tre) /\ Grouped(tres)
    <3>1. BufferedProvider(a.tres) \in Seq(Tre) /\ Grouped(BufferedProvider(a.tres))
      BY <2>1, ProvidersGroup
    <3>2. QED
      BY <3>1, WritableGrouped
  <2>3. b = [a EXCEPT !.tres = tres]
    OBVIOUS
  <2>4. Queue(b)
    BY <1>2 DEF AddAsset
  <2> HIDE DEF tres, b
  <2>5. b \in Asset /\ b.key = a.key /\ b.tres = tres
    BY <2>1, <2>2, <2>3 DEF Asset
  <2>6. AsAdded(source, b)
    BY <2>1, <2>2, <2>5 DEF AsAdded
  <2>7. QED
    BY <2>4, <2>5, <2>6, QueueKeepsInv
<1>3. ASSUME CopySegment
      PROVE  JbpInv'
  <2>1. source \in File /\ source.exists
    BY <1>1, <1>3 DEF CopySegment
  <2>2. ASSUME NEW i \in DOMAIN source.images, CopyImage(i)
        PROVE  JbpInv'
    <3> DEFINE image == source.images[i]
               a == [key |-> <<"image", i>>, type |-> "image", marked |-> image.marked,
                     tres |-> Writable(ImageTres(source, i)), owner |-> Nobody, len |-> image.len]
    <3>1. /\ image \in FileImage
          /\ Writable(ImageTres(source, i)) \in Seq(Tre)
          /\ Grouped(Writable(ImageTres(source, i)))
      BY <2>1, HandedOut, WritableGrouped
    <3>2. i \in Nat
      <4>1. source.images \in Seq(FileImage)
        BY <2>1 DEF File
      <4>2. QED
        BY <4>1
    <3>3. image.marked \in BOOLEAN /\ image.len \in Nat
      BY <3>1 DEF FileImage
    <3>4. Queue(a)
      BY <2>2 DEF CopyImage
    <3>5. <<"image", i>> \in {"new", "image", "text", "data"} \X Nat
      BY <3>2
    <3> HIDE DEF image
    <3>6. a \in Asset
      BY <3>1, <3>3, <3>5 DEF Asset, Owner
    <3>7. AsAdded(source, a)
      BY <2>1, <3>1 DEF AsAdded
    <3> HIDE DEF a
    <3>8. QED
      BY <3>4, <3>6, <3>7, QueueKeepsInv
  <2>3. ASSUME NEW i \in DOMAIN source.texts, CopyText(i)
        PROVE  JbpInv'
    <3> DEFINE len == source.texts[i].len
               a == [key |-> <<"text", i>>, type |-> "text", marked |-> FALSE, tres |-> <<>>,
                     owner |-> Nobody, len |-> len]
    <3>1. i \in Nat /\ len \in Nat
      <4> DEFINE T == [len : Nat]
      <4>1. source.texts \in Seq(T)
        BY <2>1 DEF File
      <4>2. \A t \in T : t.len \in Nat
        OBVIOUS
      <4> HIDE DEF T
      <4>3. i \in Nat
        BY <4>1
      <4>4. source.texts[i] \in T
        BY <4>1, ElementOfSeq
      <4>5. QED
        BY <4>2, <4>3, <4>4
    <3>2. Queue(a)
      BY <2>3 DEF CopyText
    <3>3. <<"text", i>> \in {"new", "image", "text", "data"} \X Nat
      BY <3>1
    <3> HIDE DEF len
    <3>4. a \in Asset
      BY <3>1, <3>3, EmptySeq DEF Asset, Owner
    <3>5. AsAdded(source, a)
      BY DEF AsAdded
    <3> HIDE DEF a
    <3>6. QED
      BY <3>2, <3>4, <3>5, QueueKeepsInv
  <2>4. ASSUME NEW i \in DOMAIN source.des, CopyDes(i)
        PROVE  JbpInv'
    <3> DEFINE des == source.des[i]
               a == [key |-> <<"data", i>>, type |-> "data", marked |-> FALSE,
                     tres |-> des.held, owner |-> des.owner, len |-> des.len]
    <3>1. source.des \in Seq(FileDes)
      BY <2>1 DEF File
    <3>2. i \in Nat /\ des \in FileDes
      BY <3>1, ElementOfSeq
    <3>3. des.held \in Seq(Tre) /\ des.owner \in Owner /\ des.len \in Nat
      BY <3>2 DEF FileDes
    <3>4. Queue(a)
      BY <2>4 DEF CopyDes
    <3>5. <<"data", i>> \in {"new", "image", "text", "data"} \X Nat
      BY <3>2
    <3> HIDE DEF des
    <3>6. a \in Asset
      BY <3>3, <3>5 DEF Asset
    <3>7. AsAdded(source, a)
      BY DEF AsAdded
    <3> HIDE DEF a
    <3>8. QED
      BY <3>4, <3>6, <3>7, QueueKeepsInv
  <2>5. QED
    BY <1>3, <2>2, <2>3, <2>4 DEF CopySegment
<1>4. ASSUME NEW m \in Seq(Tre), Grouped(m), SetMetadata(m)
      PROVE  JbpInv'
  <2>1. ~file.exists /\ meta' = Writable(m) /\ UNCHANGED <<source, queue, file, copies>>
    BY <1>4 DEF SetMetadata
  <2>2. Writable(m) \in Seq(Tre) /\ Grouped(Writable(m))
    BY <1>4, WritableGrouped
  <2>3. file = NoFile
    <3>1. WrittenFile(queue, meta).exists
      BY FileParts DEF JbpInv
    <3>2. QED
      BY <2>1, <3>1 DEF JbpInv
  <2>4. QED
    BY <2>1, <2>2, <2>3 DEF JbpInv
<1>5. ASSUME NEW m \in NewMetas, SetMetadata(BufferedProvider(m))
      PROVE  JbpInv'
  <2>1. BufferedProvider(m) \in Seq(Tre) /\ Grouped(BufferedProvider(m))
    BY InputAssumption, ProvidersGroup
  <2>2. QED
    BY <1>4, <1>5, <2>1
<1>6. ASSUME source.exists, SetMetadata(HeaderTres(source))
      PROVE  JbpInv'
  BY <1>1, <1>4, <1>6, HandedOut
<1>7. ASSUME Close
      PROVE  JbpInv'
  BY <1>7 DEF Close, JbpInv
<1>8. ASSUME Reopen
      PROVE  JbpInv'
  <2>1. /\ file.exists /\ copies < MaxCopies
        /\ source' = file /\ queue' = <<>> /\ meta' = <<>> /\ file' = NoFile
        /\ copies' = copies + 1
    BY <1>8 DEF Reopen, Readable
  <2>2. file \in File
    <3>1. WrittenFile(queue, meta) \in File
      BY FileParts DEF JbpInv
    <3>2. QED
      BY <2>1, <3>1, NoneExists DEF JbpInv
  <2>3. copies' \in 0 .. MaxCopies
    BY <2>1, BoundAssumption DEF JbpInv
  <2>4. /\ queue' \in Seq(Asset) /\ Len(queue') = 0 /\ DOMAIN queue' = {}
        /\ meta' \in Seq(Tre) /\ DOMAIN meta' = {}
    BY <2>1, EmptySeq
  <2>5. Grouped(meta')
    BY <2>4 DEF Grouped
  <2>6. Len(queue') <= MaxAssets
    BY <2>4, BoundAssumption
  <2>7. QED
    BY <2>1, <2>2, <2>3, <2>4, <2>5, <2>6 DEF JbpInv
<1>9. ASSUME UNCHANGED vars
      PROVE  JbpInv'
  BY <1>9 DEF vars, JbpInv
<1>10. QED
  BY <1>2, <1>3, <1>5, <1>6, <1>7, <1>8, <1>9 DEF Next

\* Whatever is added, copied, closed and opened again, what is queued is grouped, and
\* a written file is the one close makes of the queue (JBPDatasetWriter::close).
THEOREM JbpInvariant == Spec => []JbpInv
  BY JbpInvInit, JbpInvStep, PTL DEF Spec

-----------------------------------------------------------------------------
(* What follows from it *)

\* A file that has been written, seen from the queue.
LEMMA WrittenParts ==
  ASSUME JbpInv, file.exists
  PROVE  /\ file = WrittenFile(queue, meta) /\ file \in File
         /\ queue \in Seq(Asset) /\ meta \in Seq(Tre)
         /\ DOMAIN file.images = DOMAIN Images(queue)
         /\ DOMAIN file.images \subseteq Nat \ {0}
         /\ \A i \in DOMAIN file.images :
              \E k \in DOMAIN queue : Images(queue)[i] = queue[k] /\ queue[k].type = "image"
<1>1. /\ file = WrittenFile(queue, meta) /\ queue \in Seq(Asset) /\ meta \in Seq(Tre)
  BY NoneExists DEF JbpInv
<1>2. file \in File /\ DOMAIN file.images = DOMAIN Images(queue)
  BY <1>1, FileParts
<1>3. /\ DOMAIN Images(queue) = 1 .. Len(Images(queue))
      /\ Len(Images(queue)) \in Nat
      /\ \A k \in DOMAIN Images(queue) :
            \E i \in DOMAIN queue : Images(queue)[k] = queue[i] /\ queue[i].type = "image"
  BY <1>1, TypeParts DEF Images
<1>4. QED
  BY <1>1, <1>2, <1>3

LEMMA InvImpliesType ==
  ASSUME JbpInv
  PROVE  TypeOK
<1>1. /\ queue \in Seq(Asset) /\ Len(queue) <= MaxAssets
      /\ \A i, j \in DOMAIN queue : queue[i].key = queue[j].key => i = j
      /\ meta \in Seq(Tre) /\ copies \in 0 .. MaxCopies
  BY DEF JbpInv
<1>2. {source, file} \subseteq File \cup {NoFile}
  <2>1. WrittenFile(queue, meta) \in File
    BY <1>1, FileParts
  <2>2. QED
    BY <2>1 DEF JbpInv
<1>3. ASSUME file.exists
      PROVE  /\ file.xhd.ofl \in 0 .. Len(file.des)
             /\ \A i \in DOMAIN file.images :
                  /\ file.images[i].udid.ofl \in {Placeholder} \cup 0 .. Len(file.des)
                  /\ file.images[i].udid.ofl = Placeholder => Images(queue)[i].marked
  <2>1. file = WrittenFile(queue, meta) /\ DOMAIN file.images = DOMAIN Images(queue)
    BY <1>3, WrittenParts
  <2>2. DOMAIN file.des = 1 .. Len(file.des) /\ Len(file.des) \in Nat
    <3>1. file.des \in Seq(FileDes)
      BY <1>1, <2>1, DesParts
    <3>2. QED
      BY <3>1
  <2>3. /\ Spills(meta) => IndexFor(queue, meta, 0) \in DOMAIN file.des
        /\ \A i \in DOMAIN Images(queue) : Spills(Images(queue)[i].tres) =>
              IndexFor(queue, meta, i) \in DOMAIN file.des
    BY <1>1, <2>1, SpilledParts
  <2>4. file.xhd.ofl \in 0 .. Len(file.des)
    <3>1. file.xhd.ofl = IF Spills(meta) THEN IndexFor(queue, meta, 0) ELSE 0
      BY <1>1, <2>1, FileParts
    <3>2. QED
      BY <2>2, <2>3, <3>1
  <2>5. ASSUME NEW i \in DOMAIN file.images
        PROVE  /\ file.images[i].udid.ofl \in {Placeholder} \cup 0 .. Len(file.des)
               /\ file.images[i].udid.ofl = Placeholder => Images(queue)[i].marked
    <3>1. file.images[i] = WrittenImage(queue, meta, i) /\ i \in DOMAIN Images(queue)
      BY <1>1, <2>1, FileParts
    <3>2. /\ file.images[i].udid.ofl \in {0, Placeholder, IndexFor(queue, meta, i)}
          /\ ~Spills(Images(queue)[i].tres) => file.images[i].udid.ofl = 0
          /\ file.images[i].udid.ofl = Placeholder => Images(queue)[i].marked
      BY <1>1, <3>1, ImageParts
    <3>3. QED
      BY <2>2, <2>3, <3>1, <3>2
  <2>6. QED
    BY <2>4, <2>5
<1>4. QED
  BY <1>1, <1>2, <1>3 DEF TypeOK

\* A field that has an index has that of the segment made for its container.
LEMMA IndexOwned ==
  ASSUME JbpInv, file.exists, NEW e \in Fields(file), e.field.ofl \notin {0, Placeholder}
  PROVE  file.des[e.field.ofl].owner = e.owner /\ e.field.ofl > Len(Des(queue))
<1>1. /\ file = WrittenFile(queue, meta) /\ queue \in Seq(Asset) /\ meta \in Seq(Tre)
      /\ DOMAIN file.images = DOMAIN Images(queue)
  BY WrittenParts
<1>2. /\ \A i \in DOMAIN Images(queue) : Spills(Images(queue)[i].tres) =>
            /\ IndexFor(queue, meta, i) > Len(Des(queue))
            /\ file.des[IndexFor(queue, meta, i)].owner = i
      /\ Spills(meta) => /\ IndexFor(queue, meta, 0) > Len(Des(queue))
                         /\ file.des[IndexFor(queue, meta, 0)].owner = 0
  BY <1>1, SpilledParts
<1>3. CASE e = [owner |-> 0, field |-> file.xhd]
  <2>1. file.xhd.ofl = IF Spills(meta) THEN IndexFor(queue, meta, 0) ELSE 0
    BY <1>1, FileParts
  <2>2. e.field.ofl = file.xhd.ofl /\ e.owner = 0
    BY <1>3
  <2>3. QED
    BY <1>2, <2>1, <2>2
<1>4. ASSUME NEW i \in DOMAIN file.images, e = [owner |-> i, field |-> file.images[i].udid]
      PROVE  file.des[e.field.ofl].owner = e.owner /\ e.field.ofl > Len(Des(queue))
  <2>1. file.images[i] = WrittenImage(queue, meta, i) /\ i \in DOMAIN Images(queue)
    BY <1>1, FileParts
  <2>2. /\ file.images[i].udid.ofl \in {0, Placeholder, IndexFor(queue, meta, i)}
        /\ ~Spills(Images(queue)[i].tres) => file.images[i].udid.ofl = 0
    BY <1>1, <2>1, ImageParts
  <2>3. e.field.ofl = file.images[i].udid.ofl /\ e.owner = i
    BY <1>4
  <2>4. QED
    BY <1>2, <2>1, <2>2, <2>3
<1>5. QED
  BY <1>3, <1>4 DEF Fields

LEMMA InvImpliesOwned ==
  ASSUME JbpInv
  PROVE  OverflowOwned
<1> SUFFICES ASSUME file.exists, NEW e \in Fields(file), e.field.ofl \notin {0, Placeholder}
             PROVE  /\ file.des[e.field.ofl].owner = e.owner
                    /\ e.field.ofl > Len(Des(queue))
                    /\ \A d \in Fields(file) : d.field.ofl = e.field.ofl => d = e
  BY DEF OverflowOwned
<1>1. file.des[e.field.ofl].owner = e.owner /\ e.field.ofl > Len(Des(queue))
  BY IndexOwned
<1>2. DOMAIN file.images \subseteq Nat \ {0}
  BY WrittenParts
<1>3. ASSUME NEW d \in Fields(file), d.field.ofl = e.field.ofl
      PROVE  d = e
  <2>1. file.des[d.field.ofl].owner = d.owner
    BY <1>3, IndexOwned
  <2>2. d.owner = e.owner
    BY <1>1, <1>3, <2>1
  <2>3. \A x \in Fields(file) :
          \/ x = [owner |-> 0, field |-> file.xhd] /\ x.owner = 0
          \/ /\ x.owner \in DOMAIN file.images
             /\ x = [owner |-> x.owner, field |-> file.images[x.owner].udid]
    BY DEF Fields
  <2>4. 0 \notin DOMAIN file.images
    BY <1>2
  <2>5. QED
    BY <2>2, <2>3, <2>4
<1>4. QED
  BY <1>1, <1>3

LEMMA InvImpliesComeBack ==
  ASSUME JbpInv
  PROVE  TresComeBack
<1> SUFFICES ASSUME file.exists
             PROVE  /\ HeaderTres(file) = meta
                    /\ \A i \in DOMAIN file.images :
                         LosesTres(Images(queue)[i]) \/ ImageTres(file, i) = Images(queue)[i].tres
  BY DEF TresComeBack
<1>1. /\ file = WrittenFile(queue, meta) /\ queue \in Seq(Asset) /\ meta \in Seq(Tre)
      /\ DOMAIN file.images = DOMAIN Images(queue)
      /\ \A i \in DOMAIN file.images :
           \E k \in DOMAIN queue : Images(queue)[i] = queue[k] /\ queue[k].type = "image"
  BY WrittenParts
<1>2. /\ Collect(file, NoField, file.xhd) = meta
      /\ \A i \in DOMAIN file.images : LosesTres(Images(queue)[i]) \/
            Collect(file, file.images[i].udid, file.images[i].ixshd) = Images(queue)[i].tres
  BY <1>1, SplitComesBack
<1>3. HeaderTres(file) = meta
  <2>1. meta \in Seq(Tre) /\ Grouped(meta)
    BY DEF JbpInv
  <2>2. ReaderProvider(meta) = meta
    BY <2>1, GroupedStays
  <2>3. QED
    BY <1>2, <2>2 DEF HeaderTres
<1>4. ASSUME NEW i \in DOMAIN file.images, ~LosesTres(Images(queue)[i])
      PROVE  ImageTres(file, i) = Images(queue)[i].tres
  <2> DEFINE a == Images(queue)[i]
  <2>1. PICK k \in DOMAIN queue : a = queue[k] /\ queue[k].type = "image"
    BY <1>1
  <2>2. AsAdded(source, a) /\ a.type = "image" /\ a.tres \in Seq(Tre)
    BY <1>1, <2>1, AssetParts DEF JbpInv
  <2>3. Grouped(a.tres)
    BY <2>2 DEF AsAdded
  <2>4. ImageTres(file, i) = ReaderProvider(a.tres)
    BY <1>2, <1>4 DEF ImageTres
  <2> HIDE DEF a
  <2>5. ReaderProvider(a.tres) = a.tres
    BY <2>2, <2>3, GroupedStays
  <2>6. QED
    BY <2>4, <2>5 DEF a
<1>5. QED
  BY <1>3, <1>4

LEMMA InvImpliesRepeats ==
  ASSUME JbpInv
  PROVE  CopyKeepsRepeats
<1> SUFFICES ASSUME file.exists, NEW i \in DOMAIN file.images,
                    Images(queue)[i].key[1] = "image", ~LosesTres(Images(queue)[i]),
                    NEW tag \in Known
             PROVE  OfTag(ImageTres(file, i), tag) =
                      OfTag(Collect(source, source.images[Images(queue)[i].key[2]].udid,
                                    source.images[Images(queue)[i].key[2]].ixshd), tag)
  BY DEF CopyKeepsRepeats
<1> DEFINE a == Images(queue)[i]
           j == a.key[2]
           collected == Collect(source, source.images[j].udid, source.images[j].ixshd)
<1>1. PICK k \in DOMAIN queue : a = queue[k]
  BY WrittenParts
<1>2. AsAdded(source, a)
  BY <1>1 DEF JbpInv
<1>3. source.exists /\ j \in DOMAIN source.images /\ a.tres = Writable(ImageTres(source, j))
  BY <1>2 DEF AsAdded
<1>4. source \in File
  BY <1>3, NoneExists DEF JbpInv
<1>5. collected \in Seq(Tre) /\ ImageTres(source, j) = ReaderProvider(collected)
  BY <1>3, <1>4, HandedOut DEF ImageTres
<1>6. ImageTres(file, i) = a.tres
  BY InvImpliesComeBack DEF TresComeBack
<1> HIDE DEF a, j, collected
<1>7. ReaderProvider(collected) \in Seq(Tre)
  BY <1>5, ProvidersGroup
<1>8. OfTag(ImageTres(file, i), tag) = OfTag(ReaderProvider(collected), tag)
  BY <1>3, <1>5, <1>6, <1>7, OfTagWritable
<1>9. OfTag(ReaderProvider(collected), tag) = OfTag(collected, tag)
  BY <1>5, OfTagProvider
<1>10. QED
  BY <1>8, <1>9 DEF a, j, collected

LEMMA InvImpliesLocated ==
  ASSUME JbpInv
  PROVE  SegmentsLocated
<1> SUFFICES ASSUME Readable(file), NumbersFit(file), NEW i \in DOMAIN Segments(file)
             PROVE  /\ FoundAt(file, i) = StandsAt(file, i)
                    /\ DataLength(file, Segments(file)[i]) = Segments(file)[i].data
  BY DEF SegmentsLocated
<1>1. file.exists
  BY DEF Readable
<1>2. file = WrittenFile(queue, meta) /\ file \in File /\ queue \in Seq(Asset) /\ meta \in Seq(Tre)
  BY <1>1, WrittenParts
<1>3. file.hl = WrittenHeader(file)
  BY <1>2, FileParts
<1>4. QED
  BY <1>2, <1>3, SegmentsFound

\* Type correctness: every key is queued once, and every overflow index of a
\* written file is the number of one of its segments, unless a text with "???" took
\* the patch (add_asset, patch_overflow_index).
THEOREM JbpTypeCorrect == Spec => []TypeOK
  BY JbpInvariant, InvImpliesType, PTL

\* However many images spill and whatever overflow segments were copied with them,
\* an index leads to the segment close has made for that container, and to no
\* other's (close: base_des_count and the order of overflow_tres).
THEOREM OverflowIsOwned == Spec => []OverflowOwned
  BY JbpInvariant, InvImpliesOwned, PTL

\* What is handed to the writer is what a reader hands out, for all TREs, sizes and
\* field capacities (split_tres_by_size and close against extract_image_tres and
\* extract_file_header_tres).
THEOREM TresAreKept == Spec => []TresComeBack
  BY JbpInvariant, InvImpliesComeBack, PTL

\* A copy has the instances of a tag in the order of its original, whichever fields
\* of whichever producer held them (add_asset with an asset of the reader).
THEOREM CopiesKeepRepeats == Spec => []CopyKeepsRepeats
  BY JbpInvariant, InvImpliesRepeats, PTL

\* In a file whose numbers fit the header's fields, every segment stands where a
\* reader looks for it and has the length the reader gives it, one that hides its
\* length in nines included (calculate_header_length, SegmentOffsets::from_header).
THEOREM SegmentsAreFound == Spec => []SegmentsLocated
  BY JbpInvariant, InvImpliesLocated, PTL
=============================================================================
