-------------------------- MODULE TiffWriterProofs --------------------------
(***************************************************************************)
(* Proofs about the writer of TiffFile: the sort of the directories, what  *)
(* the reader makes of their order, and what the samples of a written      *)
(* directory are, for queues of every length.                              *)
(***************************************************************************)
EXTENDS TiffFileProofs

-----------------------------------------------------------------------------
(* The queue, and the keys it is sorted by *)

Queue(q) ==
    /\ Len(q) \in Nat /\ DOMAIN q = 1 .. Len(q) /\ q = [i \in 1 .. Len(q) |-> q[i]]
    /\ \A i \in DOMAIN q : IsAsset(q[i])
    /\ \A i, j \in DOMAIN q : q[i].key = q[j].key => i = j

\* The orders a hash map may give to the groups without an image.
Groups(q) ==
    {g \in [Orphaned(q) -> 1 .. Cardinality(Orphaned(q))] :
        \A k, l \in Orphaned(q) : g[k] = g[l] => k = l}

Image(a) == a.key.image
Area(a)  == a.rows * a.cols
Type(a)  == SubfileType(a)

LEMMA TypeValues ==
  ASSUME NEW a, IsAsset(a)
  PROVE  /\ Type(a) \in {0, 1, 4, 5}
         /\ Image(a) \in Nat /\ Area(a) \in Nat
         /\ Type(a) = 0 => a.key = ParentKey(a.key)
<1>1. Type(a) \in {0, 1, 4, 5}
  BY DEF Type, SubfileType
<1>2. a.key \in [image : Nat, overview : Nat, mask : BOOLEAN]
      /\ a.rows \in Nat /\ a.cols \in Nat
  BY DEF IsAsset
<1>3. Image(a) \in Nat
  BY <1>2 DEF Image
<1>4. Area(a) \in Nat
  BY <1>2, SMTT(10) DEF Area
<1>5. ASSUME Type(a) = 0
      PROVE  a.key = ParentKey(a.key)
  <2>1. a.key.overview = 0 /\ a.key.mask = FALSE
    BY <1>2, <1>5 DEF Type, SubfileType
  <2>2. QED
    BY <1>2, <2>1 DEF ParentKey, Key
<1>6. QED
  BY <1>1, <1>3, <1>4, <1>5

LEMMA ParentKeyOf ==
  ASSUME NEW k, NEW l
  PROVE  /\ ParentKey(k) = ParentKey(l) <=> k.image = l.image
         /\ ParentKey(ParentKey(k)) = ParentKey(k)
BY DEF ParentKey, Key

\* The full-resolution image of a child is the only one of that number.
LEMMA OneParent ==
  ASSUME NEW q, Queue(q)
  PROVE  /\ \A i, j \in FullRes(q) : Image(q[i]) = Image(q[j]) => i = j
         /\ \A i \in DOMAIN q, p \in FullRes(q) :
              p \in Parents(q, i) <=> Image(q[p]) = Image(q[i])
<1>1. \A p \in FullRes(q) : p \in DOMAIN q /\ q[p].key = ParentKey(q[p].key)
  BY TypeValues DEF FullRes, Type, Queue
<1>2. \A i, j \in DOMAIN q :
        ParentKey(q[i].key) = ParentKey(q[j].key) <=> Image(q[i]) = Image(q[j])
  BY ParentKeyOf DEF Image
<1>3. ASSUME NEW i \in FullRes(q), NEW j \in FullRes(q), Image(q[i]) = Image(q[j])
      PROVE  i = j
  <2>1. q[i].key = q[j].key /\ i \in DOMAIN q /\ j \in DOMAIN q
    BY <1>1, <1>2, <1>3
  <2>2. QED
    BY <2>1 DEF Queue
<1>4. ASSUME NEW i \in DOMAIN q, NEW p \in FullRes(q)
      PROVE  p \in Parents(q, i) <=> Image(q[p]) = Image(q[i])
  BY <1>1, <1>2 DEF Parents
<1>5. QED
  BY <1>3, <1>4

\* The first component of a sort key.
Group(q, g, i) ==
    IF i \in FullRes(q)
      THEN i
      ELSE IF Parents(q, i) # {}
             THEN CHOOSE p \in Parents(q, i) : TRUE
             ELSE Len(q) + g[ParentKey(q[i].key)]

LEMMA OrphansFinite ==
  ASSUME NEW q, Queue(q)
  PROVE  Cardinality(Orphaned(q)) \in Nat
<1> DEFINE S == {c \in DOMAIN q \ FullRes(q) : Parents(q, c) = {}}
           f == [i \in S |-> ParentKey(q[i].key)]
<1>1. IsFiniteSet(1 .. Len(q))
  BY FS_Interval DEF Queue
<1>2. IsFiniteSet(S)
  <2>1. S \in SUBSET (1 .. Len(q))
    BY DEF Queue
  <2> HIDE DEF S
  <2>2. QED
    BY <1>1, <2>1, FS_Subset
<1>3. f \in Surjection(S, Orphaned(q))
  BY DEF Surjection, Orphaned
<1> HIDE DEF f, S
<1>4. IsFiniteSet(Orphaned(q))
  BY <1>2, <1>3, FS_Surjection
<1>5. QED
  BY <1>4, FS_CardinalityType

LEMMA GroupOfParent ==
  ASSUME NEW q, Queue(q), NEW g \in Groups(q), NEW i \in DOMAIN q, NEW p \in FullRes(q),
         Image(q[p]) = Image(q[i])
  PROVE  Group(q, g, i) = p
<1>1. p \in Parents(q, i)
  BY OneParent
<1>2. \A r \in Parents(q, i) : r = p
  <2>1. \A r \in Parents(q, i) : r \in FullRes(q) /\ Image(q[r]) = Image(q[i])
    BY OneParent DEF Parents
  <2>2. QED
    BY <2>1, OneParent
<1>3. i \in FullRes(q) => i = p
  BY OneParent
<1>4. (CHOOSE r \in Parents(q, i) : TRUE) = p
  BY <1>1, <1>2
<1>5. QED
  BY <1>1, <1>3, <1>4 DEF Group

LEMMA GroupOfOrphan ==
  ASSUME NEW q, Queue(q), NEW g \in Groups(q), NEW i \in DOMAIN q,
         \A p \in FullRes(q) : Image(q[p]) # Image(q[i])
  PROVE  /\ i \notin FullRes(q)
         /\ ParentKey(q[i].key) \in Orphaned(q)
         /\ g[ParentKey(q[i].key)] \in Nat \ {0}
         /\ Group(q, g, i) = Len(q) + g[ParentKey(q[i].key)]
<1>1. i \notin FullRes(q)
  OBVIOUS
<1>2. Parents(q, i) = {}
  BY OneParent DEF Parents
<1>3. ParentKey(q[i].key) \in Orphaned(q)
  BY <1>1, <1>2 DEF Orphaned
<1>4. g[ParentKey(q[i].key)] \in 1 .. Cardinality(Orphaned(q))
  BY <1>3 DEF Groups
<1>5. QED
  BY <1>1, <1>2, <1>3, <1>4, OrphansFinite DEF Group

\* Two assets are in one group exactly when they belong to one image.
LEMMA GroupIsImage ==
  ASSUME NEW q, Queue(q), NEW g \in Groups(q), NEW i \in DOMAIN q, NEW j \in DOMAIN q
  PROVE  /\ Group(q, g, i) \in Nat
         /\ Group(q, g, i) = Group(q, g, j) <=> Image(q[i]) = Image(q[j])
<1>0. \A p \in FullRes(q) : p \in 1 .. Len(q) /\ Len(q) \in Nat
  BY DEF FullRes, Queue
<1>1. CASE \E p \in FullRes(q) : Image(q[p]) = Image(q[i])
  <2>1. PICK p \in FullRes(q) : Image(q[p]) = Image(q[i])
    BY <1>1
  <2>2. Group(q, g, i) = p /\ p \in 1 .. Len(q)
    BY <1>0, <2>1, GroupOfParent
  <2>3. CASE \E r \in FullRes(q) : Image(q[r]) = Image(q[j])
    <3>1. PICK r \in FullRes(q) : Image(q[r]) = Image(q[j])
      BY <2>3
    <3>2. Group(q, g, j) = r
      BY <3>1, GroupOfParent
    <3>3. QED
      BY <1>0, <2>1, <2>2, <3>1, <3>2, OneParent
  <2>4. CASE \A r \in FullRes(q) : Image(q[r]) # Image(q[j])
    <3>1. Group(q, g, j) = Len(q) + g[ParentKey(q[j].key)] /\ g[ParentKey(q[j].key)] \in Nat \ {0}
      BY <2>4, GroupOfOrphan
    <3>2. Image(q[i]) # Image(q[j])
      BY <2>1, <2>4
    <3>3. QED
      BY <1>0, <2>2, <3>1, <3>2
  <2>5. QED
    BY <2>3, <2>4
<1>2. CASE \A p \in FullRes(q) : Image(q[p]) # Image(q[i])
  <2>1. /\ Group(q, g, i) = Len(q) + g[ParentKey(q[i].key)]
        /\ g[ParentKey(q[i].key)] \in Nat \ {0} /\ ParentKey(q[i].key) \in Orphaned(q)
    BY <1>2, GroupOfOrphan
  <2>2. Len(q) \in Nat
    BY DEF Queue
  <2>3. CASE \E r \in FullRes(q) : Image(q[r]) = Image(q[j])
    <3>1. PICK r \in FullRes(q) : Image(q[r]) = Image(q[j])
      BY <2>3
    <3>2. Group(q, g, j) = r /\ r \in 1 .. Len(q)
      BY <1>0, <3>1, GroupOfParent
    <3>3. Image(q[i]) # Image(q[j])
      BY <1>2, <3>1
    <3>4. QED
      BY <2>1, <2>2, <3>2, <3>3
  <2>4. CASE \A r \in FullRes(q) : Image(q[r]) # Image(q[j])
    <3>1. /\ Group(q, g, j) = Len(q) + g[ParentKey(q[j].key)]
          /\ g[ParentKey(q[j].key)] \in Nat \ {0} /\ ParentKey(q[j].key) \in Orphaned(q)
      BY <2>4, GroupOfOrphan
    <3>2. g[ParentKey(q[i].key)] = g[ParentKey(q[j].key)]
            <=> ParentKey(q[i].key) = ParentKey(q[j].key)
      BY <2>1, <3>1 DEF Groups
    <3>3. QED
      BY <2>1, <2>2, <3>1, <3>2, ParentKeyOf DEF Image
  <2>5. QED
    BY <2>3, <2>4
<1>3. QED
  BY <1>1, <1>2

-----------------------------------------------------------------------------
(* The sort *)

LEMMA SortKeyParts ==
  ASSUME NEW q, Queue(q), NEW g \in Groups(q), NEW i \in DOMAIN q
  PROVE  SortKey(q, g, i) =
           IF Type(q[i]) = 0
             THEN <<Group(q, g, i), 0, 0, i>>
             ELSE <<Group(q, g, i), 1 + ChildRank(Type(q[i])), -Area(q[i]), i>>
<1>1. i \in FullRes(q) <=> Type(q[i]) = 0
  BY DEF FullRes, Type
<1>2. SortKey(q, g, i) =
        IF i \in FullRes(q)
          THEN <<i, 0, 0, i>>
          ELSE <<IF Parents(q, i) # {}
                   THEN CHOOSE p \in Parents(q, i) : TRUE
                   ELSE Len(q) + g[ParentKey(q[i].key)],
                 1 + ChildRank(Type(q[i])), -Area(q[i]), i>>
  BY Zenon DEF SortKey, Type, Area
<1>3. QED
  BY <1>1, <1>2, Zenon DEF Group

LEMMA SortKeyType ==
  ASSUME NEW q, Queue(q), NEW g \in Groups(q), NEW i \in DOMAIN q
  PROVE  /\ SortKey(q, g, i) \in Int \X Int \X Int \X Int
         /\ SortKey(q, g, i)[4] = i
<1>1. IsAsset(q[i]) /\ i \in Int
  BY DEF Queue
<1>2. Group(q, g, i) \in Int /\ Area(q[i]) \in Int
  BY <1>1, GroupIsImage, TypeValues
<1>3. -Area(q[i]) \in Int
  BY <1>2
<1>4. ChildRank(Type(q[i])) \in Int
  BY DEF ChildRank
<1>5. QED
  BY <1>1, <1>2, <1>3, <1>4, SortKeyParts

LEMMA PrecedesIs ==
  ASSUME NEW k \in Int \X Int \X Int \X Int, NEW l \in Int \X Int \X Int \X Int
  PROVE  Precedes(k, l) <=>
           \/ k[1] < l[1]
           \/ k[1] = l[1] /\ k[2] < l[2]
           \/ k[1] = l[1] /\ k[2] = l[2] /\ k[3] < l[3]
           \/ k[1] = l[1] /\ k[2] = l[2] /\ k[3] = l[3] /\ k[4] < l[4]
<1>1. DOMAIN k = {1, 2, 3, 4}
  OBVIOUS
<1>2. Precedes(k, l) <=> \E n \in {1, 2, 3, 4} : k[n] < l[n] /\ \A m \in 1 .. n - 1 : k[m] = l[m]
  BY <1>1 DEF Precedes
<1>3. /\ 1 .. 1 - 1 = {} /\ 1 .. 2 - 1 = {1} /\ 1 .. 3 - 1 = {1, 2} /\ 1 .. 4 - 1 = {1, 2, 3}
  OBVIOUS
<1>4. QED
  BY <1>2, <1>3

Sooner(q, g) ==
    {p \in (DOMAIN q) \X (DOMAIN q) : Precedes(SortKey(q, g, p[1]), SortKey(q, g, p[2]))}

LEMMA SoonerIsOrder ==
  ASSUME NEW q, Queue(q), NEW g \in Groups(q)
  PROVE  IsOrderOf(Sooner(q, g), DOMAIN q)
<1> DEFINE K(i) == SortKey(q, g, i)
<1>1. \A i \in DOMAIN q : K(i) \in Int \X Int \X Int \X Int /\ K(i)[4] = i
  BY SortKeyType
<1>2. \A i, j \in DOMAIN q : <<i, j>> \in Sooner(q, g) <=> Precedes(K(i), K(j))
  BY DEF Sooner
<1> HIDE DEF K
<1>3. ASSUME NEW i \in DOMAIN q
      PROVE  <<i, i>> \notin Sooner(q, g)
  <2>1. ~Precedes(K(i), K(i))
    BY <1>1, PrecedesIs
  <2>2. QED
    BY <1>2, <2>1
<1>4. ASSUME NEW i \in DOMAIN q, NEW j \in DOMAIN q, i # j
      PROVE  <<i, j>> \in Sooner(q, g) \/ <<j, i>> \in Sooner(q, g)
  <2>1. Precedes(K(i), K(j)) \/ Precedes(K(j), K(i))
    BY <1>1, <1>4, PrecedesIs
  <2>2. QED
    BY <1>2, <2>1
<1>5. ASSUME NEW i \in DOMAIN q, NEW j \in DOMAIN q, NEW k \in DOMAIN q,
             <<i, j>> \in Sooner(q, g), <<j, k>> \in Sooner(q, g)
      PROVE  <<i, k>> \in Sooner(q, g)
  <2>1. Precedes(K(i), K(j)) /\ Precedes(K(j), K(k))
    BY <1>2, <1>5
  <2>2. Precedes(K(i), K(k))
    BY <1>1, <2>1, PrecedesIs
  <2>3. QED
    BY <1>2, <2>2
<1>6. QED
  BY <1>3, <1>4, <1>5 DEF IsOrderOf

\* The sorted queue holds every asset of the queue once, keys rising.
IsOrder(q, g, o) ==
    /\ o \in [1 .. Len(q) -> DOMAIN q]
    /\ \A i \in DOMAIN q : \E k \in 1 .. Len(q) : o[k] = i
    /\ \A j, k \in 1 .. Len(q) :
         j < k => o[j] # o[k] /\ Precedes(SortKey(q, g, o[j]), SortKey(q, g, o[k]))

LEMMA SortedByKey ==
  ASSUME NEW q, Queue(q), NEW g \in Groups(q)
  PROVE  \E o : IsOrder(q, g, o) /\ CogOrder(q, g) = [k \in 1 .. Len(q) |-> q[o[k]]]
<1> DEFINE o == Arranged(DOMAIN q, Sooner(q, g))
<1>1. DOMAIN q = 1 .. Len(q) /\ Len(q) \in Nat
  BY DEF Queue
<1>2. IsFiniteSet(DOMAIN q) /\ Cardinality(DOMAIN q) = Len(q)
  <2>1. IsFiniteSet(1 .. Len(q))
          /\ Cardinality(1 .. Len(q)) = IF 1 > Len(q) THEN 0 ELSE Len(q) - 1 + 1
    BY <1>1, FS_Interval
  <2>2. QED
    BY <1>1, <2>1
<1>3. IsOrderOf(Sooner(q, g), DOMAIN q)
  BY SoonerIsOrder
<1>4. /\ o \in [1 .. Len(q) -> DOMAIN q]
      /\ \A i \in DOMAIN q : \E k \in 1 .. Len(q) : o[k] = i
      /\ \A j, k \in 1 .. Len(q) : j < k => <<o[j], o[k]>> \in Sooner(q, g)
  BY <1>2, <1>3, ArrangedInOrder
<1>5. CogOrder(q, g) = [k \in DOMAIN q |-> q[o[k]]]
  <2> DEFINE keys == [i \in DOMAIN q |-> SortKey(q, g, i)]
  <2>1. Sooner(q, g) = {p \in (DOMAIN q) \X (DOMAIN q) : Precedes(keys[p[1]], keys[p[2]])}
    BY DEF Sooner
  <2>2. QED
    BY <2>1, Zenon DEF CogOrder
<1> HIDE DEF o
<1>6. ASSUME NEW j \in 1 .. Len(q), NEW k \in 1 .. Len(q), j < k
      PROVE  o[j] # o[k] /\ Precedes(SortKey(q, g, o[j]), SortKey(q, g, o[k]))
  <2>1. <<o[j], o[k]>> \in Sooner(q, g) /\ o[j] \in DOMAIN q /\ o[k] \in DOMAIN q
    BY <1>4, <1>6
  <2>2. o[j] # o[k]
    BY <1>3, <2>1 DEF IsOrderOf
  <2>3. QED
    BY <2>1, <2>2 DEF Sooner
<1>7. IsOrder(q, g, o)
  BY <1>4, <1>6 DEF IsOrder
<1>8. QED
  BY <1>1, <1>5, <1>7

\* Each image comes before its children, which follow it by rank and by
\* falling area, and nothing of another image comes between.
Sorted(q) ==
    \A m, n \in DOMAIN q : (m < n /\ Image(q[m]) = Image(q[n])) =>
        /\ \A k \in m .. n : Image(q[k]) = Image(q[m])
        /\ Type(q[n]) # 0
        /\ Type(q[m]) # 0 =>
             /\ ChildRank(Type(q[m])) <= ChildRank(Type(q[n]))
             /\ ChildRank(Type(q[m])) = ChildRank(Type(q[n])) => Area(q[m]) >= Area(q[n])

LEMMA SortSorts ==
  ASSUME NEW q, Queue(q), NEW r \in CogOrders(q)
  PROVE  Queue(r) /\ Len(r) = Len(q) /\ Sorted(r)
<1>1. PICK g \in Groups(q) : r = CogOrder(q, g)
  BY Zenon DEF CogOrders, Groups
<1>2. PICK o : IsOrder(q, g, o) /\ r = [k \in 1 .. Len(q) |-> q[o[k]]]
  BY <1>1, SortedByKey
<1>3. /\ DOMAIN r = 1 .. Len(q) /\ Len(q) \in Nat
      /\ \A k \in DOMAIN r : o[k] \in DOMAIN q /\ r[k] = q[o[k]]
      /\ \A j, k \in DOMAIN r : o[j] = o[k] => j = k
  <2>1. /\ DOMAIN r = 1 .. Len(q) /\ Len(q) \in Nat
        /\ \A k \in DOMAIN r : o[k] \in DOMAIN q /\ r[k] = q[o[k]]
    BY <1>2 DEF Queue, IsOrder
  <2>2. ASSUME NEW j \in DOMAIN r, NEW k \in DOMAIN r, o[j] = o[k]
        PROVE  j = k
    <3>1. j \in Int /\ k \in Int /\ ~(j < k) /\ ~(k < j)
      BY <1>2, <2>1, <2>2 DEF IsOrder
    <3>2. QED
      BY <3>1
  <2>3. QED
    BY <2>1, <2>2
<1>4. Len(r) = Len(q)
  BY <1>2, <1>3
<1>5. Queue(r)
  <2>1. r = [k \in 1 .. Len(r) |-> r[k]]
    <3> DEFINE N == Len(q)
    <3> HIDE DEF N
    <3>1. r = [k \in 1 .. N |-> q[o[k]]]
      BY <1>2 DEF N
    <3>2. r = [k \in 1 .. N |-> r[k]]
      BY <3>1
    <3>3. QED
      BY <3>2, <1>4 DEF N
  <2>2. QED
    BY <2>1, <1>3, <1>4 DEF Queue
<1>6. ASSUME NEW m \in DOMAIN r, NEW n \in DOMAIN r, m < n
      PROVE  LET i == o[m]
                 j == o[n]
             IN  \/ Group(q, g, i) < Group(q, g, j)
                 \/ /\ Group(q, g, i) = Group(q, g, j)
                    /\ Type(q[j]) # 0
                    /\ Type(q[i]) # 0 =>
                         /\ ChildRank(Type(q[i])) <= ChildRank(Type(q[j]))
                         /\ ChildRank(Type(q[i])) = ChildRank(Type(q[j])) => Area(q[i]) >= Area(q[j])
  <2> DEFINE i == o[m]
             j == o[n]
  <2>1. i \in DOMAIN q /\ j \in DOMAIN q /\ i # j
    BY <1>3, <1>6
  <2>2. Precedes(SortKey(q, g, i), SortKey(q, g, j))
    BY <1>2, <1>3, <1>6 DEF IsOrder
  <2> HIDE DEF i, j
  <2>3. Type(q[j]) = 0 /\ Type(q[i]) = 0 => Group(q, g, i) # Group(q, g, j)
    <3>1. Image(q[i]) = Image(q[j]) /\ Type(q[j]) = 0 /\ Type(q[i]) = 0 => i = j
      BY <2>1, OneParent DEF FullRes, Type
    <3>2. QED
      BY <2>1, <3>1, GroupIsImage
  <2>4. /\ IsAsset(q[i]) /\ IsAsset(q[j]) 
        /\ Area(q[i]) \in Nat /\ Area(q[j]) \in Nat
        /\ Group(q, g, i) \in Nat /\ Group(q, g, j) \in Nat
        /\ ChildRank(Type(q[i])) \in Nat /\ ChildRank(Type(q[j])) \in Nat
    BY <2>1, TypeValues, GroupIsImage DEF Queue, ChildRank
  <2>5. /\ SortKey(q, g, i) \in Int \X Int \X Int \X Int
        /\ SortKey(q, g, j) \in Int \X Int \X Int \X Int
    BY <2>1, SortKeyType
  <2> DEFINE k == SortKey(q, g, i)
             l == SortKey(q, g, j)
  <2>6. /\ k = IF Type(q[i]) = 0 THEN <<Group(q, g, i), 0, 0, i>>
               ELSE <<Group(q, g, i), 1 + ChildRank(Type(q[i])), -Area(q[i]), i>>
        /\ l = IF Type(q[j]) = 0 THEN <<Group(q, g, j), 0, 0, j>>
               ELSE <<Group(q, g, j), 1 + ChildRank(Type(q[j])), -Area(q[j]), j>>
    BY <2>1, SortKeyParts
  <2> HIDE DEF k, l
  <2>7. \/ k[1] < l[1]
        \/ k[1] = l[1] /\ k[2] < l[2]
        \/ k[1] = l[1] /\ k[2] = l[2] /\ k[3] <= l[3]
    <3>1. /\ k \in Int \X Int \X Int \X Int /\ l \in Int \X Int \X Int \X Int
          /\ Precedes(k, l)
      BY <2>2, <2>5 DEF k, l
    <3>2. k[3] \in Int /\ l[3] \in Int
      BY <3>1
    <3>3. QED
      BY <3>1, <3>2, PrecedesIs
  <2>8. /\ k[1] = Group(q, g, i) /\ l[1] = Group(q, g, j)
        /\ k[2] = IF Type(q[i]) = 0 THEN 0 ELSE 1 + ChildRank(Type(q[i]))
        /\ l[2] = IF Type(q[j]) = 0 THEN 0 ELSE 1 + ChildRank(Type(q[j]))
        /\ k[3] = IF Type(q[i]) = 0 THEN 0 ELSE -Area(q[i])
        /\ l[3] = IF Type(q[j]) = 0 THEN 0 ELSE -Area(q[j])
    BY <2>6
  <2>9. QED
    BY <2>3, <2>4, <2>7, <2>8 DEF i, j
<1>7. Sorted(r)
  <2> SUFFICES ASSUME NEW m \in DOMAIN r, NEW n \in DOMAIN r, m < n, Image(r[m]) = Image(r[n])
               PROVE  /\ \A k \in m .. n : Image(r[k]) = Image(r[m])
                      /\ Type(r[n]) # 0
                      /\ Type(r[m]) # 0 =>
                           /\ ChildRank(Type(r[m])) <= ChildRank(Type(r[n]))
                           /\ ChildRank(Type(r[m])) = ChildRank(Type(r[n])) => Area(r[m]) >= Area(r[n])
    BY DEF Sorted
  <2> DEFINE G(k) == Group(q, g, o[k])
  <2>1. \A k \in DOMAIN r : G(k) \in Nat
    BY <1>3, GroupIsImage
  <2>2. \A j, k \in DOMAIN r : G(j) = G(k) <=> Image(r[j]) = Image(r[k])
    BY <1>3, GroupIsImage
  <2>3. \A j, k \in DOMAIN r : j < k => G(j) <= G(k)
    BY <1>6, <2>1
  <2>4. G(m) = G(n)
    BY <2>2
  <2>5. ASSUME NEW k \in m .. n
        PROVE  Image(r[k]) = Image(r[m])
    <3>1. k \in DOMAIN r /\ m <= k /\ k <= n /\ m \in Int /\ n \in Int /\ k \in Int
      BY <1>3
    <3>2. G(m) <= G(k) /\ G(k) <= G(n)
      BY <2>1, <2>3, <3>1
    <3>3. G(k) = G(m)
      BY <2>1, <2>4, <3>1, <3>2
    <3>4. QED
      BY <2>2, <3>1, <3>3
  <2>6. ~(Group(q, g, o[m]) < Group(q, g, o[n]))
    BY <2>1, <2>4
  <2> HIDE DEF G
  <2>7. QED
    BY <1>3, <1>6, <2>5, <2>6
<1>8. QED
  BY <1>4, <1>5, <1>7

-----------------------------------------------------------------------------
(* What the reader counts *)

Types(types) ==
    Len(types) \in Nat /\ DOMAIN types = 1 .. Len(types) /\ \A n \in DOMAIN types : types[n] \in Nat

Counters ==
    [segment : Nat, parent : Nat, overview : Nat \ {0}, mask : Nat \ {0}, seen : BOOLEAN]

\* c[n] is what from_buffer has counted after n directories.
IsCount(types, c) ==
    /\ c \in [0 .. Len(types) -> Counters]
    /\ c[0] = FirstCounters
    /\ \A n \in 1 .. Len(types) : c[n] = Count(types[n], Len(types) = 1, c[n - 1])

LEMMA CountType ==
  ASSUME NEW type \in Nat, NEW single \in BOOLEAN, NEW c \in Counters
  PROVE  Count(type, single, c) \in Counters
<1>1. /\ c.segment \in Nat /\ c.parent \in Nat /\ c.overview \in Nat \ {0}
      /\ c.mask \in Nat \ {0} /\ c.seen \in BOOLEAN
  BY DEF Counters
<1>2. type % 2 \in 0 .. 1 /\ IsMask(type) \in BOOLEAN /\ IsReduced(type) \in BOOLEAN
  BY Division DEF IsMask, IsReduced
<1>3. CASE single \/ (~IsMask(type) /\ ~IsReduced(type))
  <2>1. Count(type, single, c) =
          [segment |-> c.segment + 1, parent |-> c.segment, seen |-> TRUE,
           overview |-> 1, mask |-> 1]
    BY <1>3 DEF Count
  <2>2. QED
    BY <1>1, <2>1 DEF Counters
<1>4. CASE ~single /\ IsMask(type) /\ ~c.seen
  <2>1. Count(type, single, c) = [c EXCEPT !.segment = c.segment + 1]
    BY <1>4 DEF Count
  <2>2. QED
    BY <1>1, <2>1 DEF Counters
<1>5. CASE ~single /\ IsMask(type) /\ c.seen
  <2>1. Count(type, single, c) = [c EXCEPT !.mask = c.mask + (type % 2)]
    BY <1>5 DEF Count
  <2>2. QED
    BY <1>1, <1>2, <2>1 DEF Counters
<1>6. CASE ~single /\ ~IsMask(type) /\ IsReduced(type)
  <2>1. Count(type, single, c) = [c EXCEPT !.overview = c.overview + 1]
    BY <1>6 DEF Count
  <2>2. QED
    BY <1>1, <2>1 DEF Counters
<1>7. QED
  BY <1>1, <1>2, <1>3, <1>4, <1>5, <1>6

LEMMA CountersExist ==
  ASSUME NEW types, Types(types)
  PROVE  \E c : /\ IsCount(types, c)
                /\ Classify(types) =
                     [n \in DOMAIN types |->
                        [key |-> PageKey(types[n], Len(types) = 1, c[n - 1]),
                         roles |-> PageRoles(types[n], Len(types) = 1)]]
<1> DEFINE N      == Len(types)
           single == Len(types) = 1
           step   == [x \in (1 .. N) \X Counters |-> Count(types[x[1]], single, x[2])]
           Loop(f) == f = [n \in 0 .. N |->
                             IF n = 0 THEN FirstCounters ELSE Count(types[n], single, f[n - 1])]
           pages(f) == [n \in DOMAIN types |->
                          [key |-> PageKey(types[n], single, f[n - 1]),
                           roles |-> PageRoles(types[n], single)]]
<1>1. N \in Nat /\ DOMAIN types = 1 .. N /\ \A n \in 1 .. N : types[n] \in Nat
  BY DEF Types
<1>2. FirstCounters \in Counters
  BY DEF FirstCounters, Counters
<1>3. single \in BOOLEAN
  OBVIOUS
<1>4. step \in [(1 .. N) \X Counters -> Counters]
  <2> HIDE DEF N, single
  <2>1. QED
    BY <1>1, <1>3, CountType
<1>5. PICK f : IsRun(N, f, Counters, FirstCounters, step)
  <2> HIDE DEF N, step
  <2>1. QED
    BY <1>1, <1>2, <1>4, LoopExists
<1>6. \A i \in 1 .. N : step[<<i, f[i - 1]>>] = Count(types[i], single, f[i - 1])
  <2>1. \A i \in 1 .. N : i - 1 \in 0 .. N
    BY <1>1
  <2> HIDE DEF N, single
  <2>2. \A i \in 1 .. N : f[i - 1] \in Counters
    BY <2>1, <1>5 DEF IsRun
  <2>3. QED
    BY <2>2
<1>7. Loop(f)
  <2> HIDE DEF step, single
  <2>1. f \in [0 .. N -> Counters] /\ f[0] = FirstCounters
        /\ \A i \in 1 .. N : f[i] = Count(types[i], single, f[i - 1])
    BY <1>5, <1>6 DEF IsRun
  <2>2. \A i \in 0 .. N : i = 0 \/ i \in 1 .. N
    BY <1>1
  <2> HIDE DEF N
  <2>3. \A i \in 0 .. N : f[i] = IF i = 0 THEN FirstCounters ELSE Count(types[i], single, f[i - 1])
    BY <2>1, <2>2
  <2>4. QED
    BY <2>1, <2>3
<1>8. PICK c : Loop(c) /\ Classify(types) = pages(c)
  <2>1. Loop(CHOOSE h : Loop(h))
    BY <1>7, Zenon
  <2>2. Classify(types) = pages(CHOOSE h : Loop(h))
    BY Zenon DEF Classify
  <2>3. QED
    BY <2>1, <2>2
<1>9. c[0] = FirstCounters /\ \A n \in 1 .. N : c[n] = Count(types[n], single, c[n - 1])
  <2> HIDE DEF single
  <2>1. c[0] = FirstCounters
    BY <1>1, <1>8
  <2>2. \A n \in 1 .. N : n \in 0 .. N /\ n # 0
    BY <1>1
  <2> HIDE DEF N
  <2>3. QED
    BY <1>8, <2>1, <2>2
<1>10. c \in [0 .. N -> Counters]
  <2> DEFINE done == {n \in 0 .. N : c[n] \in Counters}
  <2>1. 0 \in done
    BY <1>1, <1>2, <1>9
  <2>2. ASSUME NEW n \in 0 .. N - 1, n \in done
        PROVE  n + 1 \in done
    <3>1. n + 1 \in 1 .. N /\ n + 1 \in 0 .. N /\ (n + 1) - 1 = n
      BY <1>1
    <3> HIDE DEF N, single
    <3>2. c[n + 1] = Count(types[n + 1], single, c[n]) /\ c[n] \in Counters
      BY <1>9, <2>2, <3>1
    <3>3. c[n + 1] \in Counters
      BY <1>1, <1>3, <3>1, <3>2, CountType
    <3>4. QED
      BY <3>1, <3>3
  <2>3. \A n \in 0 .. N : n \in done
    <3> HIDE DEF done, N
    <3>1. QED
      BY <1>1, <2>1, <2>2, SetInduction
  <2> HIDE DEF N
  <2>4. \A n \in 0 .. N : c[n] \in Counters
    BY <2>3
  <2>5. DOMAIN c = 0 .. N /\ c = [n \in 0 .. N |-> c[n]]
    BY <1>8
  <2>6. QED
    BY <2>4, <2>5
<1>11. IsCount(types, c)
  BY <1>9, <1>10 DEF IsCount
<1>12. QED
  BY <1>8, <1>11

-----------------------------------------------------------------------------
(* The writer *)

LEMMA PageKeyType ==
  ASSUME NEW type \in Nat, NEW single \in BOOLEAN, NEW c \in Counters
  PROVE  PageKey(type, single, c) \in [image : Nat, overview : Nat, mask : BOOLEAN]
<1>1. /\ c.segment \in Nat /\ c.parent \in Nat /\ c.overview \in Nat
      /\ c.mask \in Nat /\ c.seen \in BOOLEAN
  BY DEF Counters
<1>2. IsMask(type) \in BOOLEAN /\ IsReduced(type) \in BOOLEAN
  BY DEF IsMask, IsReduced
<1>3. \A i, o \in Nat, m \in BOOLEAN : Key(i, o, m) \in [image : Nat, overview : Nat, mask : BOOLEAN]
  BY DEF Key
<1>4. PageKey(type, single, c) \in
        {Key(c.segment, 0, FALSE), Key(c.segment, 0, TRUE), Key(c.parent, c.mask, TRUE),
         Key(c.parent, 0, TRUE), Key(c.parent, c.overview, FALSE)}
  BY <1>1, <1>2 DEF PageKey
<1> DEFINE K == [image : Nat, overview : Nat, mask : BOOLEAN]
<1>5. /\ Key(c.segment, 0, FALSE) \in K /\ Key(c.segment, 0, TRUE) \in K
      /\ Key(c.parent, c.mask, TRUE) \in K /\ Key(c.parent, 0, TRUE) \in K
      /\ Key(c.parent, c.overview, FALSE) \in K
  BY <1>1, <1>3
<1> HIDE DEF K
<1>6. PageKey(type, single, c) \in K
  BY <1>4, <1>5
<1>7. QED
  BY <1>6 DEF K

LEMMA FileTypes ==
  ASSUME NEW f \in Foreign
  PROVE  /\ Types(DirectoryTypes(f)) /\ Len(DirectoryTypes(f)) = Len(f)
         /\ DOMAIN f = 1 .. Len(f) /\ Len(f) \in Nat
         /\ \A n \in DOMAIN f : DirectoryTypes(f)[n] = f[n].type
<1>1. DOMAIN f = 1 .. Len(f) /\ Len(f) \in Nat /\ \A n \in DOMAIN f : f[n].type \in Nat
  BY ForeignAssumption DEF IsDirectory
<1>2. DirectoryTypes(f) = [n \in 1 .. Len(f) |-> f[n].type]
  BY <1>1 DEF DirectoryTypes
<1> DEFINE N == Len(f)
<1> HIDE DEF N
<1>3. Len([n \in 1 .. N |-> f[n].type]) = N /\ DOMAIN [n \in 1 .. N |-> f[n].type] = 1 .. N
  BY <1>1 DEF N
<1>4. QED
  BY <1>1, <1>2, <1>3 DEF Types, N

LEMMA PageAssetIsAsset ==
  ASSUME file \in Foreign, NEW n \in DOMAIN file
  PROVE  IsAsset(PageAsset(n))
<1> DEFINE types == DirectoryTypes(file)
<1>1. Types(types) /\ Len(types) \in Nat /\ n \in 1 .. Len(types) /\ DOMAIN types = 1 .. Len(types)
  BY FileTypes DEF Types
<1> HIDE DEF types
<1>2. PICK c : /\ IsCount(types, c)
               /\ Classify(types) =
                    [m \in DOMAIN types |->
                       [key |-> PageKey(types[m], Len(types) = 1, c[m - 1]),
                        roles |-> PageRoles(types[m], Len(types) = 1)]]
  BY <1>1, CountersExist
<1>3. Pages(file)[n].key = PageKey(types[n], Len(types) = 1, c[n - 1])
  BY <1>1, <1>2 DEF Pages, types
<1>4. c[n - 1] \in Counters /\ types[n] \in Nat
  <2>1. n - 1 \in 0 .. Len(types)
    BY <1>1
  <2>2. QED
    BY <2>1, <1>1, <1>2 DEF IsCount, Types
<1>5. Pages(file)[n].key \in [image : Nat, overview : Nat, mask : BOOLEAN]
  BY <1>3, <1>4, PageKeyType
<1>6. IsDirectory(file[n])
  BY ForeignAssumption
<1>7. PageAsset(n).pixel \in PixelTypes
  <2> DEFINE d == file[n]
  <2>1. <<d.format, d.bits>> \in ReadableFormats
    BY <1>6 DEF IsDirectory
  <2>2. <<d.format, IF d.bits < 8 THEN 8 ELSE d.bits>> \in PixelTypes
    <3> HIDE DEF d
    <3>1. QED
      BY <2>1 DEF ReadableFormats, PixelTypes
  <2>3. QED
    BY <2>2 DEF PageAsset
<1>8. QED
  BY <1>5, <1>6, <1>7 DEF IsAsset, PageAsset, IsDirectory, HasGeometry

\* The queue holds assets under different keys; once the writer is closed it is
\* sorted, and there is a directory for each asset.
WriterInv ==
    /\ Queue(queue) /\ Len(queue) <= MaxQueue
    /\ closed \in BOOLEAN
    /\ IF closed
         THEN Sorted(queue) /\ written = [i \in DOMAIN queue |-> WrittenDirectory(queue[i])]
         ELSE written = << >>

LEMMA AddStep ==
  ASSUME WriterInv, NEW a, IsAsset(a), AddAsset(a)
  PROVE  WriterInv'
<1>1. /\ closed = FALSE /\ a.key \notin QueuedKeys /\ Len(queue) < MaxQueue
      /\ queue' = Append(queue, a) /\ written' = written /\ closed' = closed
  BY DEF AddAsset, WriterInv
<1>2. /\ Len(queue) \in Nat /\ DOMAIN queue = 1 .. Len(queue)
      /\ \A i \in DOMAIN queue : IsAsset(queue[i])
      /\ \A i, j \in DOMAIN queue : queue[i].key = queue[j].key => i = j
  BY DEF WriterInv, Queue
<1>3. \A i \in DOMAIN queue : queue[i].key # a.key
  BY <1>1 DEF QueuedKeys
<1>4. /\ Len(queue') = Len(queue) + 1 /\ DOMAIN queue' = 1 .. Len(queue) + 1
      /\ \A i \in DOMAIN queue' : queue'[i] = IF i \in DOMAIN queue THEN queue[i] ELSE a
      /\ queue' = [i \in 1 .. Len(queue) + 1 |-> queue'[i]]
  <2> DEFINE N == Len(queue)
             F(i) == queue[i]
  <2>1. N \in Nat /\ queue = [i \in 1 .. N |-> F(i)]
    BY <1>2 DEF WriterInv, Queue
  <2> HIDE DEF N, F
  <2>2. /\ Len(Append(queue, a)) = N + 1 /\ DOMAIN Append(queue, a) = 1 .. N + 1
        /\ \A i \in 1 .. N + 1 : Append(queue, a)[i] = IF i \in 1 .. N THEN F(i) ELSE a
        /\ Append(queue, a) = [i \in 1 .. N + 1 |-> Append(queue, a)[i]]
    BY <2>1
  <2>3. QED
    BY <1>1, <1>2, <2>2 DEF N, F
<1>5. \A i \in DOMAIN queue' : i \in DOMAIN queue \/ i = Len(queue) + 1
  BY <1>2, <1>4
<1>6. Queue(queue)'
  <2>1. \A i \in DOMAIN queue' : IsAsset(queue'[i])
    BY <1>2, <1>4, <1>5
  <2>2. \A i, j \in DOMAIN queue' : queue'[i].key = queue'[j].key => i = j
    BY <1>2, <1>3, <1>4, <1>5
  <2>3. Len(queue') \in Nat
    BY <1>2, <1>4
  <2>4. queue' = [i \in 1 .. Len(queue') |-> queue'[i]] /\ DOMAIN queue' = 1 .. Len(queue')
    BY <1>4, Zenon
  <2>5. QED
    BY <2>1, <2>2, <2>3, <2>4 DEF Queue
<1>7. Len(queue') <= MaxQueue
  BY <1>1, <1>2, <1>4, MaxQueueAssumption
<1>8. QED
  BY <1>1, <1>6, <1>7 DEF WriterInv

LEMMA CloseStep ==
  ASSUME WriterInv, Close
  PROVE  WriterInv'
<1>1. /\ queue' \in CogOrders(queue) /\ closed' = TRUE
      /\ written' = [i \in DOMAIN queue' |-> WrittenDirectory(queue'[i])]
  BY DEF Close
<1>2. Queue(queue') /\ Len(queue') = Len(queue) /\ Sorted(queue')
  BY <1>1, SortSorts DEF WriterInv
<1>3. QED
  BY <1>1, <1>2 DEF WriterInv, Queue, Sorted

LEMMA CloseFailsStep ==
  ASSUME WriterInv, CloseFails
  PROVE  WriterInv'
<1>1. /\ queue' \in CogOrders(queue) /\ closed' = closed /\ closed = FALSE /\ written' = written
  BY DEF CloseFails, WriterInv
<1>2. Queue(queue') /\ Len(queue') = Len(queue)
  BY <1>1, SortSorts DEF WriterInv
<1>3. QED
  BY <1>1, <1>2 DEF WriterInv, Queue

LEMMA WriterNextInv == IInv /\ WriterInv /\ [Next]_vars => WriterInv'
<1> SUFFICES ASSUME IInv, WriterInv, [Next]_vars
             PROVE  WriterInv'
  OBVIOUS
<1>1. CASE UNCHANGED writeVars
  BY <1>1 DEF WriterInv, writeVars, Queue, Sorted
<1>2. CASE WriteNext
  <2>1. file \in Foreign
    BY DEF IInv, ReadTypeOK
  <2>2. CASE \E a \in Assets : AddAsset(a)
    BY <2>2, AddStep, AssetsAssumption
  <2>3. CASE \E n \in DOMAIN file : AddAsset(PageAsset(n))
    BY <2>1, <2>3, AddStep, PageAssetIsAsset
  <2>4. QED
    BY <1>2, <2>2, <2>3, CloseStep, CloseFailsStep DEF WriteNext
<1>3. QED
  BY <1>1, <1>2 DEF Next, vars

LEMMA WriterInvariant == Spec => []WriterInv
<1>1. Init => WriterInv
  <2>1. ASSUME queue = << >>
        PROVE  Queue(queue) /\ Len(queue) = 0
    <3>1. /\ Len(<< >>) = 0 /\ DOMAIN << >> = {} /\ 1 .. 0 = {}
          /\ << >> = [i \in 1 .. 0 |-> << >>[i]]
      OBVIOUS
    <3>2. QED
      BY <2>1, <3>1 DEF Queue
  <2>2. Init => Queue(queue) /\ Len(queue) = 0 /\ written = << >> /\ closed = FALSE
    BY <2>1 DEF Init
  <2>3. Init => Len(queue) <= MaxQueue
    BY <2>2, MaxQueueAssumption
  <2>4. QED
    BY <2>2, <2>3, Zenon DEF WriterInv
<1>2. QED
  BY <1>1, Invariant, WriterNextInv, PTL DEF Spec

\* The state of writer and readers is as declared: the queue never holds two
\* assets of one key or more than its bound, whatever is added between closes
\* that fail, and what close writes has one directory for each asset.
THEOREM TiffTypeCorrect == Spec => []TypeOK
<1>1. IInv /\ WriterInv => TypeOK
  <2> SUFFICES ASSUME IInv, WriterInv
               PROVE  TypeOK
    OBVIOUS
  <2>1. closed => Len(written) = Len(queue)
    <3>1. CASE closed
      <4> DEFINE N == Len(queue)
                 F(i) == WrittenDirectory(queue[i])
      <4>1. N \in Nat /\ written = [i \in 1 .. N |-> F(i)]
        BY <3>1 DEF WriterInv, Queue
      <4> HIDE DEF N, F
      <4>2. Len(written) = N
        BY <4>1
      <4>3. QED
        BY <4>2 DEF N
    <3>2. QED
      BY <3>1
  <2>2. QED
    BY <2>1, MaxQueueAssumption DEF IInv, WriterInv, Queue, TypeOK
<1>2. QED
  BY <1>1, Invariant, WriterInvariant, PTL

-----------------------------------------------------------------------------
(* The samples of what is written *)

\* However the queue was sorted: in a file that opens, get_block of a page gives
\* the samples of the asset whose page it is, the nonzero ones of a mask as 1,
\* when they fit the page's directory (pad_tile, bsq_to_interleaved,
\* coerce_subbyte and pack_subbyte_msb_first against src/tiff/image.rs).
THEOREM WrittenPixels == Spec => []PixelsComeBack
<1>1. WriterInv => PixelsComeBack
  <2> SUFFICES ASSUME WriterInv, Openable(written), NEW n \in DOMAIN written, Fits(queue[n]),
                      NEW p \in Blocks(written[n])
               PROVE  ReadBlock(written[n], p) = AssetBlock(queue[n], written[n], p)
    BY Zenon DEF PixelsComeBack
  <2>1. closed
    BY DEF WriterInv
  <2>2. n \in DOMAIN queue /\ written[n] = WrittenDirectory(queue[n])
    BY <2>1 DEF WriterInv
  <2>3. IsAsset(queue[n])
    BY <2>2 DEF WriterInv, Queue
  <2> DEFINE a == queue[n]
             d == WrittenDirectory(a)
  <2>4. Openable(<<d>>)
    <3>1. <<written[n].format, written[n].bits>> \in ReadableFormats
      BY DEF Openable
    <3> HIDE DEF d
    <3>2. <<d.format, d.bits>> \in ReadableFormats
      BY <2>2, <3>1 DEF d
    <3>3. QED
      BY <3>2 DEF Openable
  <2> HIDE DEF a
  <2>5. IsAsset(a) /\ Fits(a) /\ written[n] = d
    BY <2>2, <2>3 DEF a
  <2>6. p \in Blocks(d)
    BY <2>5
  <2>7. ReadBlock(d, p) = AssetBlock(a, d, p)
    BY <2>4, <2>5, <2>6, AssetsDecode
  <2>8. QED
    BY <2>5, <2>7 DEF a
<1>2. QED
  BY <1>1, WriterInvariant, PTL

\* One sample of a block, as BlockDecodes finds it.
LEMMA CellIsSample ==
  ASSUME NEW d, HasGeometry(d), NEW p \in Blocks(d), NEW b \in 0 .. d.spp - 1,
         NEW y \in 0 .. BlockRows(d, p[1]) - 1, NEW x \in 0 .. BlockCols(d, p[2]) - 1
  PROVE  IF d.planar
           THEN CellAt(Unpack(d.bits, Chunk(d, PlaneChunk(d, p, b)), SamplesPerRow(d), ChunkRows(d, p[1])),
                       y * d.bw + x)
                  = Stored(d, b, p[1] * d.bh + y, p[2] * d.bw + x)
           ELSE CellAt(Unpack(d.bits, Chunk(d, PlaneChunk(d, p, 0)), SamplesPerRow(d), ChunkRows(d, p[1])),
                       (y * d.bw + x) * d.spp + b)
                  = Stored(d, b, p[1] * d.bh + y, p[2] * d.bw + x)
<1> DEFINE bands == <<b>>
           chunks == ChunkIndexes(d, p, bands)
           raws == [i \in DOMAIN chunks |-> Chunk(d, chunks[i])]
           cells == (0 .. BlockRows(d, p[1]) - 1) \X (0 .. BlockCols(d, p[2]) - 1)
           plain == [i \in DOMAIN raws |->
                       Unpack(d.bits, raws[i], SamplesPerRow(d), ChunkRows(d, p[1]))]
           decoded(i, q) == IF d.planar
                              THEN CellAt(plain[i], q[1] * d.bw + q[2])
                              ELSE CellAt(plain[1], (q[1] * d.bw + q[2]) * d.spp + bands[i])
           sample(i, q) == Stored(d, bands[i], p[1] * d.bh + q[1], p[2] * d.bw + q[2])
           pixel == <<y, x>>
<1>1. bands \in Seq(0 .. d.spp - 1) /\ 1 \in DOMAIN bands /\ bands[1] = b
  OBVIOUS
<1>2. DecodeBlock(d, p, bands, raws) = BlockSamples(d, p, bands)
  <2> HIDE DEF bands
  <2>1. QED
    BY <1>1, BlockDecodes
<1>3. DecodeBlock(d, p, bands, raws) = [i \in DOMAIN bands |-> [q \in cells |-> decoded(i, q)]]
  BY Zenon DEF DecodeBlock
<1>4. BlockSamples(d, p, bands) = [i \in DOMAIN bands |-> [q \in cells |-> sample(i, q)]]
  BY Zenon DEF BlockSamples
<1>5. pixel \in cells /\ pixel[1] = y /\ pixel[2] = x
  OBVIOUS
<1>6. decoded(1, pixel) = sample(1, pixel)
  <2> HIDE DEF decoded, sample, cells, bands, pixel
  <2>1. [i \in DOMAIN bands |-> [q \in cells |-> decoded(i, q)]][1][pixel]
          = [i \in DOMAIN bands |-> [q \in cells |-> sample(i, q)]][1][pixel]
    BY <1>2, <1>3, <1>4
  <2>2. QED
    BY <1>1, <1>5, <2>1
<1>7. sample(1, pixel) = Stored(d, b, p[1] * d.bh + y, p[2] * d.bw + x)
  BY <1>1
<1>8. /\ p[1] \in Nat /\ p[2] \in Nat /\ Across(d) \in Nat /\ Down(d) \in Nat /\ b \in Nat
      /\ d.planar \in BOOLEAN
  BY Geometry DEF Blocks, HasGeometry
<1>9. CASE d.planar
  <2>1. 1 \in DOMAIN chunks /\ chunks[1] = PlaneChunk(d, p, b)
    BY <1>9 DEF ChunkIndexes, PlaneChunk, InPlane
  <2> HIDE DEF chunks
  <2>2. plain[1] = Unpack(d.bits, Chunk(d, PlaneChunk(d, p, b)), SamplesPerRow(d), ChunkRows(d, p[1]))
    BY <2>1
  <2>3. decoded(1, pixel) = CellAt(plain[1], y * d.bw + x)
    BY <1>9
  <2>4. QED
    BY <1>6, <1>7, <1>9, <2>2, <2>3
<1>10. CASE ~d.planar
  <2>1. 0 * Down(d) * Across(d) = 0 /\ p[1] * Across(d) \in Int
    BY <1>8, SMTT(10)
  <2>2. PlaneChunk(d, p, 0) = p[1] * Across(d) + p[2]
    BY <1>8, <2>1 DEF PlaneChunk, InPlane
  <2>3. 1 \in DOMAIN chunks /\ chunks[1] = PlaneChunk(d, p, 0)
    BY <1>10, <2>2 DEF ChunkIndexes
  <2> HIDE DEF chunks
  <2>4. plain[1] = Unpack(d.bits, Chunk(d, PlaneChunk(d, p, 0)), SamplesPerRow(d), ChunkRows(d, p[1]))
    BY <2>3
  <2>5. decoded(1, pixel) = CellAt(plain[1], (y * d.bw + x) * d.spp + b)
    BY <1>10
  <2>6. QED
    BY <1>6, <1>7, <1>10, <2>4, <2>5
<1>11. QED
  BY <1>8, <1>9, <1>10

\* The block of a pixel, and its place there.
LEMMA PlaceInBlocks ==
  ASSUME NEW n \in Nat \ {0}, NEW k \in Nat \ {0}, NEW i \in 0 .. n - 1
  PROVE  /\ i \div k \in 0 .. DivCeil(n, k) - 1
         /\ i % k \in 0 .. k - 1
         /\ i % k \in 0 .. Least(k, n - (i \div k) * k) - 1
         /\ (i \div k) * k + (i % k) = i
<1> DEFINE g == DivCeil(n, k)
<1>1. g \in Nat /\ g * k >= n
  BY CeilingCovers
<1>2. g * k \in Nat
  BY <1>1, SMTT(10)
<1> HIDE DEF g
<1>3. i \in 0 .. g * k - 1
  BY <1>1, <1>2
<1>4. i \div k \in 0 .. g - 1 /\ i % k \in 0 .. k - 1
  BY <1>1, <1>3, RowMajor
<1>5. i = (i \div k) * k + (i % k)
  BY Division
<1> DEFINE u == (i \div k) * k
           v == i % k
<1>6. u \in Int /\ v \in 0 .. k - 1 /\ i = u + v
  <2>1. u \in Int
    BY <1>4, SMTT(10)
  <2>2. QED
    BY <2>1, <1>4, <1>5
<1> HIDE DEF u, v
<1>7. v \in 0 .. Least(k, n - u) - 1
  BY <1>6 DEF Least
<1>8. QED
  BY <1>4, <1>6, <1>7 DEF g, u, v

LEMMA WholeChunks ==
  ASSUME NEW d, HasGeometry(d), WholeStrips(d), NEW r \in 0 .. Down(d) - 1
  PROVE  ChunkRows(d, r) = d.bh
<1>1. CASE d.tiled
  BY <1>1 DEF ChunkRows
<1>2. CASE ~d.tiled
  <2> DEFINE k == d.bh
             n == d.rows
             m == n \div k
  <2>1. k \in Nat \ {0} /\ n \in Nat \ {0} /\ n % k = 0
    BY <1>2 DEF HasGeometry, WholeStrips
  <2> HIDE DEF k, n, m
  <2>2. m \in Nat /\ n = m * k
    <3>1. m \in Nat /\ n = m * k + (n % k)
      BY <2>1, Division DEF m
    <3>2. m * k \in Nat
      BY <2>1, <3>1, SMTT(10)
    <3>3. QED
      BY <2>1, <3>1, <3>2
  <2>3. DivCeil(n, k) = m
    <3>1. k - 1 \in 0 .. k - 1 /\ n + k - 1 = m * k + (k - 1)
      BY <2>1, <2>2, SMTT(10)
    <3>2. (m * k + (k - 1)) \div k = m
      BY <2>1, <2>2, <3>1, QuotientAndRemainder
    <3>3. QED
      BY <3>1, <3>2 DEF DivCeil
  <2>4. r \in 0 .. m - 1
    BY <2>3 DEF Down, n, k
  <2>5. (r + 1) * k <= m * k /\ (r + 1) * k = r * k + k /\ r * k \in Nat /\ m * k \in Nat
    BY <2>1, <2>2, <2>4, SMTT(10)
  <2>6. ~(n - r * k < k)
    BY <2>1, <2>2, <2>5
  <2>7. Least(k, n - r * k) = k
    <3>1. n - r * k \in Int
      BY <2>1, <2>5
    <3>2. n - r * k >= k
      BY <2>1, <3>1, <2>6
    <3>3. QED
      BY <2>1, <3>1, <3>2 DEF Least
  <2>8. QED
    BY <1>2, <2>7 DEF ChunkRows, BlockRows, n, k
<1>3. QED
  BY <1>1, <1>2

\* The view shows the sample that was stored: for tiles and whole strips,
\* chunky and planar, with a codec and without.
LEMMA ViewShowsStored ==
  ASSUME NEW d, HasGeometry(d)
  PROVE  ShownAsStored(d, Ranges(d))
<1> SUFFICES ASSUME d.holds = "samples", Indexable(d), WholeStrips(d), NEW q \in Pixels(d)
             PROVE  ViewSample(d, Ranges(d), q[1], q[2], q[3]) = Stored(d, q[1], q[2], q[3])
  BY DEF ShownAsStored, Stored
<1> DEFINE b == q[1]
           y == q[2]
           x == q[3]
           r == y \div d.bh
           c == x \div d.bw
           v == y % d.bh
           u == x % d.bw
           p == <<r, c>>
           R == ChunkRows(d, r)
           S == SamplesPerRow(d)
           chunks == Ranges(d)[p]
           place == v * d.bw + u
<1>1. /\ d.rows \in Nat \ {0} /\ d.cols \in Nat \ {0} /\ d.spp \in Nat \ {0}
      /\ d.bh \in Nat \ {0} /\ d.bw \in Nat \ {0} /\ d.planar \in BOOLEAN
      /\ b \in 0 .. d.spp - 1 /\ y \in 0 .. d.rows - 1 /\ x \in 0 .. d.cols - 1
  BY DEF HasGeometry, Pixels
<1> HIDE DEF b, y, x
<1>2. /\ r \in 0 .. Down(d) - 1 /\ v \in 0 .. BlockRows(d, r) - 1 /\ v \in 0 .. d.bh - 1
      /\ r * d.bh + v = y
  <2>1. /\ y \div d.bh \in 0 .. DivCeil(d.rows, d.bh) - 1
        /\ y % d.bh \in 0 .. Least(d.bh, d.rows - (y \div d.bh) * d.bh) - 1
        /\ y % d.bh \in 0 .. d.bh - 1 /\ (y \div d.bh) * d.bh + (y % d.bh) = y
    <3> DEFINE n == d.rows
               k == d.bh
    <3> HIDE DEF n, k
    <3>1. n \in Nat \ {0} /\ k \in Nat \ {0} /\ y \in 0 .. n - 1
      BY <1>1 DEF n, k
    <3>2. /\ y \div k \in 0 .. DivCeil(n, k) - 1
          /\ y % k \in 0 .. Least(k, n - (y \div k) * k) - 1
          /\ y % k \in 0 .. k - 1 /\ (y \div k) * k + (y % k) = y
      BY <3>1, PlaceInBlocks
    <3>3. QED
      BY <3>2, Zenon DEF n, k
  <2>2. QED
    BY <2>1, Zenon DEF Down, BlockRows
<1>3. /\ c \in 0 .. Across(d) - 1 /\ u \in 0 .. BlockCols(d, c) - 1 /\ u \in 0 .. d.bw - 1
      /\ c * d.bw + u = x
  <2>1. /\ x \div d.bw \in 0 .. DivCeil(d.cols, d.bw) - 1
        /\ x % d.bw \in 0 .. Least(d.bw, d.cols - (x \div d.bw) * d.bw) - 1
        /\ x % d.bw \in 0 .. d.bw - 1 /\ (x \div d.bw) * d.bw + (x % d.bw) = x
    <3> DEFINE n == d.cols
               k == d.bw
    <3> HIDE DEF n, k
    <3>1. n \in Nat \ {0} /\ k \in Nat \ {0} /\ x \in 0 .. n - 1
      BY <1>1 DEF n, k
    <3>2. /\ x \div k \in 0 .. DivCeil(n, k) - 1
          /\ x % k \in 0 .. Least(k, n - (x \div k) * k) - 1
          /\ x % k \in 0 .. k - 1 /\ (x \div k) * k + (x % k) = x
      BY <3>1, PlaceInBlocks
    <3>3. QED
      BY <3>2, Zenon DEF n, k
  <2>2. QED
    BY <2>1, Zenon DEF Across, BlockCols
<1> HIDE DEF r, c, v, u
<1>4. p \in Blocks(d) /\ p[1] = r /\ p[2] = c
  BY <1>2, <1>3 DEF Blocks
<1>5. R = d.bh
  BY <1>2, WholeChunks
<1>6. IF d.planar
        THEN CellAt(Unpack(d.bits, Chunk(d, PlaneChunk(d, p, b)), S, R), v * d.bw + u)
               = Stored(d, b, y, x)
        ELSE CellAt(Unpack(d.bits, Chunk(d, PlaneChunk(d, p, 0)), S, R), (v * d.bw + u) * d.spp + b)
               = Stored(d, b, y, x)
  <2> HIDE DEF p
  <2>1. v \in 0 .. BlockRows(d, p[1]) - 1 /\ u \in 0 .. BlockCols(d, p[2]) - 1
    BY <1>2, <1>3, <1>4
  <2>2. IF d.planar
          THEN CellAt(Unpack(d.bits, Chunk(d, PlaneChunk(d, p, b)), S, ChunkRows(d, p[1])), v * d.bw + u)
                 = Stored(d, b, p[1] * d.bh + v, p[2] * d.bw + u)
          ELSE CellAt(Unpack(d.bits, Chunk(d, PlaneChunk(d, p, 0)), S, ChunkRows(d, p[1])),
                      (v * d.bw + u) * d.spp + b)
                 = Stored(d, b, p[1] * d.bh + v, p[2] * d.bw + u)
    BY <1>1, <1>4, <2>1, CellIsSample
  <2>3. QED
    BY <1>2, <1>3, <1>4, <2>2
<1>7. \A k \in 1 .. Planes(d) : chunks[k] = PlaneChunk(d, p, k - 1)
  <2>1. Down(d) \in Nat /\ Across(d) \in Nat /\ r \in Nat /\ c \in Nat
    BY <1>2, <1>3, Geometry
  <2>2. chunks = [k \in 1 .. Planes(d) |-> (k - 1) * (Down(d) * Across(d)) + p[1] * Across(d) + p[2]]
    BY <1>4 DEF Ranges
  <2>3. ASSUME NEW k \in 1 .. Planes(d), k \in Int
        PROVE  (k - 1) * (Down(d) * Across(d)) + r * Across(d) + c
                 = r * Across(d) + c + (k - 1) * Down(d) * Across(d)
    <3>1. PICK A \in Nat, D \in Nat, j \in Int : A = Across(d) /\ D = Down(d) /\ j = k - 1
      BY <2>1, <2>3
    <3>2. r * A \in Int /\ j * (D * A) = j * D * A /\ j * (D * A) \in Int
      BY <2>1, SMTT(10)
    <3>3. j * (D * A) + r * A + c = r * A + c + j * D * A
      BY <2>1, <3>2
    <3>4. QED
      BY <3>1, <3>3
  <2>4. 1 .. Planes(d) \subseteq Int
    OBVIOUS
  <2>5. QED
    BY <1>4, <2>2, <2>3, <2>4 DEF PlaneChunk, InPlane
<1>8. /\ v \in Int /\ u \in Int /\ place \in Int
  <2>1. v \in Int /\ u \in Int
    BY <1>2, <1>3
  <2>2. v * d.bw \in Int
    BY <1>1, <2>1, SMTT(10)
  <2>3. QED
    BY <2>1, <2>2
<1>10. \A raw : \A n \in Nat \ {0} : \A i \in 0 .. n - 1 :
          DecodedTile(d, raw, n)[<<i, v, u>>]
            = CellAt(Unpack(d.bits, raw, d.bw * n, d.bh), (v * d.bw + u) * n + i)
  <2> SUFFICES ASSUME NEW raw, NEW n \in Nat \ {0}, NEW i \in 0 .. n - 1
               PROVE  DecodedTile(d, raw, n)[<<i, v, u>>]
                        = CellAt(Unpack(d.bits, raw, d.bw * n, d.bh), (v * d.bw + u) * n + i)
    OBVIOUS
  <2> DEFINE s == <<i, v, u>>
             F(t) == CellAt(Unpack(d.bits, raw, d.bw * n, d.bh), (t[2] * d.bw + t[3]) * n + t[1])
             T == (0 .. n - 1) \X (0 .. d.bh - 1) \X (0 .. d.bw - 1)
  <2>1. s \in T /\ s[1] = i /\ s[2] = v /\ s[3] = u
    BY <1>2, <1>3
  <2>2. F(s) = CellAt(Unpack(d.bits, raw, d.bw * n, d.bh), (v * d.bw + u) * n + i)
    BY <2>1
  <2>3. DecodedTile(d, raw, n) = [t \in T |-> F(t)]
    BY Zenon DEF DecodedTile
  <2> HIDE DEF F, T, s
  <2>4. DecodedTile(d, raw, n)[s] = F(s)
    BY <2>1, <2>3
  <2>5. QED
    BY <2>2, <2>4 DEF s
<1>11. place * 1 + 0 = place /\ d.bw * 1 = d.bw
  BY <1>1, <1>8
<1>12. ViewSample(d, Ranges(d), b, y, x) =
         IF PerPlane(d)
           THEN DecodedTile(d, Chunk(d, chunks[b + 1]), 1)[<<0, v, u>>]
           ELSE IF Configured(d)
                  THEN DecodedTile(d, Chunk(d, chunks[1]), d.spp)[<<b, v, u>>]
                  ELSE CellAt(Chunk(d, chunks[1]), place)
  BY Zenon DEF ViewSample, r, c, v, u
<1> HIDE DEF p, chunks, place, R, S
<1>13. CASE PerPlane(d)
  <2>1. d.planar /\ Planes(d) = d.spp /\ S = d.bw
    BY <1>13 DEF PerPlane, Planes, SamplesPerRow, S
  <2>2. chunks[b + 1] = PlaneChunk(d, p, b)
    <3>1. b + 1 \in 1 .. Planes(d) /\ (b + 1) - 1 = b
      BY <1>1, <2>1
    <3>2. QED
      BY <1>7, <3>1
  <2>3. DecodedTile(d, Chunk(d, chunks[b + 1]), 1)[<<0, v, u>>]
          = CellAt(Unpack(d.bits, Chunk(d, chunks[b + 1]), d.bw * 1, d.bh), place * 1 + 0)
    BY <1>10 DEF place
  <2>4. QED
    BY <1>5, <1>6, <1>11, <1>12, <1>13, <2>1, <2>2, <2>3 DEF b, y, x, place, R
<1>14. chunks[1] = PlaneChunk(d, p, 0)
  <2>1. 1 \in 1 .. Planes(d) /\ 1 - 1 = 0
    BY <1>1 DEF Planes
  <2>2. QED
    BY <1>7, <2>1
<1>15. CASE ~PerPlane(d) /\ Configured(d)
  <2>1. DecodedTile(d, Chunk(d, chunks[1]), d.spp)[<<b, v, u>>]
          = CellAt(Unpack(d.bits, Chunk(d, chunks[1]), d.bw * d.spp, d.bh), place * d.spp + b)
    BY <1>1, <1>10 DEF place
  <2>2. CASE d.planar
    <3>1. d.spp = 1 /\ b = 0 /\ S = d.bw
      BY <1>1, <1>15, <2>2 DEF PerPlane, SamplesPerRow, S
    <3>2. d.bw * d.spp = d.bw /\ place * d.spp + b = place
      BY <1>11, <3>1
    <3>3. QED
      BY <1>5, <1>6, <1>12, <1>14, <1>15, <2>1, <2>2, <3>1, <3>2 DEF b, y, x, place, R
  <2>3. CASE ~d.planar
    <3>1. S = d.bw * d.spp
      BY <2>3 DEF SamplesPerRow, S
    <3>2. QED
      BY <1>5, <1>6, <1>12, <1>14, <1>15, <2>1, <2>3, <3>1 DEF b, y, x, place, R
  <2>4. QED
    BY <2>2, <2>3
<1>16. CASE ~PerPlane(d) /\ ~Configured(d)
  <2>1. d.bits >= 8 /\ d.spp = 1 /\ b = 0
    BY <1>1, <1>16 DEF Indexable
  <2>2. \A raw : Unpack(d.bits, raw, S, R) = raw
    BY <2>1 DEF Unpack
  <2>3. place * d.spp + b = place
    BY <1>11, <2>1
  <2>4. QED
    BY <1>6, <1>12, <1>14, <1>16, <2>1, <2>2, <2>3 DEF b, y, x, place
<1>17. QED
  BY <1>13, <1>15, <1>16

\* A virtual view of a page shows its samples, of a page the writer wrote as
\* of a page of the open file, whose chunk table was read while other threads
\* used the handle (tile_byte_ranges, _build_manifest_array, decode_tiff_tile).
THEOREM ViewIsFaithful == Spec => []ViewShowsThePage
<1>1. IInv /\ WriterInv /\ ReadsTheirPage => ViewShowsThePage
  <2> SUFFICES ASSUME IInv, WriterInv, ReadsTheirPage
               PROVE  ViewShowsThePage
    OBVIOUS
  <2>1. ASSUME NEW n \in DOMAIN written
        PROVE  ShownAsStored(written[n], Ranges(written[n]))
    <3>1. closed /\ n \in DOMAIN queue /\ written[n] = WrittenDirectory(queue[n])
      BY DEF WriterInv
    <3>2. IsAsset(queue[n])
      BY <3>1 DEF WriterInv, Queue
    <3>3. HasGeometry(written[n])
      BY <3>1, <3>2, WrittenGeometry
    <3>4. QED
      BY <3>3, ViewShowsStored
  <2>2. ASSUME NEW t \in Threads, call[t].pc = "done", call[t].request.kind = "ranges"
        PROVE  ShownAsStored(file[call[t].page], call[t].got[1])
    <3> DEFINE d == file[call[t].page]
               items == Items(d, call[t].request)
    <3>1. IsDirectory(d)
      BY <2>2, OwnItems DEF IInv
    <3>2. call[t].got = [i \in DOMAIN items |-> Answer(d, items[i])]
      BY <2>2 DEF ReadsTheirPage
    <3>3. items = <<Item("offsets", 0)>>
      BY <2>2 DEF Items
    <3> HIDE DEF items, d
    <3>4. call[t].got[1] = Answer(d, Item("offsets", 0))
      BY <3>2, <3>3
    <3>5. call[t].got[1] = Ranges(d)
      BY <3>4 DEF Answer, Item
    <3>6. HasGeometry(d)
      BY <3>1 DEF IsDirectory
    <3>7. ShownAsStored(d, call[t].got[1])
      BY <3>5, <3>6, ViewShowsStored
    <3>8. QED
      BY <3>7 DEF d
  <2>3. QED
    BY <2>1, <2>2 DEF ViewShowsThePage
<1>2. QED
  BY <1>1, Invariant, WriterInvariant, CallsReadTheirPage, PTL

-----------------------------------------------------------------------------
(* The pages of a written file *)

QueueTypes(q) == [n \in DOMAIN q |-> Type(q[n])]

Kinds(types) ==
    Types(types) /\ \A n \in DOMAIN types : types[n] \in {0, 1, 4, 5}

\* c counts directories of these types; they are not a single one.
Counted(types, c) ==
    Kinds(types) /\ Len(types) # 1 /\ IsCount(types, c)

\* No full-resolution image after m up to n.
NoImage(types, m, n) == \A k \in m + 1 .. n : types[k] # 0

LEMMA TypesOfQueue ==
  ASSUME NEW q, Queue(q)
  PROVE  /\ Kinds(QueueTypes(q)) /\ Len(QueueTypes(q)) = Len(q)
         /\ DOMAIN q = 1 .. Len(q) /\ Len(q) \in Nat
         /\ \A n \in DOMAIN q : QueueTypes(q)[n] = Type(q[n]) /\ Type(q[n]) \in {0, 1, 4, 5}
<1> DEFINE N == Len(q)
           F(n) == Type(q[n])
<1>1. N \in Nat /\ DOMAIN q = 1 .. N /\ \A n \in 1 .. N : F(n) \in {0, 1, 4, 5}
  BY TypeValues DEF Queue
<1>2. QueueTypes(q) = [n \in 1 .. N |-> F(n)]
  BY <1>1 DEF QueueTypes
<1> HIDE DEF F, N
<1>3. Len(QueueTypes(q)) = N /\ DOMAIN QueueTypes(q) = 1 .. N
      /\ \A n \in 1 .. N : QueueTypes(q)[n] = F(n)
  BY <1>1, <1>2
<1>4. Kinds(QueueTypes(q))
  BY <1>1, <1>3 DEF Kinds, Types
<1>5. QED
  BY <1>1, <1>3, <1>4 DEF N, F

LEMMA TypeBits ==
  /\ ~IsMask(0) /\ ~IsReduced(0) /\ ~IsMask(1) /\ IsReduced(1)
  /\ IsMask(4) /\ ~IsReduced(4) /\ IsMask(5) /\ IsReduced(5)
BY DEF IsMask, IsReduced

\* What a directory does to the counters c, type by type.
Counts(type, c, e) ==
    /\ type = 0 => /\ e.segment = c.segment + 1 /\ e.parent = c.segment
                    /\ e.seen = TRUE /\ e.overview = 1 /\ e.mask = 1
    /\ type # 0 => e.parent = c.parent /\ e.seen = c.seen
    /\ e.segment >= c.segment
    /\ type # 0 /\ c.seen => e.segment = c.segment
    /\ type = 1 => e.overview = c.overview + 1
    /\ type \in {4, 5} => e.overview = c.overview
    /\ type \in {1, 4} => e.mask = c.mask
    /\ type = 5 /\ c.seen => e.mask = c.mask + 1
    /\ type = 5 /\ ~c.seen => e.mask = c.mask

LEMMA CountOne ==
  ASSUME NEW type \in {0, 1, 4, 5}, NEW c \in Counters,
         NEW single \in BOOLEAN, ~single
  PROVE  Counts(type, c, Count(type, single, c))
<1> SUFFICES ASSUME NEW e, e = Count(type, single, c)
             PROVE  Counts(type, c, e)
  OBVIOUS
<1>1. /\ c.segment \in Nat /\ c.parent \in Nat /\ c.overview \in Nat \ {0}
      /\ c.mask \in Nat \ {0} /\ c.seen \in BOOLEAN
      /\ DOMAIN c = {"segment", "parent", "overview", "mask", "seen"}
  BY DEF Counters
<1>2. CASE type = 0
  <2>1. e = [segment |-> c.segment + 1, parent |-> c.segment, seen |-> TRUE,
             overview |-> 1, mask |-> 1]
    BY <1>2, TypeBits DEF Count
  <2>2. /\ e.segment = c.segment + 1 /\ e.parent = c.segment /\ e.seen = TRUE
        /\ e.overview = 1 /\ e.mask = 1
    BY <2>1
  <2>3. QED
    BY <1>1, <1>2, <2>2 DEF Counts
<1>3. CASE type = 1
  <2>1. e = [c EXCEPT !.overview = c.overview + 1]
    BY <1>3, TypeBits DEF Count
  <2>2. /\ e.segment = c.segment /\ e.parent = c.parent /\ e.seen = c.seen
        /\ e.overview = c.overview + 1 /\ e.mask = c.mask
    BY <1>1, <2>1
  <2>3. QED
    BY <1>1, <1>3, <2>2 DEF Counts
<1>4. CASE type \in {4, 5} /\ c.seen = FALSE
  <2>1. e = [c EXCEPT !.segment = c.segment + 1]
    BY <1>4, TypeBits DEF Count
  <2>2. /\ e.parent = c.parent /\ e.seen = c.seen /\ e.segment = c.segment + 1
        /\ e.overview = c.overview /\ e.mask = c.mask
    BY <1>1, <2>1
  <2>3. QED
    BY <1>1, <1>4, <2>2 DEF Counts
<1>5. CASE type = 4 /\ c.seen = TRUE
  <2>1. e = [c EXCEPT !.mask = c.mask + (4 % 2)] /\ 4 % 2 = 0
    BY <1>5, TypeBits DEF Count
  <2>2. /\ e.segment = c.segment /\ e.parent = c.parent /\ e.seen = c.seen
        /\ e.overview = c.overview /\ e.mask = c.mask
    BY <1>1, <2>1
  <2>3. QED
    BY <1>1, <1>5, <2>2 DEF Counts
<1>6. CASE type = 5 /\ c.seen = TRUE
  <2>1. e = [c EXCEPT !.mask = c.mask + (5 % 2)] /\ 5 % 2 = 1
    BY <1>6, TypeBits DEF Count
  <2>2. /\ e.segment = c.segment /\ e.parent = c.parent /\ e.seen = c.seen
        /\ e.overview = c.overview /\ e.mask = c.mask + 1
    BY <1>1, <2>1
  <2>3. QED
    BY <1>1, <1>6, <2>2 DEF Counts
<1>7. QED
  BY <1>1, <1>2, <1>3, <1>4, <1>5, <1>6

\* The key and the roles of a directory, type by type.
IsPage(type, c, page) ==
    /\ type = 0 => page.key = Key(c.segment, 0, FALSE)
    /\ type = 1 => page.key = Key(c.parent, c.overview, FALSE)
    /\ type \in {4, 5} /\ ~c.seen => page.key = Key(c.segment, 0, TRUE)
    /\ type = 4 /\ c.seen => page.key = Key(c.parent, 0, TRUE)
    /\ type = 5 /\ c.seen => page.key = Key(c.parent, c.mask, TRUE)
    /\ page.roles = IF type = 0 THEN {"data"}
                    ELSE (IF type \in {1, 5} THEN {"overview"} ELSE {})
                           \cup (IF type \in {4, 5} THEN {"mask"} ELSE {})

LEMMA PageOne ==
  ASSUME NEW type \in {0, 1, 4, 5}, NEW c \in Counters,
         NEW single \in BOOLEAN, ~single, NEW page,
         page.key = PageKey(type, single, c), page.roles = PageRoles(type, single)
  PROVE  IsPage(type, c, page)
<1>1. type = 0 => page.key = Key(c.segment, 0, FALSE)
  BY TypeBits DEF PageKey
<1>2. type = 1 => page.key = Key(c.parent, c.overview, FALSE)
  BY TypeBits DEF PageKey
<1>3. type \in {4, 5} /\ ~c.seen => page.key = Key(c.segment, 0, TRUE)
  BY TypeBits DEF PageKey
<1>4. type = 4 /\ c.seen => page.key = Key(c.parent, 0, TRUE)
  BY TypeBits DEF PageKey
<1>5. type = 5 /\ c.seen => page.key = Key(c.parent, c.mask, TRUE)
  BY TypeBits DEF PageKey
<1>6. page.roles = IF type = 0 THEN {"data"}
                  ELSE (IF type \in {1, 5} THEN {"overview"} ELSE {})
                         \cup (IF type \in {4, 5} THEN {"mask"} ELSE {})
  BY TypeBits DEF PageRoles
<1>7. QED
  BY <1>1, <1>2, <1>3, <1>4, <1>5, <1>6 DEF IsPage

\* What one directory does to the counters.
LEMMA CountStep ==
  ASSUME NEW types, NEW c, Counted(types, c), NEW n \in DOMAIN types
  PROVE  /\ c[n - 1] \in Counters /\ c[n] \in Counters
         /\ n \in 1 .. Len(types) /\ n - 1 \in 0 .. Len(types) /\ types[n] \in {0, 1, 4, 5}
         /\ Counts(types[n], c[n - 1], c[n])
<1>1. /\ IsCount(types, c) /\ Len(types) # 1
      /\ DOMAIN types = 1 .. Len(types) /\ Len(types) \in Nat /\ types[n] \in {0, 1, 4, 5}
  BY DEF Counted, Kinds, Types
<1>2. n \in 1 .. Len(types) /\ n \in 0 .. Len(types) /\ n - 1 \in 0 .. Len(types)
  BY <1>1
<1>3. PICK single : single = (Len(types) = 1)
  OBVIOUS
<1>4. single \in BOOLEAN /\ ~single
  BY <1>1, <1>3
<1>5. c \in [0 .. Len(types) -> Counters] /\ c[n] = Count(types[n], single, c[n - 1])
  BY <1>1, <1>2, <1>3 DEF IsCount
<1>6. c[n - 1] \in Counters /\ c[n] \in Counters
  BY <1>2, <1>5
<1>7. Counts(types[n], c[n - 1], Count(types[n], single, c[n - 1]))
  BY <1>1, <1>4, <1>6, CountOne
<1>8. QED
  BY <1>1, <1>2, <1>5, <1>6, <1>7

LEMMA AllCounters ==
  ASSUME NEW types, NEW c, Counted(types, c)
  PROVE  /\ Len(types) \in Nat /\ DOMAIN types = 1 .. Len(types)
         /\ \A n \in DOMAIN types : types[n] \in {0, 1, 4, 5}
         /\ \A n \in 0 .. Len(types) :
              /\ c[n] \in Counters /\ c[n].segment \in Nat /\ c[n].parent \in Nat
              /\ c[n].overview \in Nat \ {0} /\ c[n].mask \in Nat \ {0} /\ c[n].seen \in BOOLEAN
         /\ c[0] = FirstCounters
<1>1. c \in [0 .. Len(types) -> Counters] /\ c[0] = FirstCounters
  BY DEF Counted, IsCount
<1>2. \A x \in Counters : /\ x.segment \in Nat /\ x.parent \in Nat
                          /\ x.overview \in Nat \ {0} /\ x.mask \in Nat \ {0} /\ x.seen \in BOOLEAN
  BY DEF Counters
<1>3. QED
  BY <1>1, <1>2 DEF Counted, Kinds, Types

\* While no image comes, the counters of overviews and masks do not fall, and
\* what the pages belong to stays.
LEMMA CountersKeep ==
  ASSUME NEW types, NEW c, Counted(types, c), NEW m \in 0 .. Len(types), NEW n \in 0 .. Len(types),
         m <= n, NoImage(types, m, n)
  PROVE  /\ c[m] \in Counters /\ c[n] \in Counters
         /\ c[n].overview >= c[m].overview /\ c[n].mask >= c[m].mask
         /\ c[n].parent = c[m].parent /\ c[n].seen = c[m].seen
<1> DEFINE S == {j \in 0 .. n - m :
                   /\ c[m + j] \in Counters
                   /\ c[m + j].overview >= c[m].overview /\ c[m + j].mask >= c[m].mask
                   /\ c[m + j].parent = c[m].parent /\ c[m + j].seen = c[m].seen}
<1>1. /\ Len(types) \in Nat /\ DOMAIN types = 1 .. Len(types)
      /\ \A k \in 0 .. Len(types) : c[k] \in Counters
      /\ n - m \in Nat
  BY AllCounters
<1>2. 0 \in S
  <2>1. c[m] \in Counters /\ m + 0 = m
    BY <1>1
  <2>2. c[m].overview \in Nat /\ c[m].mask \in Nat
    BY <2>1 DEF Counters
  <2>3. QED
    BY <1>1, <2>1, <2>2
<1>3. ASSUME NEW j \in 0 .. n - m - 1, j \in S
      PROVE  j + 1 \in S
  <2> DEFINE k == m + j + 1
  <2>1. k \in DOMAIN types /\ k \in m + 1 .. n /\ k - 1 = m + j /\ m + (j + 1) = k
        /\ j + 1 \in 0 .. n - m
    BY <1>1
  <2> HIDE DEF k
  <2>2. /\ c[k - 1] \in Counters /\ c[k] \in Counters /\ types[k] \in {0, 1, 4, 5}
    BY <2>1, CountStep
  <2>3. types[k] # 0
    BY <2>1 DEF NoImage
  <2>4. /\ c[k].parent = c[k - 1].parent /\ c[k].seen = c[k - 1].seen
        /\ c[k].overview \in {c[k - 1].overview, c[k - 1].overview + 1}
        /\ c[k].mask \in {c[k - 1].mask, c[k - 1].mask + 1}
    <3>1. c[k - 1].overview \in Nat /\ c[k - 1].mask \in Nat /\ c[k - 1].seen \in BOOLEAN
      BY <2>2 DEF Counters
    <3>2. Counts(types[k], c[k - 1], c[k])
      BY <2>1, CountStep
    <3>3. QED
      BY <2>2, <2>3, <3>1, <3>2 DEF Counts
  <2>5. /\ c[m].overview \in Nat /\ c[m].mask \in Nat
        /\ c[k - 1].overview \in Nat /\ c[k - 1].mask \in Nat
    BY <1>1, <2>2 DEF Counters
  <2>6. /\ c[k - 1].overview >= c[m].overview /\ c[k - 1].mask >= c[m].mask
        /\ c[k - 1].parent = c[m].parent /\ c[k - 1].seen = c[m].seen
    BY <1>3, <2>1
  <2>7. /\ c[k].overview >= c[m].overview /\ c[k].mask >= c[m].mask
        /\ c[k].parent = c[m].parent /\ c[k].seen = c[m].seen
    <3>1. \A x, y, z \in Nat : x >= z /\ y \in {x, x + 1} => y >= z
      OBVIOUS
    <3>2. c[k].overview \in Nat /\ c[k].mask \in Nat
      BY <2>2 DEF Counters
    <3>3. c[k].overview >= c[m].overview /\ c[k].mask >= c[m].mask
      BY <2>4, <2>5, <2>6, <3>1, <3>2
    <3>4. QED
      BY <2>4, <2>6, <3>3
  <2>8. QED
    BY <2>1, <2>2, <2>7
<1>4. n - m \in S
  <2> HIDE DEF S
  <2> DEFINE d == n - m
  <2>1. d \in Nat /\ \A j \in 0 .. d - 1 : j \in S => j + 1 \in S
    BY <1>1, <1>3
  <2> HIDE DEF d
  <2>2. \A j \in 0 .. d : j \in S
    BY <1>2, <2>1, SetInduction
  <2>3. QED
    BY <2>1, <2>2 DEF d
<1>5. m + (n - m) = n
  OBVIOUS
<1>6. QED
  BY <1>1, <1>4, <1>5

LEMMA PagesOfTypes ==
  ASSUME NEW types, Kinds(types), Len(types) # 1
  PROVE  \E c : /\ Counted(types, c)
                /\ \A n \in DOMAIN types : IsPage(types[n], c[n - 1], Classify(types)[n])
<1>1. PICK c : /\ IsCount(types, c)
               /\ Classify(types) =
                    [n \in DOMAIN types |->
                       [key |-> PageKey(types[n], Len(types) = 1, c[n - 1]),
                        roles |-> PageRoles(types[n], Len(types) = 1)]]
  BY CountersExist DEF Kinds
<1>2. Counted(types, c)
  BY <1>1 DEF Counted
<1>3. ASSUME NEW n \in DOMAIN types
      PROVE  IsPage(types[n], c[n - 1], Classify(types)[n])
  <2>1. c[n - 1] \in Counters /\ types[n] \in {0, 1, 4, 5}
    BY <1>2, CountStep
  <2>2. PICK single : single = (Len(types) = 1)
    OBVIOUS
  <2>3. single \in BOOLEAN /\ ~single
    BY <2>2
  <2>4. /\ Classify(types)[n].key = PageKey(types[n], single, c[n - 1])
        /\ Classify(types)[n].roles = PageRoles(types[n], single)
    BY <1>1, <2>2
  <2>5. QED
    BY <2>1, <2>3, <2>4, PageOne
<1>4. QED
  BY <1>2, <1>3

LEMMA PageFields ==
  ASSUME NEW type \in {0, 1, 4, 5}, NEW c \in Counters, NEW page, IsPage(type, c, page)
  PROVE  /\ page.key.overview = IF type = 1 THEN c.overview
                                ELSE IF type = 5 /\ c.seen THEN c.mask ELSE 0
         /\ page.key.image = IF type = 0 \/ (type \in {4, 5} /\ ~c.seen)
                             THEN c.segment ELSE c.parent
         /\ page.key.mask = (type \in {4, 5})
<1>1. CASE type = 0
  <2>1. page.key = [image |-> c.segment, overview |-> 0, mask |-> FALSE]
    BY <1>1 DEF IsPage, Key
  <2>2. page.key.image = c.segment /\ page.key.overview = 0
    BY <2>1
  <2>3. page.key.mask = FALSE
    BY <2>1
  <2>4. (type \in {4, 5}) = FALSE
    BY <1>1
  <2>5. page.key.mask = (type \in {4, 5})
    BY <2>3, <2>4, Zenon
  <2>6. page.key.overview = IF type = 1 THEN c.overview
                           ELSE IF type = 5 /\ c.seen THEN c.mask ELSE 0
    BY <1>1, <2>2
  <2>7. page.key.image = IF type = 0 \/ (type \in {4, 5} /\ ~c.seen)
                        THEN c.segment ELSE c.parent
    BY <1>1, <2>2
  <2>8. QED
    BY <2>5, <2>6, <2>7, Zenon
<1>2. CASE type = 1
  <2>1. page.key = [image |-> c.parent, overview |-> c.overview, mask |-> FALSE]
    BY <1>2 DEF IsPage, Key
  <2>2. page.key.image = c.parent /\ page.key.overview = c.overview
    BY <2>1
  <2>3. page.key.mask = FALSE
    BY <2>1
  <2>4. (type \in {4, 5}) = FALSE
    BY <1>2
  <2>5. page.key.mask = (type \in {4, 5})
    BY <2>3, <2>4, Zenon
  <2>6. page.key.overview = IF type = 1 THEN c.overview
                           ELSE IF type = 5 /\ c.seen THEN c.mask ELSE 0
    BY <1>2, <2>2
  <2>7. page.key.image = IF type = 0 \/ (type \in {4, 5} /\ ~c.seen)
                        THEN c.segment ELSE c.parent
    BY <1>2, <2>2
  <2>8. QED
    BY <2>5, <2>6, <2>7, Zenon
<1>3. CASE type \in {4, 5} /\ ~c.seen
  <2>1. page.key = [image |-> c.segment, overview |-> 0, mask |-> TRUE]
    BY <1>3 DEF IsPage, Key
  <2>2. page.key.image = c.segment /\ page.key.overview = 0
    BY <2>1
  <2>3. page.key.mask = TRUE
    BY <2>1
  <2>4. (type \in {4, 5}) = TRUE
    BY <1>3
  <2>5. page.key.mask = (type \in {4, 5})
    BY <2>3, <2>4, Zenon
  <2>6. page.key.overview = IF type = 1 THEN c.overview
                           ELSE IF type = 5 /\ c.seen THEN c.mask ELSE 0
    BY <1>3, <2>2
  <2>7. page.key.image = IF type = 0 \/ (type \in {4, 5} /\ ~c.seen)
                        THEN c.segment ELSE c.parent
    BY <1>3, <2>2
  <2>8. QED
    BY <2>5, <2>6, <2>7, Zenon
<1>4. CASE type = 4 /\ c.seen
  <2>1. page.key = [image |-> c.parent, overview |-> 0, mask |-> TRUE]
    BY <1>4 DEF IsPage, Key
  <2>2. page.key.image = c.parent /\ page.key.overview = 0
    BY <2>1
  <2>3. page.key.mask = TRUE
    BY <2>1
  <2>4. (type \in {4, 5}) = TRUE
    BY <1>4
  <2>5. page.key.mask = (type \in {4, 5})
    BY <2>3, <2>4, Zenon
  <2>6. page.key.overview = IF type = 1 THEN c.overview
                           ELSE IF type = 5 /\ c.seen THEN c.mask ELSE 0
    BY <1>4, <2>2
  <2>7. page.key.image = IF type = 0 \/ (type \in {4, 5} /\ ~c.seen)
                        THEN c.segment ELSE c.parent
    BY <1>4, <2>2
  <2>8. QED
    BY <2>5, <2>6, <2>7, Zenon
<1>5. CASE type = 5 /\ c.seen
  <2>1. page.key = [image |-> c.parent, overview |-> c.mask, mask |-> TRUE]
    BY <1>5 DEF IsPage, Key
  <2>2. page.key.image = c.parent /\ page.key.overview = c.mask
    BY <2>1
  <2>3. page.key.mask = TRUE
    BY <2>1
  <2>4. (type \in {4, 5}) = TRUE
    BY <1>5
  <2>5. page.key.mask = (type \in {4, 5})
    BY <2>3, <2>4, Zenon
  <2>6. page.key.overview = IF type = 1 THEN c.overview
                           ELSE IF type = 5 /\ c.seen THEN c.mask ELSE 0
    BY <1>5, <2>2
  <2>7. page.key.image = IF type = 0 \/ (type \in {4, 5} /\ ~c.seen)
                        THEN c.segment ELSE c.parent
    BY <1>5, <2>2
  <2>8. QED
    BY <2>5, <2>6, <2>7, Zenon
<1>6. QED
  BY <1>1, <1>2, <1>3, <1>4, <1>5, Zenon

\* q as the directories f.
Directories(q, f) == f = [i \in DOMAIN q |-> WrittenDirectory(q[i])]

LEMMA TypesWritten ==
  ASSUME NEW q, Queue(q), NEW f, Directories(q, f)
  PROVE  /\ DirectoryTypes(f) = QueueTypes(q) /\ DOMAIN f = DOMAIN q /\ Len(f) = Len(q)
         /\ \A n \in DOMAIN q : /\ f[n].type = Type(q[n]) /\ f[n].of = q[n].of
                                /\ f[n].rows = q[n].rows /\ f[n].cols = q[n].cols
<1>1. DOMAIN f = DOMAIN q /\ \A n \in DOMAIN q : f[n] = WrittenDirectory(q[n])
  BY DEF Directories
<1>2. \A n \in DOMAIN q : /\ f[n].type = Type(q[n]) /\ f[n].of = q[n].of
                          /\ f[n].rows = q[n].rows /\ f[n].cols = q[n].cols
  BY <1>1 DEF WrittenDirectory, Type
<1>3. DirectoryTypes(f) = QueueTypes(q)
  BY <1>1, <1>2 DEF DirectoryTypes, QueueTypes
<1>4. Len(f) = Len(q)
  <2> DEFINE N == Len(q)
             F(n) == WrittenDirectory(q[n])
  <2>1. N \in Nat /\ f = [n \in 1 .. N |-> F(n)]
    BY DEF Queue, Directories
  <2> HIDE DEF N, F
  <2>2. Len(f) = N
    BY <2>1
  <2>3. QED
    BY <2>2 DEF N
<1>5. QED
  BY <1>1, <1>2, <1>3, <1>4

\* What the reader makes of a sorted queue of other than one asset.
LEMMA PagesOfQueue ==
  ASSUME NEW q, Queue(q), NEW f, Directories(q, f), Len(q) # 1
  PROVE  \E c : /\ Counted(QueueTypes(q), c)
                /\ \A n \in DOMAIN q : IsPage(Type(q[n]), c[n - 1], Pages(f)[n])
<1>1. /\ Kinds(QueueTypes(q)) /\ Len(QueueTypes(q)) = Len(q)
      /\ \A n \in DOMAIN q : QueueTypes(q)[n] = Type(q[n])
  BY TypesOfQueue
<1>2. DOMAIN QueueTypes(q) = DOMAIN q
  BY DEF QueueTypes
<1>3. PICK c : /\ Counted(QueueTypes(q), c)
               /\ \A n \in DOMAIN QueueTypes(q) :
                    IsPage(QueueTypes(q)[n], c[n - 1], Classify(QueueTypes(q))[n])
  BY <1>1, PagesOfTypes
<1>4. Pages(f) = Classify(QueueTypes(q))
  BY TypesWritten DEF Pages
<1>5. QED
  BY <1>1, <1>2, <1>3, <1>4

\* In a sorted queue no other image starts between two assets of one image.
LEMMA NoImageWithin ==
  ASSUME NEW q, Queue(q), Sorted(q), NEW m \in DOMAIN q, NEW n \in DOMAIN q,
         m <= n, Image(q[m]) = Image(q[n])
  PROVE  /\ NoImage(QueueTypes(q), m, n)
         /\ Type(q[m]) # 0 => NoImage(QueueTypes(q), m - 1, n)
<1>1. DOMAIN q = 1 .. Len(q) /\ Len(q) \in Nat
      /\ \A k \in DOMAIN q : QueueTypes(q)[k] = Type(q[k])
  BY TypesOfQueue
<1>2. ASSUME NEW k \in m + 1 .. n
      PROVE  QueueTypes(q)[k] # 0
  <2>1. k \in DOMAIN q /\ m < k /\ k \in m .. n /\ m < n
    BY <1>1
  <2>2. Image(q[k]) = Image(q[m])
    BY <2>1 DEF Sorted
  <2>3. Type(q[k]) # 0
    BY <2>1, <2>2 DEF Sorted
  <2>4. QED
    BY <1>1, <2>1, <2>3
<1>3. ASSUME Type(q[m]) # 0, NEW k \in m - 1 + 1 .. n
      PROVE  QueueTypes(q)[k] # 0
  <2>1. k = m \/ k \in m + 1 .. n
    BY <1>1
  <2>2. QED
    BY <1>1, <1>2, <1>3, <2>1
<1>4. QED
  BY <1>2, <1>3 DEF NoImage

\* Overviews of one image come back numbered by falling area, for queues of
\* every length (sort_assets_for_cog against from_buffer).
THEOREM OverviewsComeBackFalling == Spec => []OverviewsFall
<1>1. ASSUME NEW q, Queue(q), Sorted(q), NEW f, Directories(q, f), NEW m \in DOMAIN q, NEW n \in DOMAIN q,
             NEW k, k = Pages(f)[m].key, NEW l, l = Pages(f)[n].key,
             q[m].key.image = q[n].key.image, k.image = l.image, k.mask = l.mask,
             0 < k.overview, k.overview < l.overview
      PROVE  Area(q[m]) >= Area(q[n])
  <2>1. /\ DOMAIN q = 1 .. Len(q) /\ Len(q) \in Nat /\ Image(q[m]) = Image(q[n])
        /\ Type(q[m]) \in {0, 1, 4, 5} /\ Type(q[n]) \in {0, 1, 4, 5}
        /\ QueueTypes(q)[m] = Type(q[m]) /\ QueueTypes(q)[n] = Type(q[n])
        /\ Len(QueueTypes(q)) = Len(q) /\ DOMAIN QueueTypes(q) = DOMAIN q
    BY <1>1, TypesOfQueue DEF Image, QueueTypes
  <2>2. CASE Len(q) = 1
    <3>1. m = 1 /\ n = 1
      <4>1. DOMAIN q = 1 .. 1
        BY <2>1, <2>2
      <4>2. QED
        BY <4>1
    <3>3. Area(q[m]) \in Nat
      BY <1>1, TypeValues DEF Queue
    <3>4. QED
      BY <3>1, <3>3
  <2>3. CASE Len(q) # 1
    <3>1. PICK c : /\ Counted(QueueTypes(q), c)
                   /\ \A i \in DOMAIN q : IsPage(Type(q[i]), c[i - 1], Pages(f)[i])
      BY <1>1, <2>3, PagesOfQueue
    <3>2. /\ m - 1 \in 0 .. Len(q) /\ n - 1 \in 0 .. Len(q)
          /\ c[m - 1] \in Counters /\ c[n - 1] \in Counters
      BY <2>1, <3>1, CountStep
    <3>3. /\ k.overview = IF Type(q[m]) = 1 THEN c[m - 1].overview
                          ELSE IF Type(q[m]) = 5 /\ c[m - 1].seen THEN c[m - 1].mask ELSE 0
          /\ k.mask = (Type(q[m]) \in {4, 5})
      <4>1. IsPage(Type(q[m]), c[m - 1], Pages(f)[m]) /\ Type(q[m]) \in {0, 1, 4, 5}
        BY <1>1, <2>1, <3>1
      <4>2. /\ Pages(f)[m].key.overview = IF Type(q[m]) = 1 THEN c[m - 1].overview
                ELSE IF Type(q[m]) = 5 /\ c[m - 1].seen THEN c[m - 1].mask ELSE 0
            /\ Pages(f)[m].key.mask = (Type(q[m]) \in {4, 5})
        BY <3>2, <4>1, PageFields
      <4>3. QED
        BY <1>1, <4>2
    <3>4. /\ l.overview = IF Type(q[n]) = 1 THEN c[n - 1].overview
                          ELSE IF Type(q[n]) = 5 /\ c[n - 1].seen THEN c[n - 1].mask ELSE 0
          /\ l.mask = (Type(q[n]) \in {4, 5})
      <4>1. IsPage(Type(q[n]), c[n - 1], Pages(f)[n]) /\ Type(q[n]) \in {0, 1, 4, 5}
        BY <1>1, <2>1, <3>1
      <4>2. /\ Pages(f)[n].key.overview = IF Type(q[n]) = 1 THEN c[n - 1].overview
                ELSE IF Type(q[n]) = 5 /\ c[n - 1].seen THEN c[n - 1].mask ELSE 0
            /\ Pages(f)[n].key.mask = (Type(q[n]) \in {4, 5})
        BY <3>2, <4>1, PageFields
      <4>3. QED
        BY <1>1, <4>2
    <3>5. /\ c[m - 1].overview \in Nat \ {0} /\ c[m - 1].mask \in Nat \ {0}
          /\ c[n - 1].overview \in Nat \ {0} /\ c[n - 1].mask \in Nat \ {0}
      BY <3>2 DEF Counters
    <3>6. Type(q[m]) = Type(q[n]) /\ Type(q[m]) \in {1, 5}
      <4>1. Type(q[m]) \in {1, 5}
        BY <1>1, <3>3
      <4>2. l.overview # 0
        BY <1>1, <3>3, <3>5, <3>4
      <4>3. Type(q[n]) \in {1, 5}
        BY <4>2, <3>4
      <4>4. (Type(q[m]) \in {4, 5}) <=> (Type(q[n]) \in {4, 5})
        BY <1>1, <3>3, <3>4
      <4>5. QED
        BY <4>1, <4>3, <4>4
    <3>7. ~(n <= m)
      <4> SUFFICES ASSUME n <= m
                   PROVE  FALSE
        OBVIOUS
      <4>1. NoImage(QueueTypes(q), n - 1, m)
        BY <1>1, <2>1, <3>6, NoImageWithin
      <4>2. NoImage(QueueTypes(q), n - 1, m - 1)
        BY <2>1, <4>1 DEF NoImage
      <4>3. n - 1 <= m - 1
        BY <2>1
      <4>4. /\ c[m - 1].overview >= c[n - 1].overview /\ c[m - 1].mask >= c[n - 1].mask
            /\ c[m - 1].seen = c[n - 1].seen
        BY <2>1, <3>1, <3>2, <4>2, <4>3, CountersKeep
      <4>5. CASE Type(q[m]) = 1
        BY <1>1, <3>3, <3>4, <3>5, <3>6, <4>4, <4>5
      <4>6. CASE Type(q[m]) = 5
        <5>1. k.overview = IF c[m - 1].seen THEN c[m - 1].mask ELSE 0
          BY <3>3, <4>6
        <5>2. l.overview = IF c[m - 1].seen THEN c[n - 1].mask ELSE 0
          BY <3>4, <3>6, <4>4, <4>6
        <5>3. QED
          BY <1>1, <3>5, <4>4, <5>1, <5>2
      <4>7. QED
        BY <3>6, <4>5, <4>6
    <3>8. m < n
      BY <2>1, <3>7
    <3>9. QED
      BY <1>1, <2>1, <3>6, <3>8 DEF Sorted
  <2>4. QED
    BY <2>2, <2>3
<1>2. WriterInv => OverviewsFall
  <2> SUFFICES ASSUME WriterInv, closed,
                      NEW m \in DOMAIN written, NEW n \in DOMAIN written,
                      queue[m].key.image = queue[n].key.image,
                      Pages(written)[m].key.image = Pages(written)[n].key.image,
                      Pages(written)[m].key.mask = Pages(written)[n].key.mask,
                      0 < Pages(written)[m].key.overview,
                      Pages(written)[m].key.overview < Pages(written)[n].key.overview
               PROVE  written[m].rows * written[m].cols >= written[n].rows * written[n].cols
    BY DEF OverviewsFall, PagesWritten
  <2>1. Queue(queue) /\ Sorted(queue) /\ Directories(queue, written)
    BY DEF WriterInv, Directories
  <2>2. DOMAIN written = DOMAIN queue
        /\ \A i \in DOMAIN queue : written[i].rows = queue[i].rows /\ written[i].cols = queue[i].cols
    BY <2>1, TypesWritten
  <2>3. Area(queue[m]) >= Area(queue[n])
    BY <1>1, <2>1, <2>2
  <2>4. QED
    BY <2>2, <2>3 DEF Area
<1>3. QED
  BY <1>2, WriterInvariant, PTL

LEMMA SegmentsRise ==
  ASSUME NEW types, NEW c, Counted(types, c)
  PROVE  /\ \A m, n \in 0 .. Len(types) : m <= n => c[m].segment <= c[n].segment
         /\ \A n \in 0 .. Len(types) : c[n].seen => c[n].parent < c[n].segment
<1> DEFINE N == Len(types)
<1>1. /\ N \in Nat /\ DOMAIN types = 1 .. N
      /\ \A n \in 0 .. N : c[n] \in Counters /\ c[n].segment \in Nat /\ c[n].parent \in Nat
      /\ c[0] = FirstCounters
  BY AllCounters
<1>2. \A n \in 0 .. N - 1 : /\ n + 1 \in 0 .. N
                            /\ c[n + 1].segment >= c[n].segment
                            /\ (c[n].seen => c[n].parent < c[n].segment)
                                 => (c[n + 1].seen => c[n + 1].parent < c[n + 1].segment)
  <2> TAKE n \in 0 .. N - 1
  <2>1. n \in 0 .. N /\ n + 1 \in 0 .. N /\ n + 1 \in DOMAIN types /\ (n + 1) - 1 = n
    BY <1>1
  <2>2. Counts(types[n + 1], c[n], c[n + 1]) /\ types[n + 1] \in {0, 1, 4, 5}
    BY <2>1, CountStep
  <2>3. /\ c[n + 1].segment \in Nat /\ c[n].segment \in Nat
        /\ c[n + 1].parent \in Nat /\ c[n].parent \in Nat
    BY <1>1, <2>1
  <2>4. c[n + 1].segment >= c[n].segment
    BY <2>2 DEF Counts
  <2>5. CASE types[n + 1] = 0
    BY <2>1, <2>2, <2>3, <2>4, <2>5 DEF Counts
  <2>6. CASE types[n + 1] # 0
    <3>1. c[n + 1].parent = c[n].parent /\ c[n + 1].seen = c[n].seen
      BY <2>2, <2>6 DEF Counts
    <3>2. QED
      BY <2>1, <2>3, <2>4, <3>1
  <2>7. QED
    BY <2>5, <2>6
<1> HIDE DEF N
<1>3. \A n \in 0 .. N : c[n].seen => c[n].parent < c[n].segment
  <2> DEFINE S == {n \in 0 .. N : c[n].seen => c[n].parent < c[n].segment}
  <2>1. 0 \in S
    BY <1>1 DEF FirstCounters
  <2>2. \A n \in 0 .. N - 1 : n \in S => n + 1 \in S
    BY <1>2
  <2> HIDE DEF S
  <2>3. \A n \in 0 .. N : n \in S
    BY <1>1, <2>1, <2>2, SetInduction
  <2>4. QED
    BY <2>3 DEF S
<1>4. ASSUME NEW m \in 0 .. N
      PROVE  \A n \in 0 .. N : m <= n => c[m].segment <= c[n].segment
  <2> DEFINE S == {n \in 0 .. N : m <= n => c[m].segment <= c[n].segment}
  <2>1. 0 \in S
    BY <1>1
  <2>2. ASSUME NEW n \in 0 .. N - 1, n \in S
        PROVE  n + 1 \in S
    <3>1. CASE m = n + 1
      BY <1>1, <1>2, <3>1
    <3>2. CASE m # n + 1
      <4>1. m <= n + 1 => m <= n
        BY <1>1, <3>2
      <4>2. n \in 0 .. N /\ n + 1 \in 0 .. N /\ c[n + 1].segment >= c[n].segment
        BY <1>1, <1>2
      <4>3. c[m].segment \in Nat /\ c[n].segment \in Nat /\ c[n + 1].segment \in Nat
        BY <1>1, <4>2
      <4>4. QED
        BY <2>2, <4>1, <4>2, <4>3
    <3>3. QED
      BY <3>1, <3>2
  <2> HIDE DEF S
  <2>3. \A n \in 0 .. N : n \in S
    BY <1>1, <2>1, <2>2, SetInduction
  <2>4. QED
    BY <2>3 DEF S
<1>5. QED
  BY <1>3, <1>4 DEF N

-----------------------------------------------------------------------------
(* The families *)

\* A well-formed queue that was sorted and written, and what from_buffer has
\* counted after each of its directories.
Reopened(q, f, c) ==
    /\ Queue(q) /\ Sorted(q) /\ WellFormed(q) /\ Directories(q, f)
    /\ Counted(QueueTypes(q), c)
    /\ \A n \in DOMAIN q : IsPage(Type(q[n]), c[n - 1], Pages(f)[n])

\* The roles of a well-formed asset say what its key says.
LEMMA TypeIsKey ==
  ASSUME NEW q, Queue(q), WellFormed(q), NEW i \in DOMAIN q
  PROVE  /\ Type(q[i]) \in {1, 5} <=> q[i].key.overview > 0
         /\ (Type(q[i]) \in {4, 5}) = q[i].key.mask
         /\ Type(q[i]) # 0 => q[i].roles = KeyRoles(q[i].key)
<1>1. /\ q[i].key \in [image : Nat, overview : Nat, mask : BOOLEAN]
      /\ IF KeyRoles(q[i].key) = {}
           THEN q[i].roles \cap {"overview", "mask"} = {}
           ELSE q[i].roles = KeyRoles(q[i].key)
  BY DEF WellFormed, Queue, IsAsset
<1> DEFINE roles == q[i].roles
           over == q[i].key.overview > 0
           mask == q[i].key.mask
<1>2. over \in BOOLEAN /\ mask \in BOOLEAN
  BY <1>1
<1>3. ("overview" \in roles <=> over) /\ ("mask" \in roles <=> mask)
  <2>1. CASE KeyRoles(q[i].key) = {}
    <3>1. ~over /\ ~mask
      BY <2>1 DEF KeyRoles
    <3>2. "overview" \notin roles /\ "mask" \notin roles
      BY <1>1, <2>1
    <3>3. QED
      BY <3>1, <3>2
  <2>2. CASE KeyRoles(q[i].key) # {}
    <3>1. roles = KeyRoles(q[i].key)
      BY <1>1, <2>2
    <3>2. QED
      BY <3>1 DEF KeyRoles
  <2>3. QED
    BY <2>1, <2>2
<1>4. Type(q[i]) = (IF over THEN 1 ELSE 0) + (IF mask THEN 4 ELSE 0)
  BY <1>3 DEF Type, SubfileType
<1>5. KeyRoles(q[i].key) = {} => ~over /\ ~mask
  BY DEF KeyRoles
<1> HIDE DEF over, mask
<1>6. (Type(q[i]) \in {1, 5} <=> over) /\ (Type(q[i]) \in {4, 5} <=> mask)
  BY <1>2, <1>4
<1>7. (Type(q[i]) \in {4, 5}) = mask
  <2>1. CASE mask = TRUE
    <3>1. (Type(q[i]) \in {4, 5}) = TRUE
      BY <1>6, <2>1
    <3>2. QED
      BY <2>1, <3>1, Zenon
  <2>2. CASE mask = FALSE
    <3>1. (Type(q[i]) \in {4, 5}) = FALSE
      BY <1>6, <2>2
    <3>2. QED
      BY <2>2, <3>1, Zenon
  <2>3. QED
    BY <1>2, <2>1, <2>2
<1>8. Type(q[i]) # 0 => q[i].roles = KeyRoles(q[i].key)
  BY <1>1, <1>2, <1>4, <1>5
<1>9. QED
  BY <1>6, <1>7, <1>8, Zenon DEF over, mask

\* Every asset has its full-resolution image before it or is that image.
LEMMA HeadOf ==
  ASSUME NEW q, Queue(q), Sorted(q), WellFormed(q), NEW i \in DOMAIN q
  PROVE  \E h \in DOMAIN q : /\ h <= i /\ Type(q[h]) = 0 /\ Image(q[h]) = Image(q[i])
                             /\ NoImage(QueueTypes(q), h, i)
<1>1. PICK h \in DOMAIN q : q[h].key = ParentKey(q[i].key)
  BY DEF WellFormed
<1>2. q[h].key.overview = 0 /\ q[h].key.image = q[i].key.image
  BY <1>1 DEF ParentKey, Key
<1>3. q[h].key.mask = FALSE
  BY <1>1 DEF ParentKey, Key
<1>4. Type(q[h]) \in {0, 1, 4, 5} /\ h \in Nat /\ i \in Nat
  BY TypesOfQueue
<1>5. Type(q[h]) = 0
  <2>1. ~(Type(q[h]) \in {1, 5})
    BY <1>2, TypeIsKey
  <2>2. ~(Type(q[h]) \in {4, 5})
    BY <1>3, TypeIsKey
  <2>3. QED
    BY <1>4, <2>1, <2>2
<1>6. Image(q[h]) = Image(q[i])
  BY <1>2 DEF Image
<1>7. ~(i < h)
  BY <1>5, <1>6 DEF Sorted
<1>8. h <= i
  BY <1>4, <1>7
<1>9. NoImage(QueueTypes(q), h, i)
  BY <1>6, <1>8, NoImageWithin
<1>10. QED
  BY <1>5, <1>6, <1>8, <1>9

\* After every directory an image was seen; the number of a page's image is the
\* number of the image seen last.
LEMMA ImageOfPage ==
  ASSUME NEW q, NEW f, NEW c, Reopened(q, f, c), NEW n \in DOMAIN q
  PROVE  /\ n \in 0 .. Len(q) /\ n - 1 \in 0 .. Len(q)
         /\ c[n] \in Counters /\ c[n - 1] \in Counters /\ Type(q[n]) \in {0, 1, 4, 5}
         /\ Counts(Type(q[n]), c[n - 1], c[n])
         /\ c[n].seen /\ (Type(q[n]) # 0 => c[n - 1].seen)
         /\ Pages(f)[n].key.image = c[n].parent
<1>1. /\ Queue(q) /\ Sorted(q) /\ WellFormed(q) /\ Counted(QueueTypes(q), c)
      /\ IsPage(Type(q[n]), c[n - 1], Pages(f)[n])
  BY DEF Reopened
<1>2. /\ Len(QueueTypes(q)) = Len(q) /\ DOMAIN q = 1 .. Len(q) /\ Len(q) \in Nat
      /\ DOMAIN QueueTypes(q) = DOMAIN q
      /\ \A k \in DOMAIN q : QueueTypes(q)[k] = Type(q[k]) /\ Type(q[k]) \in {0, 1, 4, 5}
  BY <1>1, TypesOfQueue DEF QueueTypes
<1>3. \A k \in DOMAIN q : /\ k \in 0 .. Len(q) /\ k - 1 \in 0 .. Len(q)
                          /\ c[k - 1] \in Counters /\ c[k] \in Counters
                          /\ Counts(Type(q[k]), c[k - 1], c[k])
  <2> TAKE k \in DOMAIN q
  <2>1. /\ c[k - 1] \in Counters /\ c[k] \in Counters
        /\ Counts(QueueTypes(q)[k], c[k - 1], c[k])
    BY <1>1, <1>2, CountStep
  <2>2. k \in 0 .. Len(q) /\ k - 1 \in 0 .. Len(q)
    BY <1>2
  <2>3. QED
    BY <1>2, <2>1, <2>2
<1>4. PICK h \in DOMAIN q : /\ h <= n /\ Type(q[h]) = 0 /\ NoImage(QueueTypes(q), h, n)
  BY <1>1, HeadOf
<1>5. c[h].seen
  BY <1>3, <1>4 DEF Counts
<1>6. c[n].seen
  <2>1. c[n].seen = c[h].seen
    BY <1>1, <1>2, <1>3, <1>4, CountersKeep
  <2>2. QED
    BY <1>5, <2>1
<1>7. Type(q[n]) # 0 => c[n - 1].seen
  BY <1>3, <1>6 DEF Counts
<1>8. Pages(f)[n].key.image = IF Type(q[n]) = 0 \/ (Type(q[n]) \in {4, 5} /\ ~c[n - 1].seen)
                              THEN c[n - 1].segment ELSE c[n - 1].parent
  BY <1>1, <1>2, <1>3, PageFields
<1>9. Pages(f)[n].key.image = c[n].parent
  <2>1. CASE Type(q[n]) = 0
    BY <1>3, <1>8, <2>1 DEF Counts
  <2>2. CASE Type(q[n]) # 0
    BY <1>3, <1>7, <1>8, <2>2 DEF Counts
  <2>3. QED
    BY <2>1, <2>2
<1>10. QED
  BY <1>2, <1>3, <1>6, <1>7, <1>9

\* The reader gives two pages one image number exactly when they had one.
LEMMA SameImage ==
  ASSUME NEW q, NEW f, NEW c, Reopened(q, f, c), NEW m \in DOMAIN q, NEW n \in DOMAIN q
  PROVE  Pages(f)[m].key.image = Pages(f)[n].key.image <=> Image(q[m]) = Image(q[n])
<1>1. Queue(q) /\ Sorted(q) /\ WellFormed(q) /\ Counted(QueueTypes(q), c)
  BY DEF Reopened
<1>2. /\ Len(QueueTypes(q)) = Len(q) /\ DOMAIN q = 1 .. Len(q) /\ Len(q) \in Nat
  BY <1>1, TypesOfQueue
<1>3. ASSUME NEW i \in DOMAIN q, NEW j \in DOMAIN q, i <= j
      PROVE  c[i].parent = c[j].parent <=> Image(q[i]) = Image(q[j])
  <2>0. i \in 0 .. Len(q) /\ j \in 0 .. Len(q)
    BY <1>2
  <2>1. CASE Image(q[i]) = Image(q[j])
    <3>1. NoImage(QueueTypes(q), i, j)
      BY <1>1, <1>3, <2>1, NoImageWithin
    <3>2. c[j].parent = c[i].parent
      BY <1>1, <1>2, <1>3, <2>0, <3>1, CountersKeep
    <3>3. QED
      BY <2>1, <3>2
  <2>2. CASE Image(q[i]) # Image(q[j])
    <3>1. PICK h \in DOMAIN q : /\ h <= j /\ Type(q[h]) = 0 /\ Image(q[h]) = Image(q[j])
                               /\ NoImage(QueueTypes(q), h, j)
      BY <1>1, HeadOf
    <3>2. ~(h <= i)
      <4> SUFFICES ASSUME h <= i
                   PROVE  FALSE
        OBVIOUS
      <4>1. h < j \/ h = j
        BY <1>2, <3>1
      <4>2. i \in h .. j
        BY <1>2, <1>3
      <4>3. CASE h = j
        BY <1>2, <1>3, <2>2, <4>3
      <4>4. CASE h < j
        <5>1. Image(q[i]) = Image(q[h])
          BY <1>1, <3>1, <4>2, <4>4 DEF Sorted
        <5>2. QED
          BY <2>2, <3>1, <5>1
      <4>5. QED
        BY <4>1, <4>3, <4>4
    <3>3. /\ h - 1 \in 0 .. Len(q) /\ h \in 0 .. Len(q) /\ i <= h - 1
      BY <1>2, <3>2
    <3>4. c[i].segment <= c[h - 1].segment /\ (c[i].seen => c[i].parent < c[i].segment)
      BY <1>1, <1>2, <2>0, <3>3, SegmentsRise
    <3>5. c[i].seen /\ Counts(Type(q[h]), c[h - 1], c[h])
      BY ImageOfPage
    <3>6. c[h].parent = c[h - 1].segment
      BY <3>1, <3>5 DEF Counts
    <3>7. c[j].parent = c[h].parent
      BY <1>1, <1>2, <2>0, <3>1, <3>3, CountersKeep
    <3>8. c[i].parent \in Nat /\ c[i].segment \in Nat /\ c[h - 1].segment \in Nat
      BY <1>1, <1>2, <2>0, <3>3, AllCounters
    <3>9. c[i].parent < c[j].parent
      BY <3>4, <3>5, <3>6, <3>7, <3>8
    <3>10. c[i].parent # c[j].parent
      BY <3>4, <3>5, <3>6, <3>7, <3>8
    <3>11. QED
      BY <2>2, <3>10
  <2>3. QED
    BY <2>1, <2>2
<1>4. c[m].parent = c[n].parent <=> Image(q[m]) = Image(q[n])
  <2>1. m <= n \/ n <= m
    BY <1>2
  <2>2. CASE m <= n
    BY <1>3, <2>2
  <2>3. CASE n <= m
    <3>1. c[n].parent = c[m].parent <=> Image(q[n]) = Image(q[m])
      BY <1>3, <2>3
    <3>2. QED
      BY <3>1
  <2>4. QED
    BY <2>1, <2>2, <2>3
<1>5. Pages(f)[m].key.image = c[m].parent /\ Pages(f)[n].key.image = c[n].parent
  BY ImageOfPage
<1>6. QED
  BY <1>4, <1>5

\* Overviews of one image are counted up, and so are their masks.
LEMMA NumbersRise ==
  ASSUME NEW q, NEW f, NEW c, Reopened(q, f, c), NEW i \in DOMAIN q, NEW j \in DOMAIN q,
         i < j, Image(q[i]) = Image(q[j])
  PROVE  /\ Type(q[i]) = 1 => c[i - 1].overview < c[j - 1].overview
         /\ Type(q[i]) = 5 => c[i - 1].mask < c[j - 1].mask
<1>1. Queue(q) /\ Sorted(q) /\ WellFormed(q) /\ Counted(QueueTypes(q), c)
  BY DEF Reopened
<1>2. /\ Len(QueueTypes(q)) = Len(q) /\ DOMAIN q = 1 .. Len(q) /\ Len(q) \in Nat
  BY <1>1, TypesOfQueue
<1>3. NoImage(QueueTypes(q), i, j) /\ i <= j
  BY <1>1, <1>2, NoImageWithin
<1>4. NoImage(QueueTypes(q), i, j - 1) /\ i <= j - 1 /\ i \in 0 .. Len(q) /\ j - 1 \in 0 .. Len(q)
  BY <1>2, <1>3 DEF NoImage
<1>5. c[j - 1].overview >= c[i].overview /\ c[j - 1].mask >= c[i].mask
  BY <1>1, <1>2, <1>4, CountersKeep
<1>6. Counts(Type(q[i]), c[i - 1], c[i]) /\ (Type(q[i]) # 0 => c[i - 1].seen) /\ i - 1 \in 0 .. Len(q)
  BY ImageOfPage
<1>7. /\ c[i].overview \in Nat /\ c[i].mask \in Nat /\ c[j - 1].overview \in Nat /\ c[j - 1].mask \in Nat
      /\ c[i - 1].overview \in Nat /\ c[i - 1].mask \in Nat
  BY <1>1, <1>2, <1>4, <1>6, AllCounters
<1>8. /\ Type(q[i]) = 1 => c[i].overview = c[i - 1].overview + 1
      /\ Type(q[i]) = 5 => c[i].mask = c[i - 1].mask + 1
  BY <1>6 DEF Counts
<1>9. QED
  BY <1>5, <1>7, <1>8

LEMMA DistinctKeys ==
  ASSUME NEW q, NEW f, NEW c, Reopened(q, f, c), NEW i \in DOMAIN q, NEW j \in DOMAIN q, i < j
  PROVE  Pages(f)[i].key # Pages(f)[j].key
<1> SUFFICES ASSUME Pages(f)[i].key = Pages(f)[j].key
             PROVE  FALSE
  OBVIOUS
<1>1. Queue(q) /\ Sorted(q) /\ WellFormed(q)
  BY DEF Reopened
<1>2. Image(q[i]) = Image(q[j])
  BY SameImage
<1>3. Type(q[j]) # 0
  BY <1>1, <1>2 DEF Sorted
<1>4. /\ Type(q[i]) \in {0, 1, 4, 5} /\ Type(q[j]) \in {0, 1, 4, 5}
      /\ c[i - 1] \in Counters /\ c[j - 1] \in Counters
      /\ (Type(q[i]) # 0 => c[i - 1].seen) /\ (Type(q[j]) # 0 => c[j - 1].seen)
  BY ImageOfPage
<1>5. /\ Pages(f)[i].key.overview = IF Type(q[i]) = 1 THEN c[i - 1].overview
                                ELSE IF Type(q[i]) = 5 /\ c[i - 1].seen THEN c[i - 1].mask ELSE 0
      /\ Pages(f)[i].key.mask = (Type(q[i]) \in {4, 5})
  BY <1>4, PageFields DEF Reopened
<1>6. /\ Pages(f)[j].key.overview = IF Type(q[j]) = 1 THEN c[j - 1].overview
                                ELSE IF Type(q[j]) = 5 /\ c[j - 1].seen THEN c[j - 1].mask ELSE 0
      /\ Pages(f)[j].key.mask = (Type(q[j]) \in {4, 5})
  BY <1>4, PageFields DEF Reopened
<1>7. /\ c[i - 1].overview \in Nat \ {0} /\ c[i - 1].mask \in Nat \ {0}
      /\ c[j - 1].overview \in Nat \ {0} /\ c[j - 1].mask \in Nat \ {0}
  BY <1>4 DEF Counters
<1>8. (Type(q[i]) \in {4, 5}) <=> (Type(q[j]) \in {4, 5})
  BY <1>5, <1>6
<1>9. Type(q[i]) = Type(q[j])
  <2>1. Type(q[j]) \in {1, 5} => Pages(f)[j].key.overview # 0
    BY <1>4, <1>6, <1>7
  <2>2. Type(q[i]) \in {1, 5} => Pages(f)[i].key.overview # 0
    BY <1>4, <1>5, <1>7
  <2>3. Type(q[j]) = 4 => Pages(f)[j].key.overview = 0
    BY <1>6
  <2>4. Type(q[i]) \in {0, 4} => Pages(f)[i].key.overview = 0
    BY <1>5
  <2>5. QED
    BY <1>3, <1>4, <1>8, <2>1, <2>2, <2>3, <2>4
<1>10. CASE Type(q[i]) \in {1, 5}
  <2>1. /\ Type(q[i]) = 1 => c[i - 1].overview < c[j - 1].overview
        /\ Type(q[i]) = 5 => c[i - 1].mask < c[j - 1].mask
    BY <1>2, NumbersRise
  <2>2. QED
    BY <1>4, <1>5, <1>6, <1>7, <1>9, <1>10, <2>1
<1>11. CASE Type(q[i]) = 4
  <2>1. q[i].key.overview = 0 /\ q[j].key.overview = 0
    <3>1. /\ q[i].key \in [image : Nat, overview : Nat, mask : BOOLEAN]
          /\ q[j].key \in [image : Nat, overview : Nat, mask : BOOLEAN]
      BY <1>1 DEF Queue, IsAsset
    <3>2. /\ Type(q[i]) \in {1, 5} <=> q[i].key.overview > 0
          /\ Type(q[j]) \in {1, 5} <=> q[j].key.overview > 0
      BY <1>1, TypeIsKey
    <3>3. QED
      BY <1>9, <1>11, <3>1, <3>2
  <2>2. q[i].key.mask = q[j].key.mask
    <3>1. (Type(q[i]) \in {4, 5}) = q[i].key.mask
      BY <1>1, TypeIsKey
    <3>2. (Type(q[j]) \in {4, 5}) = q[j].key.mask
      BY <1>1, TypeIsKey
    <3>3. QED
      BY <1>9, <3>1, <3>2, Zenon
  <2>3. q[i].key.image = q[j].key.image
    BY <1>2 DEF Image
  <2>4. q[i].key = q[j].key
    <3>1. \A k \in [image : Nat, overview : Nat, mask : BOOLEAN] :
            k = [image |-> k.image, overview |-> k.overview, mask |-> k.mask]
      OBVIOUS
    <3>2. /\ q[i].key \in [image : Nat, overview : Nat, mask : BOOLEAN]
          /\ q[j].key \in [image : Nat, overview : Nat, mask : BOOLEAN]
      BY <1>1 DEF Queue, IsAsset
    <3>3. QED
      BY <2>1, <2>2, <2>3, <3>1, <3>2, Zenon
  <2>5. QED
    BY <1>1, <2>4 DEF Queue
<1>12. QED
  BY <1>3, <1>4, <1>9, <1>10, <1>11

\* An asset comes back as what it was, with its roles.
LEMMA SameKind ==
  ASSUME NEW q, NEW f, NEW c, Reopened(q, f, c), NEW i \in DOMAIN q
  PROVE  /\ Pages(f)[i].key.mask = q[i].key.mask
         /\ (Pages(f)[i].key.overview > 0) = (q[i].key.overview > 0)
         /\ Pages(f)[i].roles = IF Type(q[i]) = 0 THEN {"data"} ELSE q[i].roles
<1>1. Queue(q) /\ Sorted(q) /\ WellFormed(q) /\ IsPage(Type(q[i]), c[i - 1], Pages(f)[i])
  BY DEF Reopened
<1>2. /\ Type(q[i]) \in {0, 1, 4, 5} /\ c[i - 1] \in Counters
      /\ (Type(q[i]) # 0 => c[i - 1].seen)
  BY ImageOfPage
<1>3. /\ Pages(f)[i].key.overview = IF Type(q[i]) = 1 THEN c[i - 1].overview
                                ELSE IF Type(q[i]) = 5 /\ c[i - 1].seen THEN c[i - 1].mask ELSE 0
      /\ Pages(f)[i].key.mask = (Type(q[i]) \in {4, 5})
  BY <1>1, <1>2, PageFields
<1>4. /\ Type(q[i]) \in {1, 5} <=> q[i].key.overview > 0
      /\ Type(q[i]) # 0 => q[i].roles = KeyRoles(q[i].key)
  BY <1>1, TypeIsKey
<1>5. (Type(q[i]) \in {4, 5}) = q[i].key.mask
  BY <1>1, TypeIsKey
<1>6. Pages(f)[i].key.mask = q[i].key.mask
  BY <1>3, <1>5, Zenon
<1>7. (Pages(f)[i].key.overview > 0) = (q[i].key.overview > 0)
  <2>1. c[i - 1].overview \in Nat \ {0} /\ c[i - 1].mask \in Nat \ {0}
    BY <1>2 DEF Counters
  <2>2. Pages(f)[i].key.overview > 0 <=> Type(q[i]) \in {1, 5}
    BY <1>2, <1>3, <2>1
  <2>3. QED
    BY <1>4, <2>2
<1>8. Pages(f)[i].roles = IF Type(q[i]) = 0 THEN {"data"} ELSE q[i].roles
  <2>1. Pages(f)[i].roles = IF Type(q[i]) = 0 THEN {"data"}
                            ELSE (IF Type(q[i]) \in {1, 5} THEN {"overview"} ELSE {})
                                   \cup (IF Type(q[i]) \in {4, 5} THEN {"mask"} ELSE {})
    BY <1>1 DEF IsPage
  <2>2. CASE Type(q[i]) = 0
    BY <2>1, <2>2
  <2>3. CASE Type(q[i]) # 0
    <3>1. q[i].roles = (IF q[i].key.overview > 0 THEN {"overview"} ELSE {})
                         \cup (IF q[i].key.mask THEN {"mask"} ELSE {})
      BY <1>4, <2>3 DEF KeyRoles
    <3>2. q[i].key.mask <=> Type(q[i]) \in {4, 5}
      BY <1>5
    <3>3. QED
      BY <1>4, <2>1, <2>3, <3>1, <3>2, Zenon
  <2>4. QED
    BY <2>2, <2>3
<1>9. QED
  BY <1>6, <1>7, <1>8, Zenon

\* A single directory is an image, whatever its type.
LEMMA LonePage ==
  ASSUME NEW types, Types(types), Len(types) = 1
  PROVE  /\ DOMAIN Classify(types) = {1}
         /\ Classify(types)[1].key = [image |-> 0, overview |-> 0, mask |-> FALSE]
         /\ Classify(types)[1].roles = {"data"}
<1>1. PICK c : /\ IsCount(types, c)
               /\ Classify(types) =
                    [n \in DOMAIN types |->
                       [key |-> PageKey(types[n], Len(types) = 1, c[n - 1]),
                        roles |-> PageRoles(types[n], Len(types) = 1)]]
  BY CountersExist
<1>2. DOMAIN types = {1} /\ 1 - 1 = 0
  <2>1. 1 .. 1 = {1}
    OBVIOUS
  <2>2. QED
    BY <2>1 DEF Types
<1>3. PICK single : single = (Len(types) = 1)
  OBVIOUS
<1>4. single \in BOOLEAN /\ single
  BY <1>3
<1>5. /\ Classify(types)[1].key = PageKey(types[1], single, c[0])
      /\ Classify(types)[1].roles = PageRoles(types[1], single)
  BY <1>1, <1>2, <1>3
<1>6. c[0].segment = 0
  BY <1>1 DEF IsCount, FirstCounters
<1>7. PageKey(types[1], single, c[0]) = [image |-> 0, overview |-> 0, mask |-> FALSE]
  BY <1>4, <1>6 DEF PageKey, Key
<1>8. PageRoles(types[1], single) = {"data"}
  BY <1>4 DEF PageRoles
<1>9. DOMAIN Classify(types) = {1}
  BY <1>1, <1>2
<1>10. QED
  BY <1>5, <1>7, <1>8, <1>9

LEMMA LoneAsset ==
  ASSUME NEW q, Queue(q), WellFormed(q), Len(q) = 1
  PROVE  /\ DOMAIN q = {1} /\ Type(q[1]) = 0
         /\ q[1].key.overview = 0 /\ q[1].key.mask = FALSE
<1>1. DOMAIN q = {1}
  <2>1. 1 .. 1 = {1}
    OBVIOUS
  <2>2. QED
    BY <2>1 DEF Queue
<1>2. q[1].key = ParentKey(q[1].key)
  BY <1>1 DEF WellFormed
<1>3. q[1].key.overview = 0 /\ q[1].key.mask = FALSE
  BY <1>2 DEF ParentKey, Key
<1>4. Type(q[1]) \in {0, 1, 4, 5}
  BY <1>1, TypesOfQueue
<1>5. ~(Type(q[1]) \in {1, 5})
  <2>1. Type(q[1]) \in {1, 5} <=> q[1].key.overview > 0
    BY <1>1, TypeIsKey
  <2>2. QED
    BY <1>3, <2>1
<1>6. ~(Type(q[1]) \in {4, 5})
  <2>1. (Type(q[1]) \in {4, 5}) = q[1].key.mask
    BY <1>1, TypeIsKey
  <2>2. QED
    BY <1>3, <2>1
<1>7. QED
  BY <1>1, <1>3, <1>4, <1>5, <1>6

\* Of every well-formed queue the writer sorted and wrote: pages belong together
\* as their assets did, masks are masks, overviews overviews, no key occurs
\* twice (sort_assets_for_cog and new_subfile_type_for_asset against
\* from_buffer).
THEOREM FamiliesStayTogether == Spec => []FamiliesKeptTogether
<1> DEFINE Together(q, f, i, j) ==
      /\ (Pages(f)[i].key.image = Pages(f)[j].key.image) = (q[i].key.image = q[j].key.image)
      /\ Pages(f)[i].key = Pages(f)[j].key => i = j
      /\ Pages(f)[i].key.mask = q[i].key.mask
      /\ (Pages(f)[i].key.overview > 0) = (q[i].key.overview > 0)
      /\ Pages(f)[i].roles = IF SubfileType(q[i]) = 0 THEN {"data"} ELSE q[i].roles
<1>1. ASSUME NEW q, Queue(q), Sorted(q), WellFormed(q), NEW f, Directories(q, f),
             NEW i \in DOMAIN q, NEW j \in DOMAIN q
      PROVE  Together(q, f, i, j)
  <2>1. CASE Len(q) = 1
    <3>1. /\ DOMAIN q = {1} /\ Type(q[1]) = 0
          /\ q[1].key.overview = 0 /\ q[1].key.mask = FALSE
      BY <1>1, <2>1, LoneAsset
    <3>2. i = 1 /\ j = 1
      BY <3>1
    <3>3. Types(DirectoryTypes(f)) /\ Len(DirectoryTypes(f)) = 1
      BY <1>1, <2>1, TypesWritten, TypesOfQueue DEF Kinds
    <3>4. /\ Pages(f)[1].key = [image |-> 0, overview |-> 0, mask |-> FALSE]
          /\ Pages(f)[1].roles = {"data"}
      BY <3>3, LonePage DEF Pages
    <3>5. Pages(f)[1].key.overview = 0 /\ Pages(f)[1].key.mask = FALSE
      BY <3>4
    <3>6. Pages(f)[1].key.mask = q[1].key.mask
      BY <3>1, <3>5, Zenon
    <3>7. QED
      BY <3>1, <3>2, <3>4, <3>5, <3>6, Zenon DEF Type
  <2>2. CASE Len(q) # 1
    <3>1. PICK c : Reopened(q, f, c)
      BY <1>1, <2>2, PagesOfQueue DEF Reopened
    <3>2. Pages(f)[i].key.image = Pages(f)[j].key.image <=> Image(q[i]) = Image(q[j])
      BY <3>1, SameImage
    <3>3. (Pages(f)[i].key.image = Pages(f)[j].key.image) = (q[i].key.image = q[j].key.image)
      BY <3>2 DEF Image
    <3>4. Pages(f)[i].key = Pages(f)[j].key => i = j
      <4>1. i < j \/ j < i \/ i = j
        BY <1>1, TypesOfQueue
      <4>2. QED
        BY <3>1, <4>1, DistinctKeys
    <3>5. /\ Pages(f)[i].key.mask = q[i].key.mask
          /\ (Pages(f)[i].key.overview > 0) = (q[i].key.overview > 0)
          /\ Pages(f)[i].roles = IF Type(q[i]) = 0 THEN {"data"} ELSE q[i].roles
      BY <3>1, SameKind
    <3>6. QED
      BY <3>3, <3>4, <3>5, Zenon DEF Type
  <2>3. QED
    BY <2>1, <2>2
<1> HIDE DEF Together
<1>2. WriterInv => FamiliesKeptTogether
  <2> SUFFICES ASSUME WriterInv, closed, WellFormed(queue)
               PROVE  LET pages == PagesWritten
                          page(i) == pages[PageOf(queue[i].of)]
                      IN  \A i, j \in DOMAIN queue :
                            /\ (page(i).key.image = page(j).key.image)
                                 = (queue[i].key.image = queue[j].key.image)
                            /\ page(i).key = page(j).key => i = j
                            /\ page(i).key.mask = queue[i].key.mask
                            /\ (page(i).key.overview > 0) = (queue[i].key.overview > 0)
                            /\ page(i).roles = IF SubfileType(queue[i]) = 0
                                                 THEN {"data"} ELSE queue[i].roles
    BY DEF FamiliesKeptTogether
  <2>1. Queue(queue) /\ Sorted(queue) /\ Directories(queue, written)
    BY DEF WriterInv, Directories
  <2>2. DOMAIN written = DOMAIN queue /\ \A i \in DOMAIN queue : written[i].of = queue[i].of
    BY <2>1, TypesWritten
  <2>3. \A i \in DOMAIN queue : PageOf(queue[i].of) = i
    <3>1. \A i, n \in DOMAIN queue : written[n].of = queue[i].of => n = i
      BY <2>2 DEF WellFormed, Distinct
    <3>2. QED
      BY <2>2, <3>1 DEF PageOf
  <2>4. \A i, j \in DOMAIN queue : Together(queue, written, i, j)
    BY <1>1, <2>1
  <2> DEFINE page(i) == PagesWritten[PageOf(queue[i].of)]
  <2>5. \A i \in DOMAIN queue : page(i) = Pages(written)[i]
    BY <2>3 DEF PagesWritten
  <2>6. ASSUME NEW i \in DOMAIN queue, NEW j \in DOMAIN queue
        PROVE  /\ (page(i).key.image = page(j).key.image)
                    = (queue[i].key.image = queue[j].key.image)
               /\ page(i).key = page(j).key => i = j
               /\ page(i).key.mask = queue[i].key.mask
               /\ (page(i).key.overview > 0) = (queue[i].key.overview > 0)
               /\ page(i).roles = IF SubfileType(queue[i]) = 0
                                    THEN {"data"} ELSE queue[i].roles
    <3>1. page(i) = Pages(written)[i] /\ page(j) = Pages(written)[j]
      BY <2>5
    <3>2. Together(queue, written, i, j)
      BY <2>4
    <3> HIDE DEF page
    <3>3. QED
      BY <3>1, <3>2, Zenon DEF Together
  <2>7. QED
    BY <2>6, Zenon
<1>3. QED
  BY <1>2, WriterInvariant, PTL

-----------------------------------------------------------------------------
(* Overviews and their masks *)

\* The number the next overview gets, or the next mask of one.
Number(type, c) == IF type = 1 THEN c.overview ELSE c.mask

\* Numbers are given without gaps.
LEMMA NumbersAreDense ==
  ASSUME NEW q, NEW f, NEW c, Reopened(q, f, c), NEW n \in DOMAIN q, Type(q[n]) # 0,
         NEW t \in {1, 5}, NEW s \in Nat \ {0}, s < Number(t, c[n - 1])
  PROVE  \E j \in DOMAIN q : /\ j < n /\ Type(q[j]) = t /\ Image(q[j]) = Image(q[n])
                             /\ Number(t, c[j - 1]) = s
<1>1. Queue(q) /\ Sorted(q) /\ WellFormed(q) /\ Counted(QueueTypes(q), c)
  BY DEF Reopened
<1>2. /\ Len(QueueTypes(q)) = Len(q) /\ DOMAIN q = 1 .. Len(q) /\ Len(q) \in Nat
      /\ \A k \in DOMAIN q : QueueTypes(q)[k] = Type(q[k]) /\ Type(q[k]) \in {0, 1, 4, 5}
  BY <1>1, TypesOfQueue
<1>3. PICK h \in DOMAIN q : /\ h <= n /\ Type(q[h]) = 0 /\ Image(q[h]) = Image(q[n])
                           /\ NoImage(QueueTypes(q), h, n)
  BY <1>1, HeadOf
<1>4. h < n /\ h \in Nat /\ n \in Nat
  BY <1>2, <1>3
<1>5. \A k \in 0 .. Len(q) : Number(t, c[k]) \in Nat \ {0}
  BY <1>1, <1>2, AllCounters DEF Number
<1>6. Number(t, c[h]) = 1
  <2>1. Counts(Type(q[h]), c[h - 1], c[h])
    BY ImageOfPage
  <2>2. QED
    BY <1>3, <2>1 DEF Counts, Number
<1> DEFINE Given(x, k) == \E j \in h + 1 .. k : Type(q[j]) = t /\ Number(t, c[j - 1]) = x
           S == {d \in 0 .. n - 1 - h : \A x \in 1 .. Number(t, c[h + d]) - 1 : Given(x, h + d)}
<1>7. 0 \in S
  <2>1. h + 0 = h /\ 1 .. Number(t, c[h]) - 1 = {}
    BY <1>4, <1>6
  <2>2. 0 \in 0 .. n - 1 - h
    BY <1>4
  <2>3. QED
    BY <2>1, <2>2
<1>8. ASSUME NEW d \in 0 .. n - 1 - h - 1, d \in S
      PROVE  d + 1 \in S
  <2> DEFINE k == h + d + 1
  <2>1. /\ k \in DOMAIN q /\ k \in h + 1 .. n /\ k - 1 = h + d /\ h + (d + 1) = k
        /\ d + 1 \in 0 .. n - 1 - h /\ h + d \in 0 .. Len(q) /\ k \in 0 .. Len(q)
    BY <1>2, <1>4
  <2> HIDE DEF k
  <2>2. Type(q[k]) # 0
    BY <1>2, <1>3, <2>1 DEF NoImage
  <2>3. /\ Counts(Type(q[k]), c[k - 1], c[k]) /\ Type(q[k]) \in {0, 1, 4, 5} /\ c[k - 1].seen
    BY <2>1, <2>2, ImageOfPage
  <2>4. Number(t, c[k]) = IF Type(q[k]) = t THEN Number(t, c[k - 1]) + 1 ELSE Number(t, c[k - 1])
    BY <2>2, <2>3 DEF Counts, Number
  <2>5. Number(t, c[k]) \in Nat \ {0} /\ Number(t, c[k - 1]) \in Nat \ {0}
    BY <1>5, <2>1
  <2>6. \A x \in 1 .. Number(t, c[k - 1]) - 1 : Given(x, k - 1)
    BY <1>8, <2>1
  <2>7. \A x : Given(x, k - 1) => Given(x, k)
    BY <1>4, <2>1
  <2>8. Type(q[k]) = t => Given(Number(t, c[k - 1]), k)
    <3>1. k \in h + 1 .. k
      BY <1>4, <2>1
    <3>2. QED
      BY <3>1, Zenon
  <2> HIDE DEF Given
  <2>9. ASSUME NEW x \in 1 .. Number(t, c[k]) - 1
        PROVE  Given(x, k)
    <3>1. x \in 1 .. Number(t, c[k - 1]) - 1 \/ (Type(q[k]) = t /\ x = Number(t, c[k - 1]))
      BY <2>4, <2>5
    <3>2. QED
      BY <2>6, <2>7, <2>8, <3>1
  <2>10. QED
    BY <2>1, <2>9
<1>9. n - 1 - h \in S
  <2> HIDE DEF S
  <2> DEFINE e == n - 1 - h
  <2>1. e \in Nat /\ \A d \in 0 .. e - 1 : d \in S => d + 1 \in S
    BY <1>4, <1>8
  <2> HIDE DEF e
  <2>2. \A d \in 0 .. e : d \in S
    BY <1>7, <2>1, SetInduction
  <2>3. QED
    BY <2>1, <2>2 DEF e
<1>10. h + (n - 1 - h) = n - 1 /\ n - 1 \in 0 .. Len(q)
  BY <1>2, <1>4
<1>11. s \in 1 .. Number(t, c[n - 1]) - 1
  BY <1>5, <1>10
<1>12. PICK j \in h + 1 .. n - 1 : Type(q[j]) = t /\ Number(t, c[j - 1]) = s
  BY <1>9, <1>10, <1>11
<1>13. j \in DOMAIN q /\ j < n /\ j \in h .. n
  BY <1>2, <1>4
<1>14. Image(q[j]) = Image(q[n])
  BY <1>1, <1>3, <1>4, <1>13 DEF Sorted
<1>15. QED
  BY <1>12, <1>13, <1>14

\* The pages of an overview and of its mask that have one number.
IsPair(q, c, m, n) ==
    /\ m \in DOMAIN q /\ n \in DOMAIN q
    /\ Type(q[m]) = 1 /\ Type(q[n]) = 5 /\ Image(q[m]) = Image(q[n])
    /\ Number(1, c[m - 1]) = Number(5, c[n - 1])

SameSize(a, b) == a.rows = b.rows /\ a.cols = b.cols

\* Overviews of a well-matched queue, and masks of overviews, have sizes that
\* differ and fall, and each overview has a mask of its size.
LEMMA Matched ==
  ASSUME NEW q, Queue(q), Sorted(q), WellFormed(q), MasksMatch(q), NEW i \in DOMAIN q,
         Type(q[i]) \in {1, 5}
  PROVE  /\ \A j \in DOMAIN q :
              (Type(q[j]) = Type(q[i]) /\ Image(q[j]) = Image(q[i])) =>
                  /\ SameSize(q[i], q[j]) => i = j
                  /\ i < j => Area(q[i]) > Area(q[j])
         /\ \E j \in DOMAIN q : /\ Type(q[j]) = 6 - Type(q[i]) /\ Image(q[j]) = Image(q[i])
                                /\ SameSize(q[i], q[j])
<1>1. \A j \in DOMAIN q : /\ Type(q[j]) \in {0, 1, 4, 5} /\ Area(q[j]) \in Nat
                          /\ Type(q[j]) \in {1, 5} <=> q[j].key.overview > 0
  BY TypeIsKey, TypeValues DEF Queue
<1>2. \A j \in DOMAIN q : (Type(q[j]) \in {4, 5}) = q[j].key.mask
  BY TypeIsKey
<1>3. \A j \in DOMAIN q : ParentKey(q[i].key) = ParentKey(q[j].key) <=> Image(q[i]) = Image(q[j])
  BY ParentKeyOf DEF Image
<1>4. \A j \in DOMAIN q : Type(q[j]) = Type(q[i]) => q[j].key.mask = q[i].key.mask
  BY <1>2
<1>5. \A j \in DOMAIN q : (Type(q[j]) \in {1, 5} /\ q[j].key.mask # q[i].key.mask) => Type(q[j]) = 6 - Type(q[i])
  <2> TAKE j \in DOMAIN q
  <2>1. (Type(q[j]) \in {4, 5}) = q[j].key.mask /\ (Type(q[i]) \in {4, 5}) = q[i].key.mask
    BY <1>2
  <2>2. Type(q[j]) = Type(q[i]) => q[j].key.mask = q[i].key.mask
    BY <1>4
  <2>3. Type(q[j]) \in {1, 5} /\ Type(q[j]) # Type(q[i]) => Type(q[j]) = 6 - Type(q[i])
    OBVIOUS
  <2>4. QED
    BY <2>2, <2>3
<1>6. ASSUME NEW j \in DOMAIN q, Type(q[j]) = Type(q[i]), Image(q[j]) = Image(q[i])
      PROVE  /\ SameSize(q[i], q[j]) => i = j
             /\ i < j => Area(q[i]) > Area(q[j])
  <2>1. /\ q[i].key.overview > 0 /\ q[j].key.overview > 0 /\ q[i].key.mask = q[j].key.mask
        /\ ParentKey(q[i].key) = ParentKey(q[j].key)
    <3>1. q[i].key.overview > 0 /\ q[j].key.overview > 0
      BY <1>1, <1>6
    <3>2. q[i].key.mask = q[j].key.mask /\ ParentKey(q[i].key) = ParentKey(q[j].key)
      BY <1>3, <1>4, <1>6
    <3>3. QED
      BY <3>1, <3>2
  <2>2. Area(q[i]) = Area(q[j]) => i = j
    BY <2>1 DEF MasksMatch, Area
  <2>3. SameSize(q[i], q[j]) => Area(q[i]) = Area(q[j])
    BY DEF SameSize, Area
  <2>4. i < j => Area(q[i]) >= Area(q[j])
    BY <1>1, <1>6 DEF Sorted
  <2>5. Area(q[i]) \in Nat /\ Area(q[j]) \in Nat /\ (i < j => i # j)
    BY <1>1, TypesOfQueue
  <2>6. QED
    BY <2>2, <2>3, <2>4, <2>5
<1>7. \E j \in DOMAIN q : /\ Type(q[j]) = 6 - Type(q[i]) /\ Image(q[j]) = Image(q[i])
                          /\ SameSize(q[i], q[j])
  <2>1. q[i].key.overview > 0
    BY <1>1
  <2>2. PICK j \in DOMAIN q : /\ ParentKey(q[j].key) = ParentKey(q[i].key)
                             /\ q[j].key.overview > 0
                             /\ q[j].key.mask # q[i].key.mask
                             /\ <<q[j].rows, q[j].cols>> = <<q[i].rows, q[i].cols>>
    BY <2>1, Zenon DEF MasksMatch
  <2>3. Type(q[j]) \in {1, 5} /\ Image(q[j]) = Image(q[i])
    BY <1>1, <1>3, <2>2
  <2>4. Type(q[j]) = 6 - Type(q[i])
    BY <1>5, <2>2, <2>3
  <2>5. SameSize(q[i], q[j])
    BY <2>2 DEF SameSize
  <2>6. QED
    BY <2>3, <2>4, <2>5
<1>8. QED
  BY <1>6, <1>7

LEMMA PairsFit ==
  ASSUME NEW q, NEW f, NEW c, Reopened(q, f, c), MasksMatch(q),
         NEW m0, NEW n0, IsPair(q, c, m0, n0)
  PROVE  SameSize(q[m0], q[n0])
<1>1. Queue(q) /\ Sorted(q) /\ WellFormed(q) /\ Counted(QueueTypes(q), c)
  BY DEF Reopened
<1>2. /\ Len(QueueTypes(q)) = Len(q) /\ DOMAIN q = 1 .. Len(q) /\ Len(q) \in Nat
  BY <1>1, TypesOfQueue
<1>3. \A k \in DOMAIN q, t \in {1, 5} : Number(t, c[k - 1]) \in Nat \ {0}
  <2> TAKE k \in DOMAIN q, t \in {1, 5}
  <2>1. k - 1 \in 0 .. Len(q)
    BY <1>2
  <2>2. QED
    BY <1>1, <1>2, <2>1, AllCounters DEF Number
<1> DEFINE Bad == {r \in Nat : \E m, n \in DOMAIN q :
                      IsPair(q, c, m, n) /\ Number(1, c[m - 1]) = r /\ ~SameSize(q[m], q[n])}
<1> SUFFICES ASSUME ~SameSize(q[m0], q[n0])
             PROVE  FALSE
  OBVIOUS
<1>4. Bad # {}
  <2>1. m0 \in DOMAIN q /\ n0 \in DOMAIN q
    BY DEF IsPair
  <2>2. Number(1, c[m0 - 1]) \in Nat
    BY <1>3, <2>1
  <2>3. Number(1, c[m0 - 1]) \in Bad
    BY <2>1, <2>2
  <2>4. QED
    BY <2>3
<1>5. PICK r \in Bad : \A y \in Bad : r <= y
  <2>1. Bad \in SUBSET Nat
    OBVIOUS
  <2> HIDE DEF Bad
  <2>2. QED
    BY <1>4, <2>1, LeastNumber
<1>6. PICK m \in DOMAIN q, n \in DOMAIN q :
        IsPair(q, c, m, n) /\ Number(1, c[m - 1]) = r /\ ~SameSize(q[m], q[n])
  BY <1>5
<1>7. /\ Type(q[m]) = 1 /\ Type(q[n]) = 5 /\ Image(q[m]) = Image(q[n])
      /\ Number(1, c[m - 1]) = r /\ Number(5, c[n - 1]) = r /\ r \in Nat \ {0}
      /\ m \in Nat /\ n \in Nat
  <2>1. /\ Type(q[m]) = 1 /\ Type(q[n]) = 5 /\ Image(q[m]) = Image(q[n])
        /\ Number(1, c[m - 1]) = r /\ Number(5, c[n - 1]) = r
    BY <1>6 DEF IsPair
  <2>2. Number(1, c[m - 1]) \in Nat \ {0}
    BY <1>3
  <2>3. QED
    BY <1>2, <2>1, <2>2
<1>8. \A i, j \in DOMAIN q : (IsPair(q, c, i, j) /\ Number(1, c[i - 1]) < r) => SameSize(q[i], q[j])
  <2> SUFFICES ASSUME NEW i \in DOMAIN q, NEW j \in DOMAIN q, IsPair(q, c, i, j),
                      Number(1, c[i - 1]) < r, ~SameSize(q[i], q[j])
               PROVE  FALSE
    OBVIOUS
  <2>1. Number(1, c[i - 1]) \in Nat
    BY <1>3
  <2>2. Number(1, c[i - 1]) \in Bad
    BY <2>1
  <2> HIDE DEF Bad
  <2>3. QED
    BY <1>5, <1>7, <2>1, <2>2
<1> HIDE DEF Bad
\* The mask that has the size of the overview.
<1>9. PICK p \in DOMAIN q : Type(q[p]) = 5 /\ Image(q[p]) = Image(q[m]) /\ SameSize(q[m], q[p])
  <2>1. 6 - 1 = 5
    OBVIOUS
  <2>2. QED
    BY <1>1, <1>7, <2>1, Matched
<1>10. p # n /\ p \in Nat
  BY <1>2, <1>6, <1>9
<1>11. CASE p < n
  <2>1. Number(5, c[p - 1]) < r
    <3>1. c[p - 1].mask < c[n - 1].mask
      BY <1>7, <1>9, <1>11, NumbersRise
    <3>2. QED
      BY <1>7, <3>1 DEF Number
  <2>2. Number(5, c[p - 1]) \in Nat \ {0}
    BY <1>3
  <2>3. PICK j \in DOMAIN q : /\ j < m /\ Type(q[j]) = 1 /\ Image(q[j]) = Image(q[m])
                             /\ Number(1, c[j - 1]) = Number(5, c[p - 1])
    BY <1>7, <2>1, <2>2, NumbersAreDense
  <2>4. IsPair(q, c, j, p)
    BY <1>9, <2>3 DEF IsPair
  <2>5. SameSize(q[j], q[p])
    BY <1>8, <2>1, <2>3, <2>4
  <2>6. SameSize(q[m], q[j])
    BY <1>9, <2>5 DEF SameSize
  <2>7. m = j
    BY <1>1, <1>7, <2>3, <2>6, Matched
  <2>8. QED
    BY <1>7, <2>3, <2>7
<1>12. CASE n < p
  <2>1. Area(q[n]) > Area(q[p])
    BY <1>1, <1>7, <1>9, <1>12, Matched
  <2>2. PICK o \in DOMAIN q : Type(q[o]) = 1 /\ Image(q[o]) = Image(q[n]) /\ SameSize(q[n], q[o])
    <3>1. 6 - 5 = 1
      OBVIOUS
    <3>2. QED
      BY <1>1, <1>7, <3>1, Matched
  <2>3. Area(q[o]) = Area(q[n]) /\ Area(q[p]) = Area(q[m])
    BY <1>9, <2>2 DEF SameSize, Area
  <2>4. /\ Area(q[o]) \in Nat /\ Area(q[n]) \in Nat /\ Area(q[p]) \in Nat /\ Area(q[m]) \in Nat
        /\ o \in Nat
    BY <1>1, <1>2, TypeValues DEF Queue
  <2>5. o < m
    <3>1. m < o => Area(q[m]) > Area(q[o])
      BY <1>1, <1>7, <2>2, Matched
    <3>2. o # m
      BY <2>1, <2>3, <2>4
    <3>3. QED
      BY <1>7, <2>1, <2>3, <2>4, <3>1, <3>2
  <2>6. Number(1, c[o - 1]) < r
    <3>1. c[o - 1].overview < c[m - 1].overview
      BY <1>7, <2>2, <2>5, NumbersRise
    <3>2. QED
      BY <1>7, <3>1 DEF Number
  <2>7. Number(1, c[o - 1]) \in Nat \ {0}
    BY <1>3
  <2>8. PICK j \in DOMAIN q : /\ j < n /\ Type(q[j]) = 5 /\ Image(q[j]) = Image(q[n])
                             /\ Number(5, c[j - 1]) = Number(1, c[o - 1])
    BY <1>7, <2>6, <2>7, NumbersAreDense
  <2>9. IsPair(q, c, o, j)
    BY <2>2, <2>8 DEF IsPair
  <2>10. SameSize(q[o], q[j])
    BY <1>8, <2>6, <2>9
  <2>11. SameSize(q[n], q[j])
    BY <2>2, <2>10 DEF SameSize
  <2>12. n = j
    BY <1>1, <1>7, <2>8, <2>11, Matched
  <2>13. QED
    BY <1>7, <2>8, <2>12
<1>13. QED
  BY <1>7, <1>10, <1>11, <1>12

\* The mask of an overview is read back under the key of the overview it covers:
\* the reader only counts (from_buffer), the writer only sorts
\* (sort_assets_for_cog).
THEOREM MasksComeBackFitting == Spec => []MasksFitOverviews
<1>1. ASSUME NEW q, Queue(q), Sorted(q), WellFormed(q), MasksMatch(q), NEW f, Directories(q, f),
             NEW m \in DOMAIN q, NEW n \in DOMAIN q,
             Pages(f)[m].key.image = Pages(f)[n].key.image,
             Pages(f)[m].key.overview = Pages(f)[n].key.overview, Pages(f)[m].key.overview > 0
      PROVE  SameSize(q[m], q[n])
  <2>1. DOMAIN q = 1 .. Len(q) /\ Len(q) \in Nat
    BY <1>1 DEF Queue
  <2>2. CASE Len(q) = 1
    <3>1. m = n
      BY <2>1, <2>2
    <3>2. QED
      BY <3>1 DEF SameSize
  <2>3. CASE Len(q) # 1
    <3>1. PICK c : Reopened(q, f, c)
      BY <1>1, <2>3, PagesOfQueue DEF Reopened
    <3>2. Image(q[m]) = Image(q[n])
      BY <1>1, <3>1, SameImage
    <3>3. /\ Type(q[m]) \in {0, 1, 4, 5} /\ c[m - 1] \in Counters
          /\ (Type(q[m]) # 0 => c[m - 1].seen) /\ IsPage(Type(q[m]), c[m - 1], Pages(f)[m])
      BY <3>1, ImageOfPage DEF Reopened
    <3>4. /\ Type(q[n]) \in {0, 1, 4, 5} /\ c[n - 1] \in Counters
          /\ (Type(q[n]) # 0 => c[n - 1].seen) /\ IsPage(Type(q[n]), c[n - 1], Pages(f)[n])
      BY <3>1, ImageOfPage DEF Reopened
    <3>5. Pages(f)[m].key.overview = IF Type(q[m]) = 1 THEN c[m - 1].overview
                                ELSE IF Type(q[m]) = 5 /\ c[m - 1].seen THEN c[m - 1].mask ELSE 0
      BY <3>3, PageFields
    <3>6. Pages(f)[n].key.overview = IF Type(q[n]) = 1 THEN c[n - 1].overview
                                ELSE IF Type(q[n]) = 5 /\ c[n - 1].seen THEN c[n - 1].mask ELSE 0
      BY <3>4, PageFields
    <3>7. Type(q[m]) \in {1, 5} /\ Type(q[n]) \in {1, 5}
      <4>1. Type(q[m]) \notin {1, 5} => Pages(f)[m].key.overview = 0
        BY <3>5
      <4>2. Type(q[n]) \notin {1, 5} => Pages(f)[n].key.overview = 0
        BY <3>6
      <4>3. Pages(f)[m].key.overview # 0 /\ Pages(f)[n].key.overview # 0
        BY <1>1
      <4>4. QED
        BY <4>1, <4>2, <4>3
    <3>8. /\ Pages(f)[m].key.overview = Number(Type(q[m]), c[m - 1])
          /\ Pages(f)[n].key.overview = Number(Type(q[n]), c[n - 1])
      BY <3>3, <3>4, <3>5, <3>6, <3>7 DEF Number
    <3>9. CASE Type(q[m]) = Type(q[n])
      <4>1. ASSUME NEW i \in DOMAIN q, NEW j \in DOMAIN q, i < j, Type(q[i]) \in {1, 5},
                   Type(q[i]) = Type(q[j]), Image(q[i]) = Image(q[j])
            PROVE  Number(Type(q[i]), c[i - 1]) # Number(Type(q[j]), c[j - 1])
        <5>1. /\ c[i - 1] \in Counters /\ c[j - 1] \in Counters
          BY <3>1, ImageOfPage
        <5>2. /\ c[i - 1].overview \in Nat /\ c[i - 1].mask \in Nat
              /\ c[j - 1].overview \in Nat /\ c[j - 1].mask \in Nat
          BY <5>1 DEF Counters
        <5>3. /\ Type(q[i]) = 1 => c[i - 1].overview < c[j - 1].overview
              /\ Type(q[i]) = 5 => c[i - 1].mask < c[j - 1].mask
          BY <3>1, <4>1, NumbersRise
        <5>4. QED
          BY <4>1, <5>2, <5>3 DEF Number
      <4>2. m = n
        <5>1. m < n \/ n < m \/ m = n
          BY <2>1
        <5>2. Number(Type(q[m]), c[m - 1]) = Number(Type(q[n]), c[n - 1])
          BY <1>1, <3>8
        <5>3. ~(m < n)
          BY <3>2, <3>7, <3>9, <4>1, <5>2
        <5>4. ~(n < m)
          BY <3>2, <3>7, <3>9, <4>1, <5>2
        <5>5. QED
          BY <5>1, <5>3, <5>4
      <4>3. QED
        BY <4>2 DEF SameSize
    <3>10. CASE Type(q[m]) = 1 /\ Type(q[n]) = 5
      <4>1. IsPair(q, c, m, n)
        BY <1>1, <3>2, <3>8, <3>10 DEF IsPair
      <4>2. QED
        BY <1>1, <3>1, <4>1, PairsFit
    <3>11. CASE Type(q[m]) = 5 /\ Type(q[n]) = 1
      <4>1. IsPair(q, c, n, m)
        BY <1>1, <3>2, <3>8, <3>11 DEF IsPair
      <4>2. SameSize(q[n], q[m])
        BY <1>1, <3>1, <4>1, PairsFit
      <4>3. QED
        BY <4>2 DEF SameSize
    <3>12. QED
      BY <3>7, <3>9, <3>10, <3>11
  <2>4. QED
    BY <2>2, <2>3
<1>2. WriterInv => MasksFitOverviews
  <2> SUFFICES ASSUME WriterInv, closed, WellFormed(queue), MasksMatch(queue),
                      NEW m \in DOMAIN written, NEW n \in DOMAIN written,
                      Pages(written)[m].key.image = Pages(written)[n].key.image,
                      Pages(written)[m].key.overview = Pages(written)[n].key.overview,
                      Pages(written)[m].key.overview > 0
               PROVE  written[m].rows = written[n].rows /\ written[m].cols = written[n].cols
    BY DEF MasksFitOverviews, PagesWritten
  <2>1. Queue(queue) /\ Sorted(queue) /\ Directories(queue, written)
    BY DEF WriterInv, Directories
  <2>2. DOMAIN written = DOMAIN queue
        /\ \A i \in DOMAIN queue : written[i].rows = queue[i].rows /\ written[i].cols = queue[i].cols
    BY <2>1, TypesWritten
  <2>3. SameSize(queue[m], queue[n])
    BY <1>1, <2>1, <2>2
  <2>4. QED
    BY <2>2, <2>3 DEF SameSize
<1>3. QED
  BY <1>2, WriterInvariant, PTL

-----------------------------------------------------------------------------
(* Copies of a file *)

\* Where the first directory is an image, each has an image at or before it.
LEMMA LastImage ==
  ASSUME NEW types, Kinds(types), NEW n \in DOMAIN types, types[1] = 0
  PROVE  \E h \in DOMAIN types : h <= n /\ types[h] = 0 /\ NoImage(types, h, n)
<1> DEFINE Found(k) == \E h \in DOMAIN types : h <= k /\ types[h] = 0 /\ NoImage(types, h, k)
           S == {d \in 0 .. Len(types) - 1 : Found(d + 1)}
<1>1. DOMAIN types = 1 .. Len(types) /\ Len(types) \in Nat
  BY DEF Kinds, Types
<1>2. \A k \in DOMAIN types : types[k] = 0 => Found(k)
  <2> TAKE k \in DOMAIN types
  <2>1. NoImage(types, k, k) /\ k <= k
    BY <1>1 DEF NoImage
  <2>2. QED
    BY <2>1
<1>3. 0 \in S
  BY <1>1, <1>2
<1>4. ASSUME NEW d \in 0 .. Len(types) - 1 - 1, d \in S
      PROVE  d + 1 \in S
  <2>1. d + 1 \in 0 .. Len(types) - 1 /\ (d + 1) + 1 \in DOMAIN types
    BY <1>1
  <2>2. CASE types[(d + 1) + 1] = 0
    <3> HIDE DEF Found
    <3>1. QED
      BY <1>2, <2>1, <2>2
  <2>3. CASE types[(d + 1) + 1] # 0
    <3>1. PICK h \in DOMAIN types : h <= d + 1 /\ types[h] = 0 /\ NoImage(types, h, d + 1)
      BY <1>4
    <3>2. h <= (d + 1) + 1 /\ NoImage(types, h, (d + 1) + 1)
      BY <1>1, <2>3, <3>1 DEF NoImage
    <3>3. Found((d + 1) + 1)
      BY <3>1, <3>2
    <3> HIDE DEF Found
    <3>4. QED
      BY <2>1, <3>3
  <2>4. QED
    BY <2>2, <2>3
<1>5. n - 1 \in S
  <2> HIDE DEF S
  <2> DEFINE e == Len(types) - 1
  <2>1. e \in Nat /\ n - 1 \in 0 .. e /\ \A d \in 0 .. e - 1 : d \in S => d + 1 \in S
    BY <1>1, <1>4
  <2> HIDE DEF e
  <2>2. QED
    BY <1>3, <2>1, SetInduction
<1>6. (n - 1) + 1 = n
  BY <1>1
<1>7. QED
  BY <1>5, <1>6

\* The number of the last image rises with every image.
LEMMA ParentsRise ==
  ASSUME NEW types, NEW c, Counted(types, c), types[1] = 0,
         NEW m \in DOMAIN types, NEW n \in DOMAIN types, m <= n
  PROVE  /\ c[n].seen /\ c[m].parent \in Nat /\ c[n].parent \in Nat
         /\ NoImage(types, m, n) => c[m].parent = c[n].parent
         /\ ~NoImage(types, m, n) => c[m].parent < c[n].parent
<1>1. /\ Kinds(types) /\ Len(types) \in Nat /\ DOMAIN types = 1 .. Len(types)
      /\ m \in 0 .. Len(types) /\ n \in 0 .. Len(types)
  BY AllCounters DEF Counted
<1>2. \A k \in DOMAIN types : c[k].seen
  <2> TAKE k \in DOMAIN types
  <2>1. PICK h \in DOMAIN types : h <= k /\ types[h] = 0 /\ NoImage(types, h, k)
    BY <1>1, LastImage
  <2>2. Counts(types[h], c[h - 1], c[h])
    BY CountStep
  <2>3. c[h].seen
    BY <2>1, <2>2 DEF Counts
  <2>4. c[k].seen = c[h].seen
    BY <1>1, <2>1, CountersKeep
  <2>5. QED
    BY <2>3, <2>4
<1>3. NoImage(types, m, n) => c[m].parent = c[n].parent
  BY <1>1, CountersKeep
<1>4. ASSUME ~NoImage(types, m, n)
      PROVE  c[m].parent < c[n].parent
  <2>1. PICK h \in DOMAIN types : h <= n /\ types[h] = 0 /\ NoImage(types, h, n)
    BY <1>1, LastImage
  <2>2. m <= h - 1 /\ h - 1 \in 0 .. Len(types) /\ h \in 0 .. Len(types)
    <3>1. ~(h <= m)
      BY <1>1, <1>4, <2>1 DEF NoImage
    <3>2. QED
      BY <1>1, <3>1
  <2>3. c[m].segment <= c[h - 1].segment /\ c[m].parent < c[m].segment
    BY <1>1, <1>2, <2>2, SegmentsRise
  <2>4. Counts(types[h], c[h - 1], c[h])
    BY CountStep
  <2>5. c[h].parent = c[h - 1].segment
    BY <2>1, <2>4 DEF Counts
  <2>6. c[n].parent = c[h].parent
    BY <1>1, <2>1, <2>2, CountersKeep
  <2>7. c[m].parent \in Nat /\ c[m].segment \in Nat /\ c[h - 1].segment \in Nat
    BY <1>1, <2>2, AllCounters
  <2>8. QED
    BY <2>3, <2>5, <2>6, <2>7
<1>5. c[m].parent \in Nat /\ c[n].parent \in Nat
  BY <1>1, AllCounters
<1>6. QED
  BY <1>2, <1>3, <1>4, <1>5

LEMMA CogTypes ==
  ASSUME NEW f \in Foreign, CogFile(f), Len(f) > 1
  PROVE  /\ Kinds(DirectoryTypes(f)) /\ DirectoryTypes(f)[1] = 0
         /\ DOMAIN DirectoryTypes(f) = DOMAIN f /\ Len(DirectoryTypes(f)) = Len(f)
         /\ \A n \in DOMAIN f : DirectoryTypes(f)[n] = f[n].type /\ Area(f[n]) \in Nat
<1>1. /\ Types(DirectoryTypes(f)) /\ Len(DirectoryTypes(f)) = Len(f)
      /\ DOMAIN f = 1 .. Len(f) /\ Len(f) \in Nat
      /\ \A n \in DOMAIN f : DirectoryTypes(f)[n] = f[n].type
  BY FileTypes
<1>2. DOMAIN DirectoryTypes(f) = DOMAIN f
  BY DEF DirectoryTypes
<1>3. f[1].type = 0 /\ 1 \in DOMAIN f
  BY <1>1 DEF CogFile
<1>4. ASSUME NEW n \in DOMAIN f
      PROVE  f[n].type \in {0, 1, 4, 5}
  <2>1. CASE n = 1
    BY <1>3, <2>1
  <2>2. CASE n # 1
    <3>1. n \in 2 .. Len(f)
      BY <1>1, <2>2
    <3>2. QED
      BY <3>1 DEF CogFile
  <2>3. QED
    BY <2>1, <2>2
<1>5. ASSUME NEW n \in DOMAIN f
      PROVE  Area(f[n]) \in Nat
  <2>1. f[n].rows \in Nat /\ f[n].cols \in Nat
    BY ForeignAssumption DEF IsDirectory, HasGeometry
  <2>2. QED
    BY <2>1, SMTT(10) DEF Area
<1>6. QED
  BY <1>1, <1>2, <1>3, <1>4, <1>5 DEF Kinds

\* Directory k before directory l of its image in COG order.
Falls(k, l) ==
    \/ ChildRank(k.type) < ChildRank(l.type)
    \/ ChildRank(k.type) = ChildRank(l.type) /\ Area(k) > Area(l)

LEMMA Between ==
  ASSUME NEW m \in Nat, NEW n \in Nat, m < n
  PROVE  \A d \in 0 .. n - m - 1 - 1 :
           /\ m + d + 2 \in m + 1 .. n /\ (m + d + 2) - 1 = m + d + 1 /\ m + (d + 1) + 1 = m + d + 2
           /\ d + 1 \in 0 .. n - m - 1 /\ m + d + 2 \in m .. n /\ (m + d + 2) - 1 \in m .. n
           /\ m \in m .. n
OBVIOUS

LEMMA CogFalls ==
  ASSUME NEW f \in Foreign, CogFile(f), Len(f) > 1,
         NEW m \in DOMAIN f, NEW n \in DOMAIN f, m < n,
         NoImage(DirectoryTypes(f), m - 1, n)
  PROVE  Falls(f[m], f[n])
<1>1. /\ DOMAIN f = 1 .. Len(f) /\ Len(f) \in Nat
      /\ \A k \in DOMAIN f : f[k].type \in {0, 1, 4, 5} /\ Area(f[k]) \in Nat
      /\ \A k \in m .. n : k \in DOMAIN f /\ f[k].type # 0
  <2>1. DOMAIN f = 1 .. Len(f) /\ Len(f) \in Nat
    BY FileTypes
  <2>2. \A k \in DOMAIN f : f[k].type \in {0, 1, 4, 5} /\ Area(f[k]) \in Nat
    BY CogTypes DEF Kinds
  <2>3. \A k \in m .. n : k \in DOMAIN f /\ k \in m - 1 + 1 .. n
    BY <2>1
  <2>4. \A k \in m .. n : f[k].type # 0
    BY <2>3, CogTypes DEF NoImage
  <2>5. QED
    BY <2>1, <2>2, <2>3, <2>4
<1>2. ASSUME NEW k \in m + 1 .. n
      PROVE  Falls(f[k - 1], f[k])
  <2>1. k \in m .. n /\ k - 1 \in m .. n /\ k \in 2 .. Len(f)
    BY <1>1
  <2>2. f[k].type \in {1, 4, 5} /\ f[k - 1].type \in {1, 4, 5}
    BY <1>1, <2>1
  <2>3. /\ f[k].type = 4 => f[k - 1].type = 0
        /\ f[k].type = 1 => f[k - 1].type \in {0, 4} \/ (f[k - 1].type = 1 /\ Area(f[k - 1]) > Area(f[k]))
        /\ f[k].type = 5 => f[k - 1].type = 1 \/ (f[k - 1].type = 5 /\ Area(f[k - 1]) > Area(f[k]))
    <3> DEFINE t == f[k].type
               b == f[k - 1].type
               larger == Area(f[k - 1]) > Area(f[k])
    <3>1. (CASE t = 0 -> TRUE
            [] t = 4 -> b = 0
            [] t = 1 -> b \in {0, 4} \/ (b = 1 /\ larger)
            [] t = 5 -> b = 1 \/ (b = 5 /\ larger)
            [] t \notin {0, 1, 4, 5} -> FALSE)
      BY <2>1, Zenon DEF CogFile, Area
    <3>2. t \in {1, 4, 5} /\ larger \in BOOLEAN
      BY <2>2
    <3> HIDE DEF t, b, larger
    <3>3. t = 4 => b = 0
      BY <3>1
    <3>4. t = 1 => b \in {0, 4} \/ (b = 1 /\ larger)
      BY <3>1, <3>2
    <3>5. t = 5 => b = 1 \/ (b = 5 /\ larger)
      BY <3>1, <3>2
    <3>6. QED
      BY <3>3, <3>4, <3>5 DEF t, b, larger
  <2>4. QED
    BY <2>2, <2>3 DEF Falls, ChildRank
<1>3. \A k \in DOMAIN f : ChildRank(f[k].type) \in Nat
  BY DEF ChildRank
<1> DEFINE S == {d \in 0 .. n - m - 1 : Falls(f[m], f[m + d + 1])}
<1>4. 0 \in S
  <2>1. m + 1 \in m + 1 .. n /\ (m + 1) - 1 = m /\ m + 0 + 1 = m + 1 /\ 0 \in 0 .. n - m - 1
    BY <1>1
  <2>2. QED
    BY <1>2, <2>1
<1>5. \A d \in 0 .. n - m - 1 - 1 :
        /\ m + d + 2 \in m + 1 .. n /\ (m + d + 2) - 1 = m + d + 1 /\ m + (d + 1) + 1 = m + d + 2
        /\ d + 1 \in 0 .. n - m - 1 /\ m + d + 2 \in m .. n /\ (m + d + 2) - 1 \in m .. n
        /\ m \in m .. n
  <2>1. m \in Nat /\ n \in Nat
    BY <1>1
  <2>2. QED
    BY <2>1, Between
<1>6. ASSUME NEW d \in 0 .. n - m - 1 - 1, d \in S
      PROVE  d + 1 \in S
  <2> DEFINE k == m + d + 2
  <2>1. /\ k \in m + 1 .. n /\ k - 1 = m + d + 1 /\ m + (d + 1) + 1 = k
        /\ d + 1 \in 0 .. n - m - 1 /\ k \in m .. n /\ k - 1 \in m .. n /\ m \in m .. n
    BY <1>5
  <2> HIDE DEF k
  <2>2. Falls(f[m], f[k - 1]) /\ Falls(f[k - 1], f[k])
    BY <1>2, <1>6, <2>1
  <2>3. /\ Area(f[m]) \in Nat /\ Area(f[k - 1]) \in Nat /\ Area(f[k]) \in Nat
        /\ ChildRank(f[m].type) \in Nat /\ ChildRank(f[k - 1].type) \in Nat
        /\ ChildRank(f[k].type) \in Nat
    BY <1>1, <1>3, <2>1
  <2>4. Falls(f[m], f[k])
    BY <2>2, <2>3 DEF Falls
  <2>5. QED
    BY <2>1, <2>4
<1>7. n - m - 1 \in S
  <2> HIDE DEF S
  <2> DEFINE e == n - m - 1
  <2>1. e \in Nat /\ \A d \in 0 .. e - 1 : d \in S => d + 1 \in S
    BY <1>1, <1>6
  <2> HIDE DEF e
  <2>2. \A d \in 0 .. e : d \in S
    BY <1>4, <2>1, SetInduction
  <2>3. QED
    BY <2>1, <2>2 DEF e
<1>8. m + (n - m - 1) + 1 = n
  BY <1>1
<1>9. QED
  BY <1>7, <1>8

\* What the reader has counted in a file of several pages in COG order.
CogRead(c) ==
    /\ file \in Foreign /\ CogFile(file) /\ Len(file) > 1
    /\ Counted(DirectoryTypes(file), c)
    /\ \A n \in DOMAIN file : IsPage(file[n].type, c[n - 1], Pages(file)[n])

\* A page that is added to a writer stays of its type and of its image.
LEMMA PageAssetIs ==
  ASSUME NEW c, CogRead(c), NEW n \in DOMAIN file
  PROVE  /\ IsAsset(PageAsset(n)) /\ PageAsset(n).of = file[n].of
         /\ Type(PageAsset(n)) = file[n].type /\ file[n].type \in {0, 1, 4, 5}
         /\ Image(PageAsset(n)) = c[n].parent
         /\ Area(PageAsset(n)) = Area(file[n])
<1> DEFINE types == DirectoryTypes(file)
           a == PageAsset(n)
           page == Pages(file)[n]
<1>1. /\ Kinds(types) /\ types[1] = 0 /\ DOMAIN types = DOMAIN file /\ types[n] = file[n].type
      /\ Counted(types, c) /\ IsPage(file[n].type, c[n - 1], page)
      /\ file[n].type \in {0, 1, 4, 5}
  BY CogTypes DEF CogRead, Kinds
<1>2. /\ a.key = page.key /\ a.roles = page.roles
      /\ a.of = file[n].of /\ a.rows = file[n].rows /\ a.cols = file[n].cols
  BY DEF PageAsset
<1>3. IsAsset(a)
  BY PageAssetIsAsset DEF CogRead
<1> HIDE DEF types, a, page
<1>4. c[n - 1] \in Counters /\ c[n] \in Counters /\ Counts(file[n].type, c[n - 1], c[n])
  BY <1>1, CountStep
<1>5. c[n].seen
  <2>1. n <= n
    BY <1>1 DEF Kinds, Types
  <2>2. QED
    BY <1>1, <2>1, ParentsRise
<1>6. file[n].type # 0 => c[n - 1].seen
  BY <1>4, <1>5 DEF Counts
<1>7. /\ page.key.overview = IF file[n].type = 1 THEN c[n - 1].overview
                             ELSE IF file[n].type = 5 /\ c[n - 1].seen THEN c[n - 1].mask ELSE 0
      /\ page.key.image = IF file[n].type = 0 \/ (file[n].type \in {4, 5} /\ ~c[n - 1].seen)
                          THEN c[n - 1].segment ELSE c[n - 1].parent
  BY <1>1, <1>4, PageFields
<1>8. page.key.mask = (file[n].type \in {4, 5})
  BY <1>1, <1>4, PageFields
<1>9. Image(a) = c[n].parent
  BY <1>1, <1>2, <1>4, <1>6, <1>7 DEF Image, Counts
<1>10. Area(a) = Area(file[n])
  BY <1>2 DEF Area
<1>11. Type(a) = file[n].type
  <2> DEFINE t == file[n].type
  <2>1. t \in {0, 1, 4, 5}
    BY <1>1
  <2>2. page.roles = IF t = 0 THEN {"data"}
                     ELSE (IF t \in {1, 5} THEN {"overview"} ELSE {})
                            \cup (IF t \in {4, 5} THEN {"mask"} ELSE {})
    BY <1>1 DEF IsPage
  <2>3. page.key.overview > 0 <=> t \in {1, 5}
    <3>1. c[n - 1].overview \in Nat \ {0} /\ c[n - 1].mask \in Nat \ {0}
      BY <1>4 DEF Counters
    <3>2. QED
      BY <1>6, <1>7, <2>1, <3>1
  <2>4. page.key.mask <=> t \in {4, 5}
    BY <1>8
  <2>5. /\ "overview" \in page.roles <=> t \in {1, 5}
        /\ "mask" \in page.roles <=> t \in {4, 5}
    <3> HIDE DEF t
    <3>1. QED
      BY <2>1, <2>2
  <2>6. Type(a) = (IF "overview" \in page.roles \/ page.key.overview > 0 THEN 1 ELSE 0)
                    + (IF "mask" \in page.roles \/ page.key.mask THEN 4 ELSE 0)
    BY <1>2, Zenon DEF Type, SubfileType
  <2> HIDE DEF t
  <2>7. Type(a) = (IF t \in {1, 5} THEN 1 ELSE 0) + (IF t \in {4, 5} THEN 4 ELSE 0)
    BY <2>3, <2>4, <2>5, <2>6, Zenon
  <2>8. QED
    BY <2>1, <2>7 DEF t
<1>12. QED
  BY <1>1, <1>2, <1>3, <1>9, <1>10, <1>11 DEF a

\* p says where in the sorted queue q the pages of the open file are; the images
\* were queued in their order.
Copied(q, p) ==
    /\ Queue(q) /\ Sorted(q)
    /\ p \in [DOMAIN file -> DOMAIN q]
    /\ \A n \in DOMAIN file : q[p[n]] = PageAsset(n)
    /\ \A i, j \in FullRes(q) : i < j => Image(q[i]) < Image(q[j])

LEMMA CopyRises ==
  ASSUME NEW c, CogRead(c), NEW q, NEW p, Copied(q, p),
         NEW m \in DOMAIN file, NEW n \in DOMAIN file, m < n
  PROVE  p[m] < p[n]
<1> DEFINE types == DirectoryTypes(file)
<1>1. /\ Kinds(types) /\ types[1] = 0 /\ DOMAIN types = DOMAIN file /\ Counted(types, c)
      /\ \A k \in DOMAIN file : types[k] = file[k].type /\ Area(file[k]) \in Nat
      /\ DOMAIN file = 1 .. Len(file) /\ Len(file) \in Nat /\ file \in Foreign
      /\ Len(types) = Len(file)
  BY CogTypes, FileTypes DEF CogRead
<1>2. /\ Queue(q) /\ Sorted(q) /\ DOMAIN q = 1 .. Len(q) /\ Len(q) \in Nat
  BY DEF Copied, Queue
<1>3. \A k \in DOMAIN file :
        /\ p[k] \in DOMAIN q /\ p[k] \in Nat
        /\ Type(q[p[k]]) = types[k] /\ types[k] \in {0, 1, 4, 5}
        /\ Image(q[p[k]]) = c[k].parent /\ Area(q[p[k]]) = Area(file[k])
  <2> TAKE k \in DOMAIN file
  <2>1. p[k] \in DOMAIN q /\ q[p[k]] = PageAsset(k)
    BY DEF Copied
  <2>2. /\ Type(PageAsset(k)) = file[k].type /\ file[k].type \in {0, 1, 4, 5}
        /\ Image(PageAsset(k)) = c[k].parent /\ Area(PageAsset(k)) = Area(file[k])
    BY PageAssetIs
  <2> HIDE DEF types
  <2>3. QED
    BY <1>1, <1>2, <2>1, <2>2
<1>4. \A k, l \in DOMAIN file : k <= l =>
        /\ c[k].parent \in Nat /\ c[l].parent \in Nat
        /\ NoImage(types, k, l) => c[k].parent = c[l].parent
        /\ ~NoImage(types, k, l) => c[k].parent < c[l].parent
  <2> TAKE k \in DOMAIN file, l \in DOMAIN file
  <2> HAVE k <= l
  <2> HIDE DEF types
  <2>1. /\ Counted(types, c) /\ types[1] = 0
        /\ k \in DOMAIN types /\ l \in DOMAIN types
    BY <1>1
  <2>2. QED
    BY <2>1, ParentsRise
<1> HIDE DEF types
<1>5. m \in Nat /\ n \in Nat /\ m <= n
  <2>1. DOMAIN file = 1 .. Len(file) /\ Len(file) \in Nat
    BY <1>1
  <2>2. QED
    BY <2>1
<1>6. CASE NoImage(types, m, n)
  <2>1. Image(q[p[m]]) = Image(q[p[n]])
    BY <1>3, <1>4, <1>5, <1>6
  <2>2. types[n] # 0
    BY <1>5, <1>6 DEF NoImage
  <2>3. CASE types[m] = 0
    <3>1. ~(p[n] < p[m])
      BY <1>2, <1>3, <2>1, <2>3 DEF Sorted
    <3>2. p[m] # p[n]
      <4>1. Type(q[p[m]]) # Type(q[p[n]])
        BY <1>3, <2>2, <2>3
      <4>2. QED
        BY <4>1
    <3>3. QED
      BY <1>3, <3>1, <3>2
  <2>4. CASE types[m] # 0
    <3>1. NoImage(types, m - 1, n)
      <4>1. \A k \in m - 1 + 1 .. n : k = m \/ k \in m + 1 .. n
        BY <1>5
      <4>2. QED
        BY <1>6, <2>4, <4>1 DEF NoImage
    <3>2. Falls(file[m], file[n])
      BY <3>1, CogFalls DEF CogRead, types
    <3>3. /\ ChildRank(types[m]) \in Nat /\ ChildRank(types[n]) \in Nat
          /\ Area(file[m]) \in Nat /\ Area(file[n]) \in Nat
      BY <1>1 DEF ChildRank
    <3>4. \/ ChildRank(types[m]) < ChildRank(types[n])
          \/ ChildRank(types[m]) = ChildRank(types[n]) /\ Area(file[m]) > Area(file[n])
      BY <1>1, <3>2 DEF Falls
    <3>5. ~(p[n] < p[m])
      <4> SUFFICES ASSUME p[n] < p[m]
                   PROVE  FALSE
        OBVIOUS
      <4>1. Type(q[p[n]]) # 0
        BY <1>3, <2>2
      <4>2. /\ ChildRank(Type(q[p[n]])) <= ChildRank(Type(q[p[m]]))
            /\ ChildRank(Type(q[p[n]])) = ChildRank(Type(q[p[m]])) => Area(q[p[n]]) >= Area(q[p[m]])
        BY <1>2, <1>3, <2>1, <4>1 DEF Sorted
      <4>3. /\ ChildRank(types[n]) <= ChildRank(types[m])
            /\ ChildRank(types[n]) = ChildRank(types[m]) => Area(file[n]) >= Area(file[m])
        BY <1>3, <4>2
      <4>4. QED
        BY <3>3, <3>4, <4>3
    <3>6. p[m] # p[n]
      <4> SUFFICES ASSUME p[m] = p[n]
                   PROVE  FALSE
        OBVIOUS
      <4>1. types[m] = types[n] /\ Area(file[m]) = Area(file[n])
        BY <1>3
      <4>2. QED
        BY <3>3, <3>4, <4>1
    <3>7. QED
      BY <1>3, <3>5, <3>6
  <2>5. QED
    BY <2>3, <2>4
<1>7. CASE ~NoImage(types, m, n)
  <2>1. PICK h \in DOMAIN file : h <= m /\ types[h] = 0 /\ NoImage(types, h, m)
    BY <1>1, LastImage
  <2>2. PICK l \in DOMAIN file : l <= n /\ types[l] = 0 /\ NoImage(types, l, n)
    BY <1>1, LastImage
  <2>3. /\ Image(q[p[h]]) = Image(q[p[m]]) /\ Image(q[p[l]]) = Image(q[p[n]])
        /\ Image(q[p[m]]) < Image(q[p[n]])
        /\ Image(q[p[m]]) \in Nat /\ Image(q[p[n]]) \in Nat
    BY <1>3, <1>4, <1>5, <1>7, <2>1, <2>2
  <2>4. p[h] \in FullRes(q) /\ p[l] \in FullRes(q)
    BY <1>3, <2>1, <2>2 DEF FullRes, Type
  <2>5. p[h] < p[l]
    <3>1. p[l] < p[h] => Image(q[p[l]]) < Image(q[p[h]])
      BY <2>4 DEF Copied
    <3>2. p[l] # p[h]
      <4>1. Image(q[p[l]]) # Image(q[p[h]])
        BY <2>3
      <4>2. QED
        BY <4>1
    <3>3. QED
      BY <1>3, <2>3, <3>1, <3>2
  <2>6. p[l] <= p[n]
    <3>1. ~(p[n] < p[l])
      BY <1>2, <1>3, <2>2, <2>3 DEF Sorted
    <3>2. QED
      BY <1>3, <3>1
  <2>7. ~(p[n] < p[m])
    <3> SUFFICES ASSUME p[n] < p[m]
                 PROVE  FALSE
      OBVIOUS
    <3>1. p[h] < p[m] /\ p[n] \in p[h] .. p[m]
      BY <1>3, <2>5, <2>6
    <3>2. Image(q[p[n]]) = Image(q[p[h]])
      BY <1>2, <1>3, <2>3, <3>1 DEF Sorted
    <3>3. QED
      BY <2>3, <3>2
  <2>8. p[m] # p[n]
    <3>1. Image(q[p[m]]) # Image(q[p[n]])
      BY <2>3
    <3>2. QED
      BY <3>1
  <2>9. QED
    BY <1>3, <2>7, <2>8
<1>8. QED
  BY <1>6, <1>7

\* All files of one directory are read alike.
LEMMA LoneFile ==
  ASSUME NEW types, Types(types), Len(types) = 1, NEW other, Types(other), Len(other) = 1
  PROVE  Classify(types) = Classify(other)
<1> DEFINE Only == [n \in {1} |-> [key |-> [image |-> 0, overview |-> 0, mask |-> FALSE],
                                  roles |-> {"data"}]]
<1>1. ASSUME NEW t, Types(t), Len(t) = 1
      PROVE  Classify(t) = Only
  <2>1. PICK c : Classify(t) =
                   [n \in DOMAIN t |-> [key |-> PageKey(t[n], Len(t) = 1, c[n - 1]),
                                        roles |-> PageRoles(t[n], Len(t) = 1)]]
    BY <1>1, CountersExist
  <2>2. /\ DOMAIN Classify(t) = {1}
        /\ Classify(t)[1].key = [image |-> 0, overview |-> 0, mask |-> FALSE]
        /\ Classify(t)[1].roles = {"data"}
    BY <1>1, LonePage
  <2>3. Classify(t)[1] = [key |-> Classify(t)[1].key, roles |-> Classify(t)[1].roles]
    <3>1. 1 \in DOMAIN t
      BY <2>1, <2>2
    <3>2. QED
      BY <2>1, <3>1
  <2>4. Classify(t) = [n \in {1} |-> Classify(t)[n]]
    BY <2>1, <2>2
  <2>5. QED
    BY <2>2, <2>3, <2>4
<1>2. QED
  BY <1>1

\* A file whose pages all stand in the queue, at their places and of their
\* types, is read back as it was.
LEMMA SamePlaces ==
  ASSUME NEW q, Queue(q), NEW f, Directories(q, f), file \in Foreign, Len(q) = Len(file),
         \A n \in DOMAIN file : q[n] = PageAsset(n) /\ Type(q[n]) = file[n].type
  PROVE  Pages(f) = Pages(file) /\ \A n \in DOMAIN file : f[n].of = file[n].of
<1>1. DOMAIN q = DOMAIN file
  BY FileTypes DEF Queue
<1>2. QueueTypes(q) = DirectoryTypes(file)
  BY <1>1 DEF QueueTypes, DirectoryTypes
<1>3. Pages(f) = Pages(file)
  BY <1>2, TypesWritten DEF Pages
<1>4. ASSUME NEW n \in DOMAIN file
      PROVE  f[n].of = file[n].of
  <2>1. f[n].of = q[n].of
    BY <1>1, TypesWritten
  <2>2. PageAsset(n).of = file[n].of
    BY DEF PageAsset
  <2>3. q[n] = PageAsset(n)
    OBVIOUS
  <2>4. QED
    BY <2>1, <2>2, <2>3
<1>5. QED
  BY <1>3, <1>4

\* When all pages of a file in COG order are copied, its images in their order and
\* the rest in any, they are found again under their keys, in their order, with
\* their roles (new_subfile_type_for_asset, sort_assets_for_cog and from_buffer).
THEOREM CopiesComeBack == Spec => []CopyKeepsPages
<1>1. ASSUME NEW q, Queue(q), Sorted(q), NEW f, Directories(q, f), file \in Foreign, CogFile(file),
             Len(q) = Len(file),
             \A n \in DOMAIN file : \E i \in DOMAIN q : q[i] = PageAsset(n),
             \A i, j \in FullRes(q) : i < j => q[i].key.image < q[j].key.image
      PROVE  Pages(f) = Pages(file) /\ \A n \in DOMAIN file : f[n].of = file[n].of
  <2>1. DOMAIN file = 1 .. Len(file) /\ Len(file) \in Nat /\ DOMAIN q = DOMAIN file
    BY <1>1, FileTypes DEF Queue
  <2>2. CASE Len(file) = 0
    <3>1. \A n \in DOMAIN file : FALSE
      BY <2>1, <2>2
    <3>2. QED
      BY <1>1, <3>1, SamePlaces
  <2>3. CASE Len(file) = 1
    <3>1. DOMAIN file = {1}
      BY <2>1, <2>3
    <3>2. q[1] = PageAsset(1)
      BY <1>1, <2>1, <3>1
    <3>3. Types(DirectoryTypes(file)) /\ Len(DirectoryTypes(file)) = 1
      BY <1>1, <2>3, FileTypes
    <3>4. Types(DirectoryTypes(f)) /\ Len(DirectoryTypes(f)) = 1
      BY <1>1, <2>3, TypesWritten, TypesOfQueue DEF Kinds
    <3>5. f[1].of = file[1].of
      <4>1. f[1].of = q[1].of
        BY <1>1, <2>1, <3>1, TypesWritten
      <4>2. QED
        BY <3>2, <4>1 DEF PageAsset
    <3>6. Pages(f) = Pages(file)
      BY <3>3, <3>4, LoneFile DEF Pages
    <3>7. QED
      BY <3>1, <3>5, <3>6
  <2>4. CASE Len(file) > 1
    <3>1. PICK c : CogRead(c)
      <4>1. /\ Kinds(DirectoryTypes(file)) /\ Len(DirectoryTypes(file)) # 1
            /\ \A n \in DOMAIN file : DirectoryTypes(file)[n] = file[n].type
            /\ DOMAIN DirectoryTypes(file) = DOMAIN file
        <5>1. Len(DirectoryTypes(file)) = Len(file) /\ Len(file) # 1
          BY <1>1, <2>1, <2>4, CogTypes
        <5>2. /\ Kinds(DirectoryTypes(file))
              /\ \A n \in DOMAIN file : DirectoryTypes(file)[n] = file[n].type
              /\ DOMAIN DirectoryTypes(file) = DOMAIN file
          BY <1>1, <2>4, CogTypes
        <5>3. QED
          BY <5>1, <5>2
      <4>2. PICK c : /\ Counted(DirectoryTypes(file), c)
                     /\ \A n \in DOMAIN DirectoryTypes(file) :
                          IsPage(DirectoryTypes(file)[n], c[n - 1], Classify(DirectoryTypes(file))[n])
        BY <4>1, PagesOfTypes
      <4>3. QED
        BY <1>1, <2>4, <4>1, <4>2 DEF CogRead, Pages
    <3> DEFINE p == [n \in DOMAIN file |-> CHOOSE i \in DOMAIN q : q[i] = PageAsset(n)]
    <3>2. \A n \in DOMAIN file : p[n] \in DOMAIN q /\ q[p[n]] = PageAsset(n)
      BY <1>1
    <3>3. p \in [DOMAIN file -> DOMAIN q]
      BY <3>2
    <3> HIDE DEF p
    <3>4. Copied(q, p)
      BY <1>1, <3>2, <3>3 DEF Copied, Image
    <3>5. \A m, n \in DOMAIN file : m < n => p[m] < p[n]
      BY <3>1, <3>4, CopyRises
    <3>6. \A n \in DOMAIN file : p[n] = n
      <4> DEFINE N == Len(file)
      <4>1. N \in Nat /\ p \in [1 .. N -> 1 .. N] /\ \A m, n \in 1 .. N : m < n => p[m] < p[n]
        BY <2>1, <3>3, <3>5
      <4> HIDE DEF N
      <4>2. \A n \in 1 .. N : p[n] = n
        BY <4>1, RisingIsIdentity
      <4>3. QED
        BY <2>1, <4>2 DEF N
    <3>7. \A n \in DOMAIN file : q[n] = PageAsset(n)
      BY <3>2, <3>6
    <3>8. \A n \in DOMAIN file : Type(q[n]) = file[n].type
      BY <3>1, <3>7, PageAssetIs
    <3>9. QED
      BY <1>1, <3>7, <3>8, SamePlaces
  <2>5. QED
    BY <2>1, <2>2, <2>3, <2>4
<1>2. IInv /\ WriterInv => CopyKeepsPages
  <2> SUFFICES ASSUME IInv, WriterInv, closed, CogFile(file), Len(queue) = Len(file),
                      \A n \in DOMAIN file : \E i \in DOMAIN queue : queue[i] = PageAsset(n),
                      \A i, j \in FullRes(queue) : i < j => queue[i].key.image < queue[j].key.image
               PROVE  /\ PagesWritten = Pages(file)
                      /\ \A n \in DOMAIN file : written[n].of = file[n].of
    BY DEF CopyKeepsPages
  <2>1. Queue(queue) /\ Sorted(queue) /\ Directories(queue, written)
    BY DEF WriterInv, Directories
  <2>2. file \in Foreign
    BY DEF IInv, ReadTypeOK
  <2>3. QED
    BY <1>1, <2>1, <2>2 DEF PagesWritten
<1>3. QED
  BY <1>2, Invariant, WriterInvariant, PTL
=============================================================================
