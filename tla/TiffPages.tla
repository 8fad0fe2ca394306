------------------------------ MODULE TiffPages ------------------------------
(***************************************************************************)
(* Which page of a TIFF file is which image.  The writer says it with the  *)
(* order of the directories and one number in each, NewSubfileType         *)
(* (src/tiff/writer.rs); the reader has to find keys and roles again from  *)
(* these (src/tiff/reader.rs).                                             *)
(*                                                                         *)
(* A key image:N, image:N:overview:M or either with :mask behind it is the *)
(* record [image, overview, mask]; overview 0 stands for none.             *)
(***************************************************************************)
EXTENDS Integers, Sequences, FiniteSets, Sorting

Key(image, overview, mask) ==
    [image |-> image, overview |-> overview, mask |-> mask]

-----------------------------------------------------------------------------
(* The writer.                                                             *)

\* new_subfile_type_for_asset: bit 0 an overview, bit 2 a mask.
SubfileType(asset) ==
    (IF "overview" \in asset.roles \/ asset.key.overview > 0 THEN 1 ELSE 0)
      + (IF "mask" \in asset.roles \/ asset.key.mask THEN 4 ELSE 0)

ParentKey(key) == Key(key.image, 0, FALSE)

\* Faulty variant: the mask of an overview may come before the overview.
ChildRankTwo(type) ==
    CASE type = 4 -> 0
      [] type # 4 -> 1

ChildRank(type) ==
    CASE type = 4 -> 0
      [] type = 1 -> 1
      [] type \notin {1, 4} -> 2

FullRes(queue) == {i \in DOMAIN queue : SubfileType(queue[i]) = 0}

Parents(queue, i) == {p \in FullRes(queue) : queue[p].key = ParentKey(queue[i].key)}

\* The parents that children name and that are not among the assets.
Orphaned(queue) ==
    {ParentKey(queue[i].key) :
        i \in {c \in DOMAIN queue \ FullRes(queue) : Parents(queue, c) = {}}}

\* Faulty variant: the smallest overview comes first.
SortKeyRising(queue, groups, i) ==
    LET area == queue[i].rows * queue[i].cols
    IN  IF i \in FullRes(queue)
          THEN <<i, 0, 0, i>>
          ELSE <<IF Parents(queue, i) # {}
                   THEN CHOOSE p \in Parents(queue, i) : TRUE
                   ELSE Len(queue) + groups[ParentKey(queue[i].key)],
                 1 + ChildRank(SubfileType(queue[i])), area, i>>

\* Images in their order, children behind theirs by rank and falling area,
\* groups without an image at the end, in the order of a hash map.
SortKey(queue, groups, i) ==
    LET area == queue[i].rows * queue[i].cols
    IN  IF i \in FullRes(queue)
          THEN <<i, 0, 0, i>>
          ELSE <<IF Parents(queue, i) # {}
                   THEN CHOOSE p \in Parents(queue, i) : TRUE
                   ELSE Len(queue) + groups[ParentKey(queue[i].key)],
                 1 + ChildRank(SubfileType(queue[i])), -area, i>>

Precedes(k, l) ==
    \E n \in DOMAIN k : k[n] < l[n] /\ \A m \in 1 .. n - 1 : k[m] = l[m]

CogOrder(queue, groups) ==
    LET keys == [i \in DOMAIN queue |-> SortKey(queue, groups, i)]
        sooner == {p \in (DOMAIN queue) \X (DOMAIN queue) : Precedes(keys[p[1]], keys[p[2]])}
        order == Arranged(DOMAIN queue, sooner)
    IN  [n \in DOMAIN queue |-> queue[order[n]]]

CogOrders(queue) ==
    LET names == Orphaned(queue)
        orders == {g \in [names -> 1 .. Cardinality(names)] :
                     \A p, q \in names : g[p] = g[q] => p = q}
    IN  {CogOrder(queue, groups) : groups \in orders}

-----------------------------------------------------------------------------
(* The reader.                                                             *)

IsReduced(type) == type % 2 = 1
IsMask(type)    == (type \div 4) % 2 = 1

\* What from_buffer carries from one directory to the next; seen says that
\* there was a full-resolution image, whose number is parent.
FirstCounters ==
    [segment |-> 0, parent |-> 0, overview |-> 1, mask |-> 1, seen |-> FALSE]

\* Faulty variant: a mask goes to the overview read last.
PageKeyOfLast(type, single, c) ==
    CASE single \/ (~IsMask(type) /\ ~IsReduced(type)) -> Key(c.segment, 0, FALSE)
      [] ~single /\ IsMask(type) /\ ~c.seen -> Key(c.segment, 0, TRUE)
      [] ~single /\ IsMask(type) /\ c.seen -> Key(c.parent, c.overview - 1, TRUE)
      [] ~single /\ ~IsMask(type) /\ IsReduced(type) -> Key(c.parent, c.overview, FALSE)

PageKey(type, single, c) ==
    CASE single \/ (~IsMask(type) /\ ~IsReduced(type)) -> Key(c.segment, 0, FALSE)
      [] ~single /\ IsMask(type) /\ ~c.seen -> Key(c.segment, 0, TRUE)
      [] ~single /\ IsMask(type) /\ c.seen /\ IsReduced(type) -> Key(c.parent, c.mask, TRUE)
      [] ~single /\ IsMask(type) /\ c.seen /\ ~IsReduced(type) -> Key(c.parent, 0, TRUE)
      [] ~single /\ ~IsMask(type) /\ IsReduced(type) -> Key(c.parent, c.overview, FALSE)

PageRoles(type, single) ==
    IF single \/ (~IsMask(type) /\ ~IsReduced(type))
      THEN {"data"}
      ELSE (IF IsReduced(type) THEN {"overview"} ELSE {})
             \cup (IF IsMask(type) THEN {"mask"} ELSE {})

\* Faulty variant: a new image does not become the parent of what follows.
CountKeepingParent(type, single, c) ==
    CASE single \/ (~IsMask(type) /\ ~IsReduced(type)) ->
            [c EXCEPT !.segment = @ + 1, !.seen = TRUE, !.overview = 1, !.mask = 1]
      [] ~single /\ IsMask(type) /\ ~c.seen -> [c EXCEPT !.segment = @ + 1]
      [] ~single /\ IsMask(type) /\ c.seen -> [c EXCEPT !.mask = @ + (type % 2)]
      [] ~single /\ ~IsMask(type) /\ IsReduced(type) -> [c EXCEPT !.overview = @ + 1]

Count(type, single, c) ==
    CASE single \/ (~IsMask(type) /\ ~IsReduced(type)) ->
            [segment |-> c.segment + 1, parent |-> c.segment, seen |-> TRUE,
             overview |-> 1, mask |-> 1]
      [] ~single /\ IsMask(type) /\ ~c.seen -> [c EXCEPT !.segment = @ + 1]
      [] ~single /\ IsMask(type) /\ c.seen -> [c EXCEPT !.mask = @ + (type % 2)]
      [] ~single /\ ~IsMask(type) /\ IsReduced(type) -> [c EXCEPT !.overview = @ + 1]

\* Key and roles of each page, from the types of all of them.
Classify(types) ==
    LET single == Len(types) = 1
        counters[n \in 0 .. Len(types)] ==
          IF n = 0 THEN FirstCounters ELSE Count(types[n], single, counters[n - 1])
    IN  [n \in DOMAIN types |->
           [key |-> PageKey(types[n], single, counters[n - 1]),
            roles |-> PageRoles(types[n], single)]]
=============================================================================
