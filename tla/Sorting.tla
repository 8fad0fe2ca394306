------------------------------ MODULE Sorting --------------------------------
(***************************************************************************)
(* Sorting a vector by a key and filtering it: what slice::sort_by_key and *)
(* Iterator::filter do, without the steps they take.  An order is a set of *)
(* pairs <<x, y>>, x before y.                                             *)
(***************************************************************************)
EXTENDS Integers, FiniteSets

\* How many elements of S come before x.
Rank(S, before, x) == Cardinality({y \in S : <<y, x>> \in before})

\* The elements of a finite set as a sequence in that order.
Arranged(S, before) ==
  [k \in 1 .. Cardinality(S) |-> CHOOSE x \in S : Rank(S, before, x) = k - 1]

\* Positions by rising key, and those of one key as they were: the sort is stable.
ByKey(keys) ==
  {p \in (DOMAIN keys) \X (DOMAIN keys) :
     \/ keys[p[1]] < keys[p[2]]
     \/ keys[p[1]] = keys[p[2]] /\ p[1] < p[2]}

SortedBy(keys, seq) ==
  LET order == Arranged(DOMAIN keys, ByKey(keys))
  IN  [k \in DOMAIN seq |-> seq[order[k]]]

\* A finite set of numbers from the least to the greatest.
Ascending(D) == Arranged(D, {p \in D \X D : p[1] < p[2]})

\* The elements that stand at some positions, in their order.
Picked(seq, D) == [k \in 1 .. Cardinality(D) |-> seq[Ascending(D)[k]]]
=============================================================================
