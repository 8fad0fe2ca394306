----------------------------- MODULE RangeCache ------------------------------
(***************************************************************************)
(* The resident-range cache of src/remote/cache.rs and the coalescing of   *)
(* planned ranges in src/remote/fetcher.rs, as the algorithms the code     *)
(* runs: a Vec of ranges sorted by start, merged in a single pass on every *)
(* insert, and a sort-and-sweep over the planned ranges.                   *)
(*                                                                         *)
(* The state machine is the cache as the fetcher drives it: read_ranges    *)
(* collects planned ranges one by one, and a fill inserts the coalesced    *)
(* spans in order.  Fills carry arbitrary bytes, so that which of two      *)
(* overlapping ranges wins is visible.                                     *)
(***************************************************************************)
EXTENDS Integers, SequencesExt, Sorting

CONSTANTS
  Size,        \* length of the source
  Byte,        \* the byte values a fetch may deliver
  Zero,        \* the byte a merge pre-fills its buffer with
  Absent,      \* not a byte
  MaxPlanned   \* bound on the planned ranges of one batch

ASSUME SizeAssumption == Size \in Nat \ {0}
ASSUME ByteAssumption == Zero \notin Byte /\ Absent \notin Byte \cup {Zero}
ASSUME PlannedAssumption == MaxPlanned \in Nat

VARIABLES
  ranges,      \* RangeCache.ranges: a sequence of [start, data]
  planned      \* the ranges collected so far for the next batched fetch

vars == <<ranges, planned>>

Offsets == 0 .. Size - 1

\* Half-open ranges, empty ones included: Range<u64>.
Extents == {r \in [start : 0 .. Size, end : 0 .. Size] : r.start <= r.end}

-----------------------------------------------------------------------------
(* CachedRange *)

End(r) == r.start + Len(r.data)

Covers(r, start, end) == r.start <= start /\ end <= End(r)

ByteAt(r, p) == r.data[p - r.start + 1]

HasByte(r, p) == r.start <= p /\ p < End(r)

\* Faulty variant: the adjacency test written without equality: ranges that only abut are not
\* merged.
RangesOverlapOnly(a, b) == a.start < End(b) /\ b.start < End(a)

RangesTouch(a, b) == a.start <= End(b) /\ b.start <= End(a)

\* Faulty variant: the swapped order: the new bytes overwrite the resident ones.
MergeNewWins(a, b) ==
  LET start == IF a.start < b.start THEN a.start ELSE b.start
      end   == IF End(a) > End(b) THEN End(a) ELSE End(b)
  IN  [start |-> start,
       data  |-> [i \in 1 .. end - start |->
                    LET p == start + i - 1
                    IN  IF HasByte(b, p) THEN ByteAt(b, p)
                        ELSE IF HasByte(a, p) THEN ByteAt(a, p) ELSE Zero]]

\* b is laid down first, then a, in a zeroed buffer that spans both.
Merge(a, b) ==
  LET start == IF a.start < b.start THEN a.start ELSE b.start
      end   == IF End(a) > End(b) THEN End(a) ELSE End(b)
  IN  [start |-> start,
       data  |-> [i \in 1 .. end - start |->
                    LET p == start + i - 1
                    IN  IF HasByte(a, p) THEN ByteAt(a, p)
                        ELSE IF HasByte(b, p) THEN ByteAt(b, p) ELSE Zero]]

-----------------------------------------------------------------------------
(* RangeCache *)

\* One pass over the resident ranges: a range that touches the growing new one
\* is absorbed, any other is kept.  A kept range is not looked at again.
Absorb(acc, existing) ==
  IF RangesTouch(existing, acc.new)
    THEN [acc EXCEPT !.new = Merge(existing, acc.new)]
    ELSE [acc EXCEPT !.kept = Append(@, existing)]

Swept(c, start, data) ==
  LET pass[i \in 0 .. Len(c)] ==
        IF i = 0 THEN [new |-> [start |-> start, data |-> data], kept |-> <<>>]
                 ELSE Absorb(pass[i - 1], c[i])
  IN  pass[Len(c)]

\* The positions that remain of a vector, sorted by the start of what is there.
ByStart(s, positions) == Arranged(positions, ByKey([i \in DOMAIN s |-> s[i].start]))

\* Faulty variant: the merged range stays at the back, where the pass pushed it.
CacheInsertUnsorted(c, start, data) ==
  IF data = <<>> THEN c
  ELSE Append(Swept(c, start, data).kept, Swept(c, start, data).new)

CacheInsert(c, start, data) ==
  IF data = <<>> THEN c
  ELSE LET swept == Swept(c, start, data)
           merged == Append(swept.kept, swept.new)
           order == ByStart(merged, DOMAIN merged)
       IN  [k \in DOMAIN order |-> merged[order[k]]]

CacheContains(c, offset, len) ==
  len = 0 \/ \E i \in DOMAIN c : Covers(c[i], offset, offset + len)

\* The bytes of the first range that covers the request; only meaningful when
\* CacheContains holds.
CacheGet(c, offset, len) ==
  IF len = 0 THEN <<>>
  ELSE LET r == c[SelectInSeq(c, LAMBDA x : Covers(x, offset, offset + len))]
       IN  [i \in 1 .. len |-> ByteAt(r, offset + i - 1)]

-----------------------------------------------------------------------------
(* coalesce *)

\* Faulty variant: the sweep takes the end of the later range instead of the larger end.
SweepLastEnd(merged, r) ==
  IF merged # <<>> /\ r.start <= Last(merged).end
    THEN [merged EXCEPT ![Len(merged)].end = r.end]
    ELSE Append(merged, r)

Sweep(merged, r) ==
  IF merged # <<>> /\ r.start <= Last(merged).end
    THEN [merged EXCEPT ![Len(merged)].end = IF @ > r.end THEN @ ELSE r.end]
    ELSE Append(merged, r)

\* retain and sort_by_key, then the sweep.
Coalesce(plan) ==
  LET order == ByStart(plan, {i \in DOMAIN plan : plan[i].end > plan[i].start})
      merged[i \in 0 .. Len(order)] ==
        IF i = 0 THEN <<>> ELSE Sweep(merged[i - 1], plan[order[i]])
  IN  merged[Len(order)]

-----------------------------------------------------------------------------
(* The cache in use *)

Init == ranges = <<>> /\ planned = <<>>

PlanRange(r) ==
  /\ Len(planned) < MaxPlanned
  /\ planned' = Append(planned, r)
  /\ UNCHANGED ranges

\* fill_cache: the fetched spans are inserted in the order of the plan.
Filled(c, spans, v) ==
  LET filled[i \in 0 .. Len(spans)] ==
        IF i = 0 THEN c
        ELSE CacheInsert(filled[i - 1], spans[i].start,
                         [k \in 1 .. spans[i].end - spans[i].start |-> v])
  IN  filled[Len(spans)]

FillCache(v) ==
  /\ planned # <<>>
  /\ ranges' = Filled(ranges, Coalesce(planned), v)
  /\ planned' = <<>>

Next ==
  \/ \E r \in Extents : PlanRange(r)
  \/ \E v \in Byte : FillCache(v)

Spec == Init /\ [][Next]_vars

-----------------------------------------------------------------------------
(* Properties *)

\* The byte the cache holds for an offset, over all ranges.
ResidentMap ==
  [p \in Offsets |->
     IF \E i \in DOMAIN ranges : HasByte(ranges[i], p)
       THEN ByteAt(ranges[SelectInSeq(ranges, LAMBDA x : HasByte(x, p))], p)
       ELSE Absent]

\* cache.rs, insert and ranges_touch: the resident ranges are non-empty, sorted
\* and a gap separates any two of them.  The single pass of insert relies on
\* it, because a kept range is never compared with the grown new one.
Separated ==
  /\ \A i \in DOMAIN ranges : ranges[i].data # <<>>
  /\ \A i, j \in DOMAIN ranges : i < j => End(ranges[i]) < ranges[j].start

\* cache.rs, get and contains look for one range that covers the request: they
\* answer every request whose bytes are all resident, whatever sequence of fills
\* brought them, and no other, with those bytes.
ServesWhatIsResident ==
  LET map == ResidentMap
  IN  \A p \in 0 .. Size : \A len \in 0 .. Size - p :
        IF \A q \in p .. p + len - 1 : map[q] # Absent
          THEN /\ CacheContains(ranges, p, len)
               /\ CacheGet(ranges, p, len) = [i \in 1 .. len |-> map[p + i - 1]]
          ELSE ~CacheContains(ranges, p, len)

\* fetcher.rs, coalesce: the spans to fetch cover exactly the planned offsets,
\* in order, and any two of them leave a gap, so that no byte is requested
\* twice in one read_many and no two requests could have been one.
CoalesceExact ==
  LET spans == Coalesce(planned)
      offsets(s) == s.start .. s.end - 1
  IN  /\ UNION {offsets(spans[i]) : i \in DOMAIN spans}
           = UNION {offsets(planned[i]) : i \in DOMAIN planned}
      /\ \A i \in DOMAIN spans : spans[i].start < spans[i].end
      /\ \A i, j \in DOMAIN spans : i < j => spans[i].end < spans[j].start

\* The Vec of merged ranges implements the partial map the fetcher relies on:
\* a fill adds the bytes that were missing, and changes and loses none.
Promise == INSTANCE ResidentBytes WITH resident <- ResidentMap

RefinesResidentBytes == Promise!Spec
=============================================================================
