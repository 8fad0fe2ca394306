-------------------------- MODULE RangeCacheProofs ---------------------------
(***************************************************************************)
(* Proofs about RangeCache for every source size, set of byte values and   *)
(* length of plan: the single pass of insert keeps the resident ranges     *)
(* sorted and apart and loses and overwrites no byte, and the sweep of     *)
(* coalesce covers the planned offsets exactly.  CacheInv is the inductive *)
(* invariant; the other results follow from it.                            *)
(***************************************************************************)
EXTENDS RangeCache, BasicLemmas, SequenceTheorems

\* A resident range: bytes from an offset on, at least one.
CachedRange == {r \in [start : Nat, data : Seq(Byte)] : r.data # <<>>}

\* r holds the byte v at p.
Knows(r, p, v) == HasByte(r, p) /\ ByteAt(r, p) = v

\* Some range of a vector holds the byte v at p; some range holds a byte there.
In(c, p, v) == \E i \in DOMAIN c : Knows(c[i], p, v)
Resident(c, p) == \E i \in DOMAIN c : HasByte(c[i], p)

\* a ends before b starts, with a gap.
Before(a, b) == End(a) < b.start

\* The vector is in order, with a gap between any two ranges.
Apart(c) == \A i, j \in DOMAIN c : i < j => Before(c[i], c[j])

-----------------------------------------------------------------------------
(* One range *)

\* The end of a range is past its start.
LEMMA RangeFacts ==
  ASSUME NEW r \in CachedRange
  PROVE  /\ r.start \in Nat /\ r.data \in Seq(Byte) /\ Len(r.data) \in Nat \ {0}
         /\ End(r) \in Nat /\ r.start < End(r)
         /\ \A p \in Int : HasByte(r, p) => ByteAt(r, p) \in Byte
<1>1. r.start \in Nat /\ r.data \in Seq(Byte) /\ r.data # <<>>
  BY DEF CachedRange
<1>2. Len(r.data) \in Nat \ {0}
  BY <1>1, EmptySeq, LenProperties
<1>3. ASSUME NEW p \in Int, HasByte(r, p)
      PROVE  ByteAt(r, p) \in Byte
  <2>1. p - r.start + 1 \in 1 .. Len(r.data)
    BY <1>1, <1>2, <1>3 DEF HasByte, End
  <2>2. QED
    BY <1>1, <2>1, ElementOfSeq DEF ByteAt
<1>4. QED
  BY <1>1, <1>2, <1>3 DEF End

LEMMA RangeEnds ==
  ASSUME NEW r \in CachedRange
  PROVE  r.start \in Nat /\ End(r) \in Nat /\ r.start < End(r)
  BY RangeFacts

\* merge: of two ranges that touch it makes one that holds the bytes of both, those of
\* the first where both have one; no byte of the zeroed buffer is left in it.
LEMMA MergeCorrect ==
  ASSUME NEW a \in CachedRange, NEW b \in CachedRange, RangesTouch(a, b)
  PROVE  /\ Merge(a, b) \in CachedRange
         /\ Merge(a, b).start = (IF a.start < b.start THEN a.start ELSE b.start)
         /\ End(Merge(a, b)) = (IF End(a) > End(b) THEN End(a) ELSE End(b))
         /\ \A p \in Int : HasByte(Merge(a, b), p) <=> HasByte(a, p) \/ HasByte(b, p)
         /\ \A p \in Int : \A v : Knows(Merge(a, b), p, v)
              <=> Knows(a, p, v) \/ (~HasByte(a, p) /\ Knows(b, p, v))
<1> DEFINE m     == Merge(a, b)
           start == IF a.start < b.start THEN a.start ELSE b.start
           end   == IF End(a) > End(b) THEN End(a) ELSE End(b)
           at(p) == IF HasByte(a, p) THEN ByteAt(a, p)
                    ELSE IF HasByte(b, p) THEN ByteAt(b, p) ELSE Zero
<1>1. /\ a.start \in Nat /\ End(a) \in Nat /\ a.start < End(a)
      /\ b.start \in Nat /\ End(b) \in Nat /\ b.start < End(b)
      /\ \A p \in Int : HasByte(a, p) => ByteAt(a, p) \in Byte
      /\ \A p \in Int : HasByte(b, p) => ByteAt(b, p) \in Byte
  BY RangeFacts
<1>2. start \in Nat /\ end \in Nat /\ start < end /\ end - start \in Nat
  BY <1>1
<1>3. m = [start |-> start, data |-> [i \in 1 .. end - start |-> at(start + i - 1)]]
  BY DEF Merge
<1>4. \A p \in Int : (start <= p /\ p < end) <=> HasByte(a, p) \/ HasByte(b, p)
  BY <1>1 DEF RangesTouch, HasByte
<1>5. \A i \in 1 .. end - start : at(start + i - 1) \in Byte
  <2>1. SUFFICES ASSUME NEW i \in 1 .. end - start
                 PROVE  at(start + i - 1) \in Byte
    OBVIOUS
  <2>2. start + i - 1 \in Int /\ start <= start + i - 1 /\ start + i - 1 < end
    BY <1>2
  <2> HIDE DEF start, end
  <2>3. HasByte(a, start + i - 1) \/ HasByte(b, start + i - 1)
    BY <2>2, <1>4
  <2>4. QED
    BY <2>2, <2>3, <1>1
<1>6. /\ m.start = start
      /\ m.data = [i \in 1 .. end - start |-> at(start + i - 1)]
      /\ m.data \in Seq(Byte) /\ Len(m.data) = end - start
  <2> HIDE DEF start, end, at, m
  <2>1. m.start = start /\ m.data = [i \in 1 .. end - start |-> at(start + i - 1)]
    BY <1>3
  <2>2. m.data \in [1 .. end - start -> Byte]
    BY <2>1, <1>5
  <2>3. m.data \in Seq(Byte) /\ DOMAIN m.data = 1 .. end - start
    BY <2>2, <1>2, IsASeq
  <2>4. Len(m.data) = end - start
    BY <2>3, <1>2, LenProperties
  <2>5. QED
    BY <2>1, <2>3, <2>4
<1>7. End(m) = end
  BY <1>2, <1>6 DEF End
<1>8. m \in CachedRange
  <2> HIDE DEF start, end, at, m
  <2>1. m.data # <<>>
    BY <1>2, <1>6
  <2>2. m \in [start : Nat, data : Seq(Byte)]
    BY <1>2, <1>6, <1>3
  <2>3. QED
    BY <2>1, <2>2 DEF CachedRange
<1>9. \A p \in Int : HasByte(m, p) <=> HasByte(a, p) \/ HasByte(b, p)
  <2> HIDE DEF start, end, m
  <2>1. QED
    BY <1>4, <1>6, <1>7 DEF HasByte
<1>10. ASSUME NEW p \in Int, HasByte(m, p)
       PROVE  ByteAt(m, p) = at(p)
  <2>1. m.start <= p /\ p < End(m)
    BY <1>10 DEF HasByte
  <2> HIDE DEF start, end, m, at
  <2>2. p - start + 1 \in 1 .. end - start /\ start + (p - start + 1) - 1 = p
    BY <2>1, <1>2, <1>6, <1>7
  <2>3. ByteAt(m, p) = m.data[p - start + 1]
    BY <1>6 DEF ByteAt
  <2>4. QED
    BY <1>6, <2>2, <2>3
<1>11. ASSUME NEW p \in Int, NEW v
       PROVE  Knows(m, p, v) <=> Knows(a, p, v) \/ (~HasByte(a, p) /\ Knows(b, p, v))
  <2> HIDE DEF start, end, m
  <2>1. QED
    BY <1>9, <1>10 DEF Knows
<1>12. QED
  <2>1. m.start = start /\ End(m) = end
    BY <1>6, <1>7
  <2>2. QED
    BY <2>1, <1>8, <1>9, <1>11, Zenon

\* Ranges with a gap between them share no offset; ranges that do not touch have one.
LEMMA GapFacts ==
  ASSUME NEW a \in CachedRange, NEW b \in CachedRange
  PROVE  /\ Before(a, b) \/ Before(b, a)
              => \A p \in Int : ~(HasByte(a, p) /\ HasByte(b, p))
         /\ ~RangesTouch(a, b) => Before(a, b) \/ Before(b, a)
         /\ Before(a, b) => a.start < b.start
  BY RangeFacts DEF Before, HasByte, RangesTouch

\* What a vector holds with one more range at the back.
LEMMA AppendHolds ==
  ASSUME NEW c \in Seq(CachedRange), NEW r \in CachedRange
  PROVE  /\ \A p, v : In(Append(c, r), p, v) <=> In(c, p, v) \/ Knows(r, p, v)
         /\ \A x : (\E k \in DOMAIN Append(c, r) : x = Append(c, r)[k])
                     <=> (\E k \in DOMAIN c : x = c[k]) \/ x = r
<1>1. /\ DOMAIN c = 1 .. Len(c) /\ DOMAIN Append(c, r) = 1 .. Len(c) + 1 /\ Len(c) \in Nat
      /\ Append(c, r)[Len(c) + 1] = r
      /\ \A k \in 1 .. Len(c) : Append(c, r)[k] = c[k]
  BY AppendProperties, LenProperties
<1>2. \A x : (\E k \in DOMAIN Append(c, r) : x = Append(c, r)[k])
               <=> (\E k \in DOMAIN c : x = c[k]) \/ x = r
  <2>1. 1 .. Len(c) + 1 = (1 .. Len(c)) \cup {Len(c) + 1}
    BY <1>1
  <2>2. QED
    BY <1>1, <2>1
<1>3. \A p, v : In(Append(c, r), p, v) <=> In(c, p, v) \/ Knows(r, p, v)
  BY <1>2 DEF In
<1>4. QED
  BY <1>2, <1>3

-----------------------------------------------------------------------------
(* The pass of insert *)

\* What holds after the pass has looked at i ranges: those kept are resident ones, in order,
\* each with a gap to the growing new range; together they hold the bytes of the ranges seen
\* and, where those have none, the bytes that are inserted.
PassInv(c, base, i, acc) ==
  /\ acc \in [new : CachedRange, kept : Seq(CachedRange)]
  /\ \A k \in DOMAIN acc.kept : \E m \in 1 .. i : acc.kept[k] = c[m]
  /\ Apart(acc.kept)
  /\ \A k \in DOMAIN acc.kept : Before(acc.kept[k], acc.new) \/ Before(acc.new, acc.kept[k])
  /\ \A p \in Int : HasByte(base, p) => HasByte(acc.new, p)
  /\ \A p \in Int : \A v : In(acc.kept, p, v) \/ Knows(acc.new, p, v)
       <=> \/ \E m \in 1 .. i : Knows(c[m], p, v)
           \/ Knows(base, p, v) /\ ~\E m \in 1 .. i : HasByte(c[m], p)

\* One iteration keeps it, because the resident ranges are apart and in order: a kept range
\* that lies behind the new one would lie behind every range still to come.
LEMMA AbsorbKeepsPassInv ==
  ASSUME NEW c \in Seq(CachedRange), Apart(c), NEW base \in CachedRange,
         NEW i \in 0 .. Len(c) - 1, NEW acc, PassInv(c, base, i, acc)
  PROVE  PassInv(c, base, i + 1, Absorb(acc, c[i + 1]))
<1> DEFINE e    == c[i + 1]
           new  == acc.new
           kept == acc.kept
           next == Absorb(acc, e)
<1>1. Len(c) \in Nat /\ DOMAIN c = 1 .. Len(c) /\ i \in Nat /\ i + 1 \in 1 .. Len(c)
  BY LenProperties
<1>2. e \in CachedRange /\ \A m \in 1 .. i : c[m] \in CachedRange /\ Before(c[m], e)
  <2>1. \A m \in 1 .. i : m \in DOMAIN c /\ i + 1 \in DOMAIN c /\ m < i + 1
    BY <1>1
  <2>2. QED
    BY <2>1, <1>1, ElementOfSeq DEF Apart
<1>3. /\ new \in CachedRange /\ kept \in Seq(CachedRange)
      /\ acc = [new |-> new, kept |-> kept]
      /\ \A k \in DOMAIN kept : \E m \in 1 .. i : kept[k] = c[m]
      /\ Apart(kept)
      /\ \A k \in DOMAIN kept : Before(kept[k], new) \/ Before(new, kept[k])
      /\ \A p \in Int : HasByte(base, p) => HasByte(new, p)
      /\ \A p \in Int : \A v : In(kept, p, v) \/ Knows(new, p, v)
           <=> \/ \E m \in 1 .. i : Knows(c[m], p, v)
               \/ Knows(base, p, v) /\ ~\E m \in 1 .. i : HasByte(c[m], p)
  BY DEF PassInv
<1>4. 1 .. i + 1 = (1 .. i) \cup {i + 1}
  BY <1>1
<1>5. \A p \in Int : HasByte(e, p) => \A m \in 1 .. i : ~HasByte(c[m], p)
  BY <1>2, GapFacts
<1>6. \A k \in DOMAIN kept : kept[k] \in CachedRange /\ Before(kept[k], e)
  BY <1>2, <1>3
<1>7. \A p \in Int : \A v : In(kept, p, v) => \E m \in 1 .. i : Knows(c[m], p, v)
  BY <1>3 DEF In
<1> HIDE DEF e, new, kept
<1>8. CASE RangesTouch(e, new)
  <2> DEFINE grown == Merge(e, new)
  <2>1. next = [new |-> grown, kept |-> kept]
    BY <1>3, <1>8 DEF Absorb
  <2>2. /\ grown \in CachedRange
        /\ grown.start = (IF e.start < new.start THEN e.start ELSE new.start)
        /\ End(grown) = (IF End(e) > End(new) THEN End(e) ELSE End(new))
        /\ \A p \in Int : HasByte(grown, p) <=> HasByte(e, p) \/ HasByte(new, p)
        /\ \A p \in Int : \A v : Knows(grown, p, v)
             <=> Knows(e, p, v) \/ (~HasByte(e, p) /\ Knows(new, p, v))
    BY <1>2, <1>3, <1>8, MergeCorrect
  <2> HIDE DEF grown
  <2>3. ASSUME NEW k \in DOMAIN kept
        PROVE  Before(kept[k], grown) \/ Before(grown, kept[k])
    <3>1. kept[k] \in CachedRange /\ Before(kept[k], e)
          /\ (Before(kept[k], new) \/ Before(new, kept[k]))
      BY <1>3, <1>6, <2>3
    <3>2. Before(kept[k], new)
      <4>1. SUFFICES ASSUME Before(new, kept[k])
                     PROVE  FALSE
        BY <3>1
      <4>2. /\ End(new) < kept[k].start /\ End(kept[k]) < e.start
            /\ e.start <= End(new)
        BY <3>1, <4>1, <1>8 DEF Before, RangesTouch
      <4>3. /\ End(new) \in Nat /\ e.start \in Nat
            /\ kept[k].start \in Nat /\ End(kept[k]) \in Nat /\ kept[k].start < End(kept[k])
        BY <3>1, <1>2, <1>3, RangeEnds
      <4>4. QED
        BY <4>2, <4>3
    <3>3. QED
      BY <3>1, <3>2, <2>2 DEF Before
  <2>4. ASSUME NEW p \in Int, NEW v
        PROVE  In(kept, p, v) \/ Knows(grown, p, v)
                 <=> \/ \E m \in 1 .. i + 1 : Knows(c[m], p, v)
                     \/ Knows(base, p, v) /\ ~\E m \in 1 .. i + 1 : HasByte(c[m], p)
    <3>1. /\ (\E m \in 1 .. i + 1 : Knows(c[m], p, v))
               <=> (\E m \in 1 .. i : Knows(c[m], p, v)) \/ Knows(e, p, v)
          /\ (\E m \in 1 .. i + 1 : HasByte(c[m], p))
               <=> (\E m \in 1 .. i : HasByte(c[m], p)) \/ HasByte(e, p)
      BY <1>4 DEF e
    <3>2. CASE HasByte(e, p)
      BY <3>1, <3>2, <1>5, <1>7, <2>2 DEF Knows
    <3>3. CASE ~HasByte(e, p)
      BY <3>1, <3>3, <1>3, <2>2 DEF Knows
    <3>4. QED
      BY <3>2, <3>3
  <2>5. /\ next \in [new : CachedRange, kept : Seq(CachedRange)]
        /\ next.new = grown /\ next.kept = kept
    BY <2>1, <2>2, <1>3
  <2>6. \A p \in Int : HasByte(base, p) => HasByte(grown, p)
    BY <2>2, <1>3
  <2>7. \A k \in DOMAIN kept : \E m \in 1 .. i + 1 : kept[k] = c[m]
    BY <1>3, <1>4
  <2>8. QED
    <3> HIDE DEF next
    <3>1. PassInv(c, base, i + 1, next)
      BY <2>3, <2>4, <2>5, <2>6, <2>7, <1>3 DEF PassInv
    <3>2. QED
      BY <3>1 DEF next, e
<1>9. CASE ~RangesTouch(e, new)
  <2> DEFINE more == Append(kept, e)
  <2>1. next = [new |-> new, kept |-> more]
    BY <1>3, <1>9 DEF Absorb
  <2>2. /\ more \in Seq(CachedRange)
        /\ \A p, v : In(more, p, v) <=> In(kept, p, v) \/ Knows(e, p, v)
        /\ \A x : (\E k \in DOMAIN more : x = more[k]) <=> (\E k \in DOMAIN kept : x = kept[k]) \/ x = e
    BY <1>2, <1>3, AppendHolds, AppendProperties
  <2>3. Before(e, new) \/ Before(new, e)
    BY <1>2, <1>3, <1>9, GapFacts
  <2>4. Apart(more)
    <3>1. /\ DOMAIN kept = 1 .. Len(kept) /\ DOMAIN more = 1 .. Len(kept) + 1 /\ Len(kept) \in Nat
          /\ more[Len(kept) + 1] = e
          /\ \A k \in 1 .. Len(kept) : more[k] = kept[k]
      BY <1>2, <1>3, AppendProperties, LenProperties
    <3>2. ASSUME NEW k \in DOMAIN more, NEW l \in DOMAIN more, k < l
          PROVE  Before(more[k], more[l])
      <4>1. k \in 1 .. Len(kept) /\ (l \in 1 .. Len(kept) \/ l = Len(kept) + 1)
        BY <3>1, <3>2
      <4>2. QED
        BY <4>1, <3>1, <3>2, <1>3, <1>6 DEF Apart
    <3>3. QED
      BY <3>2 DEF Apart
  <2> HIDE DEF more
  <2>5. ASSUME NEW p \in Int, NEW v
        PROVE  In(more, p, v) \/ Knows(new, p, v)
                 <=> \/ \E m \in 1 .. i + 1 : Knows(c[m], p, v)
                     \/ Knows(base, p, v) /\ ~\E m \in 1 .. i + 1 : HasByte(c[m], p)
    <3>1. /\ (\E m \in 1 .. i + 1 : Knows(c[m], p, v))
               <=> (\E m \in 1 .. i : Knows(c[m], p, v)) \/ Knows(e, p, v)
          /\ (\E m \in 1 .. i + 1 : HasByte(c[m], p))
               <=> (\E m \in 1 .. i : HasByte(c[m], p)) \/ HasByte(e, p)
      BY <1>4 DEF e
    <3>2. HasByte(e, p) => ~HasByte(new, p) /\ ~HasByte(base, p)
      BY <2>3, <1>2, <1>3, GapFacts
    <3>3. CASE HasByte(e, p)
      BY <3>1, <3>2, <3>3, <1>5, <1>7, <2>2 DEF Knows
    <3>4. CASE ~HasByte(e, p)
      BY <3>1, <3>4, <1>3, <2>2 DEF Knows
    <3>5. QED
      BY <3>3, <3>4
  <2>6. /\ next \in [new : CachedRange, kept : Seq(CachedRange)]
        /\ next.new = new /\ next.kept = more
    BY <2>1, <2>2, <1>3
  <2>7. \A k \in DOMAIN more : \E m \in 1 .. i + 1 : more[k] = c[m]
    <3>1. \A k \in DOMAIN more : (\E l \in DOMAIN kept : more[k] = kept[l]) \/ more[k] = e
      BY <2>2
    <3>2. QED
      BY <3>1, <1>3, <1>4 DEF e
  <2>8. \A k \in DOMAIN more : Before(more[k], new) \/ Before(new, more[k])
    <3>1. \A k \in DOMAIN more : (\E l \in DOMAIN kept : more[k] = kept[l]) \/ more[k] = e
      BY <2>2
    <3>2. QED
      BY <3>1, <2>3, <1>3
  <2>9. QED
    <3> HIDE DEF next
    <3>1. PassInv(c, base, i + 1, next)
      BY <2>4, <2>5, <2>6, <2>7, <2>8, <1>3 DEF PassInv
    <3>2. QED
      BY <3>1 DEF next, e
<1>10. QED
  BY <1>8, <1>9

\* So it holds when the pass ends.
LEMMA SweptCorrect ==
  ASSUME NEW c \in Seq(CachedRange), Apart(c), NEW start, NEW data,
         [start |-> start, data |-> data] \in CachedRange
  PROVE  PassInv(c, [start |-> start, data |-> data], Len(c), Swept(c, start, data))
<1> DEFINE base  == [start |-> start, data |-> data]
           n     == Len(c)
           first == [new |-> base, kept |-> <<>>]
           S     == [new : CachedRange, kept : Seq(CachedRange)]
           step  == [x \in (1 .. n) \X S |-> Absorb(x[2], c[x[1]])]
           Pass(f) == f = [i \in 0 .. n |-> IF i = 0 THEN first ELSE Absorb(f[i - 1], c[i])]
<1>1. n \in Nat /\ DOMAIN c = 1 .. n /\ \A i \in 1 .. n : c[i] \in CachedRange
  BY LenProperties, ElementOfSeq
<1>2. base \in CachedRange /\ first \in S /\ first.new = base /\ first.kept = <<>>
  OBVIOUS
<1>3. \A acc \in S, e \in CachedRange : Absorb(acc, e) \in S
  <2>1. SUFFICES ASSUME NEW acc \in S, NEW e \in CachedRange
                 PROVE  Absorb(acc, e) \in S
    BY Zenon
  <2>2. CASE RangesTouch(e, acc.new)
    <3>1. Merge(e, acc.new) \in CachedRange
      BY <2>2, MergeCorrect
    <3>2. Absorb(acc, e) = [acc EXCEPT !.new = Merge(e, acc.new)]
      BY <2>2 DEF Absorb
    <3>3. QED
      BY <3>1, <3>2
  <2>3. CASE ~RangesTouch(e, acc.new)
    <3>1. Absorb(acc, e) = [acc EXCEPT !.kept = Append(acc.kept, e)]
      BY <2>3 DEF Absorb
    <3>2. Append(acc.kept, e) \in Seq(CachedRange)
      BY AppendProperties
    <3>3. QED
      BY <3>1, <3>2
  <2>4. QED
    BY <2>2, <2>3
<1>4. step \in [(1 .. n) \X S -> S]
  <2> HIDE DEF S
  <2>1. QED
    BY <1>1, <1>3
<1>5. PICK f : IsRun(n, f, S, first, step)
  <2> HIDE DEF S, first, step, n
  <2>1. QED
    BY <1>1, <1>2, <1>4, LoopExists
<1>6. \A i \in 1 .. n : step[<<i, f[i - 1]>>] = Absorb(f[i - 1], c[i])
  <2>1. \A i \in 1 .. n : f[i - 1] \in S
    <3>1. \A i \in 1 .. n : i - 1 \in 0 .. n
      BY <1>1
    <3> HIDE DEF n, S
    <3>2. QED
      BY <3>1, <1>5 DEF IsRun
  <2> HIDE DEF S, n
  <2>2. QED
    BY <2>1
<1>7. Pass(f)
  <2> HIDE DEF S, first, step
  <2>1. f \in [0 .. n -> S] /\ f[0] = first /\ \A i \in 1 .. n : f[i] = Absorb(f[i - 1], c[i])
    BY <1>5, <1>6 DEF IsRun
  <2>2. \A i \in 0 .. n : i = 0 \/ i \in 1 .. n
    BY <1>1
  <2> HIDE DEF n
  <2>3. \A i \in 0 .. n : f[i] = IF i = 0 THEN first ELSE Absorb(f[i - 1], c[i])
    BY <2>1, <2>2
  <2>4. QED
    BY <2>1, <2>3
<1>8. PICK g : Pass(g) /\ Swept(c, start, data) = g[n]
  <2>1. Pass(CHOOSE h : Pass(h))
    BY <1>7, Zenon
  <2>2. QED
    BY <2>1 DEF Swept
<1> DEFINE done == {i \in 0 .. n : PassInv(c, base, i, g[i])}
<1>9. g[0] = first /\ \A i \in 0 .. n - 1 : g[i + 1] = Absorb(g[i], c[i + 1])
  <2>1. g[0] = first
    BY <1>1, <1>8
  <2>2. ASSUME NEW i \in 0 .. n - 1
        PROVE  g[i + 1] = Absorb(g[i], c[i + 1])
    <3>1. i + 1 \in 0 .. n /\ i + 1 # 0 /\ (i + 1) - 1 = i
      BY <1>1
    <3> HIDE DEF n, first
    <3>2. g[i + 1] = IF i + 1 = 0 THEN first ELSE Absorb(g[(i + 1) - 1], c[i + 1])
      BY <1>8, <3>1
    <3>3. QED
      BY <3>1, <3>2
  <2>3. QED
    BY <2>1, <2>2
<1>10. 0 \in done
  <2>1. DOMAIN first.kept = {} /\ \A m \in 1 .. 0 : FALSE
    BY EmptySeq, LenProperties
  <2>2. PassInv(c, base, 0, first)
    BY <1>2, <2>1 DEF PassInv, Apart, In
  <2> HIDE DEF first, base
  <2>3. QED
    BY <1>1, <1>9, <2>2
<1>11. \A i \in 0 .. n - 1 : i \in done => i + 1 \in done
  <2>1. SUFFICES ASSUME NEW i \in 0 .. n - 1, PassInv(c, base, i, g[i])
                 PROVE  i + 1 \in 0 .. n /\ PassInv(c, base, i + 1, g[i + 1])
    OBVIOUS
  <2>2. i + 1 \in 0 .. n
    BY <1>1
  <2> HIDE DEF base
  <2>3. QED
    BY <1>2, <1>9, <2>1, <2>2, AbsorbKeepsPassInv
<1>12. n \in done
  <2> HIDE DEF done
  <2>1. \A i \in 0 .. n : i \in done
    BY <1>1, <1>10, <1>11, SetInduction
  <2>2. QED
    BY <1>1, <2>1
<1>13. QED
  BY <1>8, <1>12

-----------------------------------------------------------------------------
(* insert *)

\* insert: the vector stays in order and apart, keeps every byte it had, and gains the new
\* bytes where it had none.
LEMMA InsertCorrect ==
  ASSUME NEW c \in Seq(CachedRange), Apart(c), NEW start, NEW data,
         [start |-> start, data |-> data] \in CachedRange
  PROVE  LET base == [start |-> start, data |-> data]
             d    == CacheInsert(c, start, data)
         IN  /\ d \in Seq(CachedRange) /\ Apart(d)
             /\ \A p \in Int : \A v : In(d, p, v)
                  <=> In(c, p, v) \/ (Knows(base, p, v) /\ ~Resident(c, p))
<1> DEFINE base   == [start |-> start, data |-> data]
           swept  == Swept(c, start, data)
           merged == Append(swept.kept, swept.new)
           n      == Len(merged)
           keys   == [i \in DOMAIN merged |-> merged[i].start]
           order  == ByStart(merged, DOMAIN merged)
           d      == [k \in DOMAIN order |-> merged[order[k]]]
<1>1. CacheInsert(c, start, data) = d
  <2>1. data # <<>>
    BY DEF CachedRange
  <2>2. QED
    BY <2>1 DEF CacheInsert
<1>2. DOMAIN c = 1 .. Len(c)
  BY LenProperties
<1>3. /\ swept.new \in CachedRange /\ swept.kept \in Seq(CachedRange)
      /\ Apart(swept.kept)
      /\ \A k \in DOMAIN swept.kept : Before(swept.kept[k], swept.new) \/ Before(swept.new, swept.kept[k])
      /\ \A p \in Int : \A v : In(swept.kept, p, v) \/ Knows(swept.new, p, v)
           <=> In(c, p, v) \/ (Knows(base, p, v) /\ ~Resident(c, p))
  BY <1>2, SweptCorrect DEF PassInv, In, Resident
<1> HIDE DEF swept, base
<1>4. /\ merged \in Seq(CachedRange)
      /\ \A p, v : In(merged, p, v) <=> In(swept.kept, p, v) \/ Knows(swept.new, p, v)
  BY <1>3, AppendHolds, AppendProperties
<1>5. n \in Nat /\ DOMAIN merged = 1 .. n /\ \A i \in 1 .. n : merged[i] \in CachedRange
  BY <1>4, LenProperties, ElementOfSeq
<1>6. \A i, j \in 1 .. n : i # j => Before(merged[i], merged[j]) \/ Before(merged[j], merged[i])
  <2> DEFINE k == Len(swept.kept)
  <2>1. /\ k \in Nat /\ n = k + 1 /\ DOMAIN swept.kept = 1 .. k
        /\ merged[k + 1] = swept.new /\ \A i \in 1 .. k : merged[i] = swept.kept[i]
    BY <1>3, AppendProperties, LenProperties
  <2>2. \A i, j \in 1 .. k : i # j => Before(merged[i], merged[j]) \/ Before(merged[j], merged[i])
    <3>1. SUFFICES ASSUME NEW i \in 1 .. k, NEW j \in 1 .. k, i # j
                   PROVE  Before(merged[i], merged[j]) \/ Before(merged[j], merged[i])
      BY Zenon
    <3>2. i < j \/ j < i
      BY <2>1, <3>1
    <3> HIDE DEF k, merged
    <3>3. QED
      BY <3>2, <2>1, <1>3 DEF Apart
  <2>3. 1 .. n = (1 .. k) \cup {k + 1}
    BY <2>1
  <2> HIDE DEF k, n, merged
  <2>4. QED
    BY <2>1, <2>2, <2>3, <1>3
<1> HIDE DEF merged
<1>7. keys \in [1 .. n -> Int] /\ 1 .. n \in SUBSET Int
  BY <1>5, RangeFacts
<1>8. IsOrderOf(ByKey(keys), 1 .. n) /\ IsFiniteSet(1 .. n) /\ Cardinality(1 .. n) = n
  <2>1. IsOrderOf(ByKey(keys), 1 .. n)
    <3> HIDE DEF n, keys
    <3>1. QED
      BY <1>7, ByKeyIsOrder
  <2>2. IsFiniteSet(1 .. n) /\ Cardinality(1 .. n) = n
    <3>1. n \in Nat
      BY <1>5
    <3> HIDE DEF n
    <3>2. QED
      BY <3>1, FS_Interval
  <2>3. QED
    BY <2>1, <2>2
<1>9. /\ order \in [1 .. n -> 1 .. n]
      /\ \A i \in 1 .. n : \E k \in 1 .. n : order[k] = i
      /\ \A j, k \in 1 .. n : j < k => <<order[j], order[k]>> \in ByKey(keys)
  <2>1. order = Arranged(1 .. n, ByKey(keys))
    BY <1>5 DEF ByStart
  <2> HIDE DEF order, keys, n
  <2>2. QED
    BY <2>1, <1>8, ArrangedInOrder
<1>10. DOMAIN order = 1 .. n /\ \A k \in 1 .. n : d[k] = merged[order[k]] /\ order[k] \in 1 .. n
  <2> HIDE DEF order, n
  <2>1. QED
    BY <1>9
<1>11. d \in Seq(CachedRange) /\ DOMAIN d = 1 .. n
  <2> HIDE DEF order, n
  <2>1. d \in [1 .. n -> CachedRange]
    BY <1>5, <1>10
  <2>2. QED
    BY <2>1, <1>5, IsASeq
<1>12. Apart(d)
  <2>1. SUFFICES ASSUME NEW j \in 1 .. n, NEW k \in 1 .. n, j < k
                 PROVE  Before(d[j], d[k])
    BY <1>11 DEF Apart
  <2> DEFINE a == order[j]
             b == order[k]
  <2>2. a \in 1 .. n /\ b \in 1 .. n /\ d[j] = merged[a] /\ d[k] = merged[b]
        /\ <<a, b>> \in ByKey(keys)
    BY <2>1, <1>9, <1>10
  <2> HIDE DEF a, b, order, d
  <2>3. keys[a] < keys[b] \/ (keys[a] = keys[b] /\ a < b)
    BY <2>2, <1>5 DEF ByKey
  <2>4. merged[a].start <= merged[b].start /\ a # b
    <3>1. /\ a \in Nat /\ b \in Nat
          /\ keys[a] = merged[a].start /\ keys[b] = merged[b].start
      BY <2>2, <1>5
    <3>2. merged[a].start \in Nat /\ merged[b].start \in Nat
      BY <2>2, <1>5, RangeFacts
    <3> HIDE DEF keys
    <3>3. QED
      BY <2>3, <3>1, <3>2
  <2>5. ~Before(merged[b], merged[a])
    <3>1. merged[a] \in CachedRange /\ merged[b] \in CachedRange
      BY <2>2, <1>5
    <3>2. /\ merged[a].start \in Nat /\ merged[b].start \in Nat
          /\ End(merged[b]) \in Nat /\ merged[b].start < End(merged[b])
      BY <3>1, RangeFacts
    <3>3. QED
      BY <2>4, <3>2 DEF Before
  <2>6. QED
    BY <2>2, <2>4, <2>5, <1>6
<1>13. \A p, v : In(d, p, v) <=> In(merged, p, v)
  <2> HIDE DEF order, d, n
  <2>1. QED
    BY <1>5, <1>9, <1>10, <1>11 DEF In
<1>14. QED
  <2> HIDE DEF d
  <2>1. \A p \in Int : \A v : In(d, p, v) <=> In(c, p, v) \/ (Knows(base, p, v) /\ ~Resident(c, p))
    BY <1>3, <1>4, <1>13
  <2>2. QED
    BY <1>1, <1>11, <1>12, <2>1, Zenon DEF base

-----------------------------------------------------------------------------
(* fill_cache *)

\* A span that is not empty, and the offsets of one.
Span == {r \in Extents : r.start < r.end}
InSpan(r, p) == r.start <= p /\ p < r.end

\* The vectors insert keeps.
Vec == {c \in Seq(CachedRange) : Apart(c)}

\* An offset is resident when some byte is held for it.
LEMMA ResidentMeansSomeByte ==
  ASSUME NEW c, NEW p
  PROVE  Resident(c, p) <=> \E v : In(c, p, v)
  BY DEF Resident, In, Knows

\* The bytes of one fetched span, each v.
LEMMA FetchedSpan ==
  ASSUME NEW r \in Span, NEW v \in Byte
  PROVE  LET base == [start |-> r.start, data |-> [k \in 1 .. r.end - r.start |-> v]]
         IN  /\ base \in CachedRange
             /\ \A p \in Int : \A w : Knows(base, p, w) <=> w = v /\ InSpan(r, p)
<1> DEFINE data == [k \in 1 .. r.end - r.start |-> v]
           base == [start |-> r.start, data |-> data]
<1>1. r.start \in Nat /\ r.end \in Nat /\ r.start < r.end /\ r.end - r.start \in Nat
  BY SizeAssumption DEF Span, Extents
<1>2. data \in [1 .. r.end - r.start -> Byte]
  OBVIOUS
<1>3. data \in Seq(Byte) /\ Len(data) = r.end - r.start
  <2> HIDE DEF data
  <2>1. data \in Seq(Byte) /\ DOMAIN data = 1 .. r.end - r.start
    BY <1>1, <1>2, IsASeq
  <2>2. QED
    BY <1>1, <2>1, LenProperties
<1>4. base \in CachedRange
  <2>1. data # <<>>
    BY <1>1, <1>3, EmptySeq, LenProperties
  <2>2. QED
    BY <1>1, <1>3, <2>1 DEF CachedRange
<1>5. ASSUME NEW p \in Int, NEW w
      PROVE  Knows(base, p, w) <=> w = v /\ InSpan(r, p)
  <2>1. HasByte(base, p) <=> InSpan(r, p)
    BY <1>1, <1>3 DEF HasByte, End, InSpan
  <2>2. InSpan(r, p) => ByteAt(base, p) = v
    BY <1>1 DEF InSpan, ByteAt
  <2>3. QED
    BY <2>1, <2>2 DEF Knows
<1>6. QED
  BY <1>4, <1>5

\* What holds after i of the spans are inserted.
FillInv(c, spans, v, i, d) ==
  /\ d \in Vec
  /\ \A p \in Int : \A w : In(d, p, w)
       <=> In(c, p, w) \/ (w = v /\ ~Resident(c, p) /\ \E m \in 1 .. i : InSpan(spans[m], p))

\* A fill adds the bytes of the spans where there were none, and changes and loses none.
LEMMA FilledCorrect ==
  ASSUME NEW c \in Vec, NEW spans \in Seq(Span), NEW v \in Byte
  PROVE  FillInv(c, spans, v, Len(spans), Filled(c, spans, v))
<1> DEFINE n     == Len(spans)
           data(i) == [k \in 1 .. spans[i].end - spans[i].start |-> v]
           put(d, i) == CacheInsert(d, spans[i].start, data(i))
           step  == [x \in (1 .. n) \X Vec |-> put(x[2], x[1])]
           Fill(f) == f = [i \in 0 .. n |-> IF i = 0 THEN c ELSE put(f[i - 1], i)]
<1>1. n \in Nat /\ \A i \in 1 .. n : spans[i] \in Span
  BY LenProperties, ElementOfSeq
<1>2. ASSUME NEW d \in Vec, NEW i \in 1 .. n
      PROVE  /\ put(d, i) \in Vec
             /\ \A p \in Int : \A w : In(put(d, i), p, w)
                  <=> In(d, p, w) \/ (w = v /\ ~Resident(d, p) /\ InSpan(spans[i], p))
  <2> DEFINE base == [start |-> spans[i].start, data |-> data(i)]
  <2>1. base \in CachedRange /\ \A p \in Int : \A w : Knows(base, p, w) <=> w = v /\ InSpan(spans[i], p)
    BY <1>1, FetchedSpan
  <2>2. d \in Seq(CachedRange) /\ Apart(d)
    BY DEF Vec
  <2> HIDE DEF data, n
  <2>3. /\ put(d, i) \in Seq(CachedRange) /\ Apart(put(d, i))
        /\ \A p \in Int : \A w : In(put(d, i), p, w)
             <=> In(d, p, w) \/ (Knows(base, p, w) /\ ~Resident(d, p))
    BY <2>1, <2>2, InsertCorrect
  <2> HIDE DEF put, base
  <2>4. QED
    BY <2>1, <2>3 DEF Vec
<1>3. step \in [(1 .. n) \X Vec -> Vec]
  <2> HIDE DEF put, n
  <2>1. QED
    BY <1>2
<1>4. PICK f : IsRun(n, f, Vec, c, step)
  <2> HIDE DEF step, n
  <2>1. QED
    BY <1>1, <1>3, LoopExists
<1>5. \A i \in 1 .. n : step[<<i, f[i - 1]>>] = put(f[i - 1], i)
  <2>1. \A i \in 1 .. n : f[i - 1] \in Vec
    <3>1. \A i \in 1 .. n : i - 1 \in 0 .. n
      BY <1>1
    <3> HIDE DEF n
    <3>2. QED
      BY <3>1, <1>4 DEF IsRun
  <2> HIDE DEF put, n
  <2>2. QED
    BY <2>1
<1>6. Fill(f)
  <2> HIDE DEF step, put
  <2>1. f \in [0 .. n -> Vec] /\ f[0] = c /\ \A i \in 1 .. n : f[i] = put(f[i - 1], i)
    BY <1>4, <1>5 DEF IsRun
  <2>2. \A i \in 0 .. n : i = 0 \/ i \in 1 .. n
    BY <1>1
  <2> HIDE DEF n
  <2>3. \A i \in 0 .. n : f[i] = IF i = 0 THEN c ELSE put(f[i - 1], i)
    BY <2>1, <2>2
  <2>4. QED
    BY <2>1, <2>3
<1>7. PICK g : Fill(g) /\ Filled(c, spans, v) = g[n]
  <2>1. Fill(CHOOSE h : Fill(h))
    BY <1>6, Zenon
  <2>2. QED
    BY <2>1 DEF Filled
<1> DEFINE done == {i \in 0 .. n : FillInv(c, spans, v, i, g[i])}
<1>8. g[0] = c /\ \A i \in 0 .. n - 1 : g[i + 1] = put(g[i], i + 1)
  <2> HIDE DEF put
  <2>1. g[0] = c
    BY <1>1, <1>7
  <2>2. ASSUME NEW i \in 0 .. n - 1
        PROVE  g[i + 1] = put(g[i], i + 1)
    <3>1. i + 1 \in 0 .. n /\ i + 1 # 0 /\ (i + 1) - 1 = i
      BY <1>1
    <3> HIDE DEF n
    <3>2. g[i + 1] = IF i + 1 = 0 THEN c ELSE put(g[(i + 1) - 1], i + 1)
      BY <1>7, <3>1
    <3>3. QED
      BY <3>1, <3>2
  <2>3. QED
    BY <2>1, <2>2
<1>9. 0 \in done
  <2>1. FillInv(c, spans, v, 0, c)
    BY DEF FillInv
  <2>2. QED
    BY <1>1, <1>8, <2>1
<1>10. \A i \in 0 .. n - 1 : i \in done => i + 1 \in done
  <2>1. SUFFICES ASSUME NEW i \in 0 .. n - 1, FillInv(c, spans, v, i, g[i])
                 PROVE  i + 1 \in 0 .. n /\ FillInv(c, spans, v, i + 1, g[i + 1])
    OBVIOUS
  <2>2. i + 1 \in 0 .. n /\ i + 1 \in 1 .. n /\ 1 .. i + 1 = (1 .. i) \cup {i + 1}
    BY <1>1
  <2> HIDE DEF put, n
  <2>3. g[i] \in Vec
    BY <2>1 DEF FillInv
  <2>4. /\ g[i + 1] \in Vec
        /\ \A p \in Int : \A w : In(g[i + 1], p, w)
             <=> In(g[i], p, w) \/ (w = v /\ ~Resident(g[i], p) /\ InSpan(spans[i + 1], p))
    BY <2>2, <2>3, <1>2, <1>8
  <2>5. ASSUME NEW p \in Int, NEW w
        PROVE  In(g[i + 1], p, w)
                 <=> In(c, p, w) \/ (w = v /\ ~Resident(c, p) /\ \E m \in 1 .. i + 1 : InSpan(spans[m], p))
    <3> DEFINE seen == \E m \in 1 .. i : InSpan(spans[m], p)
    <3>1. \A u : In(g[i], p, u) <=> In(c, p, u) \/ (u = v /\ ~Resident(c, p) /\ seen)
      BY <2>1 DEF FillInv
    <3>2. (\E m \in 1 .. i + 1 : InSpan(spans[m], p)) <=> seen \/ InSpan(spans[i + 1], p)
      BY <2>2
    <3> HIDE DEF seen
    <3>3. Resident(g[i], p) <=> Resident(c, p) \/ seen
      BY <3>1, ResidentMeansSomeByte
    <3>4. QED
      BY <2>4, <3>1, <3>2, <3>3
  <2>6. QED
    BY <2>2, <2>4, <2>5 DEF FillInv
<1>11. n \in done
  <2> HIDE DEF done
  <2>1. \A i \in 0 .. n : i \in done
    BY <1>1, <1>9, <1>10, SetInduction
  <2>2. QED
    BY <1>1, <2>1
<1>12. QED
  BY <1>7, <1>11

-----------------------------------------------------------------------------
(* coalesce *)

\* What holds after the sweep over i of the sorted spans s: those merged are in order with
\* gaps, cover what the spans seen cover, and start no later than any span still to come.
SweepInv(s, i, out) ==
  /\ out \in Seq(Span)
  /\ \A k, l \in DOMAIN out : k < l => out[k].end < out[l].start
  /\ \A p \in Int : (\E k \in DOMAIN out : InSpan(out[k], p))
                      <=> (\E m \in 1 .. i : InSpan(s[m], p))
  /\ \A k \in DOMAIN out, m \in DOMAIN s : i < m => out[k].start <= s[m].start

\* Bounds of a span.
LEMMA SpanFacts ==
  ASSUME NEW r \in Span
  PROVE  /\ r.start \in 0 .. Size /\ r.end \in 0 .. Size /\ r.start \in Nat /\ r.end \in Nat
         /\ r.start < r.end
         /\ r = [start |-> r.start, end |-> r.end]
  BY SizeAssumption DEF Span, Extents

\* One step of the sweep.
LEMMA SweepKeepsSweepInv ==
  ASSUME NEW s \in Seq(Span), \A j, k \in DOMAIN s : j < k => s[j].start <= s[k].start,
         NEW i \in 0 .. Len(s) - 1, NEW out, SweepInv(s, i, out)
  PROVE  SweepInv(s, i + 1, Sweep(out, s[i + 1]))
<1> DEFINE r    == s[i + 1]
           n    == Len(out)
           next == Sweep(out, r)
<1>1. Len(s) \in Nat /\ DOMAIN s = 1 .. Len(s) /\ i \in Nat /\ i + 1 \in 1 .. Len(s)
      /\ 1 .. i + 1 = (1 .. i) \cup {i + 1}
  BY LenProperties
<1>2. r \in Span
  BY <1>1, ElementOfSeq
<1>3. /\ out \in Seq(Span) /\ n \in Nat /\ DOMAIN out = 1 .. n
      /\ \A k \in 1 .. n : out[k] \in Span
      /\ \A k, l \in 1 .. n : k < l => out[k].end < out[l].start
      /\ \A p \in Int : (\E k \in 1 .. n : InSpan(out[k], p))
                          <=> (\E m \in 1 .. i : InSpan(s[m], p))
      /\ \A k \in 1 .. n, m \in 1 .. Len(s) : i < m => out[k].start <= s[m].start
  BY <1>1, LenProperties, ElementOfSeq DEF SweepInv
<1>4. \A m \in 1 .. Len(s) : i + 1 < m => i < m /\ r.start <= s[m].start
  BY <1>1
<1>5. \A p \in Int : (\E m \in 1 .. i + 1 : InSpan(s[m], p))
                       <=> (\E m \in 1 .. i : InSpan(s[m], p)) \/ InSpan(r, p)
  BY <1>1
<1> HIDE DEF r
<1>6. CASE out # <<>> /\ r.start <= Last(out).end
  <2>1. n \in 1 .. n /\ Last(out) = out[n] /\ n > 0
    BY <1>3, <1>6, EmptySeq DEF Last
  <2> DEFINE old == out[n]
             grown == [start |-> old.start, end |-> IF old.end > r.end THEN old.end ELSE r.end]
  <2>2. old \in Span /\ old.start <= r.start /\ r.start <= old.end
    <3>1. old \in Span /\ r.start <= old.end
      BY <1>3, <1>6, <2>1
    <3>2. i < i + 1 /\ i + 1 \in 1 .. Len(s)
      BY <1>1
    <3>3. old.start <= r.start
      BY <1>3, <2>1, <3>2 DEF r
    <3>4. QED
      BY <3>1, <3>3
  <2>3. grown \in Span /\ grown.start = old.start
    <3> DEFINE e == IF old.end > r.end THEN old.end ELSE r.end
    <3>1. /\ old.start \in 0 .. Size /\ old.end \in 0 .. Size /\ old.start < old.end
          /\ r.end \in 0 .. Size /\ Size \in Nat
      BY <2>2, <1>2, SpanFacts, SizeAssumption
    <3> HIDE DEF old
    <3>2. e \in 0 .. Size /\ old.start < e /\ old.start <= e
      BY <3>1
    <3> HIDE DEF e
    <3>3. grown = [start |-> old.start, end |-> e]
      BY DEF e
    <3> HIDE DEF grown
    <3>4. grown.start = old.start /\ grown.end = e
      BY <3>3
    <3>5. grown \in [start : 0 .. Size, end : 0 .. Size]
      BY <3>1, <3>2, <3>3
    <3>6. QED
      BY <3>2, <3>4, <3>5 DEF Span, Extents
  <2>4. \A p \in Int : InSpan(grown, p) <=> InSpan(old, p) \/ InSpan(r, p)
    BY <2>2, <1>2, SpanFacts DEF InSpan
  <2>5. next = [out EXCEPT ![n] = grown]
    <3>1. next = [out EXCEPT ![n].end = IF @ > r.end THEN @ ELSE r.end]
      BY <1>6 DEF Sweep
    <3>2. [old EXCEPT !.end = IF @ > r.end THEN @ ELSE r.end] = grown
      <4>1. old = [start |-> old.start, end |-> old.end]
        BY <2>2, SpanFacts
      <4>2. QED
        BY <4>1
    <3>3. QED
      BY <3>1, <3>2, <1>3, <2>1
  <2> HIDE DEF grown, next
  <2>6. /\ next \in Seq(Span) /\ DOMAIN next = 1 .. n
        /\ next[n] = grown /\ \A k \in 1 .. n : k # n => next[k] = out[k]
    <3> HIDE DEF n
    <3>1. next \in Seq(Span) /\ Len(next) = Len(out)
          /\ \A k \in 1 .. Len(out) : next[k] = IF k = n THEN grown ELSE out[k]
      BY <2>1, <2>3, <2>5, <1>3, ExceptSeq DEF n
    <3>2. DOMAIN next = 1 .. n
      BY <3>1, LenProperties DEF n
    <3>3. QED
      BY <3>1, <3>2, <2>1 DEF n
  <2>7. \A k \in 1 .. n : next[k].start = out[k].start /\ (k # n => next[k] = out[k])
    BY <2>3, <2>6
  <2>8. \A k, l \in DOMAIN next : k < l => next[k].end < next[l].start
    <3>1. SUFFICES ASSUME NEW k \in 1 .. n, NEW l \in 1 .. n, k < l
                   PROVE  next[k].end < next[l].start
      BY <2>6
    <3>2. k # n
      <4>1. n \in Nat
        BY <1>3
      <4> HIDE DEF n
      <4>2. QED
        BY <3>1, <4>1
    <3>3. QED
      BY <1>3, <2>7, <3>1, <3>2
  <2>9. \A p \in Int : (\E k \in DOMAIN next : InSpan(next[k], p))
                         <=> (\E m \in 1 .. i + 1 : InSpan(s[m], p))
    <3>1. SUFFICES ASSUME NEW p \in Int
                   PROVE  (\E k \in 1 .. n : InSpan(next[k], p))
                            <=> (\E k \in 1 .. n : InSpan(out[k], p)) \/ InSpan(r, p)
      BY <1>3, <1>5, <2>6
    <3>2. InSpan(next[n], p) <=> InSpan(out[n], p) \/ InSpan(r, p)
      BY <2>4, <2>6
    <3>3. QED
      BY <2>1, <2>6, <3>2
  <2>10. \A k \in DOMAIN next, m \in DOMAIN s : i + 1 < m => next[k].start <= s[m].start
    BY <1>1, <1>3, <1>4, <2>6, <2>7
  <2>11. QED
    BY <2>6, <2>8, <2>9, <2>10 DEF SweepInv, next, r
<1>7. CASE ~(out # <<>> /\ r.start <= Last(out).end)
  <2>1. next = Append(out, r)
    BY <1>7 DEF Sweep
  <2>2. \A k \in 1 .. n : out[k].end < r.start
    <3>1. SUFFICES ASSUME NEW k \in 1 .. n
                   PROVE  out[k].end < r.start
      OBVIOUS
    <3>2. n \in 1 .. n /\ out # <<>> /\ Last(out) = out[n]
      BY <1>3, EmptySeq DEF Last
    <3>3. out[n].end < r.start /\ out[n] \in Span
      BY <1>2, <1>3, <1>7, <3>2, SpanFacts
    <3>4. CASE k = n
      BY <3>3, <3>4
    <3>5. CASE k # n
      <4>1. k < n /\ out[k] \in Span
        <5>1. n \in Nat /\ out[k] \in Span
          BY <1>3
        <5> HIDE DEF n
        <5>2. QED
          BY <3>5, <5>1
      <4>2. out[k].end < out[n].start
        BY <1>3, <3>2, <4>1
      <4>3. QED
        BY <4>1, <4>2, <3>3, <1>2, SpanFacts
    <3>6. QED
      BY <3>4, <3>5
  <2>3. /\ next \in Seq(Span) /\ DOMAIN next = 1 .. n + 1
        /\ next[n + 1] = r /\ \A k \in 1 .. n : next[k] = out[k]
    BY <1>2, <1>3, <2>1, AppendProperties, LenProperties
  <2>4. 1 .. n + 1 = (1 .. n) \cup {n + 1}
    BY <1>3
  <2> HIDE DEF next
  <2>5. \A k, l \in DOMAIN next : k < l => next[k].end < next[l].start
    <3>1. SUFFICES ASSUME NEW k \in 1 .. n + 1, NEW l \in 1 .. n + 1, k < l
                   PROVE  next[k].end < next[l].start
      BY <2>3
    <3>2. k \in 1 .. n
      BY <1>3, <3>1
    <3>3. CASE l \in 1 .. n
      BY <1>3, <2>3, <3>1, <3>2, <3>3
    <3>4. CASE l = n + 1
      BY <2>2, <2>3, <3>2, <3>4
    <3>5. QED
      BY <2>4, <3>3, <3>4
  <2>6. \A p \in Int : (\E k \in DOMAIN next : InSpan(next[k], p))
                         <=> (\E m \in 1 .. i + 1 : InSpan(s[m], p))
    <3>1. \A p \in Int : (\E k \in 1 .. n + 1 : InSpan(next[k], p))
                           <=> (\E k \in 1 .. n : InSpan(out[k], p)) \/ InSpan(r, p)
      BY <2>3, <2>4
    <3>2. QED
      BY <1>3, <1>5, <2>3, <3>1
  <2>7. \A k \in DOMAIN next, m \in DOMAIN s : i + 1 < m => next[k].start <= s[m].start
    BY <1>1, <1>3, <1>4, <2>3, <2>4
  <2>8. QED
    BY <2>3, <2>5, <2>6, <2>7 DEF SweepInv, next, r
<1>8. QED
  BY <1>6, <1>7

\* coalesce: the spans cover the offsets of the plan, in order, with a gap between any two.
LEMMA CoalesceCorrect ==
  ASSUME NEW plan \in Seq(Extents)
  PROVE  LET spans == Coalesce(plan)
         IN  /\ spans \in Seq(Span)
             /\ \A k, l \in DOMAIN spans : k < l => spans[k].end < spans[l].start
             /\ \A p \in Int : (\E k \in DOMAIN spans : InSpan(spans[k], p))
                                 <=> (\E m \in DOMAIN plan : InSpan(plan[m], p))
<1> DEFINE some  == {i \in DOMAIN plan : plan[i].end > plan[i].start}
           keys  == [i \in DOMAIN plan |-> plan[i].start]
           order == ByStart(plan, some)
           n     == Len(order)
           S     == Seq(Span)
           step  == [x \in (1 .. n) \X S |-> Sweep(x[2], plan[order[x[1]]])]
           Run(f) == f = [i \in 0 .. n |-> IF i = 0 THEN <<>> ELSE Sweep(f[i - 1], plan[order[i]])]
<1>1. DOMAIN plan = 1 .. Len(plan) /\ Len(plan) \in Nat /\ \A i \in DOMAIN plan : plan[i] \in Extents
  BY LenProperties, ElementOfSeq
<1>2. some \in SUBSET (1 .. Len(plan)) /\ 1 .. Len(plan) \in SUBSET Int
      /\ keys \in [1 .. Len(plan) -> Int] /\ \A i \in some : plan[i] \in Span
  BY <1>1, SizeAssumption DEF Extents, Span
<1>3. IsOrderOf(ByKey(keys), some) /\ IsFiniteSet(some)
  <2> DEFINE D == 1 .. Len(plan)
  <2>1. IsFiniteSet(D)
    BY <1>1, FS_Interval
  <2> HIDE DEF some, keys, D
  <2>2. IsFiniteSet(some)
    BY <1>2, <2>1, FS_Subset DEF D
  <2>3. D \in SUBSET Int /\ keys \in [D -> Int] /\ some \in SUBSET D
    BY <1>2 DEF D
  <2>4. QED
    BY <2>2, <2>3, ByKeyIsOrder, Zenon
<1>4. /\ Cardinality(some) \in Nat
      /\ order \in [1 .. Cardinality(some) -> some]
      /\ \A x \in some : \E k \in 1 .. Cardinality(some) : order[k] = x
      /\ \A j, k \in 1 .. Cardinality(some) : j < k => <<order[j], order[k]>> \in ByKey(keys)
  <2>1. order = Arranged(some, ByKey(keys))
    BY DEF ByStart
  <2> HIDE DEF order, some, keys
  <2>2. QED
    BY <2>1, <1>3, ArrangedInOrder
<1>5. n = Cardinality(some) /\ n \in Nat /\ DOMAIN order = 1 .. n
  <2> HIDE DEF order, some
  <2>1. order \in Seq(some) /\ DOMAIN order = 1 .. Cardinality(some)
    BY <1>4, IsASeq
  <2>2. QED
    BY <2>1, <1>4, LenProperties
<1> DEFINE s == [k \in 1 .. n |-> plan[order[k]]]
<1>6. \A k \in 1 .. n : order[k] \in some /\ s[k] = plan[order[k]] /\ s[k] \in Span
  <2> HIDE DEF order, some, n
  <2>1. QED
    BY <1>2, <1>4, <1>5
<1>7. s \in Seq(Span) /\ Len(s) = n /\ DOMAIN s = 1 .. n
  <2>1. s \in [1 .. n -> Span]
    <3> HIDE DEF order, some, n
    <3>1. QED
      BY <1>6
  <2>0. n \in Nat
    BY <1>5
  <2> HIDE DEF s, n
  <2>2. s \in Seq(Span) /\ DOMAIN s = 1 .. n
    BY <2>0, <2>1, IsASeq
  <2>3. QED
    BY <2>2, <1>5, LenProperties
<1>8. \A j, k \in DOMAIN s : j < k => s[j].start <= s[k].start
  <2>1. SUFFICES ASSUME NEW j \in 1 .. n, NEW k \in 1 .. n, j < k
                 PROVE  s[j].start <= s[k].start
    BY <1>7
  <2> DEFINE a == order[j]
             b == order[k]
  <2>2. a \in some /\ b \in some /\ s[j] = plan[a] /\ s[k] = plan[b] /\ <<a, b>> \in ByKey(keys)
    BY <1>4, <1>5, <1>6, <2>1
  <2> HIDE DEF a, b, s, order
  <2>3. keys[a] < keys[b] \/ (keys[a] = keys[b] /\ a < b)
    BY <2>2 DEF ByKey
  <2>4. plan[a] \in Span /\ plan[b] \in Span /\ keys[a] = plan[a].start /\ keys[b] = plan[b].start
    BY <1>1, <1>2, <2>2
  <2>5. QED
    BY <2>2, <2>3, <2>4, SpanFacts
<1>9. \A p \in Int : (\E k \in 1 .. n : InSpan(s[k], p)) <=> (\E m \in DOMAIN plan : InSpan(plan[m], p))
  <2>1. ASSUME NEW p \in Int, NEW m \in DOMAIN plan, InSpan(plan[m], p)
        PROVE  \E k \in 1 .. n : InSpan(s[k], p)
    <3>1. m \in some
      BY <2>1, <1>1, SizeAssumption DEF InSpan, Extents
    <3>2. PICK k \in 1 .. n : order[k] = m
      <4> HIDE DEF order, some, n
      <4>1. QED
        BY <3>1, <1>4, <1>5
    <3> HIDE DEF s, order, n
    <3>3. QED
      BY <3>2, <2>1, <1>6
  <2>2. ASSUME NEW p \in Int, NEW k \in 1 .. n, InSpan(s[k], p)
        PROVE  \E m \in DOMAIN plan : InSpan(plan[m], p)
    <3>1. order[k] \in DOMAIN plan /\ s[k] = plan[order[k]]
      BY <1>6
    <3> HIDE DEF s, order, n
    <3>2. QED
      BY <3>1, <2>2
  <2> HIDE DEF s, n
  <2>3. QED
    BY <2>1, <2>2
<1>10. \A out \in S, r \in Span : Sweep(out, r) \in S
  <2>1. SUFFICES ASSUME NEW out \in S, NEW r \in Span
                 PROVE  Sweep(out, r) \in S
    BY Zenon
  <2>2. CASE out # <<>> /\ r.start <= Last(out).end
    <3> DEFINE l == Len(out)
               grown == [start |-> out[l].start, end |-> IF out[l].end > r.end THEN out[l].end ELSE r.end]
    <3>1. l \in 1 .. l /\ DOMAIN out = 1 .. l /\ out[l] \in Span
      BY <2>2, EmptySeq, LenProperties, ElementOfSeq
    <3>2. grown \in Span
      BY <3>1, SpanFacts DEF Span, Extents
    <3>3. Sweep(out, r) = [out EXCEPT ![l] = grown]
      <4>1. Sweep(out, r) = [out EXCEPT ![l].end = IF @ > r.end THEN @ ELSE r.end]
        BY <2>2 DEF Sweep
      <4>2. [out[l] EXCEPT !.end = IF @ > r.end THEN @ ELSE r.end] = grown
        BY <3>1, SpanFacts
      <4>3. QED
        BY <4>1, <4>2, <3>1
    <3> HIDE DEF grown
    <3>4. QED
      BY <3>1, <3>2, <3>3, ExceptSeq
  <2>3. CASE ~(out # <<>> /\ r.start <= Last(out).end)
    BY <2>3, AppendProperties DEF Sweep
  <2>4. QED
    BY <2>2, <2>3
<1>11. step \in [(1 .. n) \X S -> S]
  <2>1. \A i \in 1 .. n : plan[order[i]] \in Span
    BY <1>6
  <2> HIDE DEF S, n, order
  <2>2. QED
    BY <1>10, <2>1
<1>12. PICK f : IsRun(n, f, S, <<>>, step)
  <2>1. <<>> \in S
    BY EmptySeq
  <2> HIDE DEF step, n, S
  <2>2. QED
    BY <1>5, <1>11, <2>1, LoopExists
<1>13. \A i \in 1 .. n : step[<<i, f[i - 1]>>] = Sweep(f[i - 1], plan[order[i]])
  <2>1. \A i \in 1 .. n : f[i - 1] \in S
    <3>1. \A i \in 1 .. n : i - 1 \in 0 .. n
      BY <1>5
    <3> HIDE DEF n, S
    <3>2. QED
      BY <3>1, <1>12 DEF IsRun
  <2> HIDE DEF S, n, order
  <2>2. QED
    BY <2>1
<1>14. Run(f)
  <2> HIDE DEF S, step, order
  <2>1. f \in [0 .. n -> S] /\ f[0] = <<>> /\ \A i \in 1 .. n : f[i] = Sweep(f[i - 1], plan[order[i]])
    BY <1>12, <1>13 DEF IsRun
  <2>2. \A i \in 0 .. n : i = 0 \/ i \in 1 .. n
    BY <1>5
  <2> HIDE DEF n
  <2>3. \A i \in 0 .. n : f[i] = IF i = 0 THEN <<>> ELSE Sweep(f[i - 1], plan[order[i]])
    BY <2>1, <2>2
  <2>4. QED
    BY <2>1, <2>3
<1>15. PICK g : Run(g) /\ Coalesce(plan) = g[n]
  <2>1. Run(CHOOSE h : Run(h))
    BY <1>14, Zenon
  <2>2. QED
    BY <2>1 DEF Coalesce
<1>16. g[0] = <<>> /\ \A i \in 0 .. n - 1 : g[i + 1] = Sweep(g[i], s[i + 1])
  <2>1. g[0] = <<>>
    BY <1>5, <1>15
  <2>2. ASSUME NEW i \in 0 .. n - 1
        PROVE  g[i + 1] = Sweep(g[i], s[i + 1])
    <3>1. i + 1 \in 0 .. n /\ i + 1 # 0 /\ (i + 1) - 1 = i /\ s[i + 1] = plan[order[i + 1]]
      BY <1>5
    <3> HIDE DEF n, s, order
    <3>2. g[i + 1] = IF i + 1 = 0 THEN <<>> ELSE Sweep(g[(i + 1) - 1], plan[order[i + 1]])
      BY <1>15, <3>1
    <3>3. QED
      BY <3>1, <3>2
  <2>3. QED
    BY <2>1, <2>2
<1> DEFINE done == {i \in 0 .. n : SweepInv(s, i, g[i])}
<1> HIDE DEF s, n
<1>17. 0 \in done
  <2>1. SweepInv(s, 0, <<>>)
    BY EmptySeq, LenProperties DEF SweepInv
  <2>2. QED
    BY <1>5, <1>16, <2>1
<1>18. \A i \in 0 .. n - 1 : i \in done => i + 1 \in done
  <2>1. SUFFICES ASSUME NEW i \in 0 .. n - 1, SweepInv(s, i, g[i])
                 PROVE  i + 1 \in 0 .. n /\ SweepInv(s, i + 1, g[i + 1])
    OBVIOUS
  <2>2. i + 1 \in 0 .. n
    BY <1>5
  <2>3. QED
    BY <1>7, <1>8, <1>16, <2>1, <2>2, SweepKeepsSweepInv
<1>19. SweepInv(s, n, g[n])
  <2> HIDE DEF done
  <2>1. \A i \in 0 .. n : i \in done
    BY <1>5, <1>17, <1>18, SetInduction
  <2>2. n \in done
    BY <1>5, <2>1
  <2>3. QED
    BY <2>2 DEF done
<1>20. QED
  BY <1>9, <1>15, <1>19 DEF SweepInv

-----------------------------------------------------------------------------
(* What the vector holds, as a map *)

\* ResidentMap, as a function of the vector.
MapOf(c) ==
  [p \in Offsets |->
     IF \E i \in DOMAIN c : HasByte(c[i], p)
       THEN ByteAt(c[SelectInSeq(c, LAMBDA x : HasByte(x, p))], p)
       ELSE Absent]

\* Offsets are unique in a vector of the cache: one range holds a byte for an offset.
LEMMA OneHolder ==
  ASSUME NEW c \in Vec, NEW p \in Int, NEW i \in DOMAIN c, NEW j \in DOMAIN c,
         HasByte(c[i], p), HasByte(c[j], p)
  PROVE  i = j
<1>1. c[i] \in CachedRange /\ c[j] \in CachedRange /\ i \in Int /\ j \in Int
  BY LenProperties, ElementOfSeq DEF Vec
<1>2. i < j => Before(c[i], c[j])
  BY DEF Vec, Apart
<1>3. j < i => Before(c[j], c[i])
  BY DEF Vec, Apart
<1>4. QED
  BY <1>1, <1>2, <1>3, GapFacts

\* The map holds the byte of the range that holds one.
LEMMA MapOfVec ==
  ASSUME NEW c \in Vec, NEW p \in Offsets
  PROVE  /\ MapOf(c)[p] = Absent <=> ~Resident(c, p)
         /\ \A v : In(c, p, v) <=> MapOf(c)[p] = v /\ v # Absent
         /\ MapOf(c)[p] \in Byte \cup {Absent}
<1>1. p \in Int /\ c \in Seq(CachedRange) /\ DOMAIN c = 1 .. Len(c) /\ Len(c) \in Nat
      /\ \A i \in 1 .. Len(c) : c[i] \in CachedRange
  BY SizeAssumption, LenProperties, ElementOfSeq DEF Offsets, Vec
<1>2. CASE ~Resident(c, p)
  <2>1. MapOf(c)[p] = Absent
    BY <1>2 DEF MapOf, Resident
  <2>2. \A v : ~In(c, p, v)
    BY <1>2, ResidentMeansSomeByte
  <2>3. QED
    BY <1>2, <2>1, <2>2
<1>3. CASE Resident(c, p)
  <2> DEFINE I == {i \in 1 .. Len(c) : HasByte(c[i], p)}
             k == SelectInSeq(c, LAMBDA x : HasByte(x, p))
  <2>1. I \in SUBSET Nat /\ I # {}
    BY <1>1, <1>3 DEF Resident
  <2>2. k \in I
    <3>1. PICK x \in I : \A y \in I : x <= y
      <4> HIDE DEF I
      <4>1. QED
        BY <2>1, LeastNumber
    <3>2. k = Min(I)
      BY <2>1 DEF SelectInSeq
    <3> HIDE DEF I, k
    <3>3. QED
      BY <3>1, <3>2 DEF Min
  <2>3. MapOf(c)[p] = ByteAt(c[k], p)
    BY <1>3 DEF MapOf, Resident
  <2> HIDE DEF k
  <2>4. k \in DOMAIN c /\ HasByte(c[k], p) /\ ByteAt(c[k], p) \in Byte
    BY <2>2, <1>1, RangeFacts
  <2>5. ByteAt(c[k], p) # Absent
    BY <2>4, ByteAssumption
  <2>6. \A v : In(c, p, v) <=> ByteAt(c[k], p) = v
    BY <2>4, <1>1, OneHolder DEF In, Knows
  <2>7. QED
    BY <1>3, <2>3, <2>4, <2>5, <2>6
<1>4. QED
  BY <1>2, <1>3

\* get and contains, as functions of the vector: they answer a request exactly when all of
\* its bytes are held, and with those bytes.
LEMMA VecServes ==
  ASSUME NEW c \in Vec, NEW p \in 0 .. Size, NEW len \in 0 .. Size - p
  PROVE  IF \A q \in p .. p + len - 1 : MapOf(c)[q] # Absent
           THEN /\ CacheContains(c, p, len)
                /\ CacheGet(c, p, len) = [i \in 1 .. len |-> MapOf(c)[p + i - 1]]
           ELSE ~CacheContains(c, p, len)
<1>1. /\ c \in Seq(CachedRange) /\ DOMAIN c = 1 .. Len(c) /\ Len(c) \in Nat
      /\ \A i \in 1 .. Len(c) : c[i] \in CachedRange
      /\ p \in Nat /\ len \in Nat /\ p + len \in Nat /\ p + len <= Size
  BY SizeAssumption, LenProperties, ElementOfSeq DEF Vec
<1>2. \A q \in p .. p + len - 1 : q \in Offsets /\ q \in Int
  BY <1>1, SizeAssumption DEF Offsets
<1>3. \A q \in p .. p + len - 1 : MapOf(c)[q] # Absent <=> Resident(c, q)
  BY <1>2, MapOfVec
<1>4. ASSUME NEW k \in 1 .. Len(c), Covers(c[k], p, p + len)
      PROVE  \A q \in p .. p + len - 1 : HasByte(c[k], q) /\ MapOf(c)[q] = ByteAt(c[k], q)
  <2>1. SUFFICES ASSUME NEW q \in p .. p + len - 1
                 PROVE  HasByte(c[k], q) /\ MapOf(c)[q] = ByteAt(c[k], q)
    OBVIOUS
  <2>2. c[k] \in CachedRange /\ q \in Int /\ p <= q /\ q < p + len
    BY <1>1
  <2>3. HasByte(c[k], q)
    BY <2>2, <1>1, <1>4, RangeFacts DEF Covers, HasByte
  <2>4. In(c, q, ByteAt(c[k], q))
    BY <1>1, <2>3 DEF In, Knows
  <2>5. QED
    BY <1>2, <2>3, <2>4, MapOfVec
<1>5. CASE len = 0
  <2>1. p .. p + len - 1 = {} /\ CacheContains(c, p, len) /\ CacheGet(c, p, len) = <<>>
    BY <1>1, <1>5 DEF CacheContains, CacheGet
  <2>2. [i \in 1 .. len |-> MapOf(c)[p + i - 1]] = <<>>
    BY <1>5
  <2>3. QED
    BY <2>1, <2>2
<1>6. CASE len # 0 /\ \E q \in p .. p + len - 1 : MapOf(c)[q] = Absent
  <2>1. ~ \E i \in 1 .. Len(c) : Covers(c[i], p, p + len)
    BY <1>1, <1>3, <1>4, <1>6 DEF Resident
  <2>2. QED
    BY <1>1, <1>6, <2>1 DEF CacheContains
<1>7. CASE len # 0 /\ \A q \in p .. p + len - 1 : MapOf(c)[q] # Absent
  <2>1. p \in p .. p + len - 1
    BY <1>1, <1>7
  <2>2. PICK k \in 1 .. Len(c) : HasByte(c[k], p)
    BY <1>1, <1>3, <1>7, <2>1 DEF Resident
  <2>3. c[k] \in CachedRange
    BY <1>1
  <2>4. p + len <= End(c[k])
    <3>1. SUFFICES ASSUME End(c[k]) < p + len
                   PROVE  FALSE
      BY <1>1, <2>3, RangeFacts
    <3> DEFINE q == End(c[k])
    <3>2. q \in p .. p + len - 1
      BY <1>1, <2>2, <2>3, <3>1, RangeFacts DEF HasByte
    <3>3. PICK m \in 1 .. Len(c) : HasByte(c[m], q)
      BY <1>1, <1>3, <1>7, <3>2 DEF Resident
    <3>4. ~HasByte(c[k], q)
      BY <2>3, RangeFacts DEF HasByte
    <3>5. m # k /\ m \in Int /\ k \in Int
      BY <3>3, <3>4
    <3>6. Before(c[k], c[m]) \/ Before(c[m], c[k])
      <4>1. m < k \/ k < m
        BY <3>5
      <4>2. QED
        BY <1>1, <4>1 DEF Vec, Apart
    <3>7. QED
      BY <1>1, <2>3, <3>3, <3>6, RangeFacts DEF Before, HasByte
  <2>5. Covers(c[k], p, p + len)
    BY <2>2, <2>4 DEF Covers, HasByte
  <2>6. CacheContains(c, p, len)
    BY <1>1, <2>5 DEF CacheContains
  <2> DEFINE I == {i \in 1 .. Len(c) : Covers(c[i], p, p + len)}
             r == SelectInSeq(c, LAMBDA x : Covers(x, p, p + len))
  <2>7. r \in I
    <3>1. I \in SUBSET Nat /\ I # {}
      BY <1>1, <2>5
    <3>2. PICK x \in I : \A y \in I : x <= y
      <4> HIDE DEF I
      <4>1. QED
        BY <3>1, LeastNumber
    <3>3. r = Min(I)
      BY <3>1 DEF SelectInSeq
    <3> HIDE DEF I, r
    <3>4. QED
      BY <3>2, <3>3 DEF Min
  <2>8. CacheGet(c, p, len) = [i \in 1 .. len |-> ByteAt(c[r], p + i - 1)]
    BY <1>7 DEF CacheGet
  <2> HIDE DEF r
  <2>9. r \in 1 .. Len(c) /\ Covers(c[r], p, p + len)
    BY <2>7
  <2>10. \A i \in 1 .. len : ByteAt(c[r], p + i - 1) = MapOf(c)[p + i - 1]
    <3>1. \A i \in 1 .. len : p + i - 1 \in p .. p + len - 1
      BY <1>1
    <3>2. QED
      BY <3>1, <2>9, <1>4
  <2>11. [i \in 1 .. len |-> ByteAt(c[r], p + i - 1)] = [i \in 1 .. len |-> MapOf(c)[p + i - 1]]
    BY <2>10
  <2>12. QED
    BY <1>7, <2>6, <2>8, <2>11
<1>8. QED
  BY <1>5, <1>6, <1>7

-----------------------------------------------------------------------------
(* The inductive invariant *)

\* The vector is one insert keeps, inside the source, and the plan is made of ranges of it.
CacheInv ==
  /\ ranges \in Vec
  /\ \A i \in DOMAIN ranges : End(ranges[i]) <= Size
  /\ planned \in Seq(Extents)

LEMMA CacheInit == Init => CacheInv
<1>1. SUFFICES ASSUME Init
               PROVE  CacheInv
  OBVIOUS
<1>2. ranges = <<>> /\ planned = <<>> /\ DOMAIN <<>> = {}
  BY <1>1 DEF Init
<1>3. ranges \in Vec
  BY <1>2, EmptySeq DEF Vec, Apart
<1>4. QED
  BY <1>2, <1>3, EmptySeq DEF CacheInv

\* What a fill brings is what was planned.
LEMMA FillStep ==
  ASSUME CacheInv, NEW v \in Byte, FillCache(v)
  PROVE  /\ ranges' \in Vec /\ planned' = <<>>
         /\ \A p \in Int : \A w : In(ranges', p, w)
              <=> \/ In(ranges, p, w)
                  \/ w = v /\ ~Resident(ranges, p) /\ \E m \in DOMAIN planned : InSpan(planned[m], p)
<1> DEFINE spans == Coalesce(planned)
<1>1. ranges \in Vec /\ planned \in Seq(Extents)
  BY DEF CacheInv
<1>2. /\ spans \in Seq(Span)
      /\ \A p \in Int : (\E k \in DOMAIN spans : InSpan(spans[k], p))
                          <=> (\E m \in DOMAIN planned : InSpan(planned[m], p))
  BY <1>1, CoalesceCorrect
<1>3. ranges' = Filled(ranges, spans, v) /\ planned' = <<>>
  BY DEF FillCache
<1> HIDE DEF spans
<1>4. DOMAIN spans = 1 .. Len(spans)
  BY <1>2, LenProperties
<1>5. FillInv(ranges, spans, v, Len(spans), ranges')
  BY <1>1, <1>2, <1>3, FilledCorrect
<1>6. QED
  BY <1>2, <1>3, <1>4, <1>5 DEF FillInv

LEMMA CacheStep == CacheInv /\ [Next]_vars => CacheInv'
<1>1. SUFFICES ASSUME CacheInv, [Next]_vars
               PROVE  CacheInv'
  OBVIOUS
<1>2. ASSUME NEW r \in Extents, PlanRange(r)
      PROVE  CacheInv'
  <2>1. planned' \in Seq(Extents)
    BY <1>1, <1>2, AppendProperties DEF PlanRange, CacheInv
  <2>2. QED
    BY <1>1, <1>2, <2>1 DEF PlanRange, CacheInv
<1>3. ASSUME NEW v \in Byte, FillCache(v)
      PROVE  CacheInv'
  <2>1. /\ ranges' \in Vec /\ planned' = <<>>
        /\ \A p \in Int : \A w : In(ranges', p, w)
             => In(ranges, p, w) \/ \E m \in DOMAIN planned : InSpan(planned[m], p)
    BY <1>1, <1>3, FillStep
  <2>2. \A p \in Int : \A w : In(ranges, p, w) => p < Size
    <3>1. \A i \in DOMAIN ranges : ranges[i] \in CachedRange /\ End(ranges[i]) <= Size
      BY <1>1, LenProperties, ElementOfSeq DEF CacheInv, Vec
    <3>2. QED
      BY <3>1, SizeAssumption, RangeFacts DEF In, Knows, HasByte
  <2>3. \A p \in Int, m \in DOMAIN planned : InSpan(planned[m], p) => p < Size
    <3>1. \A m \in DOMAIN planned : planned[m] \in Extents
      BY <1>1, LenProperties, ElementOfSeq DEF CacheInv
    <3>2. QED
      BY <3>1, SizeAssumption DEF Extents, InSpan
  <2>4. ASSUME NEW i \in DOMAIN ranges'
        PROVE  End(ranges'[i]) <= Size
    <3> DEFINE r == ranges'[i]
               p == End(r) - 1
    <3>1. r \in CachedRange
      BY <2>1, LenProperties, ElementOfSeq DEF Vec
    <3>2. p \in Int /\ HasByte(r, p)
      BY <3>1, RangeFacts DEF HasByte
    <3>3. In(ranges', p, ByteAt(r, p))
      BY <3>2 DEF In, Knows
    <3>4. p < Size
      BY <2>1, <2>2, <2>3, <3>2, <3>3
    <3>5. QED
      BY <3>1, <3>4, RangeFacts, SizeAssumption
  <2>5. QED
    BY <2>1, <2>4, EmptySeq DEF CacheInv
<1>4. CASE UNCHANGED vars
  BY <1>1, <1>4 DEF CacheInv, vars
<1>5. QED
  BY <1>1, <1>2, <1>3, <1>4 DEF Next

\* The cache keeps its shape: ranges of bytes of the source, and a plan of ranges of it.
THEOREM CacheCorrect == Spec => []CacheInv
  BY CacheInit, CacheStep, PTL DEF Spec

-----------------------------------------------------------------------------
(* The results *)

LEMMA ResidentMapIsMapOf == ResidentMap = MapOf(ranges)
  BY DEF ResidentMap, MapOf

LEMMA ResidentMapNext == (ResidentMap = MapOf(ranges))'
  BY ResidentMapIsMapOf, PTL

\* insert of src/remote/cache.rs: whatever spans are filled in whatever order, the resident
\* ranges are non-empty, in order, and no two of them overlap or abut.
THEOREM RangesSeparated == Spec => []Separated
<1>1. CacheInv => Separated
  <2>1. SUFFICES ASSUME CacheInv
                 PROVE  Separated
    OBVIOUS
  <2>2. \A i \in DOMAIN ranges : ranges[i] \in CachedRange
    BY <2>1, LenProperties, ElementOfSeq DEF CacheInv, Vec
  <2>3. QED
    BY <2>1, <2>2 DEF Separated, CacheInv, Vec, Apart, Before, CachedRange
<1>2. QED
  BY <1>1, CacheCorrect, PTL

\* get and contains of src/remote/cache.rs: a request is answered exactly when every byte of
\* it is resident, with those bytes.
THEOREM ResidentBytesServed == Spec => []ServesWhatIsResident
<1>1. CacheInv => ServesWhatIsResident
  <2>1. SUFFICES ASSUME CacheInv
                 PROVE  ServesWhatIsResident
    OBVIOUS
  <2>2. ranges \in Vec
    BY <2>1 DEF CacheInv
  <2>3. QED
    BY <2>2, VecServes, ResidentMapIsMapOf, Zenon DEF ServesWhatIsResident
<1>2. QED
  BY <1>1, CacheCorrect, PTL

\* coalesce of src/remote/fetcher.rs: the spans of a batch cover what was planned, no more,
\* and no two of them could have been one request.
THEOREM CoalesceCovers == Spec => []CoalesceExact
<1>1. CacheInv => CoalesceExact
  <2>1. SUFFICES ASSUME CacheInv
                 PROVE  CoalesceExact
    OBVIOUS
  <2> DEFINE spans == Coalesce(planned)
             offsets(s) == s.start .. s.end - 1
  <2>2. planned \in Seq(Extents) /\ \A i \in DOMAIN planned : planned[i] \in Extents
    BY <2>1, LenProperties, ElementOfSeq DEF CacheInv
  <2>3. /\ spans \in Seq(Span)
        /\ \A k, l \in DOMAIN spans : k < l => spans[k].end < spans[l].start
        /\ \A p \in Int : (\E k \in DOMAIN spans : InSpan(spans[k], p))
                            <=> (\E m \in DOMAIN planned : InSpan(planned[m], p))
    BY <2>2, CoalesceCorrect
  <2> HIDE DEF spans
  <2>4. \A k \in DOMAIN spans : spans[k] \in Span
    BY <2>3, LenProperties, ElementOfSeq
  <2>5. \A r \in Extents : \A p : p \in offsets(r) <=> p \in Int /\ InSpan(r, p)
    BY SizeAssumption DEF Extents, InSpan
  <2>6. \A k \in DOMAIN spans : spans[k] \in Extents /\ spans[k].start < spans[k].end
    BY <2>4 DEF Span
  <2> HIDE DEF offsets
  <2>7. UNION {offsets(spans[i]) : i \in DOMAIN spans} = UNION {offsets(planned[i]) : i \in DOMAIN planned}
    BY <2>2, <2>3, <2>5, <2>6
  <2>8. QED
    BY <2>3, <2>6, <2>7 DEF CoalesceExact, spans, offsets
<1>2. QED
  BY <1>1, CacheCorrect, PTL

\* A fill changes no byte that is resident and loses none: the vector of merged ranges
\* implements the partial map ResidentBytes specifies, on which StreamFetcher is built.
THEOREM VectorImplementsMap == Spec => RefinesResidentBytes
<1>1. Init => Promise!Init
  <2>1. SUFFICES ASSUME Init
                 PROVE  ResidentMap = [p \in Offsets |-> Absent]
    BY DEF Promise!Init, Promise!NothingResident
  <2>2. ranges = <<>> /\ DOMAIN ranges = {}
    BY <2>1 DEF Init
  <2>3. QED
    BY <2>2 DEF ResidentMap
<1>2. CacheInv /\ [Next]_vars => [Promise!Fill]_ResidentMap
  <2>1. SUFFICES ASSUME CacheInv, [Next]_vars
                 PROVE  Promise!Fill \/ ResidentMap' = ResidentMap
    BY Zenon
  <2>2. ranges \in Vec
    BY <2>1 DEF CacheInv
  <2>3. ASSUME NEW r \in Extents, PlanRange(r)
        PROVE  ResidentMap' = ResidentMap
    <3>1. ranges' = ranges
      BY <2>3 DEF PlanRange
    <3>2. QED
      BY <3>1, ResidentMapIsMapOf, ResidentMapNext, Zenon
  <2>4. ASSUME NEW v \in Byte, FillCache(v)
        PROVE  Promise!Fill
    <3>1. /\ ranges' \in Vec
          /\ \A p \in Int : \A w : In(ranges, p, w) => In(ranges', p, w)
      BY <2>1, <2>4, FillStep
    <3>2. ResidentMap = MapOf(ranges) /\ ResidentMap' = MapOf(ranges')
      BY ResidentMapIsMapOf, ResidentMapNext
    <3>3. MapOf(ranges') \in Promise!Cells
      <4>1. \A p \in Offsets : MapOf(ranges')[p] \in Byte \cup {Absent}
        BY <3>1, MapOfVec
      <4>2. MapOf(ranges') = [p \in Offsets |-> MapOf(ranges')[p]]
        BY DEF MapOf
      <4>3. QED
        BY <4>1, <4>2 DEF Promise!Cells
    <3>4. ASSUME NEW p \in Offsets, MapOf(ranges)[p] # Absent
          PROVE  MapOf(ranges')[p] = MapOf(ranges)[p]
      <4>1. p \in Int
        BY SizeAssumption DEF Offsets
      <4>2. In(ranges, p, MapOf(ranges)[p])
        BY <2>2, <3>4, MapOfVec
      <4>3. In(ranges', p, MapOf(ranges)[p])
        BY <3>1, <4>1, <4>2
      <4>4. QED
        BY <3>1, <3>4, <4>3, MapOfVec
    <3>5. QED
      BY <3>2, <3>3, <3>4 DEF Promise!Fill, Promise!Held
  <2>5. CASE UNCHANGED vars
    <3>1. ranges' = ranges
      BY <2>5 DEF vars
    <3>2. QED
      BY <3>1, ResidentMapIsMapOf, ResidentMapNext, Zenon
  <2>6. QED
    BY <2>1, <2>3, <2>4, <2>5, Zenon DEF Next
<1>3. QED
  BY <1>1, <1>2, CacheCorrect, PTL DEF Spec, RefinesResidentBytes, Promise!Spec
=============================================================================
