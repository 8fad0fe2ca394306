------------------------- MODULE StreamFetcherProofs -------------------------
(***************************************************************************)
(* Proofs about StreamFetcher for every number of threads, source size,    *)
(* header length, set of requests and kind of policy.  FetcherInv is the   *)
(* inductive invariant; the other results follow from it.                  *)
(***************************************************************************)
EXTENDS StreamFetcher, FiniteSetTheorems,
        WellFoundedInduction, TLAPS

-----------------------------------------------------------------------------
(* Least elements, spans and runs *)

\* A non-empty set of offsets has a first one, which FirstOffset names.
LEMMA FirstOffsetIsLeast ==
  ASSUME NEW S \in SUBSET (0 .. Size), S # {}
  PROVE  FirstOffset(S) \in S /\ \A q \in S : FirstOffset(S) <= q
<1> DEFINE all == 0 .. Size
           prefixes == {0 .. p : p \in S}
<1>1. IsFiniteSet(all)
  BY FS_Interval, SizeAssumption
<1>2. prefixes \subseteq SUBSET all /\ prefixes # {}
  <2>1. ASSUME NEW p \in S
        PROVE  0 .. p \subseteq 0 .. Size
    BY SizeAssumption
  <2>2. QED
    BY <2>1
<1>3. \E x \in prefixes : \A y \in prefixes : <<y, x>> \notin StrictSubsetOrdering(all)
  <2> HIDE DEF all, prefixes
  <2>1. IsWellFoundedOn(StrictSubsetOrdering(all), SUBSET all)
    BY <1>1, FS_StrictSubsetOrderingWellFounded, FS_FiniteSubsetsOfFinite
  <2>2. QED
    BY <1>2, <2>1, WFMin
<1>4. PICK p \in S : \A y \in prefixes : <<y, 0 .. p>> \notin StrictSubsetOrdering(all)
  BY <1>3
<1>5. ASSUME NEW q \in S
      PROVE  p <= q
  <2>1. CASE q < p
    <3>1. 0 .. q \subseteq 0 .. p /\ 0 .. q # 0 .. p
      BY <2>1, SizeAssumption
    <3>2. <<0 .. q, 0 .. p>> \in StrictSubsetOrdering(all)
      BY <3>1, <1>2 DEF StrictSubsetOrdering
    <3>3. QED
      BY <3>2, <1>4
  <2>2. QED
    BY <2>1, SizeAssumption
<1>6. QED
  BY <1>5 DEF FirstOffset

\* A thread that has spans left has a first span, and it is not empty.
LEMMA FirstSpanExists ==
  ASSUME TypeOK, NEW t \in Threads, ReadShape(t), spans[t] # {}
  PROVE  /\ FirstSpan(t) \in spans[t]
         /\ FirstSpan(t) # {}
         /\ FirstSpan(t) \in SUBSET (0 .. Size)
         /\ FirstOffset(FirstSpan(t)) \in Nat
<1> DEFINE all == UNION spans[t]
<1>1. spans[t] \in SUBSET SUBSET (0 .. Size) /\ {} \notin spans[t]
  BY DEF TypeOK, ReadShape
<1>2. all \in SUBSET (0 .. Size) /\ all # {}
  <2>1. PICK u \in spans[t] : TRUE
    OBVIOUS
  <2>2. PICK x \in u : TRUE
    BY <1>1, <2>1
  <2>3. QED
    BY <1>1, <2>1, <2>2
<1>3. PICK p \in all : \A q \in all : p <= q
  BY <1>2, FirstOffsetIsLeast
<1>4. PICK s \in spans[t] : p \in s
  BY <1>3
<1>5. \A u \in spans[t] : \E x \in s : \A q \in u : x <= q
  BY <1>3, <1>4
<1>6. FirstSpan(t) \in spans[t]
  BY <1>4, <1>5 DEF FirstSpan
<1>7. FirstSpan(t) # {} /\ FirstSpan(t) \in SUBSET (0 .. Size)
  BY <1>1, <1>6
<1>8. FirstOffset(FirstSpan(t)) \in Nat
  BY <1>7, FirstOffsetIsLeast, SizeAssumption
<1>9. QED
  BY <1>6, <1>7, <1>8

\* A span has a length.
LEMMA SpanLength ==
  ASSUME NEW s \in SUBSET (0 .. Size)
  PROVE  Cardinality(s) \in Nat
<1>1. IsFiniteSet(0 .. Size)
  BY FS_Interval, SizeAssumption
<1>2. QED
  BY <1>1, FS_Subset, FS_CardinalityType

\* coalesce loses no planned offset, adds none, and yields no empty span.
LEMMA RunsPartition ==
  ASSUME NEW planned \in SUBSET Int
  PROVE  UNION Runs(planned) = planned /\ {} \notin Runs(planned)
<1> DEFINE run(p) == {q \in planned : Between(p, q) \subseteq planned}
<1>1. \A p \in planned : p \in run(p)
  BY DEF Between
<1>2. Runs(planned) = {run(p) : p \in planned}
  BY Zenon DEF Runs
<1>3. \A p \in planned : run(p) \subseteq planned
  OBVIOUS
<1> HIDE DEF run
<1>4. QED
  BY <1>1, <1>2, <1>3

\* Dropping the spans that are resident as a whole keeps every planned offset
\* that is not resident.
LEMMA PlanKeepsMissing ==
  ASSUME NEW planned \in SUBSET (0 .. Size)
  PROVE  /\ PlanUncached(planned) \in SUBSET SUBSET (0 .. Size)
         /\ {} \notin PlanUncached(planned)
         /\ \A p \in planned : p \in UNION PlanUncached(planned)
                                 \/ (p \in Offsets /\ resident[p] # Absent)
<1>1. UNION Runs(planned) = planned /\ {} \notin Runs(planned)
  BY RunsPartition, SizeAssumption
<1>2. QED
  BY <1>1 DEF PlanUncached, Cache!Holds, Cache!Held
-----------------------------------------------------------------------------
(* The cache and the plan *)

\* What a fill leaves in the cache.
LEMMA OverlayFacts ==
  ASSUME TypeOK, CacheCoherent, GotCoherent, NEW t \in Threads
  PROVE  LET m == Cache!Overlay(resident, got[t])
         IN  /\ m \in Cache!Cells
             /\ \A p \in Offsets : m[p] \in {Absent, p}
             /\ \A p \in Offsets : resident[p] # Absent => m[p] # Absent
             /\ \A p \in Offsets : got[t][p] # Absent => m[p] # Absent
BY DEF TypeOK, CacheCoherent, GotCoherent, Cache!Overlay, Cache!Cells

\* A piece taken from a map of resident bytes is an extract; from a coherent
\* map that holds the whole span it is the source's bytes.
LEMMA BytesAreSource ==
  ASSUME NEW m \in Cache!Cells, NEW S, Cache!Holds(m, S),
         \A p \in Offsets : m[p] \in {Absent, p}
  PROVE  /\ Cache!Bytes(m, S) \in Extracts
         /\ Cache!Bytes(m, S) = [p \in S |-> p]
<1>1. S \in SUBSET Offsets /\ \A p \in S : m[p] = p
  BY DEF Cache!Holds, Cache!Held
<1>2. Cache!Bytes(m, S) = [p \in S |-> p]
  BY <1>1 DEF Cache!Bytes
<1>3. [p \in S |-> p] \in [S -> Offsets \cup {Absent}]
  BY <1>1
<1>4. QED
  BY <1>1, <1>2, <1>3 DEF Extracts

\* A plan stays within one byte of the source, and the header-aware plan covers
\* the requests.
LEMMA PlansInSource ==
  ASSUME TypeOK, NEW requests \in SUBSET Request, NEW planned \in Plans(requests)
  PROVE  /\ planned \in SUBSET (0 .. Size)
         /\ policy = "header_aware" =>
              \A r \in requests : Span(r) \cap Offsets \subseteq planned
<1>1. CASE policy = "header_aware"
  <2>1. planned = UNION {HeaderAwarePlan(r) : r \in requests}
    BY <1>1 DEF Plans
  <2>2. ASSUME NEW r \in requests
        PROVE  /\ HeaderAwarePlan(r) \subseteq 0 .. Size
               /\ Span(r) \cap Offsets \subseteq HeaderAwarePlan(r)
    BY SizeAssumption, HeaderLenAssumption
       DEF HeaderAwarePlan, HeaderEnd, Offsets, Request
  <2>3. QED
    BY <2>1, <2>2
<1>2. CASE policy # "header_aware"
  BY <1>2 DEF Plans
<1>3. QED
  BY <1>1, <1>2

-----------------------------------------------------------------------------
(* The invariant is preserved *)

LEMMA InitInv == Contained /\ Init => FetcherInv
<1> SUFFICES ASSUME Contained, Init
             PROVE  FetcherInv
  OBVIOUS
<1>1. TypeOK
  BY TransportAssumption, PolicyAssumption
     DEF Init, TypeOK, NoBytes, Cache!Cells, Labels
<1>2. CacheCoherent /\ GotCoherent
  BY DEF Init, CacheCoherent, GotCoherent, NoBytes
<1>3. CursorAtSpan
  BY DEF Init, CursorAtSpan
<1>4. \A t \in Threads : ReadShape(t) /\ ServedExactly(t) /\ NothingForgotten(t)
  BY DEF Init, ReadShape, ServedExactly, NothingForgotten, Busy, OnItsWay
<1>5. QED
  BY <1>1, <1>2, <1>3, <1>4 DEF FetcherInv

\* A step of one thread leaves what is known of another thread's read alone,
\* because the cache only grows.
LEMMA OtherThread ==
  ASSUME NEW u \in Threads, ReadShape(u), ServedExactly(u), NothingForgotten(u),
         UNCHANGED config, Cache!Held(resident) \subseteq Cache!Held(resident)',
         pc'[u] = pc[u], call'[u] = call[u], spans'[u] = spans[u],
         got'[u] = got[u], healing'[u] = healing[u], out'[u] = out[u]
  PROVE  ReadShape(u)' /\ ServedExactly(u)' /\ NothingForgotten(u)'
<1>1. ReadShape(u)'
  BY DEF ReadShape, NoBytes, InBounds, Busy, config
<1>2. ServedExactly(u)'
  BY DEF ServedExactly, Span
<1>3. ASSUME NEW S, OnItsWay(u, S)
      PROVE  S \subseteq Cache!Held(got'[u]) \cup (UNION spans'[u])
                            \cup (IF healing'[u] THEN {} ELSE Cache!Held(resident)')
  BY <1>3 DEF OnItsWay
<1>4. Serving(u)' = Serving(u)
  BY DEF Serving
<1>5. NothingForgotten(u)'
  BY <1>3, <1>4 DEF NothingForgotten, OnItsWay, Span, Cache!Held, Busy, config
<1>6. QED
  BY <1>1, <1>2, <1>5

\* A step of the fetch forgets nothing when each span it takes off the list is
\* among the fetched bytes.
LEMMA FetchStep ==
  ASSUME NEW t \in Threads, NothingForgotten(t), pc[t] \in Busy,
         UNCHANGED <<policy, resident, call, healing, out>>,
         Cache!Held(got[t]) \cup (UNION spans[t])
           \subseteq Cache!Held(got'[t]) \cup (UNION spans'[t])
  PROVE  NothingForgotten(t)'
<1>1. ASSUME NEW S, OnItsWay(t, S)
      PROVE  S \subseteq Cache!Held(got'[t]) \cup (UNION spans'[t])
                            \cup (IF healing'[t] THEN {} ELSE Cache!Held(resident)')
  BY <1>1 DEF OnItsWay, Cache!Held
<1>2. Serving(t)' = Serving(t)
  BY DEF Serving
<1>3. QED
  BY <1>1, <1>2 DEF NothingForgotten, OnItsWay, Span, Cache!Held

\* A call that is planned: the first step of read_range and of read_ranges.
LEMMA PlanInv ==
  ASSUME FetcherInv, NEW t \in Threads, t \in callers, pc[t] = "idle",
         NEW c \in Seq(Request), c # <<>>,
         \A i \in DOMAIN c : InBounds(c[i]),
         NEW requests, requests = {r \in {c[i] : i \in DOMAIN c} : ~Cached(r)},
         Plan(t, requests),
         call' = [call EXCEPT ![t] = c],
         UNCHANGED <<config, resident, cursor, got, healing, out>>
  PROVE  FetcherInv'
<1> USE DEF FetcherInv
<1>1. PICK planned \in Plans(requests) :
        /\ spans' = [spans EXCEPT ![t] = PlanUncached(planned)]
        /\ pc' = [pc EXCEPT ![t] = IF PlanUncached(planned) = {} THEN "serve" ELSE "fetch"]
  BY DEF Plan, Goto
<1>2. requests \in SUBSET Request
  OBVIOUS
<1>3. /\ planned \in SUBSET (0 .. Size)
      /\ policy = "header_aware" =>
           \A r \in requests : Span(r) \cap Offsets \subseteq planned
  BY <1>2, PlansInSource
<1>4. /\ PlanUncached(planned) \in SUBSET SUBSET (0 .. Size)
      /\ {} \notin PlanUncached(planned)
      /\ \A p \in planned : p \in UNION PlanUncached(planned)
                              \/ (p \in Offsets /\ resident[p] # Absent)
  BY <1>3, PlanKeepsMissing
<1> DEFINE plan == PlanUncached(planned)
<1> HIDE DEF plan
<1>5. TypeOK'
  BY <1>1, <1>4 DEF TypeOK, Labels, config, plan
<1>6. CacheCoherent' /\ GotCoherent'
  BY DEF CacheCoherent, GotCoherent
<1>7. CursorAtSpan'
  BY <1>1 DEF CursorAtSpan, config, TypeOK, FirstSpan
<1>8. ReadShape(t)'
  <2>1. /\ call'[t] = c /\ spans'[t] = plan /\ got'[t] = got[t]
        /\ healing'[t] = healing[t] /\ out'[t] = out[t]
        /\ pc'[t] = IF plan = {} THEN "serve" ELSE "fetch"
    BY <1>1 DEF TypeOK, plan
  <2>2. out[t] = <<>> /\ got[t] = NoBytes /\ ~healing[t] /\ Len(c) > 0
    BY DEF ReadShape
  <2>3. {} \notin plan
    BY <1>4 DEF plan
  <2>4. QED
    BY <2>1, <2>2, <2>3 DEF ReadShape, Busy, InBounds, NoBytes
<1>9. ServedExactly(t)'
  BY DEF ServedExactly, ReadShape, TypeOK
<1>10. NothingForgotten(t)'
  <2>1. ~healing[t] /\ ~healing'[t] /\ call'[t] = c /\ spans'[t] = plan
    BY <1>1 DEF ReadShape, TypeOK, plan
  <2>2. ASSUME policy = "header_aware", NEW i \in DOMAIN c, NEW p \in Span(c[i])
        PROVE  p \in (UNION plan) \cup Cache!Held(resident)
    <3>1. c[i] \in Request /\ InBounds(c[i])
      OBVIOUS
    <3>2. p \in Offsets
      BY <3>1, SizeAssumption DEF InBounds, Span, Offsets, Request
    <3>3. CASE Cached(c[i])
      BY <3>3 DEF Cached, Cache!Holds
    <3>4. CASE ~Cached(c[i])
      <4>1. p \in planned
        BY <2>2, <3>2, <3>4, <1>3
      <4>2. QED
        BY <4>1, <1>4 DEF plan, Cache!Held
    <3>5. QED
      BY <3>3, <3>4
  <2>3. QED
    BY <2>1, <2>2 DEF NothingForgotten, OnItsWay, config, Span, Cache!Held
<1>11. ASSUME NEW u \in Threads, u # t
       PROVE  ReadShape(u)' /\ ServedExactly(u)' /\ NothingForgotten(u)'
  <2>1. /\ UNCHANGED config /\ Cache!Held(resident) \subseteq Cache!Held(resident)'
        /\ pc'[u] = pc[u] /\ call'[u] = call[u] /\ spans'[u] = spans[u]
        /\ got'[u] = got[u] /\ healing'[u] = healing[u] /\ out'[u] = out[u]
    BY <1>1, <1>11 DEF TypeOK, config, Cache!Held
  <2>2. QED
    BY <2>1, OtherThread
<1>12. QED
  BY <1>5, <1>6, <1>7, <1>8, <1>9, <1>10, <1>11
\* One cat_ranges call fetches every span.
LEMMA CatRangesInv ==
  ASSUME FetcherInv, NEW t \in Threads, CatRanges(t)
  PROVE  FetcherInv'
<1> USE DEF FetcherInv
<1>1. TypeOK'
  <2>1. [p \in Offsets |-> IF p \in UNION spans[t] THEN p ELSE Absent] \in Cache!Cells
    BY DEF Cache!Cells
  <2>2. QED
    BY <2>1 DEF CatRanges, Goto, TypeOK, Labels, config
<1>2. CacheCoherent' /\ GotCoherent'
  BY DEF CatRanges, Goto, CacheCoherent, GotCoherent, TypeOK, NoBytes, Cache!Cells
<1>3. CursorAtSpan'
  BY DEF CatRanges, Goto, CursorAtSpan, TypeOK, FirstSpan, config
<1>4. ReadShape(t)'
  BY DEF CatRanges, Goto, ReadShape, TypeOK, Busy, InBounds, NoBytes
<1>5. ServedExactly(t)'
  BY DEF CatRanges, Goto, ServedExactly, TypeOK, Span
<1>6. NothingForgotten(t)'
  <2>1. Cache!Held(got[t]) = {}
    BY DEF CatRanges, ReadShape, NoBytes, Cache!Held
  <2>2. UNION spans[t] \subseteq Cache!Held(got'[t])
    BY AbsentAssumption DEF CatRanges, Cache!Held, TypeOK, Offsets
  <2>3. QED
    BY <2>1, <2>2, FetchStep DEF CatRanges, Busy, config
<1>7. ASSUME NEW u \in Threads, u # t
      PROVE  ReadShape(u)' /\ ServedExactly(u)' /\ NothingForgotten(u)'
  <2>1. /\ UNCHANGED config /\ Cache!Held(resident) \subseteq Cache!Held(resident)'
        /\ pc'[u] = pc[u] /\ call'[u] = call[u] /\ spans'[u] = spans[u]
        /\ got'[u] = got[u] /\ healing'[u] = healing[u] /\ out'[u] = out[u]
    BY <1>7 DEF CatRanges, Goto, TypeOK, config, Cache!Held
  <2>2. QED
    BY <2>1, OtherThread
<1>8. QED
  BY <1>1, <1>2, <1>3, <1>4, <1>5, <1>6, <1>7

\* The cursor moves to the first span.
LEMMA SeekInv ==
  ASSUME FetcherInv, NEW t \in Threads, Seek(t)
  PROVE  FetcherInv'
<1> USE DEF FetcherInv
<1> spans[t] # {}
  BY DEF Seek, ReadShape
<1>a. FirstOffset(FirstSpan(t)) \in Nat
  BY FirstSpanExists
<1>1. TypeOK'
  BY <1>a DEF Seek, Goto, TypeOK, Labels, config
<1>2. CacheCoherent' /\ GotCoherent'
  BY DEF Seek, Goto, CacheCoherent, GotCoherent, TypeOK, NoBytes, Cache!Cells
<1>3. CursorAtSpan'
  BY DEF Seek, Goto, CursorAtSpan, TypeOK, FirstSpan, config
<1>4. ReadShape(t)'
  BY DEF Seek, Goto, ReadShape, TypeOK, Busy, InBounds, NoBytes
<1>5. ServedExactly(t)'
  BY DEF Seek, Goto, ServedExactly, TypeOK, Span
<1>6. NothingForgotten(t)'
  BY FetchStep DEF Seek, Busy, config
<1>7. ASSUME NEW u \in Threads, u # t
      PROVE  ReadShape(u)' /\ ServedExactly(u)' /\ NothingForgotten(u)'
  <2>1. /\ UNCHANGED config /\ Cache!Held(resident) \subseteq Cache!Held(resident)'
        /\ pc'[u] = pc[u] /\ call'[u] = call[u] /\ spans'[u] = spans[u]
        /\ got'[u] = got[u] /\ healing'[u] = healing[u] /\ out'[u] = out[u]
    BY <1>7 DEF Seek, Goto, TypeOK, config, Cache!Held
  <2>2. QED
    BY <2>1, OtherThread
<1>8. QED
  BY <1>1, <1>2, <1>3, <1>4, <1>5, <1>6, <1>7

\* The span is read from the cursor, which stands at its first offset.
LEMMA ReadInv ==
  ASSUME FetcherInv, NEW t \in Threads, Read(t)
  PROVE  FetcherInv'
<1> USE DEF FetcherInv
<1> DEFINE s == FirstSpan(t)
<1>a. /\ s \in SUBSET (0 .. Size) /\ cursor = FirstOffset(s) /\ cursor \in Nat
      /\ Cardinality(s) \in Nat
  BY FirstSpanExists, SpanLength DEF Read, ReadShape, CursorAtSpan, TypeOK
<1>b. /\ got'[t] = [p \in Offsets |-> IF p \in s THEN p ELSE got[t][p]]
      /\ s \subseteq Offsets
  <2>1. \A p \in s : ByteReadAt(s, p) = p
    BY <1>a, SizeAssumption DEF ByteReadAt
  <2>2. got[t] \in Cache!Cells
    BY DEF TypeOK
  <2>3. s \subseteq Offsets
    BY <2>1, <1>a, SizeAssumption DEF Read, RunsOut, Offsets
  <2>4. QED
    BY <2>1, <2>2, <2>3 DEF Read, TypeOK
<1>c. UNCHANGED <<config, resident, call, healing, out>> /\ cursor' \in Nat
  BY <1>a DEF Read
<1> HIDE DEF s
<1>1. TypeOK'
  <2>1. got'[t] \in Cache!Cells
    BY <1>b DEF TypeOK, Cache!Cells
  <2>2. got' \in [Threads -> Cache!Cells]
    BY <2>1 DEF Read, TypeOK
  <2>3. QED
    BY <1>c, <2>2 DEF Read, Goto, TypeOK, Labels, config
<1>2. CacheCoherent' /\ GotCoherent'
  BY <1>b, <1>c DEF Read, CacheCoherent, GotCoherent, TypeOK
<1>3. CursorAtSpan'
  <2>1. transport = "cursor" /\ t \in callers
    BY DEF Read, CursorAtSpan
  <2>2. QED
    BY <1>c, <2>1 DEF Read, Goto, CursorAtSpan, TypeOK, FirstSpan, config
<1>4. ReadShape(t)'
  <2>1. spans'[t] = spans[t] \ {s} /\ pc'[t] = IF spans[t] = {s} THEN "fill" ELSE "fetch"
    BY DEF Read, Goto, TypeOK, s
  <2>2. pc[t] = "seeked" /\ transport = "cursor" /\ spans[t] # {}
    BY DEF Read, CursorAtSpan, ReadShape
  <2>3. QED
    BY <1>c, <2>1, <2>2 DEF ReadShape, Busy, InBounds, NoBytes, config
<1>5. ServedExactly(t)'
  BY <1>c DEF ServedExactly, Span
<1>6. NothingForgotten(t)'
  <2>1. spans'[t] = spans[t] \ {s} /\ pc[t] = "seeked"
    BY DEF Read, TypeOK, s
  <2>2. ASSUME NEW p \in (UNION spans[t]), p \in s
        PROVE  p \in Cache!Held(got'[t])
    BY <1>b, <2>2, AbsentAssumption, SizeAssumption DEF Cache!Held, Offsets
  <2>3. ASSUME NEW p \in Cache!Held(got[t])
        PROVE  p \in Cache!Held(got'[t])
    BY <1>b, AbsentAssumption, SizeAssumption DEF Cache!Held, Offsets
  <2>4. QED
    BY <1>c, <2>1, <2>2, <2>3, FetchStep DEF Busy, config
<1>7. ASSUME NEW u \in Threads, u # t
      PROVE  ReadShape(u)' /\ ServedExactly(u)' /\ NothingForgotten(u)'
  <2>1. /\ UNCHANGED config /\ Cache!Held(resident) \subseteq Cache!Held(resident)'
        /\ pc'[u] = pc[u] /\ call'[u] = call[u] /\ spans'[u] = spans[u]
        /\ got'[u] = got[u] /\ healing'[u] = healing[u] /\ out'[u] = out[u]
    BY <1>7 DEF Read, Goto, TypeOK, config, Cache!Held
  <2>2. QED
    BY <2>1, OtherThread
<1>8. QED
  BY <1>1, <1>2, <1>3, <1>4, <1>5, <1>6, <1>7

\* A fetch that fails: the steps ShortRead and FetchFails.
LEMMA FailInv ==
  ASSUME FetcherInv, NEW t \in Threads, Fail(t), pc[t] \in {"fetch", "seeked"}, cursor' \in Nat,
         transport = "cursor" \/ cursor' = cursor, UNCHANGED <<config, resident, call>>
  PROVE  FetcherInv'
<1> USE DEF FetcherInv
<1>1. TypeOK'
  <2>1. NoBytes \in Cache!Cells /\ <<>> \in Seq(Extracts)
    BY DEF NoBytes, Cache!Cells
  <2>2. QED
    BY <2>1 DEF Fail, Goto, TypeOK, Labels, config
<1>2. CacheCoherent' /\ GotCoherent'
  BY DEF Fail, Goto, CacheCoherent, GotCoherent, TypeOK, NoBytes, Cache!Cells
<1>3. CursorAtSpan'
  <2>1. t \in callers
    BY DEF CursorAtSpan
  <2>2. ASSUME NEW u \in Threads, u # t, pc[u] = "seeked"
        PROVE  cursor' = cursor
    BY <2>1, <2>2 DEF CursorAtSpan
  <2>3. QED
    BY <2>1, <2>2 DEF Fail, Goto, CursorAtSpan, TypeOK, FirstSpan, config
<1>4. ReadShape(t)'
  BY DEF Fail, Goto, ReadShape, TypeOK, Busy, InBounds, NoBytes
<1>5. ServedExactly(t)'
  BY DEF Fail, Goto, ServedExactly, TypeOK, Span
<1>6. NothingForgotten(t)'
  BY DEF Fail, Goto, NothingForgotten, OnItsWay, ReadShape, TypeOK, Busy, Span, Serving, config, Cache!Held
<1>7. ASSUME NEW u \in Threads, u # t
      PROVE  ReadShape(u)' /\ ServedExactly(u)' /\ NothingForgotten(u)'
  <2>1. /\ UNCHANGED config /\ Cache!Held(resident) \subseteq Cache!Held(resident)'
        /\ pc'[u] = pc[u] /\ call'[u] = call[u] /\ spans'[u] = spans[u]
        /\ got'[u] = got[u] /\ healing'[u] = healing[u] /\ out'[u] = out[u]
    BY <1>7 DEF Fail, Goto, TypeOK, config, Cache!Held
  <2>2. QED
    BY <2>1, OtherThread
<1>8. QED
  BY <1>1, <1>2, <1>3, <1>4, <1>5, <1>6, <1>7

\* The range that is served next is one of the call's, within the source.
LEMMA ServingFacts ==
  ASSUME FetcherInv, NEW t \in Threads, pc[t] \in Busy
  PROVE  /\ Len(out[t]) + 1 \in DOMAIN call[t]
         /\ Serving(t) \in Request
         /\ Span(Serving(t)) \in SUBSET Offsets
<1>1. /\ call[t] \in Seq(Request) /\ out[t] \in Seq(Extracts)
      /\ Len(out[t]) < Len(call[t])
      /\ \A i \in DOMAIN call[t] : InBounds(call[t][i])
  BY DEF FetcherInv, TypeOK, ReadShape
<1>2. Len(out[t]) + 1 \in DOMAIN call[t]
  BY <1>1
<1>3. Serving(t) \in Request /\ InBounds(Serving(t))
  BY <1>1, <1>2 DEF Serving
<1>4. Span(Serving(t)) \in SUBSET Offsets
  BY <1>3, SizeAssumption DEF InBounds, Request, Span, Offsets
<1>5. QED
  BY <1>2, <1>3, <1>4

\* A step that leaves the cursor alone and does not stop after a seek.
LEMMA CursorKept ==
  ASSUME FetcherInv, NEW t \in Threads, pc[t] # "idle",
         UNCHANGED <<config, cursor, spans>>, pc'[t] # "seeked",
         \A u \in Threads : u # t => pc'[u] = pc[u]
  PROVE  CursorAtSpan'
<1>1. ASSUME NEW u \in Threads, pc'[u] # "idle"
      PROVE  u \in callers'
  BY <1>1 DEF FetcherInv, CursorAtSpan, config
<1>2. ASSUME NEW u \in Threads, pc'[u] = "seeked"
      PROVE  transport' = "cursor" /\ cursor' = FirstOffset(FirstSpan(u))'
  <2>1. u # t /\ pc[u] = "seeked" /\ FirstSpan(u)' = FirstSpan(u)
    BY <1>2 DEF FirstSpan
  <2>2. QED
    BY <2>1 DEF FetcherInv, CursorAtSpan, config, FirstOffset
<1>3. QED
  BY <1>1, <1>2 DEF FetcherInv, CursorAtSpan, config

\* Handing out the source's bytes for the range that is served next.
LEMMA DeliverFacts ==
  ASSUME FetcherInv, NEW t \in Threads, pc[t] \in Busy, NEW bytes \in Extracts,
         bytes = [p \in Span(Serving(t)) |-> p],
         Deliver(t, bytes), UNCHANGED call
  PROVE  /\ out' \in [Threads -> Seq(Extracts)]
         /\ out'[t] \in Seq(Extracts)
         /\ Len(out'[t]) = Len(out[t]) + 1
         /\ pc' \in [Threads -> Labels]
         /\ pc'[t] = IF Len(out'[t]) = Len(call[t]) THEN "done" ELSE "serve"
         /\ Len(out'[t]) <= Len(call[t])
         /\ ServedExactly(t)'
         /\ \A u \in Threads : u # t => out'[u] = out[u] /\ pc'[u] = pc[u]
<1>1. /\ call[t] \in Seq(Request) /\ out[t] \in Seq(Extracts)
      /\ Len(out[t]) < Len(call[t])
      /\ ServedExactly(t)
  BY DEF FetcherInv, TypeOK, ReadShape
<1>2. /\ out'[t] = Append(out[t], bytes)
      /\ \A u \in Threads : u # t => out'[u] = out[u] /\ pc'[u] = pc[u]
      /\ pc'[t] = IF Len(out[t]) + 1 = Len(call[t]) THEN "done" ELSE "serve"
  BY DEF FetcherInv, TypeOK, Deliver, Goto
<1>3. /\ out'[t] \in Seq(Extracts) /\ Len(out'[t]) = Len(out[t]) + 1
      /\ \A i \in DOMAIN out[t] : out'[t][i] = out[t][i]
      /\ out'[t][Len(out[t]) + 1] = bytes
  BY <1>1, <1>2
<1>4. ServedExactly(t)'
  <2>1. ASSUME NEW i \in DOMAIN out'[t]
        PROVE  i \in DOMAIN call[t] /\ out'[t][i] = [p \in Span(call[t][i]) |-> p]
    <3>1. CASE i \in DOMAIN out[t]
      BY <3>1, <1>1, <1>3 DEF ServedExactly
    <3>2. CASE i = Len(out[t]) + 1
      BY <3>2, <1>3, ServingFacts DEF Serving
    <3>3. QED
      BY <3>1, <3>2, <1>1, <1>3
  <2>2. QED
    BY <2>1 DEF ServedExactly, Span
<1>5. out' \in [Threads -> Seq(Extracts)] /\ pc' \in [Threads -> Labels]
  BY <1>3 DEF FetcherInv, TypeOK, Deliver, Goto, Labels
<1>6. QED
  BY <1>1, <1>2, <1>3, <1>4, <1>5

\* The fill makes the fetched bytes resident.
LEMMA FillInv ==
  ASSUME FetcherInv, NEW t \in Threads, Fill(t)
  PROVE  FetcherInv'
<1> USE DEF FetcherInv
<1> DEFINE m == Cache!Overlay(resident, got[t])
<1>m. /\ resident' = m /\ m \in Cache!Cells
      /\ \A p \in Offsets : m[p] \in {Absent, p}
      /\ Cache!Held(resident) \subseteq Cache!Held(m)
      /\ Cache!Held(got[t]) \subseteq Cache!Held(m)
  BY OverlayFacts DEF Fill, Cache!Held
<1> HIDE DEF m
<1>g. NoBytes \in Cache!Cells
  BY DEF NoBytes, Cache!Cells
<1>1. TypeOK'
  BY <1>m, <1>g DEF Fill, Goto, TypeOK, Labels, config
<1>2. CacheCoherent' /\ GotCoherent'
  BY <1>m, <1>g DEF Fill, CacheCoherent, GotCoherent, TypeOK, NoBytes
<1>3. CursorAtSpan'
  BY DEF Fill, Goto, CursorAtSpan, TypeOK, FirstSpan, config
<1>4. ReadShape(t)'
  BY DEF Fill, Goto, ReadShape, TypeOK, Busy, InBounds, NoBytes
<1>5. ServedExactly(t)'
  BY DEF Fill, Goto, ServedExactly, TypeOK, Span
<1>6. NothingForgotten(t)'
  <2>1. spans[t] = {} /\ spans'[t] = {} /\ ~healing[t] /\ ~healing'[t]
    BY DEF Fill, ReadShape
  <2>2. ASSUME NEW S, OnItsWay(t, S)
        PROVE  S \subseteq Cache!Held(m)
    BY <1>m, <2>1, <2>2 DEF OnItsWay
  <2>3. Cache!Held(m) = Cache!Held(resident)'
    BY <1>m DEF Cache!Held
  <2>4. QED
    <3>1. UNCHANGED <<policy, call>> /\ pc[t] \in Busy
      BY DEF Fill, config, Busy
    <3>2. SUFFICES ASSUME policy = "header_aware", NEW i \in DOMAIN call[t]
                   PROVE  Span(call[t][i]) \subseteq Cache!Held(resident)'
      BY <2>1, <3>1 DEF NothingForgotten, OnItsWay, Span
    <3>3. OnItsWay(t, Span(call[t][i]))
      BY <3>1, <3>2 DEF NothingForgotten
    <3>4. QED
      BY <3>3, <2>2, <2>3
<1>7. ASSUME NEW u \in Threads, u # t
      PROVE  ReadShape(u)' /\ ServedExactly(u)' /\ NothingForgotten(u)'
  <2>1. /\ UNCHANGED config /\ Cache!Held(resident) \subseteq Cache!Held(resident)'
        /\ pc'[u] = pc[u] /\ call'[u] = call[u] /\ spans'[u] = spans[u]
        /\ got'[u] = got[u] /\ healing'[u] = healing[u] /\ out'[u] = out[u]
    BY <1>m, <1>7 DEF Fill, Goto, TypeOK, config, Cache!Held
  <2>2. QED
    BY <2>1, OtherThread
<1>8. QED
  BY <1>1, <1>2, <1>3, <1>4, <1>5, <1>6, <1>7

\* A range served from the cache.
LEMMA ServeInv ==
  ASSUME FetcherInv, NEW t \in Threads, Serve(t)
  PROVE  FetcherInv'
<1> USE DEF FetcherInv
<1>b. /\ CachedBytes(Serving(t)) \in Extracts
      /\ CachedBytes(Serving(t)) = [p \in Span(Serving(t)) |-> p]
  BY BytesAreSource DEF Serve, Cached, CachedBytes, TypeOK, CacheCoherent
<1>d. /\ out' \in [Threads -> Seq(Extracts)]
      /\ Len(out'[t]) = Len(out[t]) + 1
      /\ pc' \in [Threads -> Labels]
      /\ pc'[t] = IF Len(out'[t]) = Len(call[t]) THEN "done" ELSE "serve"
      /\ Len(out'[t]) <= Len(call[t])
      /\ ServedExactly(t)'
      /\ \A u \in Threads : u # t => out'[u] = out[u] /\ pc'[u] = pc[u]
  BY <1>b, DeliverFacts DEF Serve, Busy
<1>e. /\ call[t] \in Seq(Request) /\ out[t] \in Seq(Extracts) /\ out'[t] \in Seq(Extracts)
  BY <1>d DEF TypeOK
<1>1. TypeOK'
  BY <1>d DEF Serve, TypeOK, config
<1>2. CacheCoherent' /\ GotCoherent'
  BY DEF Serve, CacheCoherent, GotCoherent
<1>3. CursorAtSpan'
  <2>1. pc[t] # "idle" /\ pc'[t] # "seeked" /\ UNCHANGED <<config, cursor, spans>>
    BY <1>d DEF Serve
  <2>2. QED
    BY <2>1, <1>d, CursorKept
<1>4. ReadShape(t)'
  BY <1>d, <1>e DEF Serve, ReadShape, Busy, InBounds, NoBytes, config
<1>5. ServedExactly(t)'
  BY <1>d
<1>6. NothingForgotten(t)'
  <2>1. ~healing[t] /\ pc[t] \in Busy
    BY DEF Serve, ReadShape, Busy
  <2>2. UNCHANGED <<policy, resident, call, spans, got, healing>>
    BY DEF Serve, config
  <2>3. ASSUME NEW span, OnItsWay(t, span)
        PROVE  span \subseteq Cache!Held(got'[t]) \cup (UNION spans'[t])
                         \cup (IF healing'[t] THEN {} ELSE Cache!Held(resident'))
    BY <2>2, <2>3 DEF OnItsWay, Cache!Held
  <2>4. policy = "header_aware" =>
          \A i \in DOMAIN call[t] : OnItsWay(t, Span(call[t][i]))
    BY <2>1 DEF NothingForgotten
  <2>5. (policy = "header_aware" =>
           \A i \in DOMAIN call[t] : OnItsWay(t, Span(call[t][i])))'
    BY <2>2, <2>3, <2>4 DEF OnItsWay, Span
  <2>6. ~healing'[t]
    BY <2>1, <2>2
  <2>7. QED
    BY <2>5, <2>6 DEF NothingForgotten
<1>7. ASSUME NEW u \in Threads, u # t
      PROVE  ReadShape(u)' /\ ServedExactly(u)' /\ NothingForgotten(u)'
  <2>1. /\ UNCHANGED config /\ Cache!Held(resident) \subseteq Cache!Held(resident)'
        /\ pc'[u] = pc[u] /\ call'[u] = call[u] /\ spans'[u] = spans[u]
        /\ got'[u] = got[u] /\ healing'[u] = healing[u] /\ out'[u] = out[u]
    BY <1>d, <1>7 DEF Serve, config
  <2>2. QED
    BY <2>1, OtherThread
<1>8. QED
  BY <1>1, <1>2, <1>3, <1>4, <1>5, <1>6, <1>7

\* A range the cache lacks is fetched alone; under the header-aware policy there is none.
LEMMA HealInv ==
  ASSUME FetcherInv, NEW t \in Threads, Heal(t)
  PROVE  FetcherInv'
<1> USE DEF FetcherInv
<1>a. pc[t] = "serve" /\ ~healing[t] /\ got[t] = NoBytes /\ spans[t] = {}
  BY DEF Heal, ReadShape
<1>b. Span(Serving(t)) \in SUBSET Offsets /\ Span(Serving(t)) # {}
  BY <1>a, ServingFacts DEF Heal, Busy, Cached, Cache!Holds
<1>c. policy # "header_aware"
  <2>1. SUFFICES ASSUME policy = "header_aware"
                 PROVE  Cached(Serving(t))
    BY DEF Heal
  <2>2. OnItsWay(t, Span(Serving(t)))
    BY <1>a, <2>1, ServingFacts DEF NothingForgotten, Busy, Serving
  <2>3. Cache!Held(got[t]) = {}
    BY <1>a DEF NoBytes, Cache!Held
  <2>4. QED
    BY <1>a, <2>2, <2>3 DEF OnItsWay, Cached, Cache!Holds
<1>d. Offsets \subseteq 0 .. Size
  BY SizeAssumption DEF Offsets
<1>1. TypeOK'
  BY <1>b, <1>d DEF Heal, Goto, TypeOK, Labels, config
<1>2. CacheCoherent' /\ GotCoherent'
  BY DEF Heal, Goto, CacheCoherent, GotCoherent, TypeOK, NoBytes, Cache!Cells
<1>3. CursorAtSpan'
  BY DEF Heal, Goto, CursorAtSpan, TypeOK, FirstSpan, config
<1>4. ReadShape(t)'
  BY <1>a, <1>b DEF Heal, Goto, ReadShape, TypeOK, Busy, InBounds, NoBytes, config
<1>5. ServedExactly(t)'
  BY DEF Heal, ServedExactly, Span
<1>6. NothingForgotten(t)'
  <2>1. spans'[t] = {Span(Serving(t))} /\ Serving(t)' = Serving(t)
    BY DEF Heal, TypeOK, Serving
  <2>2. QED
    BY <2>1, <1>c DEF Heal, NothingForgotten, OnItsWay, config, Span
<1>7. ASSUME NEW u \in Threads, u # t
      PROVE  ReadShape(u)' /\ ServedExactly(u)' /\ NothingForgotten(u)'
  <2>1. /\ UNCHANGED config /\ Cache!Held(resident) \subseteq Cache!Held(resident)'
        /\ pc'[u] = pc[u] /\ call'[u] = call[u] /\ spans'[u] = spans[u]
        /\ got'[u] = got[u] /\ healing'[u] = healing[u] /\ out'[u] = out[u]
    BY <1>7 DEF Heal, Goto, TypeOK, config, Cache!Held
  <2>2. QED
    BY <2>1, OtherThread
<1>8. QED
  BY <1>1, <1>2, <1>3, <1>4, <1>5, <1>6, <1>7

\* The healed range is inserted and handed out.
LEMMA HealInsertInv ==
  ASSUME FetcherInv, NEW t \in Threads, HealInsert(t)
  PROVE  FetcherInv'
<1> USE DEF FetcherInv
<1> DEFINE m == Cache!Overlay(resident, got[t])
<1>m. /\ resident' = m /\ m \in Cache!Cells
      /\ \A p \in Offsets : m[p] \in {Absent, p}
      /\ Cache!Held(resident) \subseteq Cache!Held(m)
      /\ Cache!Held(got[t]) \subseteq Cache!Held(m)
  BY OverlayFacts DEF HealInsert, Cache!Held
<1> HIDE DEF m
<1>g. NoBytes \in Cache!Cells
  BY DEF NoBytes, Cache!Cells
<1>a. pc[t] = "fill" /\ healing[t] /\ spans[t] = {} /\ policy # "header_aware"
  BY DEF HealInsert, ReadShape, NothingForgotten, Busy
<1>b. /\ Cache!Bytes(got[t], Span(Serving(t))) \in Extracts
      /\ Cache!Bytes(got[t], Span(Serving(t))) = [p \in Span(Serving(t)) |-> p]
  <2>1. Cache!Holds(got[t], Span(Serving(t)))
    BY <1>a DEF NothingForgotten, OnItsWay, Cache!Holds
  <2>2. QED
    BY <2>1, BytesAreSource DEF TypeOK, GotCoherent
<1>d. /\ out' \in [Threads -> Seq(Extracts)]
      /\ Len(out'[t]) = Len(out[t]) + 1
      /\ pc' \in [Threads -> Labels]
      /\ pc'[t] = IF Len(out'[t]) = Len(call[t]) THEN "done" ELSE "serve"
      /\ Len(out'[t]) <= Len(call[t])
      /\ ServedExactly(t)'
      /\ \A u \in Threads : u # t => out'[u] = out[u] /\ pc'[u] = pc[u]
  BY <1>b, DeliverFacts DEF HealInsert, Busy
<1>e. /\ call[t] \in Seq(Request) /\ out[t] \in Seq(Extracts) /\ out'[t] \in Seq(Extracts)
  BY <1>d DEF TypeOK
<1>1. TypeOK'
  BY <1>m, <1>g, <1>d DEF HealInsert, TypeOK, config
<1>2. CacheCoherent' /\ GotCoherent'
  BY <1>m, <1>g DEF HealInsert, CacheCoherent, GotCoherent, TypeOK, NoBytes
<1>3. CursorAtSpan'
  <2>1. pc[t] # "idle" /\ pc'[t] # "seeked" /\ UNCHANGED <<config, cursor, spans>>
    BY <1>d DEF HealInsert
  <2>2. QED
    BY <2>1, <1>d, CursorKept
<1>4. ReadShape(t)'
  <2>1. got'[t] = NoBytes /\ ~healing'[t] /\ spans'[t] = {}
    BY <1>a DEF HealInsert, TypeOK
  <2>2. QED
    BY <2>1, <1>a, <1>d, <1>e DEF HealInsert, ReadShape, Busy, InBounds, NoBytes, config
<1>5. ServedExactly(t)'
  BY <1>d
<1>6. NothingForgotten(t)'
  <2>1. ~healing'[t]
    BY DEF HealInsert, TypeOK
  <2>2. QED
    BY <2>1, <1>a DEF HealInsert, NothingForgotten, config
<1>7. ASSUME NEW u \in Threads, u # t
      PROVE  ReadShape(u)' /\ ServedExactly(u)' /\ NothingForgotten(u)'
  <2>1. /\ UNCHANGED config /\ Cache!Held(resident) \subseteq Cache!Held(resident)'
        /\ pc'[u] = pc[u] /\ call'[u] = call[u] /\ spans'[u] = spans[u]
        /\ got'[u] = got[u] /\ healing'[u] = healing[u] /\ out'[u] = out[u]
    BY <1>m, <1>d, <1>7 DEF HealInsert, TypeOK, config, Cache!Held
  <2>2. QED
    BY <2>1, OtherThread
<1>8. QED
  BY <1>1, <1>2, <1>3, <1>4, <1>5, <1>6, <1>7

\* The caller takes the outcome.
LEMMA ReturnInv ==
  ASSUME FetcherInv, NEW t \in Threads, Return(t)
  PROVE  FetcherInv'
<1> USE DEF FetcherInv
<1>1. TypeOK'
  <2>1. <<>> \in Seq(Request) /\ <<>> \in Seq(Extracts)
    OBVIOUS
  <2>2. QED
    BY <2>1 DEF Return, Goto, TypeOK, Labels, config
<1>2. CacheCoherent' /\ GotCoherent'
  BY DEF Return, Goto, CacheCoherent, GotCoherent, TypeOK, NoBytes, Cache!Cells
<1>3. CursorAtSpan'
  <2>1. pc[t] # "idle" /\ UNCHANGED <<config, cursor, spans>> /\ pc' = [pc EXCEPT ![t] = "idle"]
    BY DEF Return, Goto
  <2>2. pc'[t] # "seeked" /\ \A u \in Threads : u # t => pc'[u] = pc[u]
    BY <2>1 DEF TypeOK
  <2>3. QED
    BY <2>1, <2>2, CursorKept
<1>4. ReadShape(t)'
  BY DEF Return, Goto, ReadShape, TypeOK, Busy, InBounds, NoBytes
<1>5. ServedExactly(t)'
  BY DEF Return, ServedExactly, TypeOK
<1>6. NothingForgotten(t)'
  <2>1. pc'[t] = "idle" /\ ~healing[t] /\ healing'[t] = healing[t]
    BY DEF Return, Goto, ReadShape, TypeOK
  <2>2. QED
    BY <2>1 DEF NothingForgotten, Busy
<1>7. ASSUME NEW u \in Threads, u # t
      PROVE  ReadShape(u)' /\ ServedExactly(u)' /\ NothingForgotten(u)'
  <2>1. /\ UNCHANGED config /\ Cache!Held(resident) \subseteq Cache!Held(resident)'
        /\ pc'[u] = pc[u] /\ call'[u] = call[u] /\ spans'[u] = spans[u]
        /\ got'[u] = got[u] /\ healing'[u] = healing[u] /\ out'[u] = out[u]
    BY <1>7 DEF Return, Goto, TypeOK, config, Cache!Held
  <2>2. QED
    BY <2>1, OtherThread
<1>8. QED
  BY <1>1, <1>2, <1>3, <1>4, <1>5, <1>6, <1>7

\* A call that ends in the step that makes it.
LEMMA EndAtOnceInv ==
  ASSUME FetcherInv, NEW t \in Threads, t \in callers, pc[t] = "idle",
         NEW c \in Seq(Request),
         \/ Goto(t, "failed") /\ out'[t] = <<>>
         \/ Goto(t, "done") /\ Len(out'[t]) = Len(c),
         out' \in [Threads -> Seq(Extracts)],
         \A u \in Threads : u # t => out'[u] = out[u],
         \A i \in DOMAIN out'[t] :
           i \in DOMAIN c /\ out'[t][i] = [p \in Span(c[i]) |-> p],
         call' = [call EXCEPT ![t] = c],
         UNCHANGED <<config, resident, cursor, spans, got, healing>>
  PROVE  FetcherInv'
<1> USE DEF FetcherInv
<1>a. /\ \/ pc'[t] = "failed" /\ out'[t] = <<>>
         \/ pc'[t] = "done" /\ Len(out'[t]) = Len(c)
      /\ call'[t] = c
      /\ spans'[t] = spans[t] /\ got'[t] = got[t] /\ healing'[t] = healing[t]
      /\ transport' = transport /\ policy' = policy
  BY DEF Goto, TypeOK, config
<1>b. spans[t] = {} /\ got[t] = NoBytes /\ ~healing[t]
  BY DEF ReadShape
<1>1. TypeOK'
  BY DEF Goto, TypeOK, Labels, config
<1>2. CacheCoherent' /\ GotCoherent'
  BY DEF CacheCoherent, GotCoherent
<1>3. CursorAtSpan'
  BY DEF Goto, CursorAtSpan, TypeOK, FirstSpan, config
<1>4. ReadShape(t)'
  BY <1>a, <1>b DEF ReadShape, Busy, NoBytes
<1>5. ServedExactly(t)'
  BY <1>a DEF ServedExactly, Span
<1>6. NothingForgotten(t)'
  BY <1>a, <1>b DEF NothingForgotten, Busy
<1>7. ASSUME NEW u \in Threads, u # t
      PROVE  ReadShape(u)' /\ ServedExactly(u)' /\ NothingForgotten(u)'
  <2>1. /\ UNCHANGED config /\ Cache!Held(resident) \subseteq Cache!Held(resident)'
        /\ pc'[u] = pc[u] /\ call'[u] = call[u] /\ spans'[u] = spans[u]
        /\ got'[u] = got[u] /\ healing'[u] = healing[u] /\ out'[u] = out[u]
    BY <1>7 DEF Goto, TypeOK, config, Cache!Held
  <2>2. QED
    BY <2>1, OtherThread
<1>8. QED
  BY <1>1, <1>2, <1>3, <1>4, <1>5, <1>6, <1>7

\* read_range keeps the invariant.
LEMMA ReadRangeInv ==
  ASSUME FetcherInv, NEW t \in Threads, NEW r \in Ranges, ReadRange(t, r)
  PROVE  FetcherInv'
<1>1. /\ r \in Request /\ <<r>> \in Seq(Request) /\ <<>> \in Seq(Extracts)
      /\ Len(<<r>>) = 1 /\ DOMAIN <<r>> = {1} /\ <<r>>[1] = r /\ <<r>> # <<>>
  BY RequestAssumption
<1>2. /\ t \in callers /\ pc[t] = "idle" /\ call' = [call EXCEPT ![t] = <<r>>]
      /\ UNCHANGED <<config, resident, cursor, got, healing>>
  BY DEF ReadRange
<1>3. out[t] = <<>> /\ out \in [Threads -> Seq(Extracts)]
  BY <1>2 DEF FetcherInv, ReadShape, TypeOK
<1>4. CASE ~InBounds(r) /\ Goto(t, "failed") /\ UNCHANGED <<spans, out>>
  <2>1. out'[t] = <<>> /\ DOMAIN out'[t] = {}
    BY <1>3, <1>4
  <2>2. QED
    BY <1>1, <1>2, <1>3, <1>4, <2>1, EndAtOnceInv
<1>5. CASE /\ Cached(r) /\ Goto(t, "done")
           /\ out' = [out EXCEPT ![t] = <<CachedBytes(r)>>] /\ UNCHANGED spans
  <2>1. CachedBytes(r) \in Extracts /\ CachedBytes(r) = [p \in Span(r) |-> p]
    BY <1>5, BytesAreSource
       DEF Cached, CachedBytes, FetcherInv, TypeOK, CacheCoherent
  <2> DEFINE o == <<CachedBytes(r)>>
  <2>2. o \in Seq(Extracts) /\ Len(o) = 1 /\ DOMAIN o = {1} /\ o[1] = CachedBytes(r)
    BY <2>1
  <2> HIDE DEF o
  <2>3. /\ out'[t] = o /\ out' \in [Threads -> Seq(Extracts)]
        /\ \A u \in Threads : u # t => out'[u] = out[u]
    BY <1>3, <1>5, <2>2 DEF o
  <2>4. \A i \in DOMAIN out'[t] : /\ i \in DOMAIN <<r>>
                                  /\ out'[t][i] = [p \in Span(<<r>>[i]) |-> p]
    BY <1>1, <2>1, <2>2, <2>3
  <2>5. Len(out'[t]) = Len(<<r>>)
    BY <1>1, <2>2, <2>3
  <2>6. QED
    BY <1>1, <1>2, <1>5, <2>3, <2>4, <2>5, EndAtOnceInv
<1>6. CASE InBounds(r) /\ ~Cached(r) /\ Plan(t, {r}) /\ UNCHANGED out
  <2>1. {r} = {x \in {<<r>>[i] : i \in DOMAIN <<r>>} : ~Cached(x)}
    BY <1>1, <1>6
  <2>2. \A i \in DOMAIN <<r>> : InBounds(<<r>>[i])
    BY <1>1, <1>6
  <2>3. QED
    BY <1>1, <1>2, <1>6, <2>1, <2>2, PlanInv
<1>7. QED
  BY <1>4, <1>5, <1>6 DEF ReadRange

\* read_ranges keeps the invariant.
LEMMA ReadRangesInv ==
  ASSUME FetcherInv, NEW t \in Threads, NEW b \in Batches, ReadRanges(t, b)
  PROVE  FetcherInv'
<1> DEFINE requests == {b[i] : i \in DOMAIN b}
<1>1. b \in Seq(Request) /\ <<>> \in Seq(Extracts)
  BY RequestAssumption
<1>2. /\ t \in callers /\ pc[t] = "idle" /\ call' = [call EXCEPT ![t] = b]
      /\ UNCHANGED <<config, resident, cursor, got, healing, out>>
  BY DEF ReadRanges
<1>3. out' = out /\ out \in [Threads -> Seq(Extracts)] /\ out'[t] = <<>> /\ DOMAIN out'[t] = {}
  BY <1>2 DEF FetcherInv, ReadShape, TypeOK
<1>4. CASE b = <<>> /\ Goto(t, "done") /\ UNCHANGED spans
  BY <1>1, <1>2, <1>3, <1>4, EndAtOnceInv
<1>5. CASE Goto(t, "failed") /\ UNCHANGED spans
  BY <1>1, <1>2, <1>3, <1>5, EndAtOnceInv
<1>6. CASE /\ b # <<>> /\ \A r \in requests : InBounds(r)
           /\ Plan(t, {r \in requests : ~Cached(r)})
  BY <1>1, <1>2, <1>6, PlanInv
<1>7. QED
  BY <1>4, <1>5, <1>6 DEF ReadRanges

\* Every step keeps the invariant.
LEMMA NextInv == FetcherInv /\ [Next]_vars => FetcherInv'
<1> SUFFICES ASSUME FetcherInv, [Next]_vars
             PROVE  FetcherInv'
  OBVIOUS
<1>1. ASSUME NEW t \in Threads, NEW r \in Ranges, ReadRange(t, r)
      PROVE  FetcherInv'
  BY <1>1, ReadRangeInv
<1>2. ASSUME NEW t \in Threads, NEW b \in Batches, ReadRanges(t, b)
      PROVE  FetcherInv'
  BY <1>2, ReadRangesInv
<1>3. ASSUME NEW t \in Threads, Step(t)
      PROVE  FetcherInv'
  <2>1. CASE CatRanges(t)
    BY <2>1, CatRangesInv
  <2>2. CASE Seek(t)
    BY <2>2, SeekInv
  <2>3. CASE Read(t)
    BY <2>3, ReadInv
  <2>4. CASE ShortRead(t)
    <3>1. transport = "cursor" /\ cursor' \in Nat
      BY <2>4, SizeAssumption DEF ShortRead, FetcherInv, CursorAtSpan, TypeOK
    <3>2. QED
      BY <2>4, <3>1, FailInv DEF ShortRead
  <2>5. CASE FetchFails(t)
    BY <2>5, FailInv DEF FetchFails, FetcherInv, TypeOK
  <2>6. CASE Fill(t)
    BY <2>6, FillInv
  <2>7. CASE Serve(t)
    BY <2>7, ServeInv
  <2>8. CASE Heal(t)
    BY <2>8, HealInv
  <2>9. CASE HealInsert(t)
    BY <2>9, HealInsertInv
  <2>10. CASE Return(t)
    BY <2>10, ReturnInv
  <2>11. QED
    BY <1>3, <2>1, <2>2, <2>3, <2>4, <2>5, <2>6, <2>7, <2>8, <2>9, <2>10 DEF Step
<1>4. CASE UNCHANGED vars
  BY <1>4 DEF vars, FetcherInv, TypeOK, CacheCoherent, GotCoherent, CursorAtSpan,
       ReadShape, ServedExactly, NothingForgotten, OnItsWay, FirstSpan, Serving,
       Span, InBounds, Busy, NoBytes, Cache!Held
<1>5. QED
  BY <1>1, <1>2, <1>3, <1>4 DEF Next

-----------------------------------------------------------------------------
(* Theorems about the behaviours *)

\* In every state of the fetcher, if a cursor handle is read by one thread only:
\* the cache and the bytes under way are the source's, every served range is
\* exact, and no byte a read waits for is forgotten.
THEOREM FetcherInvariant == Contained => (Spec => []FetcherInv)
<1>1. Contained /\ Init => FetcherInv
  BY InitInv
<1>2. FetcherInv /\ [Next]_vars => FetcherInv'
  BY NextInv
<1>3. QED
  BY <1>1, <1>2, PTL DEF Spec

\* Every variable of the fetcher keeps its type.
THEOREM TypeCorrect == Contained => (Spec => []TypeOK)
<1>1. FetcherInv => TypeOK
  BY DEF FetcherInv
<1>2. QED
  BY <1>1, FetcherInvariant, PTL

\* merge's assumption: the cache never holds two different bytes for one offset.
THEOREM CacheCoherence == Contained => (Spec => []CacheCoherent)
<1>1. FetcherInv => CacheCoherent
  BY DEF FetcherInv
<1>2. QED
  BY <1>1, FetcherInvariant, PTL

\* Under the header-aware policy serve_or_heal never fetches: filling the cache
\* with the plan was enough, whatever other threads did in the meantime.
THEOREM NoSecondFetch == Contained => (Spec => []HeaderAwareNeverHeals)
<1>1. FetcherInv => HeaderAwareNeverHeals
  <2> SUFFICES ASSUME FetcherInv, policy = "header_aware", NEW t \in Threads
               PROVE  ~healing[t]
    BY DEF HeaderAwareNeverHeals
  <2>1. ReadShape(t) /\ NothingForgotten(t) /\ pc[t] \in Labels
    BY DEF FetcherInv, TypeOK
  <2>2. QED
    BY <2>1 DEF ReadShape, NothingForgotten, Busy, Labels
<1>2. QED
  BY <1>1, FetcherInvariant, PTL

-----------------------------------------------------------------------------
(* The refinement of RangeReads *)

\* What RangeReads sees of a thread.
Seen(l) == IF l \in {"idle", "done", "failed"} THEN l ELSE "pending"
SeenStatus == [u \in Threads |-> Seen(pc[u])]
SeenReply == [u \in Threads |-> IF pc[u] = "done" THEN out[u] ELSE <<>>]

\* A read that has served the source's bytes for each request of its call has
\* answered it.
LEMMA ServedIsAnswer ==
  ASSUME NEW c \in Seq(Request), NEW o \in Seq(Extracts), Len(o) = Len(c),
         \A i \in DOMAIN o : i \in DOMAIN c /\ o[i] = [p \in Span(c[i]) |-> p]
  PROVE  o = Reads!Answer(c)
<1>1. DOMAIN o = DOMAIN c /\ o = [i \in DOMAIN o |-> o[i]]
  OBVIOUS
<1>2. \A i \in DOMAIN c : o[i] = [p \in Span(c[i]) |-> p]
  BY <1>1
<1>3. QED
  BY <1>1, <1>2 DEF Reads!Answer, Reads!Source, Reads!Span, Span

\* A step that changes the label of one thread only changes what is seen of it.
LEMMA OneThreadSeen ==
  ASSUME FetcherInv, NEW t \in Threads,
         \A u \in Threads : u # t => pc'[u] = pc[u] /\ out'[u] = out[u]
  PROVE  /\ SeenStatus' = [SeenStatus EXCEPT ![t] = Seen(pc'[t])]
         /\ SeenReply' = [SeenReply EXCEPT ![t] = IF pc'[t] = "done" THEN out'[t] ELSE <<>>]
BY DEF SeenStatus, SeenReply

\* The step that ends or prolongs a read is an outcome of its call.
LEMMA StepIsOutcome ==
  ASSUME FetcherInv, FetcherInv', NEW t \in Threads,
         pc[t] \notin {"done", "failed"}, pc'[t] # "idle",
         \A u \in Threads : u # t => pc'[u] = pc[u] /\ out'[u] = out[u],
         NEW c, c = call'[t]
  PROVE  Reads!Outcome(t, c)
<1>1. pc[t] \in Labels /\ pc'[t] \in Labels
  BY DEF FetcherInv, TypeOK
<1>2. SeenReply[t] = <<>> /\ SeenReply \in [Threads -> {SeenReply[u] : u \in Threads}]
  BY <1>1 DEF SeenReply
<1>3. CASE pc'[t] = "done"
  <2>1. out'[t] = Reads!Answer(c)
    <3>1. /\ call'[t] \in Seq(Request) /\ out'[t] \in Seq(Extracts)
          /\ Len(out'[t]) = Len(call'[t])
          /\ \A i \in DOMAIN out'[t] :
               i \in DOMAIN call'[t] /\ out'[t][i] = [p \in Span(call'[t][i]) |-> p]
      BY <1>3 DEF FetcherInv, TypeOK, ReadShape, ServedExactly, Span
    <3>2. QED
      BY <3>1, ServedIsAnswer
  <2>2. QED
    BY <1>3, <2>1, OneThreadSeen DEF Reads!Outcome, SeenStatus, SeenReply, Seen
<1>4. CASE pc'[t] # "done"
  <2>1. SeenReply' = SeenReply
    BY <1>2, <1>4, OneThreadSeen
  <2>2. Seen(pc'[t]) \in {"pending", "failed"}
    BY <1>1, <1>4 DEF Seen, Labels
  <2>3. QED
    BY <2>1, <2>2, OneThreadSeen DEF Reads!Outcome, SeenStatus, SeenReply, Seen
<1>5. QED
  BY <1>3, <1>4

\* Every step of the fetcher is a step of RangeReads or leaves it as it is.
LEMMA NextRefines ==
  FetcherInv /\ FetcherInv' /\ [Next]_vars => [Reads!Next]_(Reads!rvars)
<1> SUFFICES ASSUME FetcherInv, FetcherInv', [Next]_vars
             PROVE  [Reads!Next]_(Reads!rvars)
  OBVIOUS
<1>a. pc \in [Threads -> Labels] /\ out \in [Threads -> Seq(Extracts)]
  BY DEF FetcherInv, TypeOK
<1>1. ASSUME NEW t \in Threads, NEW c \in Calls, pc[t] = "idle",
             call' = [call EXCEPT ![t] = c], pc'[t] # "idle",
             \A u \in Threads : u # t => pc'[u] = pc[u] /\ out'[u] = out[u]
      PROVE  Reads!Next
  <2>1. call'[t] = c
    BY <1>1 DEF FetcherInv, TypeOK
  <2>2. Reads!Outcome(t, c)
    BY <1>1, <2>1, StepIsOutcome
  <2>3. Reads!Call(t)
    BY <1>1, <2>2 DEF Reads!Call
  <2>4. QED
    BY <2>3 DEF Reads!Next
<1>2. ASSUME NEW t \in Threads, pc[t] \in Busy, pc'[t] # "idle", UNCHANGED call,
             \A u \in Threads : u # t => pc'[u] = pc[u] /\ out'[u] = out[u]
      PROVE  Reads!Next
  <2>1. PICK c : c = call[t]
    OBVIOUS
  <2>2. c = call'[t] /\ pc[t] \notin {"done", "failed"}
    BY <1>2, <2>1 DEF Busy
  <2>3. Reads!Outcome(t, c)
    BY <1>2, <2>2, StepIsOutcome
  <2>4. Reads!Finish(t)
    BY <1>2, <2>1, <2>3 DEF Reads!Finish, Reads!Outcome, Busy
  <2>5. QED
    BY <2>4 DEF Reads!Next
<1>3. ASSUME NEW t \in Threads, NEW r \in Ranges, ReadRange(t, r)
      PROVE  Reads!Next
  <2>1. <<r>> \in Calls
    BY DEF Calls
  <2>2. /\ pc[t] = "idle" /\ call' = [call EXCEPT ![t] = <<r>>]
        /\ pc'[t] # "idle"
        /\ \A u \in Threads : u # t => pc'[u] = pc[u] /\ out'[u] = out[u]
    BY <1>3, <1>a DEF ReadRange, Plan, Goto
  <2>3. QED
    BY <1>1, <2>1, <2>2
<1>4. ASSUME NEW t \in Threads, NEW b \in Batches, ReadRanges(t, b)
      PROVE  Reads!Next
  <2>1. b \in Calls
    BY DEF Calls
  <2>2. /\ pc[t] = "idle" /\ call' = [call EXCEPT ![t] = b]
        /\ pc'[t] # "idle"
        /\ \A u \in Threads : u # t => pc'[u] = pc[u] /\ out'[u] = out[u]
    BY <1>4, <1>a DEF ReadRanges, Plan, Goto
  <2>3. QED
    BY <1>1, <2>1, <2>2
<1>5. ASSUME NEW t \in Threads, Step(t)
      PROVE  Reads!Next
  <2>1. CASE Return(t)
    <3>1. /\ pc[t] \in {"done", "failed"} /\ pc'[t] = "idle"
          /\ call' = [call EXCEPT ![t] = <<>>]
          /\ \A u \in Threads : u # t => pc'[u] = pc[u] /\ out'[u] = out[u]
      BY <2>1, <1>a DEF Return, Goto
    <3>2. Reads!Return(t)
      BY <3>1, OneThreadSeen DEF Reads!Return, SeenStatus, SeenReply, Seen
    <3>3. QED
      BY <3>2 DEF Reads!Next
  <2>2. CASE Fail(t) /\ pc[t] \in {"fetch", "seeked"} /\ UNCHANGED call
    <3>1. /\ pc'[t] # "idle"
          /\ \A u \in Threads : u # t => pc'[u] = pc[u] /\ out'[u] = out[u]
      BY <2>2, <1>a DEF Fail, Goto
    <3>2. QED
      BY <2>2, <3>1, <1>2 DEF Busy
  <2>3. CASE CatRanges(t) \/ Seek(t) \/ Read(t) \/ Fill(t) \/ Heal(t)
    <3>1. /\ pc[t] \in Busy /\ pc'[t] # "idle" /\ UNCHANGED call
          /\ \A u \in Threads : u # t => pc'[u] = pc[u] /\ out'[u] = out[u]
      BY <2>3, <1>a DEF CatRanges, Seek, Read, Fill, Heal, Goto, Busy
    <3>2. QED
      BY <3>1, <1>2
  <2>4. CASE Serve(t) \/ HealInsert(t)
    <3>1. /\ pc[t] \in Busy /\ pc'[t] # "idle" /\ UNCHANGED call
          /\ \A u \in Threads : u # t => pc'[u] = pc[u] /\ out'[u] = out[u]
      BY <2>4, <1>a DEF Serve, HealInsert, Deliver, Goto, Busy
    <3>2. QED
      BY <3>1, <1>2
  <2>5. QED
    BY <1>5, <2>1, <2>2, <2>3, <2>4 DEF Step, ShortRead, FetchFails
<1>6. CASE UNCHANGED vars
  BY <1>6 DEF vars, Reads!rvars
<1>7. QED
  BY <1>3, <1>4, <1>5, <1>6 DEF Next

\* A caller of the fetcher sees only the source: every behaviour of the cached,
\* prefetching, concurrent fetcher is one of RangeReads, where each read returns
\* exactly the requested bytes in order or fails.
THEOREM ReadsSeeTheSource == Contained => (Spec => ReadsTheSource)
<1>1. Init => Reads!Init
  BY DEF Init, Reads!Init
<1>2. FetcherInv /\ FetcherInv' /\ [Next]_vars => [Reads!Next]_(Reads!rvars)
  BY NextRefines
<1>3. QED
  BY <1>1, <1>2, FetcherInvariant, PTL DEF Spec, ReadsTheSource, Reads!Spec
=============================================================================
