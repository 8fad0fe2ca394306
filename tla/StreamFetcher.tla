---------------------------- MODULE StreamFetcher ----------------------------
(***************************************************************************)
(* The remote fetcher of src/remote/fetcher.rs over the Python-backed      *)
(* reader of src/bindings/stream.rs.                                       *)
(*                                                                         *)
(* Any number of threads read byte ranges through one fetcher.  A read     *)
(* looks in the cache and plans what to fetch under a mutex, releases it,  *)
(* fetches, takes it again to fill the cache, and serves each requested    *)
(* range from the cache, or fetches that range alone when the cache still  *)
(* lacks it.  Every critical section is one action here, so the mutex is   *)
(* free in every state; the steps between two of them interleave.          *)
(*                                                                         *)
(* The reader has two ways to fetch.  An fsspec handle answers a batch     *)
(* with one stateless cat_ranges call.  Any other handle is read range by  *)
(* range through its one cursor, by a seek and then a read.                *)
(*                                                                         *)
(* A byte is named by the offset it was read from, so a byte that ended up *)
(* at the wrong place is visible as one.                                   *)
(***************************************************************************)
EXTENDS Integers, Sequences, FiniteSets

CONSTANTS
  Threads,      \* the threads that may read
  Size,         \* total_size of the source
  HeaderLen,    \* header_len of HeaderAwarePolicy
  Ranges,       \* the requests made with read_range
  Batches,      \* the sequences of requests made with read_ranges
  Transports,   \* the handles: subset of {"cat_ranges", "cursor"}
  Policies,     \* the policies: subset of {"header_aware", "any"}
  Contained,    \* TRUE: only one thread reads through a cursor handle
  FairThreads,  \* the threads that are scheduled fairly
  Absent        \* marks an offset that is not resident

Request == [offset : Nat, len : Nat]

Calls == {<<r>> : r \in Ranges} \cup Batches

ASSUME SizeAssumption == Size \in Nat
ASSUME HeaderLenAssumption == HeaderLen \in Nat
ASSUME RequestAssumption == Ranges \subseteq Request /\ Batches \subseteq Seq(Request)
ASSUME AbsentAssumption == Absent \notin Nat
ASSUME TransportAssumption == Transports \subseteq {"cat_ranges", "cursor"}
ASSUME PolicyAssumption == Policies \subseteq {"header_aware", "any"}
ASSUME ContainedAssumption == Contained \in BOOLEAN

VARIABLES
  transport,   \* the kind of handle, fixed when the reader is built
  policy,      \* the prefetch policy, fixed when the fetcher is built
  callers,     \* the threads that share this fetcher
  resident,    \* the cache: offset -> byte or Absent
  cursor,      \* the position of the handle's cursor
  pc,          \* where each thread is in its read
  call,        \* the requests of the read
  spans,       \* the spans the thread still has to fetch
  got,         \* the bytes it has fetched and not inserted yet
  healing,     \* it is fetching a range the cache lacked after the fill
  out          \* the ranges it has served so far

config == <<transport, policy, callers>>
vars == <<transport, policy, callers, resident, cursor, pc, call, spans, got,
          healing, out>>

Offsets == 0 .. Size - 1

Cache == INSTANCE ResidentBytes WITH Byte <- Offsets

NoBytes == [p \in Offsets |-> Absent]

-----------------------------------------------------------------------------
(* Requests *)

Span(r) == r.offset .. r.offset + r.len - 1

\* Faulty variant: the offset is left out of the check.
LenInBounds(r) == r.len <= Size

InBounds(r) == r.offset + r.len <= Size

Cached(r) == Cache!Holds(resident, Span(r))

\* cache.get, when the range is cached.
CachedBytes(r) == Cache!Bytes(resident, Span(r))

-----------------------------------------------------------------------------
(* Planning *)

HeaderEnd == IF HeaderLen < Size THEN HeaderLen ELSE Size

\* Faulty variant: the header is planned in place of the request, not beside it.
HeaderOnlyPlan(r) ==
  IF r.offset < HeaderEnd THEN 0 .. HeaderEnd - 1 ELSE Span(r) \cap Offsets

\* HeaderAwarePolicy.plan: the eager header when the request starts in it, and
\* the request clamped to the source.
HeaderAwarePlan(r) ==
  (IF r.offset < HeaderEnd THEN 0 .. HeaderEnd - 1 ELSE {})
    \cup (Span(r) \cap Offsets)

\* The offsets the policy may plan for a set of requests.  Another policy than
\* the header-aware one may plan anything: more than was asked, less, or past
\* the end of the source, since the fetcher does not clamp a plan.
Plans(requests) ==
  IF policy = "header_aware"
    THEN {UNION {HeaderAwarePlan(r) : r \in requests}}
    ELSE IF requests = {} THEN {{}} ELSE SUBSET (0 .. Size)

Between(p, q) == (p .. q) \cup (q .. p)

\* coalesce: the maximal runs of the planned offsets.
Runs(planned) ==
  {{q \in planned : Between(p, q) \subseteq planned} : p \in planned}

\* Faulty variant: a run is dropped when the cache holds any of it.
PlanUntouched(planned) ==
  {s \in Runs(planned) : \A p \in s : p \in Offsets => resident[p] = Absent}

\* The runs that the cache does not already hold as a whole.
PlanUncached(planned) == {s \in Runs(planned) : ~Cache!Holds(resident, s)}

-----------------------------------------------------------------------------
(* The steps of a read *)

Init ==
  /\ transport \in Transports
  /\ policy \in Policies
  /\ callers \in (SUBSET Threads) \ {{}}
  /\ Contained /\ transport = "cursor" => \A t, u \in callers : t = u
  /\ resident = NoBytes
  /\ cursor = 0
  /\ pc = [t \in Threads |-> "idle"]
  /\ call = [t \in Threads |-> <<>>]
  /\ spans = [t \in Threads |-> {}]
  /\ got = [t \in Threads |-> NoBytes]
  /\ healing = [t \in Threads |-> FALSE]
  /\ out = [t \in Threads |-> <<>>]

Goto(t, label) == pc' = [pc EXCEPT ![t] = label]

\* Leave the read with an error: the pending fetch and the partial result are
\* dropped, what was inserted before stays in the cache.
Fail(t) ==
  /\ Goto(t, "failed")
  /\ spans' = [spans EXCEPT ![t] = {}]
  /\ got' = [got EXCEPT ![t] = NoBytes]
  /\ healing' = [healing EXCEPT ![t] = FALSE]
  /\ out' = [out EXCEPT ![t] = <<>>]

\* Plan the uncached part of the call under the lock, and go on to fetch it or,
\* when nothing is to be fetched, to serve.
Plan(t, requests) ==
  \E planned \in Plans(requests) :
    /\ spans' = [spans EXCEPT ![t] = PlanUncached(planned)]
    /\ Goto(t, IF PlanUncached(planned) = {} THEN "serve" ELSE "fetch")

\* read_range: an out-of-bounds request fails, a cached one returns at once.
ReadRange(t, r) ==
  /\ t \in callers /\ pc[t] = "idle"
  /\ call' = [call EXCEPT ![t] = <<r>>]
  /\ \/ /\ ~InBounds(r)
        /\ Goto(t, "failed")
        /\ UNCHANGED <<spans, out>>
     \/ /\ InBounds(r) /\ Cached(r)
        /\ Goto(t, "done")
        /\ out' = [out EXCEPT ![t] = <<CachedBytes(r)>>]
        /\ UNCHANGED spans
     \/ /\ InBounds(r) /\ ~Cached(r)
        /\ Plan(t, {r})
        /\ UNCHANGED out
  /\ UNCHANGED <<config, resident, cursor, got, healing>>

\* read_ranges: every request is checked before anything is planned; empty and
\* cached requests take no part in the plan.
ReadRanges(t, b) ==
  LET requests == {b[i] : i \in DOMAIN b}
  IN  /\ t \in callers /\ pc[t] = "idle"
      /\ call' = [call EXCEPT ![t] = b]
      /\ \/ /\ b = <<>>
            /\ Goto(t, "done")
            /\ UNCHANGED spans
         \/ /\ \E r \in requests : ~InBounds(r)
            /\ Goto(t, "failed")
            /\ UNCHANGED spans
         \/ /\ b # <<>> /\ \A r \in requests : InBounds(r)
            /\ Plan(t, {r \in requests : ~Cached(r)})
      /\ UNCHANGED <<config, resident, cursor, got, healing, out>>

\* read_many of an fsspec handle: one call for all spans, which the handle
\* answers in full or not at all.
CatRanges(t) ==
  /\ pc[t] = "fetch" /\ transport = "cat_ranges"
  /\ UNION spans[t] \subseteq Offsets
  /\ got' = [got EXCEPT ![t] =
               [p \in Offsets |-> IF p \in UNION spans[t] THEN p ELSE Absent]]
  /\ spans' = [spans EXCEPT ![t] = {}]
  /\ Goto(t, "fill")
  /\ UNCHANGED <<config, resident, cursor, call, healing, out>>

\* A span that lies before all others.
FirstSpan(t) ==
  CHOOSE s \in spans[t] : \A u \in spans[t] : \E p \in s : \A q \in u : p <= q

FirstOffset(s) == CHOOSE p \in s : \A q \in s : p <= q

\* Faulty variant: the handle is only positioned by the first seek.
SeekFromStart(t) ==
  /\ pc[t] = "fetch" /\ transport = "cursor"
  /\ cursor' = IF cursor = 0 THEN FirstOffset(FirstSpan(t)) ELSE cursor
  /\ Goto(t, "seeked")
  /\ UNCHANGED <<config, resident, call, spans, got, healing, out>>

\* read_many of any other handle is a loop of read_at: seek to the next span...
Seek(t) ==
  /\ pc[t] = "fetch" /\ transport = "cursor"
  /\ cursor' = FirstOffset(FirstSpan(t))
  /\ Goto(t, "seeked")
  /\ UNCHANGED <<config, resident, call, spans, got, healing, out>>

\* The byte that lands at offset p of the span s when the span is read from
\* where the cursor is now.
ByteReadAt(s, p) == cursor + (p - FirstOffset(s))

\* The handle has fewer bytes left than the span is long.
RunsOut(s) == \E p \in s : ByteReadAt(s, p) >= Size

\* ... and read its length from wherever the cursor is by then.  The interpreter
\* may run another thread between the two calls.
Read(t) ==
  LET s == FirstSpan(t)
  IN  /\ pc[t] = "seeked" /\ ~RunsOut(s)
      /\ got' = [got EXCEPT ![t] =
                   [p \in Offsets |-> IF p \in s THEN ByteReadAt(s, p) ELSE @[p]]]
      /\ cursor' = cursor + Cardinality(s)
      /\ spans' = [spans EXCEPT ![t] = @ \ {s}]
      /\ Goto(t, IF spans[t] = {s} THEN "fill" ELSE "fetch")
      /\ UNCHANGED <<config, resident, call, healing, out>>

\* A short read is an error and leaves the cursor at the end.
ShortRead(t) ==
  /\ pc[t] = "seeked" /\ RunsOut(FirstSpan(t))
  /\ cursor' = IF cursor < Size THEN Size ELSE cursor
  /\ Fail(t)
  /\ UNCHANGED <<config, resident, call>>

\* The fetch raises: a network error, or a range past the end of the source.
FetchFails(t) ==
  /\ pc[t] \in {"fetch", "seeked"}
  /\ Fail(t)
  /\ UNCHANGED <<config, resident, cursor, call>>

\* fill_cache: insert the fetched bytes under the lock.
Fill(t) ==
  /\ pc[t] = "fill" /\ ~healing[t]
  /\ resident' = Cache!Overlay(resident, got[t])
  /\ got' = [got EXCEPT ![t] = NoBytes]
  /\ Goto(t, "serve")
  /\ UNCHANGED <<config, cursor, call, spans, healing, out>>

\* Faulty variant: the ranges are served from the last one back.
ServingBackwards(t) == call[t][Len(call[t]) - Len(out[t])]

\* The range that is served next.
Serving(t) == call[t][Len(out[t]) + 1]

\* Hand out the bytes of the range being served.
Deliver(t, bytes) ==
  /\ out' = [out EXCEPT ![t] = Append(@, bytes)]
  /\ Goto(t, IF Len(out[t]) + 1 = Len(call[t]) THEN "done" ELSE "serve")

\* Faulty variant: the cache lock stays held while another thread fetches.
ServeWaiting(t) ==
  /\ \A u \in callers \ {t} : pc[u] \notin {"fetch", "seeked"}
  /\ pc[t] = "serve" /\ Cached(Serving(t))
  /\ Deliver(t, CachedBytes(Serving(t)))
  /\ UNCHANGED <<config, resident, cursor, call, spans, got, healing>>

\* serve_or_heal, first half: from the cache when it holds the range.
Serve(t) ==
  /\ pc[t] = "serve" /\ Cached(Serving(t))
  /\ Deliver(t, CachedBytes(Serving(t)))
  /\ UNCHANGED <<config, resident, cursor, call, spans, got, healing>>

\* serve_or_heal, second half: fetch exactly the range the cache lacks...
Heal(t) ==
  /\ pc[t] = "serve" /\ ~Cached(Serving(t))
  /\ spans' = [spans EXCEPT ![t] = {Span(Serving(t))}]
  /\ healing' = [healing EXCEPT ![t] = TRUE]
  /\ Goto(t, "fetch")
  /\ UNCHANGED <<config, resident, cursor, call, got, out>>

\* ... insert it and hand out the fetched bytes, not the cached ones.
HealInsert(t) ==
  /\ pc[t] = "fill" /\ healing[t]
  /\ resident' = Cache!Overlay(resident, got[t])
  /\ Deliver(t, Cache!Bytes(got[t], Span(Serving(t))))
  /\ got' = [got EXCEPT ![t] = NoBytes]
  /\ healing' = [healing EXCEPT ![t] = FALSE]
  /\ UNCHANGED <<config, cursor, call, spans>>

\* The caller takes the result or the error.
Return(t) ==
  /\ pc[t] \in {"done", "failed"}
  /\ Goto(t, "idle")
  /\ call' = [call EXCEPT ![t] = <<>>]
  /\ out' = [out EXCEPT ![t] = <<>>]
  /\ UNCHANGED <<config, resident, cursor, spans, got, healing>>

\* A thread in the middle of a read takes its next step.
Step(t) ==
  \/ CatRanges(t) \/ Seek(t) \/ Read(t) \/ ShortRead(t) \/ FetchFails(t)
  \/ Fill(t) \/ Serve(t) \/ Heal(t) \/ HealInsert(t) \/ Return(t)

Next ==
  \E t \in Threads :
    \/ \E r \in Ranges : ReadRange(t, r)
    \/ \E b \in Batches : ReadRanges(t, b)
    \/ Step(t)

\* A fetch returns or raises, and a thread that can run is run; only the
\* threads of FairThreads are promised this.
Fairness == \A t \in FairThreads : WF_vars(Step(t))

Spec == Init /\ [][Next]_vars /\ Fairness

-----------------------------------------------------------------------------
(* Properties *)

Labels == {"idle", "fetch", "seeked", "fill", "serve", "done", "failed"}

\* The labels at which a read is under way.
Busy == {"fetch", "seeked", "fill", "serve"}

\* Pieces of the source, as they are served.
Extracts == UNION {[S -> Offsets \cup {Absent}] : S \in SUBSET Offsets}

\* Every variable has its type.
TypeOK ==
  /\ transport \in {"cat_ranges", "cursor"}
  /\ policy \in {"header_aware", "any"}
  /\ callers \in (SUBSET Threads) \ {{}}
  /\ resident \in Cache!Cells
  /\ cursor \in Nat
  /\ pc \in [Threads -> Labels]
  /\ call \in [Threads -> Seq(Request)]
  /\ spans \in [Threads -> SUBSET SUBSET (0 .. Size)]
  /\ got \in [Threads -> Cache!Cells]
  /\ healing \in [Threads -> BOOLEAN]
  /\ out \in [Threads -> Seq(Extracts)]

\* cache.rs, merge: "overlapping bytes are identical for a consistent source".
\* Whatever the interleaving of fills, duplicate fetches and failures, the cache
\* holds at an offset the source's byte for that offset or nothing.
CacheCoherent == \A p \in Offsets : resident[p] \in {Absent, p}

\* Under the header-aware policy the fill always covers the request: the
\* filter on cached spans never drops a byte that is still missing, and nothing
\* another thread does takes a byte away, so no read fetches a second time.
HeaderAwareNeverHeals ==
  policy = "header_aware" => \A t \in Threads : ~healing[t]

\* The bytes a thread holds between its fetch and its fill are the source's.
GotCoherent == \A t \in Threads : \A p \in Offsets : got[t][p] \in {Absent, p}

\* A cursor handle is read by one thread, and between its seek and its read the
\* cursor stands at the span it is about to read.
CursorAtSpan ==
  /\ transport = "cursor" => \A t, u \in callers : t = u
  /\ \A t \in Threads : pc[t] # "idle" => t \in callers
  /\ \A t \in Threads : pc[t] = "seeked" =>
       transport = "cursor" /\ cursor = FirstOffset(FirstSpan(t))

\* Where a read stands: what it still has to fetch and what it has served.
ReadShape(t) ==
  /\ spans[t] # {} <=> pc[t] \in {"fetch", "seeked"}
  /\ {} \notin spans[t]
  /\ pc[t] \notin {"fetch", "seeked", "fill"} => got[t] = NoBytes /\ ~healing[t]
  /\ pc[t] = "fetch" /\ transport = "cat_ranges" => got[t] = NoBytes
  /\ pc[t] \in Busy => Len(out[t]) < Len(call[t])
  /\ pc[t] = "done" => Len(out[t]) = Len(call[t])
  /\ pc[t] \in {"idle", "failed"} => out[t] = <<>>
  /\ pc[t] = "idle" => call[t] = <<>>
  /\ pc[t] \in Busy => \A i \in DOMAIN call[t] : InBounds(call[t][i])

\* The served ranges hold the source's bytes.
ServedExactly(t) ==
  \A i \in DOMAIN out[t] :
    i \in DOMAIN call[t] /\ out[t][i] = [p \in Span(call[t][i]) |-> p]

\* Every byte of the span is fetched and not inserted yet, in a span still to be
\* fetched or, unless the thread heals, resident.
OnItsWay(t, span) ==
  span \subseteq Cache!Held(got[t]) \cup (UNION spans[t])
                   \cup (IF healing[t] THEN {} ELSE Cache!Held(resident))

\* No byte a read waits for is forgotten.  A healing read waits for the range
\* it serves, any other read under the header-aware policy for all its ranges.
NothingForgotten(t) ==
  /\ healing[t] => OnItsWay(t, Span(Serving(t)))
  /\ policy = "header_aware" /\ pc[t] \in Busy =>
       ~healing[t] /\ \A i \in DOMAIN call[t] : OnItsWay(t, Span(call[t][i]))

\* The inductive invariant from which coherence, exact answers and the absence
\* of a second fetch follow.
FetcherInv ==
  /\ TypeOK
  /\ CacheCoherent
  /\ GotCoherent
  /\ CursorAtSpan
  /\ \A t \in Threads : ReadShape(t) /\ ServedExactly(t) /\ NothingForgotten(t)

\* stream.rs, the re-entry assertion of read_at: no two threads are between
\* their seek and their read at the same time.
CursorExclusive ==
  \A t, u \in Threads : pc[t] = "seeked" /\ pc[u] = "seeked" => t = u

\* A caller sees only the source: each read returns exactly the requested bytes
\* of the source in the order of the requests, or fails.
Reads == INSTANCE RangeReads
           WITH status <- [t \in Threads |->
                             IF pc[t] \in {"idle", "done", "failed"} THEN pc[t]
                                                                     ELSE "pending"],
                reply  <- [t \in Threads |-> IF pc[t] = "done" THEN out[t] ELSE <<>>]

ReadsTheSource == Reads!Spec

\* The lock is released across a fetch, so a read ends although another thread
\* may stay in its fetch for ever.
FairReadsEnd == \A t \in FairThreads : pc[t] # "idle" ~> pc[t] = "idle"
=============================================================================
