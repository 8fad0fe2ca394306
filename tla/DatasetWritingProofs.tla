------------------------ MODULE DatasetWritingProofs -------------------------
(***************************************************************************)
(* Proofs about DatasetWriting for every list of sources and roles, every  *)
(* set of assets and every format.  WritingInv is the inductive invariant; *)
(* the refinement of DatasetPromise and the other results follow from it.  *)
(* With QueuesHold, which looks at the queues asset by asset, it gives     *)
(* PyramidReadsBack of CompositeReading.                                   *)
(***************************************************************************)
EXTENDS CompositeReading, BasicLemmas

SixFormats == {"jbp", "tiff", "png", "jpeg", "dted", "j2k"}

-----------------------------------------------------------------------------
(* Slots, keys and queues *)

\* A non-empty set of slots has a first one.
LEMMA FirstSlot ==
  ASSUME NEW n \in Nat, NEW S \in SUBSET (1 .. n), S # {}
  PROVE  \E i \in S : \A j \in S : i <= j
<1> DEFINE all == 1 .. n
           prefixes == {1 .. i : i \in S}
<1>1. IsFiniteSet(all)
  BY FS_Interval
<1>2. prefixes \subseteq SUBSET all /\ prefixes # {}
  <2>1. ASSUME NEW i \in S
        PROVE  1 .. i \subseteq 1 .. n
    OBVIOUS
  <2>2. QED
    BY <2>1
<1>3. \E x \in prefixes : \A y \in prefixes : <<y, x>> \notin StrictSubsetOrdering(all)
  <2> HIDE DEF all, prefixes
  <2>1. IsWellFoundedOn(StrictSubsetOrdering(all), SUBSET all)
    BY <1>1, FS_StrictSubsetOrderingWellFounded, FS_FiniteSubsetsOfFinite
  <2>2. QED
    BY <1>2, <2>1, WFMin
<1>4. PICK i \in S : \A y \in prefixes : <<y, 1 .. i>> \notin StrictSubsetOrdering(all)
  BY <1>3
<1>5. ASSUME NEW j \in S
      PROVE  i <= j
  <2>1. CASE j < i
    <3>1. 1 .. j \subseteq 1 .. i /\ 1 .. j # 1 .. i
      BY <2>1
    <3>2. <<1 .. j, 1 .. i>> \in StrictSubsetOrdering(all)
      BY <3>1, <1>2 DEF StrictSubsetOrdering
    <3>3. QED
      BY <3>2, <1>4
  <2>2. QED
    BY <2>1
<1>6. QED
  BY <1>5

\* The slots are numbered from 1.
LEMMA SlotNumbers ==
  ASSUME TypeOK
  PROVE  Len(slots) \in Nat /\ Slots = 1 .. Len(slots)
BY LenProperties DEF TypeOK, Slots

\* find returns a slot of the level, when there is one.
LEMMA SlotOfLevelExists ==
  ASSUME TypeOK, NEW level, SlotsOfLevel(level) # {}
  PROVE  SlotOfLevel(level) \in Slots
<1>1. SlotsOfLevel(level) \in SUBSET (1 .. Len(slots))
  BY SlotNumbers DEF SlotsOfLevel
<1>2. \E i \in SlotsOfLevel(level) : \A j \in SlotsOfLevel(level) : i <= j
  BY <1>1, SlotNumbers, FirstSlot
<1>3. QED
  BY <1>2 DEF SlotOfLevel, SlotsOfLevel

\* A writer, a stream and a handle for each slot.
LEMMA SlotEntries ==
  ASSUME TypeOK
  PROVE  /\ writers \in [Slots -> Writer]
         /\ streams \in [Slots -> Stream]
         /\ handles \in [Slots -> {"open", "not_ours", "committed", "lost"}]
BY SlotNumbers, LenProperties DEF TypeOK

\* No key is both queued and accepted a second time, in any format.
LEMMA AcceptedIsNew ==
  ASSUME NEW w, NEW a, format \in SixFormats, FormatAdd(w, a) = "accepted"
  PROVE  ~HasKey(w, a.key)
<1>1. CASE format = "jbp"
  BY <1>1 DEF FormatAdd, JbpAdd
<1>2. CASE format = "tiff"
  BY <1>2 DEF FormatAdd, TiffAdd
<1>3. CASE format = "png"
  BY <1>3 DEF FormatAdd, PngAdd, AddOnly, HasKey
<1>4. CASE format = "jpeg"
  BY <1>4 DEF FormatAdd, JpegAdd, AddOnly, HasKey
<1>5. CASE format = "dted"
  BY <1>5 DEF FormatAdd, DtedAdd, AddOnly, HasKey
<1>6. CASE format = "j2k"
  BY <1>6 DEF FormatAdd, J2kAdd, AddOnly, HasKey
<1>7. QED
  BY <1>1, <1>2, <1>3, <1>4, <1>5, <1>6 DEF SixFormats

\* What closing a format writer changes and keeps, whatever way it ends.
Keeps(w, c) ==
  /\ c.result \in {"ok", "error"}
  /\ c.writer \in Writer /\ c.writer.queue = w.queue /\ c.writer.meta = w.meta
  /\ c.stream \in Stream
  /\ c.stream.state = "whole" => c.stream = WholeFile(format, w)
  /\ c.result = "ok" /\ w.queue # <<>> => c.stream.state = "whole"

\* The streams a close leaves behind are streams.
LEMMA StreamTypes ==
  ASSUME NEW w \in Writer
  PROVE  Untouched \in Stream /\ Torn \in Stream /\ WholeFile(format, w) \in Stream
<1> DEFINE Item == [key : PlacedKeys, type : {a.type : a \in Assets}]
<1>1. QueuedKeys(w) \subseteq PlacedKeys
  <2>1. w.queue \in Seq(Item)
    BY DEF Writer
  <2>2. ASSUME NEW i \in DOMAIN w.queue
        PROVE  w.queue[i].key \in PlacedKeys
    <3>1. w.queue[i] \in Item
      <4> HIDE DEF Item
      <4>1. QED
        BY <2>1, LenProperties
    <3>2. QED
      BY <3>1
  <2>3. QED
    BY <2>2 DEF QueuedKeys
<1>2. (IF format \in Describing THEN w.meta ELSE NoMetadata) \in AnyMetadata
  BY DEF Writer, AnyMetadata
<1>3. QED
  BY <1>1, <1>2 DEF Untouched, Torn, WholeFile, Stream, AnyMetadata

\* The output is written and flushed, or fails.
LEMMA WriteOutKeeps ==
  ASSUME NEW w \in Writer, NEW c \in WriteOut(w)
  PROVE  Keeps(w, c)
<1> DEFINE taken == [w EXCEPT !.output = "taken", !.closed = TRUE]
           failed == [w EXCEPT !.output = "taken"]
<1>1. taken \in Writer /\ taken.queue = w.queue /\ taken.meta = w.meta
  BY DEF Writer
<1>2. failed \in Writer /\ failed.queue = w.queue /\ failed.meta = w.meta
  BY DEF Writer
<1>3. c \in {Closes(taken, WholeFile(format, w), "ok"), Closes(failed, Torn, "error")}
  BY DEF WriteOut
<1>4. WholeFile(format, w).state = "whole" /\ Torn.state = "torn"
  BY DEF WholeFile, Torn
<1> HIDE DEF taken, failed
<1>5. CASE c = Closes(taken, WholeFile(format, w), "ok")
  BY <1>1, <1>4, <1>5, StreamTypes DEF Closes, Keeps
<1>6. CASE c = Closes(failed, Torn, "error")
  BY <1>2, <1>4, <1>6, StreamTypes DEF Closes, Keeps
<1>7. QED
  BY <1>3, <1>5, <1>6

\* JBP and TIFF: an encoding error leaves the stream alone.
LEMMA EncodeThenWriteKeeps ==
  ASSUME NEW w \in Writer, NEW c \in {Closes(w, Untouched, "error")} \cup WriteOut(w)
  PROVE  Keeps(w, c)
<1>1. CASE c = Closes(w, Untouched, "error")
  BY <1>1, StreamTypes DEF Closes, Keeps, Untouched
<1>2. QED
  BY <1>1, WriteOutKeeps

\* The formats of one image.
LEMMA CloseOnlyKeeps ==
  ASSUME NEW w \in Writer, NEW c \in CloseOnly(w)
  PROVE  Keeps(w, c)
<1> DEFINE shut == [w EXCEPT !.closed = TRUE]
<1>1. shut \in Writer /\ shut.queue = w.queue /\ shut.meta = w.meta
  BY DEF Writer
<1>2. WholeFile(format, shut) = WholeFile(format, w)
  BY <1>1 DEF WholeFile, QueuedKeys
<1>3. CASE w.queue = <<>> /\ c = Closes(shut, Untouched, "ok")
  <2> HIDE DEF shut
  <2>1. QED
    BY <1>1, <1>3, StreamTypes DEF Closes, Keeps, Untouched
<1>4. CASE c \in {Closes(shut, Untouched, "error")} \cup WriteOut(shut)
  <2> HIDE DEF shut
  <2>1. Keeps(shut, c)
    BY <1>1, <1>4, EncodeThenWriteKeeps
  <2>2. QED
    BY <2>1, <1>1, <1>2 DEF Keeps
<1>5. QED
  BY <1>3, <1>4 DEF CloseOnly

\* The close of any format.
LEMMA FormatCloseKeeps ==
  ASSUME NEW w \in Writer, format \in SixFormats, NEW c \in FormatClose(w)
  PROVE  Keeps(w, c)
<1>1. CASE format = "jbp"
  BY <1>1, EncodeThenWriteKeeps DEF FormatClose, JbpClose
<1>2. CASE format = "tiff"
  BY <1>2, EncodeThenWriteKeeps DEF FormatClose, TiffClose
<1>3. CASE format = "png"
  BY <1>3, CloseOnlyKeeps DEF FormatClose, PngClose
<1>4. CASE format = "jpeg"
  BY <1>4, CloseOnlyKeeps DEF FormatClose, JpegClose
<1>5. CASE format = "dted"
  BY <1>5, CloseOnlyKeeps DEF FormatClose, DtedClose
<1>6. CASE format = "j2k"
  BY <1>6, CloseOnlyKeeps DEF FormatClose, J2kClose
<1>7. QED
  BY <1>1, <1>2, <1>3, <1>4, <1>5, <1>6 DEF SixFormats

LEMMA FormatIsKnown ==
  ASSUME TypeOK
  PROVE  format \in SixFormats
BY FormatAssumption DEF TypeOK, SixFormats

-----------------------------------------------------------------------------
(* Each action preserves the invariant *)

LEMMA InitInv == Init => WritingInv
<1> SUFFICES ASSUME Init PROVE WritingInv
  OBVIOUS
<1>1. Slots = {} /\ Len(slots) = 0
  BY DEF Init, Slots
<1>2. TypeOK
  BY <1>1, EmptySeq DEF Init, TypeOK
<1>3. QED
  BY <1>1, <1>2 DEF Init, WritingInv, StagesInOrder, HandlesInOrder, StreamsInOrder,
                    AcceptedHaveAPlace, StreamsHaveOneWriter, OneWriterPerSource

\* Where keys are kept depends on the slots only.
LEMMA PlacesKept ==
  ASSUME UNCHANGED slots
  PROVE  Slots' = Slots /\ \A k : Place(k)' = Place(k)
<1>1. Slots' = Slots
  BY DEF Slots
<1>2. ASSUME NEW level
      PROVE  SlotOfLevel(level)' = SlotOfLevel(level)
  <2>1. SlotsOfLevel(level)' = SlotsOfLevel(level)
    BY DEF SlotsOfLevel, Slots
  <2>2. QED
    BY <2>1 DEF SlotOfLevel
<1>3. IsComposite' = IsComposite
  BY DEF IsComposite
<1>4. QED
  BY <1>1, <1>2, <1>3 DEF Place

LEMMA OpenSourceInv == WritingInv /\ OpenSource => WritingInv'
<1> SUFFICES ASSUME WritingInv, OpenSource PROVE WritingInv'
  OBVIOUS
<1> DEFINE s == SlotPlan(opening.roles)[Len(slots) + 1]
           h == IF s.source \in opening.remote THEN "open" ELSE "not_ours"
           n == Len(slots)
           Handle == {"open", "not_ours", "committed", "lost"}
<1>1. TypeOK /\ n \in Nat /\ Slots = 1 .. n
  BY SlotNumbers DEF WritingInv
<1>2. /\ slots' = Append(slots, s) /\ writers' = Append(writers, FreshWriter)
      /\ streams' = Append(streams, Untouched) /\ handles' = Append(handles, h)
      /\ phase = "opening" /\ phase' \in {"open", "opening"}
      /\ UNCHANGED <<opening, format, claimed, accepted, outcome, finalized, error>>
  BY DEF OpenSource, AddSlot
<1>3. FreshWriter \in Writer /\ Untouched \in Stream /\ h \in Handle
  <2>1. FreshWriter \in Writer
    BY EmptySeq DEF FreshWriter, Writer, AnyMetadata
  <2>2. QED
    BY <2>1, StreamTypes
<1>4. /\ slots' \in Seq(Range(slots')) /\ Len(slots') = n + 1 /\ Slots' = 1 .. n + 1
      /\ slots'[n + 1] = s /\ \A i \in 1 .. n : slots'[i] = slots[i]
  <2> DEFINE S == Range(slots) \cup {s}
  <2>1. slots \in Seq(S) /\ s \in S
    BY <1>1, SeqMonotonic DEF TypeOK
  <2> HIDE DEF S, s
  <2>2. slots' \in Seq(S) /\ Len(slots') = n + 1
        /\ slots'[n + 1] = s /\ \A i \in 1 .. n : slots'[i] = slots[i]
    BY <2>1, <1>2, AppendProperties
  <2>3. QED
    BY <2>2, <1>1, SeqOfRange, LenProperties DEF Slots
<1>5. /\ writers' \in Seq(Writer) /\ Len(writers') = n + 1
      /\ writers'[n + 1] = FreshWriter /\ \A i \in 1 .. n : writers'[i] = writers[i]
  BY <1>1, <1>2, <1>3, AppendProperties DEF TypeOK
<1>6. /\ streams' \in Seq(Stream) /\ Len(streams') = n + 1
      /\ streams'[n + 1] = Untouched /\ \A i \in 1 .. n : streams'[i] = streams[i]
  BY <1>1, <1>2, <1>3, AppendProperties DEF TypeOK
<1>7. /\ handles' \in Seq(Handle) /\ Len(handles') = n + 1
      /\ handles'[n + 1] = h /\ \A i \in 1 .. n : handles'[i] = handles[i]
  <2> HIDE DEF h, Handle
  <2>1. handles \in Seq(Handle) /\ Len(handles) = n
    BY <1>1 DEF TypeOK, Handle
  <2>2. QED
    BY <2>1, <1>2, <1>3, AppendProperties
<1> HIDE DEF s, h, Handle
<1>8. \A i \in Slots' : slots'[i] = SlotPlan(opening'.roles)[i]
  <2>1. \A i \in 1 .. n : slots'[i] = SlotPlan(opening.roles)[i]
    BY <1>1, <1>4 DEF TypeOK
  <2>2. slots'[n + 1] = SlotPlan(opening.roles)[n + 1]
    BY <1>4 DEF s
  <2>3. QED
    BY <2>1, <2>2, <1>1, <1>2, <1>4
<1>9. TypeOK'
  BY <1>1, <1>2, <1>4, <1>5, <1>6, <1>7, <1>8 DEF TypeOK, Handle
<1>10. accepted' = {} /\ finalized' = {} /\ error' = "none"
       /\ \A i \in Slots' : writers'[i] = FreshWriter
  BY <1>1, <1>2, <1>4, <1>5 DEF WritingInv, StagesInOrder
<1>11. \A i \in Slots' : handles'[i] \in {"open", "not_ours"} /\ streams'[i] = Untouched
  <2>1. ASSUME NEW i \in 1 .. n
        PROVE  handles'[i] \in {"open", "not_ours"} /\ streams'[i] = Untouched
    <3>1. handles[i] \in {"open", "not_ours", "committed", "lost"} /\ i \in Slots
      BY <1>1, SlotEntries
    <3>2. handles[i] \in {"open", "not_ours"}
      BY <1>2, <3>1 DEF WritingInv, HandlesInOrder
    <3>3. streams[i] = Untouched
      BY <1>2, <1>10, <3>1 DEF WritingInv, StreamsInOrder
    <3>4. QED
      BY <3>2, <3>3, <1>6, <1>7
  <2>2. handles'[n + 1] \in {"open", "not_ours"} /\ streams'[n + 1] = Untouched
    BY <1>6, <1>7 DEF h
  <2>3. QED
    BY <2>1, <2>2, <1>1, <1>4
<1>12. StagesInOrder'
  <2>1. slots' # <<>>
    BY <1>1, <1>4
  <2>2. QED
    BY <2>1, <1>2, <1>10 DEF StagesInOrder
<1>13. HandlesInOrder'
  BY <1>2, <1>11 DEF HandlesInOrder
<1>14. StreamsInOrder'
  BY <1>10, <1>11 DEF StreamsInOrder, Untouched
<1>15. AcceptedHaveAPlace'
  <2>1. QueuedKeys(FreshWriter) = {}
    BY DEF QueuedKeys, FreshWriter
  <2>2. QED
    BY <2>1, <1>10 DEF AcceptedHaveAPlace
<1>16. StreamsHaveOneWriter'
  <2> SUFFICES ASSUME opening.mode = "streams",
                      NEW i \in 1 .. n + 1, NEW j \in 1 .. n + 1,
                      slots'[i].source = slots'[j].source
               PROVE  i = j
    BY <1>2, <1>4 DEF StreamsHaveOneWriter, OneWriterPerSource
  <2>1. \A k \in 1 .. n : slots[k].source # s.source
    BY <1>1 DEF OpenSource, s
  <2>2. \A k, l \in 1 .. n : slots[k].source = slots[l].source => k = l
    BY <1>1 DEF WritingInv, StreamsHaveOneWriter, OneWriterPerSource
  <2>3. (i \in 1 .. n \/ i = n + 1) /\ (j \in 1 .. n \/ j = n + 1)
    BY <1>1
  <2>4. QED
    BY <2>1, <2>2, <2>3, <1>4
<1>17. QED
  BY <1>9, <1>10, <1>12, <1>13, <1>14, <1>15, <1>16 DEF WritingInv

\* An action that keeps the slots and every queue keeps every key where it is.
LEMMA QueuesKept ==
  ASSUME WritingInv, UNCHANGED <<opening, slots, accepted>>,
         \A i \in Slots : writers'[i].queue = writers[i].queue
  PROVE  /\ AcceptedHaveAPlace' /\ StreamsHaveOneWriter'
         /\ \A k \in accepted' : Place(k)'.slot \in Slots'
<1>1. Slots' = Slots /\ \A k : Place(k)' = Place(k)
  BY PlacesKept
<1>2. \A i \in Slots : QueuedKeys(writers[i])' = QueuedKeys(writers[i])
  BY DEF QueuedKeys
<1>3. StreamsHaveOneWriter'
  BY <1>1 DEF WritingInv, StreamsHaveOneWriter, OneWriterPerSource
<1>4. QED
  BY <1>1, <1>2, <1>3 DEF WritingInv, AcceptedHaveAPlace

\* The actions that only move to another stage.
LEMMA StageInv ==
  ASSUME WritingInv,
         UNCHANGED <<opening, format, slots, writers, streams, handles, claimed,
                     accepted, finalized, error>>
  PROVE  /\ TypeOK /\ Slots' = Slots
         /\ phase' \in {"opening", "failed", "open", "closing", "committing", "closed"} =>
              TypeOK'
         /\ StreamsInOrder' /\ AcceptedHaveAPlace' /\ StreamsHaveOneWriter'
         /\ \A i, j \in Slots' : writers'[i].meta = writers'[j].meta
         /\ \A k \in accepted' : Place(k)'.slot \in Slots'
<1>1. TypeOK /\ Slots' = Slots
  BY DEF WritingInv, Slots
<1>2. phase' \in {"opening", "failed", "open", "closing", "committing", "closed"} => TypeOK'
  BY <1>1 DEF TypeOK
<1>3. StreamsInOrder'
  BY <1>1 DEF WritingInv, StreamsInOrder
<1>4. QED
  BY <1>1, <1>2, <1>3, QueuesKept DEF WritingInv

LEMMA OpenFailsInv == WritingInv /\ OpenFails => WritingInv'
<1> SUFFICES ASSUME WritingInv, OpenFails PROVE WritingInv'
  OBVIOUS
<1>1. StagesInOrder' /\ HandlesInOrder'
  BY StageInv DEF WritingInv, OpenFails, StagesInOrder, HandlesInOrder
<1>2. QED
  BY <1>1, StageInv DEF WritingInv, OpenFails

LEMMA StartCloseInv == WritingInv /\ StartClose => WritingInv'
<1> SUFFICES ASSUME WritingInv, StartClose PROVE WritingInv'
  OBVIOUS
<1>1. StagesInOrder' /\ HandlesInOrder'
  BY StageInv DEF WritingInv, StartClose, StagesInOrder, HandlesInOrder
<1>2. QED
  BY <1>1, StageInv DEF WritingInv, StartClose

LEMMA EndCloseInv == WritingInv /\ EndClose => WritingInv'
<1> SUFFICES ASSUME WritingInv, EndClose PROVE WritingInv'
  OBVIOUS
<1>1. StagesInOrder'
  BY StageInv DEF WritingInv, EndClose, StagesInOrder
<1>2. HandlesInOrder'
  BY StageInv DEF WritingInv, EndClose, HandlesInOrder, OpenHandles
<1>3. QED
  BY <1>1, <1>2, StageInv DEF WritingInv, EndClose

LEMMA CallAfterCloseInv == WritingInv /\ CallAfterClose => WritingInv'
<1> SUFFICES ASSUME WritingInv, CallAfterClose PROVE WritingInv'
  OBVIOUS
<1>1. StagesInOrder' /\ HandlesInOrder'
  BY StageInv DEF WritingInv, CallAfterClose, StagesInOrder, HandlesInOrder
<1>2. QED
  BY <1>1, StageInv DEF WritingInv, CallAfterClose

LEMMA CommitInv == ASSUME NEW i \in Slots, WritingInv, Commit(i) PROVE WritingInv'
<1> DEFINE Handle == {"open", "not_ours", "committed", "lost"}
<1>1. TypeOK /\ Slots' = Slots
  BY DEF WritingInv, Commit, CommitWhen, Slots
<1>2. PICK h \in {"committed", "lost"} : handles' = [handles EXCEPT ![i] = h]
        /\ (h = "lost" => error' # "none")
  BY <1>1 DEF Commit, CommitWhen, TypeOK
<1>3. error' \in {"none", "finalize", "commit"} /\ (error' = "finalize" <=> error = "finalize")
      /\ (error # "none" => error' # "none")
  BY <1>1 DEF Commit, CommitWhen, TypeOK
<1>4. handles' \in Seq(Handle) /\ Len(handles') = Len(handles)
      /\ handles'[i] = h /\ \A j \in Slots : j # i => handles'[j] = handles[j]
  <2> HIDE DEF Handle
  <2>1. handles \in Seq(Handle) /\ h \in Handle /\ i \in 1 .. Len(handles)
    BY <1>1, SlotNumbers DEF TypeOK, Handle
  <2>2. QED
    BY <2>1, <1>1, <1>2, ExceptSeq, SlotNumbers DEF TypeOK
<1>5. TypeOK'
  BY <1>1, <1>3, <1>4 DEF TypeOK, Commit, CommitWhen
<1>6. StagesInOrder'
  BY <1>1, <1>3 DEF WritingInv, StagesInOrder, Commit, CommitWhen
<1>7. HandlesInOrder'
  BY <1>1, <1>2, <1>3, <1>4 DEF WritingInv, HandlesInOrder, Commit, CommitWhen
<1>8. StreamsInOrder'
  BY <1>1, <1>3 DEF WritingInv, StreamsInOrder, Commit, CommitWhen
<1>9. QED
  BY <1>1, <1>5, <1>6, <1>7, <1>8, QueuesKept DEF WritingInv, Commit, CommitWhen

LEMMA SetMetadataInv == ASSUME NEW m \in Metadata, WritingInv, SetMetadata(m) PROVE WritingInv'
<1>1. TypeOK /\ Slots' = Slots /\ Len(slots) \in Nat /\ Slots = 1 .. Len(slots)
  BY SlotNumbers DEF WritingInv, SetMetadata, Slots
<1>2. \A i \in Slots : /\ writers'[i] \in Writer
                        /\ writers'[i].queue = writers[i].queue /\ writers'[i].meta = m
  <2>1. ASSUME NEW i \in Slots
        PROVE  /\ [writers[i] EXCEPT !.meta = m] \in Writer
               /\ [writers[i] EXCEPT !.meta = m].queue = writers[i].queue
               /\ [writers[i] EXCEPT !.meta = m].meta = m
    <3>1. writers[i] \in Writer
      BY <1>1, SlotEntries
    <3>2. QED
      BY <3>1 DEF Writer, AnyMetadata
  <2>2. QED
    BY <2>1 DEF SetMetadata
<1>3. writers' \in Seq(Writer) /\ Len(writers') = Len(slots)
  <2>1. writers' \in [1 .. Len(slots) -> Writer]
    BY <1>1, <1>2 DEF SetMetadata
  <2>2. writers' \in Seq(Writer)
    BY <2>1, <1>1, SeqDef
  <2>3. QED
    BY <2>1, <2>2, <1>1, LenProperties
<1>4. TypeOK'
  BY <1>1, <1>3 DEF TypeOK, SetMetadata
<1>5. StagesInOrder' /\ HandlesInOrder'
  BY <1>1 DEF WritingInv, StagesInOrder, HandlesInOrder, SetMetadata
<1>6. \A i \in Slots' : streams'[i] = Untouched /\ i \notin finalized'
  BY <1>1 DEF WritingInv, StagesInOrder, StreamsInOrder, SetMetadata
<1>7. StreamsInOrder'
  <2>1. Untouched.state # "whole"
    BY DEF Untouched
  <2>2. QED
    BY <2>1, <1>6 DEF StreamsInOrder
<1>8. /\ AcceptedHaveAPlace' /\ StreamsHaveOneWriter'
      /\ \A k \in accepted' : Place(k)'.slot \in Slots'
  BY <1>2, QueuesKept DEF SetMetadata
<1>9. QED
  BY <1>1, <1>2, <1>4, <1>5, <1>7, <1>8 DEF WritingInv

LEMMA CloseWriterInv == ASSUME NEW i \in Slots, WritingInv, CloseWriter(i) PROVE WritingInv'
<1>1. /\ TypeOK /\ Slots' = Slots /\ Len(slots) \in Nat /\ Slots = 1 .. Len(slots)
      /\ phase = "closing" /\ error = "none" /\ i \notin finalized
      /\ finalized' = finalized \cup {i}
      /\ UNCHANGED <<opening, format, slots, handles, claimed, accepted, outcome>>
  BY SlotNumbers DEF WritingInv, StagesInOrder, CloseWriter, NextToClose, Slots
<1>2. writers[i] \in Writer /\ format \in SixFormats
  BY <1>1, SlotEntries, FormatIsKnown
<1>3. PICK c \in FormatClose(writers[i]) :
        /\ writers' = [writers EXCEPT ![i] = c.writer]
        /\ streams' = [streams EXCEPT ![i] = c.stream]
        /\ error' = IF c.result = "error" THEN "finalize" ELSE error
        /\ phase' = IF c.result = "error" \/ finalized' = Slots
                      THEN "committing" ELSE "closing"
  BY DEF CloseWriter
<1>4. Keeps(writers[i], c)
  BY <1>2, FormatCloseKeeps
<1>5. /\ writers' \in Seq(Writer) /\ Len(writers') = Len(slots)
      /\ writers'[i] = c.writer /\ \A j \in Slots : j # i => writers'[j] = writers[j]
  BY <1>1, <1>3, <1>4, ExceptSeq DEF TypeOK, Keeps
<1>6. /\ streams' \in Seq(Stream) /\ Len(streams') = Len(slots)
      /\ streams'[i] = c.stream /\ \A j \in Slots : j # i => streams'[j] = streams[j]
  BY <1>1, <1>3, <1>4, ExceptSeq DEF TypeOK, Keeps
<1>7. \A j \in Slots : writers'[j].queue = writers[j].queue /\ writers'[j].meta = writers[j].meta
  BY <1>4, <1>5 DEF Keeps
<1>8. TypeOK'
  BY <1>1, <1>3, <1>5, <1>6 DEF TypeOK
<1>9. StagesInOrder'
  BY <1>1, <1>3, <1>4 DEF WritingInv, StagesInOrder, Keeps
<1>10. HandlesInOrder'
  BY <1>1, <1>3 DEF WritingInv, HandlesInOrder
<1>11. StreamsInOrder'
  <2>1. ASSUME NEW j \in Slots
        PROVE  /\ j \notin finalized' => streams'[j] = Untouched
               /\ j \in finalized' /\ error' # "finalize" /\ writers'[j].queue # <<>> =>
                    streams'[j].state = "whole"
               /\ streams'[j].state = "whole" => streams'[j] = WholeFile(format, writers'[j])
    <3>1. CASE j = i
      <4>1. WholeFile(format, c.writer) = WholeFile(format, writers[i])
        BY <1>4 DEF Keeps, WholeFile, QueuedKeys
      <4>2. QED
        BY <3>1, <4>1, <1>1, <1>3, <1>4, <1>5, <1>6 DEF Keeps
    <3>2. CASE j # i
      BY <3>2, <1>1, <1>5, <1>6 DEF WritingInv, StreamsInOrder
    <3>3. QED
      BY <3>1, <3>2
  <2>2. QED
    BY <2>1, <1>1 DEF StreamsInOrder
<1>12. /\ AcceptedHaveAPlace' /\ StreamsHaveOneWriter'
       /\ \A k \in accepted' : Place(k)'.slot \in Slots'
  BY <1>1, <1>7, QueuesKept
<1>13. QED
  BY <1>1, <1>7, <1>8, <1>9, <1>10, <1>11, <1>12 DEF WritingInv

\* A format writer that is open answers add_asset.
LEMMA AddToInv ==
  ASSUME NEW i \in Slots, NEW b \in [key : PlacedKeys, type : {a.type : a \in Assets}],
         NEW key \in Keys, WritingInv, AddTo(i, b, key), phase = "open",
         Place(key) = [slot |-> i, key |-> b.key], claimed' \subseteq Keys,
         UNCHANGED <<opening, format, phase, slots, streams, handles, finalized, error>>
  PROVE  WritingInv'
<1> DEFINE Item == [key : PlacedKeys, type : {a.type : a \in Assets}]
           w == writers[i]
<1>1. /\ TypeOK /\ Slots' = Slots /\ Len(slots) \in Nat /\ Slots = 1 .. Len(slots)
      /\ \A k : Place(k)' = Place(k)
  BY SlotNumbers, PlacesKept DEF WritingInv
<1>2. w \in Writer /\ format \in SixFormats
  BY <1>1, SlotEntries, FormatIsKnown
<1>3. CASE FormatAdd(w, b) # "accepted"
  <2>1. UNCHANGED <<writers, accepted>>
    BY <1>3 DEF AddTo
  <2>2. TypeOK' /\ StagesInOrder' /\ HandlesInOrder' /\ StreamsInOrder'
    BY <2>1, <1>1 DEF WritingInv, TypeOK, StagesInOrder, HandlesInOrder, StreamsInOrder
  <2>3. QED
    BY <2>1, <2>2, <1>1, QueuesKept DEF WritingInv
<1>4. CASE FormatAdd(w, b) = "accepted"
  <2> DEFINE v == [w EXCEPT !.queue = Append(@, b)]
  <2>1. /\ writers' = [writers EXCEPT ![i].queue = Append(@, b)]
        /\ accepted' = accepted \cup {key}
    BY <1>4 DEF AddTo
  <2>2. /\ Append(w.queue, b) \in Seq(Item)
        /\ DOMAIN Append(w.queue, b) = DOMAIN w.queue \cup {Len(w.queue) + 1}
        /\ Append(w.queue, b)[Len(w.queue) + 1] = b
        /\ \A j \in DOMAIN w.queue : Append(w.queue, b)[j] = w.queue[j]
    <3> HIDE DEF Item
    <3>1. w.queue \in Seq(Item) /\ b \in Item
      BY <1>2 DEF Writer, Item
    <3>2. Len(w.queue) \in Nat /\ DOMAIN w.queue = 1 .. Len(w.queue)
      BY <3>1, LenProperties
    <3>3. Append(w.queue, b) \in Seq(Item) /\ Len(Append(w.queue, b)) = Len(w.queue) + 1
          /\ Append(w.queue, b)[Len(w.queue) + 1] = b
          /\ \A j \in 1 .. Len(w.queue) : Append(w.queue, b)[j] = w.queue[j]
      BY <3>1, AppendProperties
    <3>4. DOMAIN Append(w.queue, b) = 1 .. Len(w.queue) + 1
      BY <3>3, LenProperties
    <3>5. QED
      BY <3>2, <3>3, <3>4
  <2>3. v \in Writer /\ v.queue = Append(w.queue, b) /\ v.meta = w.meta
    BY <1>2, <2>2 DEF Writer
  <2>4. QueuedKeys(v) = QueuedKeys(w) \cup {b.key}
    BY <2>2, <2>3 DEF QueuedKeys
  <2>5. writers' = [writers EXCEPT ![i] = v]
    BY <2>1, <1>1, SlotEntries
  <2> HIDE DEF v
  <2>6. /\ writers' \in Seq(Writer) /\ Len(writers') = Len(slots)
        /\ writers'[i] = v /\ \A j \in Slots : j # i => writers'[j] = writers[j]
    BY <2>3, <2>5, <1>1, ExceptSeq DEF TypeOK
  <2>7. TypeOK'
    BY <2>1, <2>6, <1>1 DEF TypeOK
  <2>8. StagesInOrder' /\ HandlesInOrder'
    BY <1>1 DEF WritingInv, StagesInOrder, HandlesInOrder
  <2>9. StreamsInOrder'
    <3>1. Untouched.state # "whole"
      BY DEF Untouched
    <3>2. \A j \in Slots' : streams'[j] = Untouched /\ j \notin finalized'
      BY <1>1 DEF WritingInv, StagesInOrder, StreamsInOrder
    <3>3. QED
      BY <3>1, <3>2 DEF StreamsInOrder
  <2>10. \A j, k \in Slots' : writers'[j].meta = writers'[k].meta
    <3>1. ASSUME NEW j \in Slots
          PROVE  writers'[j].meta = w.meta
      BY <2>3, <2>6 DEF WritingInv
    <3>2. QED
      BY <3>1, <1>1
  <2>11. \A k \in accepted' : Place(k)'.slot \in Slots'
    BY <2>1, <1>1 DEF WritingInv
  <2>12. b.key \notin QueuedKeys(w)
    BY <1>2, <1>4, AcceptedIsNew DEF HasKey, QueuedKeys
  <2>13. \A k \in accepted : Place(k) # Place(key)
    BY <2>12 DEF WritingInv, AcceptedHaveAPlace
  <2>14. ASSUME NEW j \in Slots
         PROVE  QueuedKeys(writers'[j]) =
                  {Place(k).key : k \in {q \in accepted' : Place(q).slot = j}}
    <3>1. QueuedKeys(writers[j]) = {Place(k).key : k \in {q \in accepted : Place(q).slot = j}}
      BY DEF WritingInv, AcceptedHaveAPlace
    <3>2. CASE j = i
      <4> DEFINE P == {q \in accepted : Place(q).slot = i}
      <4>1. {q \in accepted' : Place(q).slot = i} = P \cup {key}
        BY <2>1
      <4>2. QueuedKeys(w) = {Place(k).key : k \in P} /\ Place(key).key = b.key
        BY <3>1, <3>2
      <4> HIDE DEF P
      <4>3. {Place(k).key : k \in P \cup {key}} = QueuedKeys(w) \cup {b.key}
        BY <4>2
      <4>4. QED
        BY <3>2, <4>1, <4>3, <2>4, <2>6
    <3>3. CASE j # i
      BY <3>1, <3>3, <2>1, <2>6
    <3>4. QED
      BY <3>2, <3>3
  <2>15. AcceptedHaveAPlace'
    <3>1. \A j \in Slots : QueuedKeys(writers[j])' =
                              {Place(k)'.key : k \in {q \in accepted' : Place(q)'.slot = j}}
      <4>1. ASSUME NEW j \in Slots
            PROVE  QueuedKeys(writers[j])' =
                     {Place(k)'.key : k \in {q \in accepted' : Place(q)'.slot = j}}
        <5>1. QueuedKeys(writers[j])' = QueuedKeys(writers'[j])
          BY DEF QueuedKeys
        <5>2. {Place(k)'.key : k \in {q \in accepted' : Place(q)'.slot = j}} =
                {Place(k).key : k \in {q \in accepted' : Place(q).slot = j}}
          BY <1>1
        <5>3. QED
          BY <5>1, <5>2, <2>14
      <4>2. QED
        BY <4>1
    <3>2. \A k, q \in accepted' : Place(k)' = Place(q)' => k = q
      BY <2>1, <2>13, <1>1 DEF WritingInv, AcceptedHaveAPlace
    <3>3. QED
      BY <3>1, <3>2, <1>1 DEF AcceptedHaveAPlace
  <2>16. StreamsHaveOneWriter'
    BY <1>1 DEF WritingInv, StreamsHaveOneWriter, OneWriterPerSource
  <2>17. QED
    BY <2>7, <2>8, <2>9, <2>10, <2>11, <2>15, <2>16 DEF WritingInv
<1>5. QED
  BY <1>3, <1>4

\* A call of add_asset that is refused before it reaches a format writer.
LEMMA RefusedInv ==
  ASSUME WritingInv, claimed' \subseteq Keys,
         UNCHANGED <<opening, format, phase, slots, writers, streams, handles, accepted,
                     finalized, error>>
  PROVE  WritingInv'
<1>1. TypeOK /\ Slots' = Slots
  BY DEF WritingInv, Slots
<1>2. TypeOK' /\ StagesInOrder' /\ HandlesInOrder' /\ StreamsInOrder'
  BY <1>1 DEF WritingInv, TypeOK, StagesInOrder, HandlesInOrder, StreamsInOrder
<1>3. QED
  BY <1>1, <1>2, QueuesKept DEF WritingInv

LEMMA AddAssetInv == ASSUME NEW a \in Assets, WritingInv, AddAsset(a) PROVE WritingInv'
<1> DEFINE Item == [key : PlacedKeys, type : {x.type : x \in Assets}]
<1>1. /\ TypeOK /\ phase = "open" /\ 1 \in Slots /\ claimed \subseteq Keys /\ a.key \in Keys
      /\ UNCHANGED <<opening, format, phase, slots, streams, handles, finalized, error>>
  <2>1. TypeOK /\ phase = "open" /\ slots # <<>> /\ a.key \in Keys
        /\ UNCHANGED <<opening, format, phase, slots, streams, handles, finalized, error>>
    BY DEF WritingInv, StagesInOrder, AddAsset, Keys
  <2>2. 1 \in Slots
    BY <2>1, SlotNumbers, EmptySeq DEF TypeOK
  <2>3. QED
    BY <2>1, <2>2 DEF TypeOK
<1>2. a \in Item
  BY AssetAssumption DEF PlacedKeys, Keys
<1>3. CASE ~IsComposite /\ AddTo(1, a, a.key) /\ UNCHANGED claimed
  BY <1>1, <1>2, <1>3, AddToInv DEF Place
<1>4. CASE IsComposite /\ UNCHANGED <<writers, accepted, claimed>>
  BY <1>1, <1>4, RefusedInv
<1>5. CASE IsComposite /\ claimed' = claimed \cup {a.key} /\ CompositeAdd(a)
  <2>1. claimed' \subseteq Keys
    BY <1>1, <1>5
  <2>2. CASE ~IsOverviewKey(a.key) /\ AddTo(1, a, a.key)
    BY <1>1, <1>2, <2>1, <2>2, AddToInv DEF Place
  <2>3. CASE /\ IsOverviewKey(a.key) /\ SlotsOfLevel(a.key.level) # {}
             /\ AddTo(SlotOfLevel(a.key.level), [a EXCEPT !.key = ParentKey(@)], a.key)
    <3> DEFINE b == [a EXCEPT !.key = ParentKey(@)]
               i == SlotOfLevel(a.key.level)
    <3>1. b \in Item /\ b.key = ParentKey(a.key)
      BY <1>1, AssetAssumption DEF PlacedKeys
    <3>2. i \in Slots
      BY <1>1, <2>3, SlotOfLevelExists
    <3>3. Place(a.key) = [slot |-> i, key |-> b.key]
      BY <1>5, <2>3, <3>1 DEF Place
    <3>4. AddTo(i, b, a.key)
      BY <2>3
    <3> HIDE DEF b, i
    <3>5. QED
      BY <1>1, <2>1, <3>1, <3>2, <3>3, <3>4, AddToInv
  <2>4. CASE UNCHANGED <<writers, accepted>>
    BY <1>1, <2>1, <2>4, RefusedInv
  <2>5. QED
    BY <1>5, <2>2, <2>3, <2>4 DEF CompositeAdd
<1>6. QED
  BY <1>3, <1>4, <1>5 DEF AddAsset

LEMMA NextInv == WritingInv /\ [Next]_vars => WritingInv'
<1> SUFFICES ASSUME WritingInv, [Next]_vars PROVE WritingInv'
  OBVIOUS
<1>1. CASE UNCHANGED vars
  BY <1>1, RefusedInv DEF vars, WritingInv, TypeOK
<1>2. CASE \E i \in Slots : CloseWriter(i) \/ Commit(i)
  BY <1>2, CloseWriterInv, CommitInv
<1>3. CASE \E a \in Assets : AddAsset(a)
  BY <1>3, AddAssetInv
<1>4. CASE \E m \in Metadata : SetMetadata(m)
  BY <1>4, SetMetadataInv
<1>5. QED
  BY <1>1, <1>2, <1>3, <1>4, OpenFailsInv, OpenSourceInv, StartCloseInv, EndCloseInv,
     CallAfterCloseInv DEF Next, Closing

-----------------------------------------------------------------------------
(* The invariant and what follows from it *)

\* The strengthening under which all the steps of a dataset preserve the rest.
THEOREM WritingInvariant == Spec => []WritingInv
<1>1. Init => WritingInv
  BY InitInv
<1>2. WritingInv /\ [Next]_vars => WritingInv'
  BY NextInv
<1>3. QED
  BY <1>1, <1>2, PTL DEF Spec

\* Every variable of a dataset keeps its type.
THEOREM WritingTypeCorrect == Spec => []TypeOK
<1>1. WritingInv => TypeOK
  BY DEF WritingInv
<1>2. QED
  BY <1>1, WritingInvariant, PTL

\* add_asset: an accepted asset is in the file its level names, alone in its place.
THEOREM EveryAssetHasItsPlace == Spec => []AcceptedHaveAPlace
<1>1. WritingInv => AcceptedHaveAPlace
  BY DEF WritingInv
<1>2. QED
  BY <1>1, WritingInvariant, PTL

\* The files that are written hold what was accepted for them and, in the formats
\* that have a place for it, one metadata (FilesAgree).
THEOREM WrittenFilesAgree == Spec => []FilesAgree
<1>1. WritingInv => FilesAgree
  <2> SUFFICES ASSUME WritingInv, NEW i \in Slots, streams[i].state = "whole"
               PROVE  /\ streams[i].keys = QueuedKeys(writers[i])
                      /\ format \in Describing =>
                           \A j \in Slots : streams[i].meta = writers[j].meta
    BY DEF FilesAgree
  <2>1. streams[i] = WholeFile(format, writers[i])
    BY DEF WritingInv, StreamsInOrder
  <2>2. \A j \in Slots : writers[i].meta = writers[j].meta
    BY DEF WritingInv
  <2>3. QED
    BY <2>1, <2>2 DEF WholeFile
<1>2. QED
  BY <1>1, WritingInvariant, PTL

\* close of bindings/writer.rs: when it returns, no remote handle is left open.
THEOREM EveryHandleIsClosed == Spec => []NoHandleDangles
<1>1. WritingInv => NoHandleDangles
  BY DEF WritingInv, HandlesInOrder, NoHandleDangles, OpenHandles
<1>2. QED
  BY <1>1, WritingInvariant, PTL

\* A handle is closed in the last stage, and no stream is written there.
LEMMA CommitIsFinal ==
  ASSUME WritingInv, [Next]_vars, NEW i \in Slots, handles[i] \in {"committed", "lost"}
  PROVE  streams'[i] = streams[i]
<1>1. phase \in {"committing", "closed"}
  BY DEF WritingInv, HandlesInOrder
<1>2. CASE UNCHANGED vars
  BY <1>2 DEF vars
<1>3. CASE \E j \in Slots : CloseWriter(j) \/ Commit(j)
  BY <1>1, <1>3 DEF CloseWriter, Commit, CommitWhen
<1>4. CASE EndClose \/ CallAfterClose
  BY <1>4 DEF EndClose, CallAfterClose
<1>5. QED
  BY <1>1, <1>2, <1>3, <1>4 DEF Next, Closing, OpenFails, OpenSource, AddAsset, SetMetadata,
                               StartClose

\* close: every write to a stream comes before its handle is closed.
THEOREM WritesPrecedeCommit == Spec => NothingWrittenAfterCommit
<1>1. WritingInv /\ [Next]_vars =>
        [\A i \in Slots : handles[i] \in {"committed", "lost"} => streams'[i] = streams[i]]_vars
  BY CommitIsFinal
<1>2. QED
  BY <1>1, WritingInvariant, PTL DEF Spec, NothingWrittenAfterCommit

-----------------------------------------------------------------------------
(* The refinement of DatasetPromise *)

\* Nothing is stored before close has begun.
LEMMA NothingStoredYet ==
  WritingInv /\ phase \in {"opening", "failed", "open"} => Stored = {}
<1> SUFFICES ASSUME WritingInv, phase \in {"opening", "failed", "open"}
             PROVE  Stored = {}
  OBVIOUS
<1>1. \A i \in Slots : streams[i] = Untouched
  BY DEF WritingInv, StagesInOrder, StreamsInOrder
<1>2. Untouched.state # "whole"
  BY DEF Untouched
<1>3. QED
  BY <1>1, <1>2 DEF WritingInv, Stored

\* When every source has one writer, no slot writes over another.
LEMMA NoneOverwritten ==
  ASSUME OneWriterPerSource, NEW i \in Slots
  PROVE  ~Overwritten(i)
BY DEF OneWriterPerSource, Overwritten

\* What a step of close stores stays stored.
LEMMA StoredGrows ==
  ASSUME WritingInv, OneWriterPerSource, UNCHANGED <<slots, accepted>>,
         \A i \in Slots :
           /\ streams[i].state = "whole" => streams'[i] = streams[i]
           /\ handles[i] \in {"not_ours", "committed"} => handles'[i] = handles[i]
  PROVE  Stored \subseteq Stored' /\ Stored' \subseteq accepted
<1>1. \A k : Place(k)' = Place(k)
  BY PlacesKept
<1>2. ASSUME NEW k \in Stored
      PROVE  k \in Stored'
  <2>1. k \in accepted /\ Place(k).slot \in Slots
    BY DEF Stored, WritingInv
  <2>2. ~Overwritten(Place(k).slot)'
    <3>1. Place(k)'.slot \in Slots' /\ OneWriterPerSource'
      BY <1>1, <2>1 DEF OneWriterPerSource, Slots
    <3>2. QED
      BY <3>1 DEF OneWriterPerSource, Overwritten
  <2>3. QED
    BY <2>1, <2>2, <1>1, <1>2 DEF Stored
<1>3. QED
  BY <1>2 DEF Stored

\* When no step has failed, every accepted asset is stored.
LEMMA AllIsStored ==
  ASSUME WritingInv, OneWriterPerSource,
         phase = "committing", OpenHandles = {}, error = "none"
  PROVE  Stored = accepted
<1>1. TypeOK /\ finalized = Slots
  BY DEF WritingInv, StagesInOrder
<1>2. ASSUME NEW k \in accepted
      PROVE  k \in Stored
  <2> DEFINE i == Place(k).slot
  <2>1. i \in Slots
    BY DEF WritingInv
  <2> HIDE DEF i
  <2>2. handles[i] \in {"not_ours", "committed"}
    BY <1>1, <2>1, SlotEntries DEF WritingInv, HandlesInOrder, OpenHandles
  <2>3. writers[i].queue # <<>>
    <3>1. Place(k).key \in QueuedKeys(writers[i])
      BY <2>1 DEF WritingInv, AcceptedHaveAPlace, i
    <3>2. QED
      BY <3>1 DEF QueuedKeys
  <2>4. streams[i].state = "whole"
    BY <1>1, <2>1, <2>3 DEF WritingInv, StreamsInOrder
  <2>5. ~Overwritten(i)
    BY <2>1, NoneOverwritten
  <2>6. QED
    BY <2>2, <2>4, <2>5 DEF Stored, i
<1>3. QED
  BY <1>2 DEF Stored

\* Before close nothing is stored, so only add_asset is seen.
LEMMA EarlyStepRefines ==
  ASSUME WritingInv, WritingInv', phase \in {"opening", "failed", "open"}, phase' # "closed",
         Stored' = {}, accepted' = accepted \/ \E k \in Keys : accepted' = accepted \cup {k}
  PROVE  [Promise!Next]_(Promise!pvars)
<1>1. Stored = {}
  BY NothingStoredYet
<1>2. CASE accepted' = accepted
  BY <1>1, <1>2 DEF Promise!pvars
<1>3. CASE \E k \in Keys \ accepted : accepted' = accepted \cup {k}
  BY <1>1, <1>3 DEF Promise!Next, Promise!Accept
<1>4. QED
  BY <1>2, <1>3

LEMMA AddAssetRefines ==
  ASSUME WritingInv, WritingInv', NEW a \in Assets, AddAsset(a)
  PROVE  [Promise!Next]_(Promise!pvars)
<1>1. phase = "open" /\ phase' = "open" /\ a.key \in Keys
  BY DEF AddAsset, Keys
<1>2. accepted' = accepted \/ accepted' = accepted \cup {a.key}
  BY DEF AddAsset, CompositeAdd, AddTo
<1>3. Stored' = {}
  <2>1. (WritingInv /\ phase \in {"opening", "failed", "open"})'
    BY <1>1
  <2>2. (Stored = {})'
    BY <2>1, NothingStoredYet, PTL
  <2>3. QED
    BY <2>2
<1>4. QED
  BY <1>1, <1>2, <1>3, EarlyStepRefines

\* What is stored depends on the slots, their streams and their handles.
LEMMA StoredKept ==
  ASSUME UNCHANGED <<opening, slots, streams, handles, accepted>>
  PROVE  Stored' = Stored
<1>1. Slots' = Slots /\ \A k : Place(k)' = Place(k)
  BY PlacesKept
<1>2. \A k : Overwritten(Place(k).slot)' = Overwritten(Place(k).slot)
  BY <1>1 DEF Overwritten
<1>3. QED
  BY <1>1, <1>2 DEF Stored

\* The steps of opening and the setter of the metadata are not seen.
LEMMA UnseenStepRefines ==
  ASSUME WritingInv, WritingInv',
         OpenFails \/ OpenSource \/ StartClose \/ \E m \in Metadata : SetMetadata(m)
  PROVE  [Promise!Next]_(Promise!pvars)
<1>1. /\ phase \in {"opening", "failed", "open"} /\ phase' # "closed"
      /\ accepted' = accepted
      /\ \/ phase' \in {"opening", "failed", "open"}
         \/ UNCHANGED <<opening, slots, streams, handles>>
  BY DEF OpenFails, OpenSource, StartClose, SetMetadata
<1>2. CASE phase' \in {"opening", "failed", "open"}
  <2>1. (WritingInv /\ phase \in {"opening", "failed", "open"})'
    BY <1>2
  <2>2. (Stored = {})'
    BY <2>1, NothingStoredYet, PTL
  <2>3. QED
    BY <1>1, <2>2, EarlyStepRefines
<1>3. CASE UNCHANGED <<opening, slots, streams, handles>>
  <2>1. Stored' = Stored
    BY <1>1, <1>3, StoredKept
  <2>2. Stored' = {}
    BY <1>1, <2>1, NothingStoredYet
  <2>3. QED
    BY <1>1, <2>2, EarlyStepRefines
<1>4. QED
  BY <1>1, <1>2, <1>3

\* A file that is written, or a handle that is closed, stores the assets in it.
LEMMA CloseStepRefines ==
  ASSUME WritingInv, OneWriterPerSource, NEW i \in Slots, CloseWriter(i) \/ Commit(i)
  PROVE  [Promise!Next]_(Promise!pvars)
<1>1. TypeOK /\ phase \in {"closing", "committing"} /\ phase' \in {"closing", "committing"}
      /\ UNCHANGED <<slots, accepted>>
  BY DEF WritingInv, CloseWriter, Commit, CommitWhen
<1>2. CASE CloseWriter(i)
  <2>1. handles' = handles /\ i \notin finalized
    BY <1>2 DEF CloseWriter, NextToClose
  <2>2. streams[i].state # "whole"
    BY <2>1 DEF WritingInv, StreamsInOrder, Untouched
  <2>3. ASSUME NEW j \in Slots, j # i
        PROVE  streams'[j] = streams[j]
    BY <1>1, <1>2, <2>3, SlotEntries DEF CloseWriter
  <2>4. Stored \subseteq Stored' /\ Stored' \subseteq accepted
    BY <1>1, <2>1, <2>2, <2>3, StoredGrows
  <2>5. QED
    BY <1>1, <2>4 DEF Promise!Next, Promise!Store
<1>3. CASE Commit(i)
  <2>1. streams' = streams /\ handles[i] = "open"
    BY <1>3 DEF Commit, CommitWhen, OpenHandles
  <2>2. ASSUME NEW j \in Slots, j # i
        PROVE  handles'[j] = handles[j]
    BY <1>1, <1>3, <2>2, SlotEntries DEF Commit, CommitWhen
  <2>3. Stored \subseteq Stored' /\ Stored' \subseteq accepted
    BY <1>1, <2>1, <2>2, StoredGrows
  <2>4. QED
    BY <1>1, <2>3 DEF Promise!Next, Promise!Store
<1>4. QED
  BY <1>2, <1>3

\* The end of close settles the verdict.
LEMMA EndCloseRefines ==
  ASSUME WritingInv, OneWriterPerSource, EndClose
  PROVE  [Promise!Next]_(Promise!pvars)
<1>1. phase = "committing" /\ phase' = "closed" /\ OpenHandles = {}
      /\ UNCHANGED <<opening, slots, streams, handles, accepted, error>>
  BY DEF EndClose
<1>2. Stored' = Stored
  BY <1>1, StoredKept
<1>3. error = "none" => Stored = accepted
  BY <1>1, AllIsStored
<1>4. QED
  BY <1>1, <1>2, <1>3 DEF Promise!Next, Promise!Settle

\* A call after close changes nothing that is seen.
LEMMA LateStepRefines ==
  ASSUME UNCHANGED <<opening, phase, slots, streams, handles, accepted, error>>
  PROVE  [Promise!Next]_(Promise!pvars)
<1>1. Stored' = Stored
  BY StoredKept
<1>2. QED
  BY <1>1 DEF Promise!pvars

LEMMA NextRefines ==
  WritingInv /\ WritingInv' /\ OneWriterPerSource /\ [Next]_vars
    => [Promise!Next]_(Promise!pvars)
<1> SUFFICES ASSUME WritingInv, WritingInv', OneWriterPerSource, [Next]_vars
             PROVE  [Promise!Next]_(Promise!pvars)
  OBVIOUS
<1>1. CASE UNCHANGED vars \/ CallAfterClose
  BY <1>1, LateStepRefines DEF vars, CallAfterClose
<1>2. CASE \E a \in Assets : AddAsset(a)
  BY <1>2, AddAssetRefines
<1>3. CASE \E i \in Slots : CloseWriter(i) \/ Commit(i)
  BY <1>3, CloseStepRefines
<1>4. CASE OpenFails \/ OpenSource \/ StartClose \/ \E m \in Metadata : SetMetadata(m)
  BY <1>4, UnseenStepRefines
<1>5. CASE EndClose
  BY <1>5, EndCloseRefines
<1>6. QED
  BY <1>1, <1>2, <1>3, <1>4, <1>5 DEF Next, Closing

\* Closing a dataset with success means that every accepted asset is stored for
\* good, whatever the number of files, the format and the order of the calls, when
\* no source has two writers: io.rs refuses that for streams, and not for paths.
THEOREM PromiseIsKept == Spec /\ []OneWriterPerSource => KeepsThePromise
<1>1. Init => Promise!Init
  BY DEF Init, Promise!Init, Stored
<1>2. WritingInv /\ WritingInv' /\ OneWriterPerSource /\ [Next]_vars
        => [Promise!Next]_(Promise!pvars)
  BY NextRefines
<1>3. QED
  BY <1>1, <1>2, WritingInvariant, PTL DEF Spec, KeepsThePromise, Promise!Spec

-----------------------------------------------------------------------------
(* The queues, asset by asset *)

Item == [key : PlacedKeys, type : {a.type : a \in Assets}]

\* An asset in the queue of slot i is an accepted one under the key of its place.
Originates(i, q) ==
  \E a \in Assets : /\ a.key \in accepted /\ a.type = q.type
                    /\ Place(a.key) = [slot |-> i, key |-> q.key]

\* No key twice in a queue, nothing in it that was not accepted, and no overview
\* accepted for a level that has no slot.
QueuesHold ==
  /\ \A k \in accepted : IsComposite /\ IsOverviewKey(k) => SlotsOfLevel(k.level) # {}
  /\ \A i \in Slots : \A m, n \in DOMAIN writers[i].queue :
        writers[i].queue[m].key = writers[i].queue[n].key => m = n
  /\ \A i \in Slots : \A n \in DOMAIN writers[i].queue : Originates(i, writers[i].queue[n])

LEMMA QueueType ==
  ASSUME WritingInv, NEW i \in Slots
  PROVE  /\ writers[i] \in Writer /\ writers[i].queue \in Seq(Item)
         /\ Len(writers[i].queue) \in Nat
         /\ DOMAIN writers[i].queue = 1 .. Len(writers[i].queue)
         /\ \A n \in DOMAIN writers[i].queue : writers[i].queue[n] \in Item
<1>1. writers[i] \in Writer
  BY SlotEntries DEF WritingInv
<1>2. writers[i].queue \in Seq(Item)
  BY <1>1 DEF Writer, Item
<1>3. QED
  BY <1>1, <1>2, ElementOfSeq, LenProperties

LEMMA NoneQueued == WritingInv /\ accepted = {} => QueuesHold
<1>1. SUFFICES ASSUME WritingInv, accepted = {}
               PROVE  QueuesHold
  OBVIOUS
<1>2. ASSUME NEW i \in Slots
      PROVE  DOMAIN writers[i].queue = {}
  <2>1. QueuedKeys(writers[i]) = {}
    BY <1>1 DEF WritingInv, AcceptedHaveAPlace
  <2>2. QED
    BY <2>1 DEF QueuedKeys
<1>3. QED
  BY <1>1, <1>2 DEF QueuesHold

\* The steps that add nothing to a queue.
LEMMA QueuesStay ==
  ASSUME QueuesHold, UNCHANGED <<slots, accepted>>,
         \A i \in Slots : writers'[i].queue = writers[i].queue
  PROVE  QueuesHold'
<1>1. Slots' = Slots /\ \A k : Place(k)' = Place(k)
  BY PlacesKept
<1>2. IsComposite' = IsComposite /\ \A level : SlotsOfLevel(level)' = SlotsOfLevel(level)
  BY DEF IsComposite, SlotsOfLevel, Slots
<1>3. ASSUME NEW i \in Slots, NEW n \in DOMAIN writers[i].queue
      PROVE  Originates(i, writers[i].queue[n])'
  <2>1. PICK a \in Assets : /\ a.key \in accepted /\ a.type = writers[i].queue[n].type
                            /\ Place(a.key) = [slot |-> i, key |-> writers[i].queue[n].key]
    BY DEF QueuesHold, Originates
  <2>2. Place(a.key)' = [slot |-> i, key |-> writers'[i].queue[n].key]
    BY <1>1, <2>1
  <2>3. QED
    BY <2>1, <2>2 DEF Originates
<1>4. \A k \in accepted' : IsComposite' /\ IsOverviewKey(k) => SlotsOfLevel(k.level)' # {}
  BY <1>2 DEF QueuesHold
<1>5. \A i \in Slots' : \A m, n \in DOMAIN writers'[i].queue :
         writers'[i].queue[m].key = writers'[i].queue[n].key => m = n
  BY <1>1 DEF QueuesHold
<1>6. \A i \in Slots' : \A n \in DOMAIN writers'[i].queue : Originates(i, writers[i].queue[n])'
  BY <1>1, <1>3
<1>7. QED
  BY <1>4, <1>5, <1>6 DEF QueuesHold

\* A format writer takes an asset whose place it is, or refuses it.
LEMMA AddToQueues ==
  ASSUME NEW i \in Slots, NEW a \in Assets, NEW b \in Item, b.type = a.type,
         WritingInv, QueuesHold, AddTo(i, b, a.key), UNCHANGED slots,
         Place(a.key) = [slot |-> i, key |-> b.key],
         IsComposite /\ IsOverviewKey(a.key) => SlotsOfLevel(a.key.level) # {}
  PROVE  QueuesHold'
<1> DEFINE w == writers[i]
<1>1. CASE FormatAdd(w, b) # "accepted"
  <2>1. UNCHANGED <<writers, accepted>>
    BY <1>1 DEF AddTo
  <2>2. QED
    BY <2>1, QueuesStay
<1>2. CASE FormatAdd(w, b) = "accepted"
  <2>1. /\ writers' = [writers EXCEPT ![i].queue = Append(@, b)]
        /\ accepted' = accepted \cup {a.key}
    BY <1>2 DEF AddTo
  <2>2. /\ w \in Writer /\ w.queue \in Seq(Item) /\ Len(w.queue) \in Nat
        /\ DOMAIN w.queue = 1 .. Len(w.queue)
    BY QueueType
  <2>3. /\ writers'[i].queue = Append(w.queue, b)
        /\ \A j \in Slots : j # i => writers'[j] = writers[j]
    <3>1. i \in DOMAIN writers /\ Slots = DOMAIN writers
      BY SlotEntries DEF WritingInv
    <3>2. writers'[i] = [w EXCEPT !.queue = Append(@, b)]
      BY <2>1, <3>1
    <3>3. writers'[i].queue = Append(w.queue, b)
      BY <2>2, <3>2 DEF Writer
    <3>4. QED
      BY <2>1, <3>1, <3>3
  <2>4. /\ DOMAIN Append(w.queue, b) = 1 .. Len(w.queue) + 1
        /\ Append(w.queue, b)[Len(w.queue) + 1] = b
        /\ \A n \in 1 .. Len(w.queue) : Append(w.queue, b)[n] = w.queue[n]
    <3>1. /\ Append(w.queue, b) \in Seq(Item) /\ Len(Append(w.queue, b)) = Len(w.queue) + 1
          /\ Append(w.queue, b)[Len(w.queue) + 1] = b
          /\ \A n \in 1 .. Len(w.queue) : Append(w.queue, b)[n] = w.queue[n]
      BY <2>2, AppendProperties
    <3>2. QED
      BY <3>1, LenProperties
  <2>5. Slots' = Slots /\ \A k : Place(k)' = Place(k)
    BY PlacesKept
  <2>6. IsComposite' = IsComposite /\ \A level : SlotsOfLevel(level)' = SlotsOfLevel(level)
    BY DEF IsComposite, SlotsOfLevel, Slots
  <2>7. \A n \in 1 .. Len(w.queue) : w.queue[n].key # b.key
    <3>1. ~HasKey(w, b.key)
      BY <1>2, AcceptedIsNew, FormatIsKnown DEF WritingInv
    <3>2. QED
      BY <2>2, <3>1 DEF HasKey
  <2>8. \A m, n \in 1 .. Len(w.queue) : w.queue[m].key = w.queue[n].key => m = n
    BY <2>2 DEF QueuesHold
  <2>9. ASSUME NEW j \in Slots, NEW q, Originates(j, q)
        PROVE  \E x \in Assets : /\ x.key \in accepted' /\ x.type = q.type
                                 /\ Place(x.key)' = [slot |-> j, key |-> q.key]
    <3>1. PICK x \in Assets : /\ x.key \in accepted /\ x.type = q.type
                              /\ Place(x.key) = [slot |-> j, key |-> q.key]
      BY <2>9 DEF Originates
    <3>2. QED
      BY <2>1, <2>5, <3>1
  <2>10. \E x \in Assets : /\ x.key \in accepted' /\ x.type = b.type
                           /\ Place(x.key)' = [slot |-> i, key |-> b.key]
    BY <2>1, <2>5
  <2> DEFINE longer == Append(w.queue, b)
  <2>11. \A m, n \in DOMAIN longer : longer[m].key = longer[n].key => m = n
    <3> HIDE DEF w
    <3>1. SUFFICES ASSUME NEW m \in 1 .. Len(w.queue) + 1, NEW n \in 1 .. Len(w.queue) + 1,
                          longer[m].key = longer[n].key
                   PROVE  m = n
      BY <2>4
    <3> HIDE DEF longer
    <3>2. CASE m \in 1 .. Len(w.queue) /\ n \in 1 .. Len(w.queue)
      BY <2>4, <2>8, <3>1, <3>2 DEF longer
    <3>3. CASE m \in 1 .. Len(w.queue) /\ n = Len(w.queue) + 1
      BY <2>4, <2>7, <3>1, <3>3 DEF longer
    <3>4. CASE n \in 1 .. Len(w.queue) /\ m = Len(w.queue) + 1
      BY <2>4, <2>7, <3>1, <3>4 DEF longer
    <3>5. QED
      <4> DEFINE last == Len(w.queue)
      <4>1. last \in Nat /\ m \in 1 .. last + 1 /\ n \in 1 .. last + 1
        BY <2>2, <3>1
      <4> HIDE DEF last
      <4>2. (m \in 1 .. last \/ m = last + 1) /\ (n \in 1 .. last \/ n = last + 1)
        BY <4>1
      <4>3. QED
        BY <3>2, <3>3, <3>4, <4>2 DEF last
  <2>12. ASSUME NEW n \in DOMAIN longer
         PROVE  \E x \in Assets : /\ x.key \in accepted' /\ x.type = longer[n].type
                                  /\ Place(x.key)' = [slot |-> i, key |-> longer[n].key]
    <3>1. CASE n \in 1 .. Len(w.queue)
      <4>1. longer[n] = w.queue[n] /\ Originates(i, w.queue[n])
        BY <2>2, <2>4, <3>1 DEF QueuesHold
      <4>2. QED
        BY <2>9, <4>1
    <3>2. CASE n = Len(w.queue) + 1
      BY <2>4, <2>10, <3>2
    <3>3. QED
      BY <2>2, <2>4, <3>1, <3>2
  <2> HIDE DEF longer, w
  <2>13. writers'[i].queue = longer
    BY <2>3 DEF longer
  <2>14. \A k \in accepted' : IsComposite' /\ IsOverviewKey(k) => SlotsOfLevel(k.level)' # {}
    BY <2>1, <2>6 DEF QueuesHold
  <2>15. ASSUME NEW j \in Slots
         PROVE  /\ \A m, n \in DOMAIN writers'[j].queue :
                      writers'[j].queue[m].key = writers'[j].queue[n].key => m = n
                /\ \A n \in DOMAIN writers'[j].queue :
                      \E x \in Assets : /\ x.key \in accepted'
                                        /\ x.type = writers'[j].queue[n].type
                                        /\ Place(x.key)' = [slot |-> j, key |-> writers'[j].queue[n].key]
    <3>1. CASE j = i
      BY <2>11, <2>12, <2>13, <3>1
    <3>2. CASE j # i
      <4>1. writers'[j] = writers[j]
        BY <2>3, <3>2
      <4>2. \A m, n \in DOMAIN writers[j].queue :
               writers[j].queue[m].key = writers[j].queue[n].key => m = n
        BY DEF QueuesHold
      <4>3. \A n \in DOMAIN writers[j].queue : Originates(j, writers[j].queue[n])
        BY DEF QueuesHold
      <4>4. ASSUME NEW n \in DOMAIN writers[j].queue
            PROVE  \E x \in Assets : /\ x.key \in accepted'
                                     /\ x.type = writers[j].queue[n].type
                                     /\ Place(x.key)' = [slot |-> j, key |-> writers[j].queue[n].key]
        BY <2>9, <4>3
      <4>5. QED
        BY <4>1, <4>2, <4>4
    <3>3. QED
      BY <3>1, <3>2
  <2>16. QED
    BY <2>5, <2>14, <2>15 DEF QueuesHold, Originates
<1>3. QED
  BY <1>1, <1>2

-----------------------------------------------------------------------------
(* The plan of an opening *)

LEMMA FlattenIsSeq ==
  ASSUME NEW T, NEW seqs \in Seq(Seq(T))
  PROVE  FlattenSeq(seqs) \in Seq(T)
<1> DEFINE n == Len(seqs)
           S == Seq(T)
           step == [x \in (1 .. n) \X S |-> IF x[1] = 1 THEN seqs[1] ELSE x[2] \o seqs[x[1]]]
           Loop(s) == s = [i \in 1 .. n |-> IF i = 1 THEN seqs[i] ELSE s[i - 1] \o seqs[i]]
<1>1. n \in Nat /\ DOMAIN seqs = 1 .. n /\ \A i \in 1 .. n : seqs[i] \in S
  BY LenProperties, ElementOfSeq
<1>2. CASE n = 0
  <2>1. seqs = <<>>
    BY <1>2, EmptySeq
  <2>2. QED
    BY <1>2, <2>1 DEF FlattenSeq
<1>3. CASE n # 0
  <2>0. 1 \in 1 .. n /\ n \in 1 .. n
    BY <1>1, <1>3
  <2>1. step \in [(1 .. n) \X S -> S] /\ <<>> \in S
    <3>1. ASSUME NEW x \in (1 .. n) \X S
          PROVE  (IF x[1] = 1 THEN seqs[1] ELSE x[2] \o seqs[x[1]]) \in S
      <4>1. seqs[1] \in S /\ x[2] \in S /\ seqs[x[1]] \in S
        BY <1>1, <2>0
      <4>2. QED
        BY <4>1, ConcatProperties
    <3>2. QED
      BY <3>1
  <2>2. PICK p : IsRun(n, p, S, <<>>, step)
    <3> HIDE DEF step, S, n
    <3>1. QED
      BY <1>1, <2>1, LoopExists
  <2>3. /\ p \in [0 .. n -> S]
        /\ \A i \in 1 .. n : p[i] = step[<<i, p[i - 1]>>]
    <3> HIDE DEF step, S, n
    <3>1. QED
      BY <2>2 DEF IsRun
  <2>4. \A i \in 1 .. n : p[i] = IF i = 1 THEN seqs[i] ELSE p[i - 1] \o seqs[i]
    <3>1. ASSUME NEW i \in 1 .. n
          PROVE  p[i] = IF i = 1 THEN seqs[i] ELSE p[i - 1] \o seqs[i]
      <4>1. i - 1 \in 0 .. n
        BY <1>1
      <4>2. p[i - 1] \in S
        <5> HIDE DEF S, n
        <5>1. QED
          BY <2>3, <4>1
      <4>3. step[<<i, p[i - 1]>>] = IF i = 1 THEN seqs[1] ELSE p[i - 1] \o seqs[i]
        <5> HIDE DEF S, n
        <5>1. QED
          BY <4>2
      <4>4. QED
        BY <2>3, <4>3
    <3>2. QED
      BY <3>1
  <2>5. Loop([i \in 1 .. n |-> p[i]])
    <3> DEFINE r == [i \in 1 .. n |-> p[i]]
    <3>1. ASSUME NEW i \in 1 .. n
          PROVE  r[i] = IF i = 1 THEN seqs[i] ELSE r[i - 1] \o seqs[i]
      <4> HIDE DEF n
      <4>1. CASE i = 1
        BY <2>4, <4>1
      <4>2. CASE i # 1
        <5>1. i - 1 \in 1 .. n
          BY <1>1, <4>2
        <5>2. r[i] = p[i] /\ r[i - 1] = p[i - 1]
          BY <5>1
        <5>3. p[i] = p[i - 1] \o seqs[i]
          BY <2>4, <4>2
        <5> HIDE DEF r
        <5>4. QED
          BY <4>2, <5>2, <5>3
      <4>3. QED
        BY <4>1, <4>2
    <3>2. r = [i \in 1 .. n |-> IF i = 1 THEN seqs[i] ELSE r[i - 1] \o seqs[i]]
      <4>1. \A i \in 1 .. n : r[i] = IF i = 1 THEN seqs[i] ELSE r[i - 1] \o seqs[i]
        BY <3>1
      <4>2. r = [i \in 1 .. n |-> r[i]]
        OBVIOUS
      <4> HIDE DEF r
      <4>3. QED
        BY <4>1, <4>2, Zenon
    <3>3. QED
      BY <3>2, Zenon
  <2>6. Loop(CHOOSE s : Loop(s))
    <3>1. \E s : Loop(s)
      BY <2>5, Zenon
    <3>2. QED
      BY <3>1, Zenon
  <2> DEFINE s == CHOOSE s_1 : Loop(s_1)
  <2>7. FlattenSeq(seqs) = s[n]
    BY <1>3, Zenon DEF FlattenSeq
  <2>8. s = [i \in 1 .. n |-> IF i = 1 THEN seqs[i] ELSE s[i - 1] \o seqs[i]]
    BY <2>6, Zenon
  <2> HIDE DEF s
  <2> DEFINE good == {i \in 0 .. n : i = 0 \/ s[i] \in S}
  <2>9. 0 \in good
    BY <1>1
  <2>10. ASSUME NEW i \in 0 .. n - 1, i \in good
         PROVE  i + 1 \in good
    <3>0. i + 1 \in 1 .. n /\ i + 1 \in 0 .. n
      BY <1>1
    <3>1. s[i + 1] = IF i + 1 = 1 THEN seqs[i + 1] ELSE s[(i + 1) - 1] \o seqs[i + 1]
      <4> HIDE DEF n
      <4>1. QED
        BY <2>8, <3>0, Zenon
    <3>2. CASE i = 0
      BY <1>1, <3>0, <3>1, <3>2
    <3>3. CASE i # 0
      <4>1. s[i] \in S /\ (i + 1) - 1 = i /\ i + 1 # 1
        BY <2>10, <3>3
      <4>2. s[i + 1] = s[i] \o seqs[i + 1]
        BY <3>1, <4>1
      <4>3. s[i + 1] \in S
        BY <4>1, <4>2, <1>1, <3>0, ConcatProperties
      <4>4. QED
        BY <3>0, <4>3
    <3>4. QED
      BY <3>2, <3>3
  <2>11. \A i \in 0 .. n : i \in good
    <3> HIDE DEF good, n
    <3>1. QED
      BY <1>1, <2>9, <2>10, SetInduction
  <2>12. s[n] \in S
    BY <1>1, <1>3, <2>11
  <2>13. QED
    BY <2>7, <2>12
<1>4. QED
  BY <1>2, <1>3

\* The first slot of the plan is the base.
LEMMA PlanStarts ==
  ASSUME NEW o \in Openings
  PROVE  SlotPlan(o.roles)[1].level = 0
<1> DEFINE roles == o.roles
           Entry == [source : Int, level : Int]
           Picks(i) == {j \in DOMAIN roles[i] : roles[i][j] > 0}
           levels(i) == Picked(roles[i], Picks(i))
           entries(i) == [j \in DOMAIN levels(i) |-> [source |-> i, level |-> levels(i)[j]]]
           parts == [i \in DOMAIN roles |-> entries(i)]
<1>1. /\ roles \in Seq(Seq(Int)) /\ Len(roles) \in Nat /\ DOMAIN roles = 1 .. Len(roles)
      /\ \A i \in DOMAIN roles : roles[i] \in Seq(Int)
  BY OpeningAssumption, LenProperties, ElementOfSeq
<1>2. ASSUME NEW i \in DOMAIN roles
      PROVE  entries(i) \in Seq(Entry)
  <2>1. roles[i] \in Seq(Int) /\ i \in Int
    BY <1>1
  <2>2. /\ Cardinality(Picks(i)) \in Nat /\ levels(i) \in Seq(Int)
        /\ DOMAIN levels(i) = 1 .. Cardinality(Picks(i))
    <3>1. Picks(i) \in SUBSET (DOMAIN roles[i])
      OBVIOUS
    <3> HIDE DEF Picks, roles
    <3>2. QED
      BY <2>1, <3>1, PickedElements
  <2> HIDE DEF levels, Picks
  <2>3. \A j \in DOMAIN levels(i) : levels(i)[j] \in Int
    BY <2>2, ElementOfSeq
  <2>4. entries(i) \in [1 .. Cardinality(Picks(i)) -> Entry]
    BY <2>1, <2>2, <2>3
  <2> HIDE DEF entries, Entry
  <2>5. QED
    BY <2>2, <2>4, SeqDef
<1>3. parts \in Seq(Seq(Entry))
  <2> HIDE DEF entries, Entry, roles
  <2>1. parts \in [1 .. Len(roles) -> Seq(Entry)]
    BY <1>1, <1>2
  <2> HIDE DEF parts
  <2>2. QED
    BY <1>1, <2>1, SeqDef
<1>4. OverviewEntries(roles) \in Seq(Entry)
  <2>1. OverviewEntries(roles) = FlattenSeq(parts)
    BY Zenon DEF OverviewEntries
  <2> HIDE DEF parts, Entry
  <2>2. QED
    BY <1>3, <2>1, FlattenIsSeq
<1> DEFINE rest == OverviewEntries(roles)
           first == [source |-> BaseSource(roles), level |-> 0]
<1>5. SlotPlan(o.roles) = <<first>> \o rest
  BY DEF SlotPlan
<1> HIDE DEF rest, first, Entry, roles
<1>6. rest \in Seq(Entry)
  BY <1>4 DEF rest
<1>7. rest \in Seq(Entry \cup {first}) /\ <<first>> \in Seq(Entry \cup {first})
      /\ Len(<<first>>) = 1 /\ <<first>>[1] = first
  BY <1>6
<1>8. (<<first>> \o rest)[1] = first
  BY <1>7, ConcatProperties
<1>9. QED
  BY <1>5, <1>8 DEF first

\* What add_asset does to the queues.
LEMMA AddAssetQueues ==
  ASSUME NEW a \in Assets, WritingInv, QueuesHold, AddAsset(a)
  PROVE  QueuesHold'
<1>1. /\ TypeOK /\ 1 \in Slots /\ a.key \in Keys /\ UNCHANGED slots
  <2>1. TypeOK /\ phase = "open" /\ slots # <<>> /\ a.key \in Keys /\ UNCHANGED slots
    BY DEF WritingInv, StagesInOrder, AddAsset, Keys
  <2>2. 1 \in Slots
    BY <2>1, SlotNumbers, EmptySeq DEF TypeOK
  <2>3. QED
    BY <2>1, <2>2
<1>2. a \in Item
  BY AssetAssumption DEF PlacedKeys, Keys, Item
<1>3. CASE ~IsComposite /\ AddTo(1, a, a.key)
  BY <1>1, <1>2, <1>3, AddToQueues DEF Place
<1>4. CASE UNCHANGED <<writers, accepted>>
  BY <1>1, <1>4, QueuesStay
<1>5. CASE IsComposite /\ CompositeAdd(a)
  <2>2. CASE ~IsOverviewKey(a.key) /\ AddTo(1, a, a.key)
    BY <1>1, <1>2, <2>2, AddToQueues DEF Place
  <2>3. CASE /\ IsOverviewKey(a.key) /\ SlotsOfLevel(a.key.level) # {}
             /\ AddTo(SlotOfLevel(a.key.level), [a EXCEPT !.key = ParentKey(@)], a.key)
    <3> DEFINE b == [a EXCEPT !.key = ParentKey(@)]
               i == SlotOfLevel(a.key.level)
    <3>1. b \in Item /\ b.key = ParentKey(a.key) /\ b.type = a.type
      BY <1>1, AssetAssumption DEF PlacedKeys, Item
    <3>2. i \in Slots
      BY <1>1, <2>3, SlotOfLevelExists
    <3>3. Place(a.key) = [slot |-> i, key |-> b.key]
      BY <1>5, <2>3, <3>1 DEF Place
    <3>4. AddTo(i, b, a.key)
      BY <2>3
    <3> HIDE DEF b, i
    <3>5. QED
      BY <1>1, <2>3, <3>1, <3>2, <3>3, <3>4, AddToQueues
  <2>4. QED
    BY <1>4, <1>5, <2>2, <2>3 DEF CompositeAdd
<1>6. QED
  BY <1>3, <1>4, <1>5 DEF AddAsset

\* The other calls leave the queues as they are.
LEMMA CloseQueues ==
  ASSUME NEW i \in Slots, WritingInv, QueuesHold, CloseWriter(i)
  PROVE  QueuesHold'
<1>1. TypeOK /\ UNCHANGED <<slots, accepted>>
  BY DEF WritingInv, CloseWriter
<1>2. writers[i] \in Writer /\ format \in SixFormats /\ i \in DOMAIN writers
  BY <1>1, SlotEntries, FormatIsKnown
<1>3. PICK c \in FormatClose(writers[i]) : writers' = [writers EXCEPT ![i] = c.writer]
  BY DEF CloseWriter
<1>4. Keeps(writers[i], c)
  BY <1>2, FormatCloseKeeps
<1>5. \A j \in Slots : writers'[j].queue = writers[j].queue
  BY <1>2, <1>3, <1>4 DEF Keeps
<1>6. QED
  BY <1>1, <1>5, QueuesStay

LEMMA MetadataQueues ==
  ASSUME NEW m \in Metadata, WritingInv, QueuesHold, SetMetadata(m)
  PROVE  QueuesHold'
<1>1. TypeOK /\ UNCHANGED <<slots, accepted>>
  BY DEF WritingInv, SetMetadata
<1>2. \A i \in Slots : writers'[i].queue = writers[i].queue
  <2>1. \A i \in Slots : writers[i] \in Writer
    BY <1>1, SlotEntries
  <2>2. QED
    BY <2>1 DEF SetMetadata, Writer
<1>3. QED
  BY <1>1, <1>2, QueuesStay

\* Before the dataset is open, nothing is accepted.
LEMMA OpeningQueues ==
  ASSUME WritingInv, WritingInv', OpenSource
  PROVE  QueuesHold'
<1>1. accepted = {} /\ accepted' = {}
  BY DEF WritingInv, StagesInOrder, OpenSource
<1>2. (WritingInv /\ accepted = {} => QueuesHold)'
  BY NoneQueued, PTL
<1>3. QED
  BY <1>1, <1>2

LEMMA QueuesNext == WritingInv /\ WritingInv' /\ QueuesHold /\ [Next]_vars => QueuesHold'
<1> SUFFICES ASSUME WritingInv, WritingInv', QueuesHold, [Next]_vars
             PROVE  QueuesHold'
  OBVIOUS
<1>1. CASE UNCHANGED <<slots, accepted, writers>>
  BY <1>1, QueuesStay
<1>2. CASE OpenSource
  BY <1>2, OpeningQueues
<1>3. CASE \E a \in Assets : AddAsset(a)
  BY <1>3, AddAssetQueues
<1>4. CASE \E m \in Metadata : SetMetadata(m)
  BY <1>4, MetadataQueues
<1>5. CASE \E i \in Slots : CloseWriter(i)
  BY <1>5, CloseQueues
<1>6. OpenFails \/ StartClose \/ EndClose \/ CallAfterClose \/ (\E i \in Slots : Commit(i)) =>
        UNCHANGED <<slots, accepted, writers>>
  BY DEF OpenFails, StartClose, EndClose, CallAfterClose, Commit, CommitWhen
<1>7. UNCHANGED vars => UNCHANGED <<slots, accepted, writers>>
  BY DEF vars
<1>8. QED
  BY <1>1, <1>2, <1>3, <1>4, <1>5, <1>6, <1>7 DEF Next, Closing

LEMMA QueuesInvariant == Spec => [](WritingInv /\ QueuesHold)
<1>1. Init => accepted = {}
  BY DEF Init
<1>2. Init => WritingInv /\ QueuesHold
  BY <1>1, InitInv, NoneQueued
<1>3. WritingInv /\ WritingInv' /\ QueuesHold /\ [Next]_vars => QueuesHold'
  BY QueuesNext
<1>4. QED
  BY <1>2, <1>3, WritingInvariant, PTL DEF Spec

-----------------------------------------------------------------------------
(* A complete pyramid is read back *)

\* An asset as it is kept, under the key of its place.
Kept(a) == [key |-> Place(a.key).key, type |-> a.type]

LEMMA KeptAssets ==
  ASSUME NEW a \in Assets
  PROVE  /\ a = [key |-> a.key, type |-> a.type]
         /\ [a EXCEPT !.key = Place(@).key] = Kept(a)
         /\ [a EXCEPT !.key = ParentKey(@)] = [key |-> ParentKey(a.key), type |-> a.type]
<1>1. a = [key |-> a.key, type |-> a.type]
  BY AssetAssumption
<1>2. QED
  BY <1>1 DEF Kept

\* Where the asset of an accepted key is.
LEMMA AcceptedAreQueued ==
  ASSUME WritingInv, NEW a \in AcceptedAssets
  PROVE  /\ a \in Assets /\ a.key \in accepted /\ Place(a.key).slot \in Slots
         /\ \E n \in DOMAIN writers[Place(a.key).slot].queue :
               writers[Place(a.key).slot].queue[n] = Kept(a)
<1>1. /\ a \in Assets /\ a.key \in accepted
      /\ [a EXCEPT !.key = Place(@).key] \in Range(writers[Place(a.key).slot].queue)
  BY DEF AcceptedAssets
<1>2. Kept(a) \in Range(writers[Place(a.key).slot].queue)
  BY <1>1, KeptAssets
<1>3. QED
  BY <1>1, <1>2 DEF Range, WritingInv

\* What is queued is an accepted asset.
LEMMA QueuedAreAccepted ==
  ASSUME WritingInv, QueuesHold, NEW i \in Slots, NEW n \in DOMAIN writers[i].queue
  PROVE  \E a \in AcceptedAssets :
            Place(a.key).slot = i /\ writers[i].queue[n] = Kept(a)
<1> DEFINE q == writers[i].queue[n]
<1>1. q \in Item
  BY QueueType
<1>2. q = [key |-> q.key, type |-> q.type]
  BY <1>1 DEF Item
<1>3. PICK a \in Assets : /\ a.key \in accepted /\ a.type = q.type
                          /\ Place(a.key) = [slot |-> i, key |-> q.key]
  BY DEF QueuesHold, Originates
<1>4. Place(a.key).slot = i /\ q = Kept(a)
  BY <1>2, <1>3 DEF Kept
<1>5. q \in Range(writers[i].queue)
  BY DEF Range
<1>6. a \in AcceptedAssets
  BY <1>3, <1>4, <1>5, KeptAssets DEF AcceptedAssets
<1>7. QED
  BY <1>4, <1>6

LEMMA EveryKeyHasItsAsset ==
  ASSUME WritingInv, QueuesHold, NEW k \in accepted
  PROVE  \E a \in AcceptedAssets : a.key = k
<1> DEFINE i == Place(k).slot
<1>1. i \in Slots
  BY DEF WritingInv
<1>2. Place(k).key \in QueuedKeys(writers[i])
  BY <1>1 DEF WritingInv, AcceptedHaveAPlace
<1>3. PICK n \in DOMAIN writers[i].queue : writers[i].queue[n].key = Place(k).key
  BY <1>2 DEF QueuedKeys
<1>4. PICK a \in AcceptedAssets : Place(a.key).slot = i /\ writers[i].queue[n] = Kept(a)
  BY <1>1, QueuedAreAccepted
<1>5. Place(a.key).key = Place(k).key
  BY <1>3, <1>4 DEF Kept
<1>6. Place(a.key) = Place(k)
  <2>1. \A x : Place(x) = [slot |-> Place(x).slot, key |-> Place(x).key]
    BY DEF Place
  <2>2. QED
    BY <2>1, <1>4, <1>5
<1>7. a.key \in accepted
  BY AcceptedAreQueued
<1>8. QED
  BY <1>6, <1>7 DEF WritingInv, AcceptedHaveAPlace

\* The positions of a kind in a queue.
PlacesOf(i, kind) == {j \in DOMAIN writers[i].queue : Kind(writers[i].queue[j]) = kind}

\* The reader of one file hands out the assets of a kind in the order of the queue.
LEMMA FileAssetsListed ==
  ASSUME WritingInv, NEW i \in Slots, streams[i].state = "whole", NEW kind
  PROVE  LET D == PlacesOf(i, kind)
         IN  /\ Cardinality(D) \in Nat
             /\ DOMAIN FileAssets(i, kind) = 1 .. Cardinality(D)
             /\ Lists(Ascending(D), Cardinality(D), D)
             /\ \A k \in 1 .. Cardinality(D) :
                   /\ Ascending(D)[k] \in D
                   /\ FileAssets(i, kind)[k] = writers[i].queue[Ascending(D)[k]]
<1> DEFINE queue == writers[i].queue
           D == PlacesOf(i, kind)
<1>1. queue \in Seq(Item) /\ D \in SUBSET (DOMAIN queue)
  BY QueueType DEF PlacesOf
<1>2. FileAssets(i, kind) = Picked(queue, D)
  BY DEF FileAssets, PlacesOf
<1> HIDE DEF queue, D
<1>3. /\ Cardinality(D) \in Nat
      /\ DOMAIN Picked(queue, D) = 1 .. Cardinality(D)
      /\ Lists(Ascending(D), Cardinality(D), D)
      /\ \A k \in 1 .. Cardinality(D) : /\ Ascending(D)[k] \in D
                                        /\ Picked(queue, D)[k] = queue[Ascending(D)[k]]
  BY <1>1, PickedElements
<1>4. QED
  BY <1>2, <1>3 DEF queue, D

\* An asset of a kind is somewhere in the list of that kind.
LEMMA FileAssetsComplete ==
  ASSUME WritingInv, NEW i \in Slots, streams[i].state = "whole",
         NEW n \in DOMAIN writers[i].queue, NEW kind, kind = Kind(writers[i].queue[n])
  PROVE  \E k \in DOMAIN FileAssets(i, kind) : FileAssets(i, kind)[k] = writers[i].queue[n]
<1> DEFINE D == PlacesOf(i, kind)
<1>1. n \in D
  BY DEF PlacesOf
<1>2. /\ DOMAIN FileAssets(i, kind) = 1 .. Cardinality(D)
      /\ Lists(Ascending(D), Cardinality(D), D)
      /\ \A k \in 1 .. Cardinality(D) :
            FileAssets(i, kind)[k] = writers[i].queue[Ascending(D)[k]]
  BY FileAssetsListed
<1> HIDE DEF D
<1>3. PICK k \in 1 .. Cardinality(D) : Ascending(D)[k] = n
  BY <1>1, <1>2 DEF Lists
<1>4. QED
  BY <1>2, <1>3

\* Nothing is listed twice.
LEMMA FileAssetsDiffer ==
  ASSUME WritingInv, QueuesHold, NEW i \in Slots, streams[i].state = "whole", NEW kind,
         NEW k \in DOMAIN FileAssets(i, kind), NEW l \in DOMAIN FileAssets(i, kind),
         FileAssets(i, kind)[k] = FileAssets(i, kind)[l]
  PROVE  k = l
<1> DEFINE D == PlacesOf(i, kind)
           n == Cardinality(D)
           a == Ascending(D)
<1>1. /\ n \in Nat /\ DOMAIN FileAssets(i, kind) = 1 .. n /\ Lists(a, n, D)
      /\ \A m \in 1 .. n : a[m] \in D /\ FileAssets(i, kind)[m] = writers[i].queue[a[m]]
  BY FileAssetsListed
<1>2. \A m \in D : m \in DOMAIN writers[i].queue /\ m \in Int
  BY QueueType DEF PlacesOf
<1> HIDE DEF D, n, a
<1>3. a[k] \in D /\ a[l] \in D /\ writers[i].queue[a[k]] = writers[i].queue[a[l]]
      /\ k \in 1 .. n /\ l \in 1 .. n
  BY <1>1
<1>4. a[k] = a[l]
  BY <1>2, <1>3 DEF QueuesHold
<1>5. \A x, y \in 1 .. n : x < y => a[x] < a[y]
  BY <1>1 DEF Lists
<1>6. a[k] \in Int
  BY <1>2, <1>3
<1>7. ~(k < l) /\ ~(l < k)
  BY <1>3, <1>4, <1>5, <1>6
<1>8. QED
  BY <1>1, <1>3, <1>7

\* And only assets of the kind are.
LEMMA FileAssetsOfKind ==
  ASSUME WritingInv, NEW i \in Slots, streams[i].state = "whole", NEW kind,
         NEW k \in DOMAIN FileAssets(i, kind)
  PROVE  /\ Kind(FileAssets(i, kind)[k]) = kind
         /\ \E n \in DOMAIN writers[i].queue : FileAssets(i, kind)[k] = writers[i].queue[n]
<1> DEFINE D == PlacesOf(i, kind)
<1>1. k \in 1 .. Cardinality(D) /\ Ascending(D)[k] \in D
      /\ FileAssets(i, kind)[k] = writers[i].queue[Ascending(D)[k]]
  BY FileAssetsListed
<1>2. QED
  BY <1>1 DEF PlacesOf

\* In a complete pyramid every file that holds something is whole, and the base is
\* the slot of level 0.
LEMMA PyramidFiles ==
  ASSUME WritingInv, PyramidComplete
  PROVE  /\ 1 \in Slots /\ slots[1].level = 0
         /\ \A i \in Slots : \A n \in DOMAIN writers[i].queue : streams[i].state = "whole"
<1>1. TypeOK /\ finalized = Slots /\ error = "none" /\ slots # <<>>
  BY DEF WritingInv, StagesInOrder, PyramidComplete
<1>2. 1 \in Slots
  BY <1>1, SlotNumbers, EmptySeq DEF TypeOK
<1>3. slots[1].level = 0
  BY <1>1, <1>2, PlanStarts DEF TypeOK
<1>4. ASSUME NEW i \in Slots, NEW n \in DOMAIN writers[i].queue
      PROVE  streams[i].state = "whole"
  <2>1. writers[i].queue # <<>>
    OBVIOUS
  <2>2. QED
    BY <1>1, <2>1 DEF WritingInv, StreamsInOrder
<1>5. QED
  BY <1>2, <1>3, <1>4

\* Overviews are in the file of their level, all else is in the base.
LEMMA PyramidPlaces ==
  ASSUME WritingInv, QueuesHold, PyramidComplete, NEW k \in accepted
  PROVE  /\ IsOverviewKey(k) => /\ Place(k).slot \in Entries /\ Place(k).key = ParentKey(k)
                                /\ slots[Place(k).slot].level = k.level
         /\ ~IsOverviewKey(k) => Place(k) = [slot |-> 1, key |-> k]
<1>1. IsComposite
  BY DEF PyramidComplete
<1>2. ASSUME IsOverviewKey(k)
      PROVE  /\ Place(k).slot \in Entries /\ Place(k).key = ParentKey(k)
             /\ slots[Place(k).slot].level = k.level
  <2>1. SlotsOfLevel(k.level) # {}
    BY <1>1, <1>2 DEF QueuesHold
  <2>2. PICK i \in Slots : slots[i].level = k.level
    BY <2>1 DEF SlotsOfLevel
  <2>3. SlotsOfLevel(k.level) = {i}
    BY <2>2 DEF SlotsOfLevel, PyramidComplete
  <2>4. i \in Int
    BY <2>2, SlotNumbers DEF WritingInv
  <2>5. SlotOfLevel(k.level) = i
    BY <2>3, <2>4 DEF SlotOfLevel
  <2>6. i # 1
    BY <1>2, <2>2, PyramidFiles DEF IsOverviewKey
  <2>7. Place(k) = [slot |-> i, key |-> ParentKey(k)]
    BY <1>1, <1>2, <2>5 DEF Place
  <2>8. QED
    BY <2>2, <2>6, <2>7 DEF Entries
<1>3. QED
  BY <1>2 DEF Place

\* Every other file holds the one overview of its level.
LEMMA PyramidEntries ==
  ASSUME WritingInv, QueuesHold, PyramidComplete, NEW i \in Entries
  PROVE  /\ streams[i].state = "whole" /\ 1 \in DOMAIN FileAssets(i, ImageKind)
         /\ \A a \in AcceptedAssets :
               Place(a.key).slot = i => FileAssets(i, ImageKind)[1] = Kept(a)
         /\ \E a \in AcceptedAssets :
               /\ IsOverviewKey(a.key) /\ Place(a.key).slot = i
               /\ a.key.level = slots[i].level
<1> DEFINE queue == writers[i].queue
<1>1. i \in Slots /\ i # 1
  BY DEF Entries
<1>2. PICK k \in accepted : IsOverviewKey(k) /\ k.level = slots[i].level
  BY DEF PyramidComplete
<1>3. PICK a \in AcceptedAssets : a.key = k
  BY EveryKeyHasItsAsset
<1>4. Place(k).slot = i
  <2>1. Place(k).slot \in Slots /\ slots[Place(k).slot].level = slots[i].level
    BY <1>2, PyramidPlaces DEF Entries
  <2>2. QED
    BY <1>1, <2>1 DEF PyramidComplete
<1>5. PICK n \in DOMAIN queue : queue[n] = Kept(a)
  BY <1>3, <1>4, AcceptedAreQueued
<1>6. streams[i].state = "whole"
  BY <1>1, <1>5, PyramidFiles
<1>7. ASSUME NEW m \in DOMAIN queue
      PROVE  m = n
  <2>1. PICK b \in AcceptedAssets : Place(b.key).slot = i /\ queue[m] = Kept(b)
    BY <1>1, QueuedAreAccepted
  <2>2. b.key \in accepted
    BY AcceptedAreQueued
  <2>3. IsOverviewKey(b.key)
    BY <1>1, <2>1, <2>2, PyramidPlaces
  <2>4. b.key.name = k.name
    BY <1>2, <2>2, <2>3 DEF PyramidComplete
  <2>5. Place(b.key).key = ParentKey(b.key) /\ Place(a.key).key = ParentKey(k)
    BY <1>2, <1>3, <2>2, <2>3, PyramidPlaces
  <2>6. queue[m].key = queue[n].key
    <3>1. queue[m].key = Place(b.key).key /\ queue[n].key = Place(a.key).key
      BY <1>5, <2>1 DEF Kept
    <3>2. ParentKey(b.key) = ParentKey(k)
      BY <2>4 DEF ParentKey
    <3>3. QED
      BY <3>1, <3>2, <2>5
  <2>7. QED
    BY <1>1, <2>6 DEF QueuesHold
<1>8. Kind(queue[n]) = ImageKind
  <2>1. a.type \in Images
    BY <1>2, <1>3 DEF PyramidComplete
  <2>2. queue[n].type = a.type
    BY <1>5 DEF Kept
  <2>3. QED
    BY <2>1, <2>2 DEF Kind
<1>9. PICK j \in DOMAIN FileAssets(i, ImageKind) : FileAssets(i, ImageKind)[j] = queue[n]
  BY <1>1, <1>6, <1>8, FileAssetsComplete
<1>10. 1 \in DOMAIN FileAssets(i, ImageKind)
  <2>1. /\ Cardinality(PlacesOf(i, ImageKind)) \in Nat
        /\ DOMAIN FileAssets(i, ImageKind) = 1 .. Cardinality(PlacesOf(i, ImageKind))
    BY <1>1, <1>6, FileAssetsListed
  <2>2. QED
    BY <2>1, <1>9
<1>11. FileAssets(i, ImageKind)[1] = queue[n]
  <2>1. \E m \in DOMAIN queue : FileAssets(i, ImageKind)[1] = queue[m]
    BY <1>1, <1>6, <1>10, FileAssetsOfKind
  <2>2. QED
    BY <1>7, <2>1
<1>12. ASSUME NEW b \in AcceptedAssets, Place(b.key).slot = i
       PROVE  FileAssets(i, ImageKind)[1] = Kept(b)
  <2>1. PICK m \in DOMAIN queue : queue[m] = Kept(b)
    BY <1>12, AcceptedAreQueued
  <2>2. QED
    BY <1>7, <1>11, <2>1
<1>13. QED
  BY <1>2, <1>3, <1>4, <1>6, <1>10, <1>12

\* The base holds everything that is no overview, under its own key.
LEMMA PyramidBase ==
  ASSUME WritingInv, QueuesHold, PyramidComplete, NEW x
  PROVE  (\E n \in DOMAIN writers[1].queue : writers[1].queue[n] = x)
           <=> x \in AcceptedAssets /\ ~IsOverviewKey(x.key)
<1>1. 1 \in Slots
  BY PyramidFiles
<1>2. ASSUME NEW n \in DOMAIN writers[1].queue, writers[1].queue[n] = x
      PROVE  x \in AcceptedAssets /\ ~IsOverviewKey(x.key)
  <2>1. PICK a \in AcceptedAssets : Place(a.key).slot = 1 /\ x = Kept(a)
    BY <1>1, <1>2, QueuedAreAccepted
  <2>2. a \in Assets /\ a.key \in accepted
    BY AcceptedAreQueued
  <2>3. ~IsOverviewKey(a.key)
    BY <2>1, <2>2, PyramidPlaces DEF Entries
  <2>4. Place(a.key).key = a.key
    BY <2>2, <2>3, PyramidPlaces
  <2>5. x = a
    BY <2>1, <2>2, <2>4, KeptAssets DEF Kept
  <2>6. QED
    BY <2>3, <2>5
<1>3. ASSUME x \in AcceptedAssets, ~IsOverviewKey(x.key)
      PROVE  \E n \in DOMAIN writers[1].queue : writers[1].queue[n] = x
  <2>1. x \in Assets /\ x.key \in accepted
    BY <1>3, AcceptedAreQueued
  <2>2. Place(x.key) = [slot |-> 1, key |-> x.key]
    BY <1>3, <2>1, PyramidPlaces
  <2>3. Kept(x) = x
    <3>1. x = [key |-> x.key, type |-> x.type]
      BY <2>1, AssetAssumption
    <3>2. Place(x.key).key = x.key
      BY <2>2
    <3>3. QED
      BY <3>1, <3>2, Zenon DEF Kept
  <2>4. QED
    BY <1>3, <2>2, <2>3, AcceptedAreQueued
<1>4. QED
  BY <1>2, <1>3

\* Overview keys have a level, keys of the base have none.
LEMMA OverviewKeysApart ==
  ASSUME WritingInv, QueuesHold, PyramidComplete
  PROVE  /\ \A i, j \in Entries : OverviewKey(i) = OverviewKey(j) => i = j
         /\ \A kind, n : AssetKey(kind, n, 0) \notin OverviewKeys
<1>1. \A i \in Entries : slots[i].level # 0
  BY PyramidEntries DEF IsOverviewKey
<1>2. \A i, j \in Entries : OverviewKey(i) = OverviewKey(j) => i = j
  BY DEF OverviewKey, AssetKey, PyramidComplete, Entries
<1>3. \A kind, n : AssetKey(kind, n, 0) \notin OverviewKeys
  BY <1>1 DEF OverviewKey, OverviewKeys, AssetKey
<1>4. QED
  BY <1>2, <1>3

\* get_asset answers an overview key from the file of its level, the others from
\* the base.
LEMMA OverviewIsGot ==
  ASSUME WritingInv, QueuesHold, PyramidComplete, NEW a \in AcceptedAssets,
         IsOverviewKey(a.key)
  PROVE  /\ AsOverview(a.key) \in OverviewKeys
         /\ GetAsset(AsOverview(a.key)) = [a EXCEPT !.key = ParentKey(@)]
<1> DEFINE key == AsOverview(a.key)
           i == Place(a.key).slot
           entries == {j \in Entries : OverviewKey(j) = key}
           last == CHOOSE j \in entries : \A k \in entries : k <= j
<1>1. a \in Assets /\ a.key \in accepted
  BY AcceptedAreQueued
<1>2. i \in Entries /\ Place(a.key).key = ParentKey(a.key) /\ slots[i].level = a.key.level
  BY <1>1, PyramidPlaces
<1>3. OverviewKey(i) = key
  BY <1>2 DEF OverviewKey, AsOverview
<1>4. key \in OverviewKeys
  BY <1>2, <1>3 DEF OverviewKeys
<1>5. entries = {i}
  BY <1>2, <1>3, OverviewKeysApart
<1>6. i \in Int
  BY <1>2, SlotNumbers DEF WritingInv, Entries
<1>7. last = i
  BY <1>5, <1>6
<1>8. GetAsset(key) = FileAssets(last, ImageKind)[1]
  <2> HIDE DEF key
  <2>1. QED
    BY <1>4 DEF GetAsset
<1>9. FileAssets(i, ImageKind)[1] = Kept(a)
  BY <1>2, PyramidEntries
<1>10. Kept(a) = [a EXCEPT !.key = ParentKey(@)]
  BY <1>1, <1>2, KeptAssets DEF Kept
<1> HIDE DEF last, i, key
<1>11. QED
  BY <1>4, <1>7, <1>8, <1>9, <1>10 DEF key

LEMMA BaseIsGot ==
  ASSUME WritingInv, QueuesHold, PyramidComplete, NEW kind, streams[1].state = "whole",
         NEW n \in DOMAIN FileAssets(1, kind)
  PROVE  GetAsset(AssetKey(kind, n - 1, 0)) = FileAssets(1, kind)[n]
<1> DEFINE key == AssetKey(kind, n - 1, 0)
<1>1. key \notin OverviewKeys
  BY OverviewKeysApart
<1>2. key.kind = kind /\ key.number = n - 1
  BY DEF AssetKey
<1>3. n \in Int
  <2>1. /\ Cardinality(PlacesOf(1, kind)) \in Nat
        /\ DOMAIN FileAssets(1, kind) = 1 .. Cardinality(PlacesOf(1, kind))
    BY PyramidFiles, FileAssetsListed
  <2>2. QED
    BY <2>1
<1>4. GetAsset(key) = FileAssets(1, key.kind)[key.number + 1]
  <2> HIDE DEF key
  <2>1. QED
    BY <1>1 DEF GetAsset
<1>5. (n - 1) + 1 = n
  BY <1>3
<1> HIDE DEF key
<1>6. QED
  BY <1>2, <1>4, <1>5 DEF key

LEMMA PyramidIsRead == WritingInv /\ QueuesHold => PyramidReadsBack
<1> SUFFICES ASSUME WritingInv, QueuesHold, PyramidComplete
             PROVE  PyramidReadsBack
  BY DEF PyramidReadsBack
<1> DEFINE overviews == {a \in AcceptedAssets : IsOverviewKey(a.key)}
           base == Listed \ OverviewKeys
           kinds == {Kind(a) : a \in Assets}
           queue == writers[1].queue
<1>1. 1 \in Slots /\ slots[1].level = 0
  BY PyramidFiles
<1>2. PICK j \in DOMAIN queue : queue[j].type \in Images
  BY DEF PyramidComplete
<1>3. streams[1].state = "whole"
  BY <1>1, <1>2, PyramidFiles
<1>4. Kind(queue[j]) = ImageKind
  BY <1>2 DEF Kind
<1>5. \A n \in DOMAIN queue : Kind(queue[n]) \in kinds
  <2>1. ASSUME NEW n \in DOMAIN queue
        PROVE  queue[n] \in Assets
    BY PyramidBase, AcceptedAreQueued
  <2>2. QED
    BY <2>1
<1>6. ImageKind \in kinds
  BY <1>4, <1>5
<1>7. ASSUME NEW key
      PROVE  key \in base <=> \E kind \in kinds : \E n \in DOMAIN FileAssets(1, kind) :
                                key = AssetKey(kind, n - 1, 0)
  <2>1. key \in Listed \ OverviewKeys
          <=> \E kind \in kinds : key \in FileKeys(1, kind) /\ key \notin OverviewKeys
    <3> HIDE DEF kinds
    <3>1. Listed = UNION {ListedKeys(kind) : kind \in kinds}
      BY DEF Listed, kinds
    <3>2. QED
      BY <3>1 DEF ListedKeys
  <2>2. \A kind, n : AssetKey(kind, n - 1, 0) \notin OverviewKeys
    BY OverviewKeysApart
  <2> HIDE DEF kinds
  <2>3. QED
    BY <2>1, <2>2 DEF FileKeys
<1>8. PyramidOpens
  <2>1. \E k \in DOMAIN FileAssets(1, ImageKind) : FileAssets(1, ImageKind)[k] = queue[j]
    BY <1>1, <1>3, <1>4, FileAssetsComplete
  <2>2. FileOpens(1)
    BY <1>3, <2>1 DEF FileOpens
  <2>3. \A i \in Entries : FileOpens(i) /\ FileAssets(i, ImageKind) # <<>>
    BY PyramidEntries DEF FileOpens
  <2>4. QED
    BY <2>2, <2>3 DEF PyramidOpens
<1>9. {a.key : a \in AcceptedAssets} = accepted
  BY EveryKeyHasItsAsset, AcceptedAreQueued
<1>10. Listed \cap OverviewKeys = {AsOverview(a.key) : a \in overviews}
  <2>1. OverviewKeys \subseteq Listed
    <3> HIDE DEF kinds
    <3>1. Listed = UNION {ListedKeys(kind) : kind \in kinds}
      BY DEF Listed, kinds
    <3>2. QED
      BY <3>1, <1>6 DEF ListedKeys
  <2>2. ASSUME NEW i \in Entries
        PROVE  \E a \in overviews : OverviewKey(i) = AsOverview(a.key)
    <3>1. PICK a \in AcceptedAssets : IsOverviewKey(a.key) /\ a.key.level = slots[i].level
      BY PyramidEntries
    <3>2. QED
      BY <3>1 DEF OverviewKey, AsOverview
  <2>3. \A a \in overviews : AsOverview(a.key) \in OverviewKeys
    BY OverviewIsGot
  <2> HIDE DEF overviews
  <2>4. OverviewKeys = {AsOverview(a.key) : a \in overviews}
    BY <2>2, <2>3 DEF OverviewKeys
  <2>5. QED
    BY <2>1, <2>4
<1>11. \A a \in overviews : GetAsset(AsOverview(a.key)) = [a EXCEPT !.key = ParentKey(@)]
  BY OverviewIsGot
<1>12. ASSUME NEW key \in base
       PROVE  \E kind \in kinds : \E n \in DOMAIN FileAssets(1, kind) :
                 key = AssetKey(kind, n - 1, 0) /\ GetAsset(key) = FileAssets(1, kind)[n]
  <2> HIDE DEF kinds, base
  <2>1. PICK kind \in kinds : \E n \in DOMAIN FileAssets(1, kind) : key = AssetKey(kind, n - 1, 0)
    BY <1>7
  <2>2. PICK n \in DOMAIN FileAssets(1, kind) : key = AssetKey(kind, n - 1, 0)
    BY <2>1
  <2>3. GetAsset(key) = FileAssets(1, kind)[n]
    BY <1>3, <2>2, BaseIsGot
  <2>4. QED
    BY <2>2, <2>3
<1>13. {GetAsset(key) : key \in base} = AcceptedAssets \ overviews
  <2>1. \A x : x \in AcceptedAssets \ overviews <=> \E n \in DOMAIN queue : queue[n] = x
    BY PyramidBase
  <2>2. ASSUME NEW key \in base
        PROVE  \E n \in DOMAIN queue : queue[n] = GetAsset(key)
    <3> HIDE DEF kinds, base
    <3>1. PICK kind \in kinds : \E n \in DOMAIN FileAssets(1, kind) :
                 GetAsset(key) = FileAssets(1, kind)[n]
      BY <1>12
    <3>2. PICK n \in DOMAIN FileAssets(1, kind) : GetAsset(key) = FileAssets(1, kind)[n]
      BY <3>1
    <3>3. \E m \in DOMAIN queue : FileAssets(1, kind)[n] = queue[m]
      BY <1>1, <1>3, FileAssetsOfKind
    <3>4. QED
      BY <3>2, <3>3
  <2>3. ASSUME NEW n \in DOMAIN queue
        PROVE  \E key \in base : GetAsset(key) = queue[n]
    <3> DEFINE kind == Kind(queue[n])
    <3>1. PICK k \in DOMAIN FileAssets(1, kind) : FileAssets(1, kind)[k] = queue[n]
      BY <1>1, <1>3, FileAssetsComplete
    <3>2. kind \in kinds
      BY <1>5
    <3> HIDE DEF kind, kinds, base
    <3>3. AssetKey(kind, k - 1, 0) \in base
      BY <1>7, <3>2
    <3>4. GetAsset(AssetKey(kind, k - 1, 0)) = queue[n]
      BY <1>3, <3>1, BaseIsGot
    <3>5. QED
      BY <3>3, <3>4
  <2> HIDE DEF base, overviews, queue
  <2>4. QED
    BY <2>1, <2>2, <2>3
<1>14. ASSUME NEW k \in base, NEW l \in base, GetAsset(k) = GetAsset(l)
       PROVE  k = l
  <2> HIDE DEF base, kinds
  <2>1. PICK kind \in kinds : \E n \in DOMAIN FileAssets(1, kind) :
           k = AssetKey(kind, n - 1, 0) /\ GetAsset(k) = FileAssets(1, kind)[n]
    BY <1>12
  <2>2. PICK n \in DOMAIN FileAssets(1, kind) :
           k = AssetKey(kind, n - 1, 0) /\ GetAsset(k) = FileAssets(1, kind)[n]
    BY <2>1
  <2>3. PICK other \in kinds : \E m \in DOMAIN FileAssets(1, other) :
           l = AssetKey(other, m - 1, 0) /\ GetAsset(l) = FileAssets(1, other)[m]
    BY <1>12
  <2>4. PICK m \in DOMAIN FileAssets(1, other) :
           l = AssetKey(other, m - 1, 0) /\ GetAsset(l) = FileAssets(1, other)[m]
    BY <2>3
  <2>5. Kind(FileAssets(1, kind)[n]) = kind /\ Kind(FileAssets(1, other)[m]) = other
    BY <1>1, <1>3, FileAssetsOfKind
  <2>6. kind = other
    BY <1>14, <2>2, <2>4, <2>5
  <2>7. n = m
    BY <1>1, <1>3, <1>14, <2>2, <2>4, <2>6, FileAssetsDiffer
  <2>8. QED
    BY <2>2, <2>4, <2>6, <2>7
<1> HIDE DEF base, overviews
<1>15. QED
  BY <1>8, <1>9, <1>10, <1>11, <1>13, <1>14 DEF PyramidReadsBack, base, overviews

\* What the composite writer has stored of a complete pyramid (PyramidComplete: one
\* writer for each file, one page in a TIFF file), the composite reader
\* finds: each overview under its level, everything else in the base, nothing twice.
THEOREM PyramidsAreReadBack == Spec => []PyramidReadsBack
<1>1. WritingInv /\ QueuesHold => PyramidReadsBack
  BY PyramidIsRead
<1>2. QED
  BY <1>1, QueuesInvariant, PTL
=============================================================================
