--------------------------- MODULE DatasetWriting ----------------------------
(***************************************************************************)
(* Writing a dataset: the open dispatch of src/bindings/io.rs, the Python  *)
(* writer of src/bindings/writer.rs that owns the remote handles, the      *)
(* CompositeDatasetWriter that spreads an R-set pyramid over several       *)
(* files, and the format writers below it.                                 *)
(*                                                                         *)
(* A dataset is opened over a list of sources, each with its roles.  Every *)
(* role that is routed gets a slot: a format writer, the stream it writes  *)
(* to and, when the library opened that stream itself, the handle it has   *)
(* to close.  Two entries of the list are two destinations.  Assets are    *)
(* queued in the format writers.  Closing finalizes the writers one after  *)
(* the other and then closes the handles; a remote object exists from then *)
(* on.  Any step may fail, and the writer is used by one thread.           *)
(***************************************************************************)
EXTENDS Integers, Sequences, FiniteSets, SequencesExt, Sorting

CONSTANTS
  Openings,   \* the calls of IO.open: records [mode, roles, remote]
  Formats,    \* the formats they ask for
  Assets,     \* the assets that may be added: records [key, type]
  Metadata,   \* the values metadata may be set to
  NoMetadata  \* the metadata of a fresh writer

\* A key is a record [name, level, text].  Level 0 is a key without an overview
\* suffix; "overview:1" and "overview:01" are the same level in two texts.
Keys == {a.key : a \in Assets}

\* A role is 0 for "data", n > 0 for "overview:n" and -1 for any other.
ASSUME OpeningAssumption ==
  \A o \in Openings :
    /\ o.mode \in {"paths", "streams"}
    /\ o.roles \in Seq(Seq(Int)) /\ o.roles # <<>>
    /\ \A i \in DOMAIN o.roles : \A r \in Range(o.roles[i]) : r >= -1
    /\ o.remote \subseteq DOMAIN o.roles
    /\ o.mode = "streams" => o.remote = {}
ASSUME AssetAssumption == \A a \in Assets : a = [key |-> a.key, type |-> a.type]
ASSUME FormatAssumption == Formats \subseteq {"jbp", "tiff", "png", "jpeg", "dted", "j2k"}
ASSUME MetadataAssumption == NoMetadata \notin Metadata

VARIABLES
  opening,    \* the call of IO.open
  format,     \* the format all its writers have
  phase,      \* "opening", "failed", "open", "closing", "committing" or "closed"
  slots,      \* the slots opened so far: [source, level], the base first
  writers,    \* their format writers
  streams,    \* what their streams have received
  handles,    \* their handles, closed by the library when it opened them
  claimed,    \* CompositeDatasetWriter.asset_keys
  accepted,   \* the keys for which add_asset returned Ok
  outcome,    \* what the last call of the caller returned
  finalized,  \* the slots whose writer's close has been called
  error       \* the first error of close, if any

vars == <<opening, format, phase, slots, writers, streams, handles, claimed,
          accepted, outcome, finalized, error>>

Slots == DOMAIN slots

-----------------------------------------------------------------------------
(* Routing the sources by role *)

DataSources(roles) == {i \in DOMAIN roles : 0 \in Range(roles[i])}

BaseSource(roles) ==
  IF DataSources(roles) = {} THEN 1 ELSE CHOOSE i \in DataSources(roles) : TRUE

\* The overview roles in the order of the sources, and of the roles of each.
OverviewEntries(roles) ==
  FlattenSeq([i \in DOMAIN roles |->
    LET levels == Picked(roles[i], {j \in DOMAIN roles[i] : roles[i][j] > 0})
    IN  [j \in DOMAIN levels |-> [source |-> i, level |-> levels[j]]]])

\* route_by_roles, when at most one source has the role "data".
SlotPlan(roles) ==
  <<[source |-> BaseSource(roles), level |-> 0]>> \o OverviewEntries(roles)

-----------------------------------------------------------------------------
(* Format writers *)

FreshWriter == [queue |-> <<>>, closed |-> FALSE, output |-> "held", meta |-> NoMetadata]

HasKey(w, key) == \E i \in DOMAIN w.queue : w.queue[i].key = key

Images == {"rgb", "elevation"}

\* Faulty variant: the key is not looked up.
JbpAddAny(w, a) == IF w.closed THEN "closed" ELSE "accepted"

JbpAdd(w, a) ==
  IF w.closed THEN "closed" ELSE IF HasKey(w, a.key) THEN "duplicate" ELSE "accepted"

TiffAdd(w, a) ==
  IF w.closed THEN "closed"
  ELSE IF a.type \notin Images THEN "unsupported"
  ELSE IF HasKey(w, a.key) THEN "duplicate" ELSE "accepted"

\* The formats of one image do not look at the key.
AddOnly(w, a, types) ==
  IF w.closed THEN "closed"
  ELSE IF a.type \notin types \/ w.queue # <<>> THEN "unsupported" ELSE "accepted"

PngAdd(w, a) == AddOnly(w, a, Images)
J2kAdd(w, a) == AddOnly(w, a, Images)
JpegAdd(w, a) == AddOnly(w, a, {"rgb"})
DtedAdd(w, a) == AddOnly(w, a, {"elevation"})

FormatAdd(w, a) ==
  CASE format = "jbp"  -> JbpAdd(w, a)
    [] format = "tiff" -> TiffAdd(w, a)
    [] format = "png"  -> PngAdd(w, a)
    [] format = "jpeg" -> JpegAdd(w, a)
    [] format = "dted" -> DtedAdd(w, a)
    [] format = "j2k"  -> J2kAdd(w, a)

Untouched == [state |-> "untouched", keys |-> {}, meta |-> NoMetadata]
Torn == [state |-> "torn", keys |-> {}, meta |-> NoMetadata]

QueuedKeys(w) == {w.queue[i].key : i \in DOMAIN w.queue}

\* The formats whose files carry the dataset's metadata: in the NITF file header, in
\* the tEXt chunks of a PNG, in the header fields of a DTED.  TIFF has no use for it,
\* and JPEG and JPEG 2000 only look for encoding hints there.
Describing == {"jbp", "png", "dted"}

WholeFile(f, w) ==
  [state |-> "whole", keys |-> QueuedKeys(w),
   meta |-> IF f \in Describing THEN w.meta ELSE NoMetadata]

\* What a close may come to: the writer and the stream after it, and its result.
Closes(w, stream, result) == [writer |-> w, stream |-> stream, result |-> result]

\* The output is taken and written; a failure leaves part of the bytes behind.
\* The output is gone in either case.
WriteOut(w) ==
  LET taken == [w EXCEPT !.output = "taken", !.closed = TRUE]
      failed == [w EXCEPT !.output = "taken"]
  IN  {Closes(taken, WholeFile(format, w), "ok"), Closes(failed, Torn, "error")}

\* JBP and TIFF encode every queued asset before they take the output, and are
\* closed when all is written.
JbpClose(w) == {Closes(w, Untouched, "error")} \cup WriteOut(w)
TiffClose(w) == {Closes(w, Untouched, "error")} \cup WriteOut(w)

\* The formats of one image are closed before anything else, and write nothing
\* when there is no image.
CloseOnly(w) ==
  LET shut == [w EXCEPT !.closed = TRUE]
  IN  IF w.queue = <<>> THEN {Closes(shut, Untouched, "ok")}
      ELSE {Closes(shut, Untouched, "error")} \cup WriteOut(shut)

\* Faulty variant: an encoding error is swallowed.
PngCloseQuietly(w) ==
  {[c EXCEPT !.result = IF c.stream = Untouched THEN "ok" ELSE @] : c \in CloseOnly(w)}

PngClose(w) == CloseOnly(w)
J2kClose(w) == CloseOnly(w)
JpegClose(w) == CloseOnly(w)
DtedClose(w) == CloseOnly(w)

FormatClose(w) ==
  CASE format = "jbp"  -> JbpClose(w)
    [] format = "tiff" -> TiffClose(w)
    [] format = "png"  -> PngClose(w)
    [] format = "jpeg" -> JpegClose(w)
    [] format = "dted" -> DtedClose(w)
    [] format = "j2k"  -> J2kClose(w)

-----------------------------------------------------------------------------
(* Opening *)

Returned(call, result) == [call |-> call, result |-> result]

Init ==
  /\ opening \in Openings
  /\ format \in Formats
  /\ phase = "opening"
  /\ slots = <<>> /\ writers = <<>> /\ streams = <<>> /\ handles = <<>>
  /\ claimed = {} /\ accepted = {} /\ finalized = {}
  /\ outcome = Returned("none", "ok")
  /\ error = "none"

\* IO.open raises.  What it had opened is dropped and not closed.
OpenFails ==
  /\ phase = "opening"
  /\ phase' = "failed"
  /\ outcome' = Returned("open", "error")
  /\ UNCHANGED <<opening, format, slots, writers, streams, handles, claimed,
                 accepted, finalized, error>>

\* Faulty variant: the level is the position in the plan, not the role's number.
AddSlotByPosition(s) ==
  /\ slots' = Append(slots, [s EXCEPT !.level = Len(slots)])
  /\ writers' = Append(writers, FreshWriter)
  /\ streams' = Append(streams, Untouched)
  /\ handles' = Append(handles, IF s.source \in opening.remote THEN "open" ELSE "not_ours")

\* The next slot of the plan gets its writer and a stream of its own.  Two slots of
\* one path have two streams to one destination (see Overwritten).
AddSlot(s) ==
  /\ slots' = Append(slots, s)
  /\ writers' = Append(writers, FreshWriter)
  /\ streams' = Append(streams, Untouched)
  /\ handles' = Append(handles, IF s.source \in opening.remote THEN "open" ELSE "not_ours")

\* The sources are opened one by one in the order of the plan: a path, if it is
\* remote, through fsspec with a handle that is kept; a stream of the caller is
\* wrapped, and can have one role only.
OpenSource ==
  LET plan == SlotPlan(opening.roles)
      next == Len(slots) + 1
  IN  /\ phase = "opening"
      /\ Cardinality(DataSources(opening.roles)) <= 1
      /\ opening.mode = "streams" => \A i \in Slots : slots[i].source # plan[next].source
      /\ AddSlot(plan[next])
      /\ phase' = IF next = Len(plan) THEN "open" ELSE "opening"
      /\ UNCHANGED <<opening, format, claimed, accepted, outcome, finalized, error>>

-----------------------------------------------------------------------------
(* Adding assets *)

IsComposite == Len(slots) > 1

\* parse_overview_key: only an image has overviews.
IsOverviewKey(key) == key.level > 0 /\ key.name \in {"image:0", "image:1"}

ParentKey(key) == [name |-> key.name, level |-> 0, text |-> ""]

\* The first slot that the role table gave this overview level.
SlotsOfLevel(level) == {i \in Slots : slots[i].level = level}
SlotOfLevel(level) == CHOOSE i \in SlotsOfLevel(level) : \A j \in SlotsOfLevel(level) : i <= j

\* The format writer of slot i accepts or refuses the asset.
AddTo(i, a, key) ==
  LET result == FormatAdd(writers[i], a)
  IN  /\ outcome' = [call |-> "add_asset", result |-> result, key |-> key]
      /\ IF result = "accepted"
           THEN /\ writers' = [writers EXCEPT ![i].queue = Append(@, a)]
                /\ accepted' = accepted \cup {key}
           ELSE UNCHANGED <<writers, accepted>>

\* Faulty variant: an overview keeps its own key in the file of its level.
CompositeAddOwnKey(a) ==
  \/ /\ ~IsOverviewKey(a.key)
     /\ AddTo(1, a, a.key)
  \/ /\ IsOverviewKey(a.key) /\ SlotsOfLevel(a.key.level) # {}
     /\ AddTo(SlotOfLevel(a.key.level), a, a.key)

\* Route a key that has been claimed: an overview to the writer of its level
\* under its parent's key, anything else to the base.
CompositeAdd(a) ==
  \/ /\ ~IsOverviewKey(a.key)
     /\ AddTo(1, a, a.key)
  \/ /\ IsOverviewKey(a.key) /\ SlotsOfLevel(a.key.level) # {}
     /\ AddTo(SlotOfLevel(a.key.level), [a EXCEPT !.key = ParentKey(@)], a.key)
  \/ /\ IsOverviewKey(a.key) /\ SlotsOfLevel(a.key.level) = {}
     /\ outcome' = [call |-> "add_asset", result |-> "invalid", key |-> a.key]
     /\ UNCHANGED <<writers, accepted>>

\* add_asset.  The composite writer claims the key before it routes the asset.
AddAsset(a) ==
  /\ phase = "open"
  /\ \/ /\ ~IsComposite
        /\ AddTo(1, a, a.key)
        /\ UNCHANGED claimed
     \/ /\ IsComposite /\ a.key \in claimed
        /\ outcome' = [call |-> "add_asset", result |-> "duplicate", key |-> a.key]
        /\ UNCHANGED <<writers, accepted, claimed>>
     \/ /\ IsComposite /\ a.key \notin claimed
        /\ claimed' = claimed \cup {a.key}
        /\ CompositeAdd(a)
  /\ UNCHANGED <<opening, format, phase, slots, streams, handles, finalized, error>>

\* Faulty variant: the metadata goes to the base writer only.
SetMetadataOfBase(m) ==
  /\ phase = "open"
  /\ writers' = [writers EXCEPT ![1].meta = m]
  /\ outcome' = Returned("set_metadata", "ok")
  /\ UNCHANGED <<opening, format, phase, slots, streams, handles, claimed, accepted,
                 finalized, error>>

\* The metadata setter: every writer gets the value.
SetMetadata(m) ==
  /\ phase = "open"
  /\ writers' = [i \in Slots |-> [writers[i] EXCEPT !.meta = m]]
  /\ outcome' = Returned("set_metadata", "ok")
  /\ UNCHANGED <<opening, format, phase, slots, streams, handles, claimed, accepted,
                 finalized, error>>

-----------------------------------------------------------------------------
(* Closing *)

\* close or the end of the with block, whether or not its body raised: the
\* inner writer is taken, and no further call reaches it.
StartClose ==
  /\ phase = "open"
  /\ phase' = "closing"
  /\ UNCHANGED <<opening, format, slots, writers, streams, handles, claimed, accepted,
                 outcome, finalized, error>>

\* Writers close in the order of their levels, the base first.
ClosesBefore(i, j) ==
  slots[i].level < slots[j].level \/ (slots[i].level = slots[j].level /\ i <= j)

NextToClose(i) ==
  i \notin finalized /\ \A j \in Slots \ finalized : ClosesBefore(i, j)

\* Faulty variant: a writer whose close failed is closed again.
CloseWriterRetry(i) ==
  /\ phase = "closing" /\ NextToClose(i)
  /\ \E c \in FormatClose(writers[i]) :
       /\ finalized' = IF c.result = "ok" THEN finalized \cup {i} ELSE finalized
       /\ writers' = [writers EXCEPT ![i] = c.writer]
       /\ streams' = [streams EXCEPT ![i] = c.stream]
       /\ error' = IF c.result = "error" THEN "finalize" ELSE error
       /\ phase' = IF finalized' = Slots THEN "committing" ELSE "closing"
  /\ UNCHANGED <<opening, format, slots, handles, claimed, accepted, outcome>>

\* Finalize one format writer.  The composite writer stops at the first failure:
\* the writers behind it are dropped with their queues.
CloseWriter(i) ==
  /\ phase = "closing" /\ NextToClose(i)
  /\ finalized' = finalized \cup {i}
  /\ \E c \in FormatClose(writers[i]) :
       /\ writers' = [writers EXCEPT ![i] = c.writer]
       /\ streams' = [streams EXCEPT ![i] = c.stream]
       /\ error' = IF c.result = "error" THEN "finalize" ELSE error
       /\ phase' = IF c.result = "error" \/ finalized' = Slots THEN "committing" ELSE "closing"
  /\ UNCHANGED <<opening, format, slots, handles, claimed, accepted, outcome>>

OpenHandles == {i \in Slots : handles[i] = "open"}

\* Close the next handle in the order they were opened.  The upload commits or
\* the close raises; the loop goes on in both cases.
CommitWhen(p, i) ==
  /\ p /\ i \in OpenHandles /\ \A j \in OpenHandles : i <= j
  /\ \/ /\ handles' = [handles EXCEPT ![i] = "committed"]
        /\ UNCHANGED error
     \/ /\ handles' = [handles EXCEPT ![i] = "lost"]
        /\ error' = IF error = "none" THEN "commit" ELSE error
  /\ UNCHANGED <<opening, format, phase, slots, writers, streams, claimed, accepted,
                 outcome, finalized>>

\* Faulty variant: a handle is closed although writers have not been finalized.
CommitEarly(i) == CommitWhen(phase \in {"closing", "committing"}, i)

Commit(i) == CommitWhen(phase = "committing", i)

\* Faulty variant: the loop over the handles ends at the first error.
EndCloseOnError ==
  /\ phase = "committing" /\ (OpenHandles = {} \/ error # "none")
  /\ phase' = "closed"
  /\ outcome' = Returned("close", IF error = "none" THEN "ok" ELSE "error")
  /\ UNCHANGED <<opening, format, slots, writers, streams, handles, claimed, accepted,
                 finalized, error>>

\* close returns: an error of the writers wins over one of the handles.
EndClose ==
  /\ phase = "committing" /\ OpenHandles = {}
  /\ phase' = "closed"
  /\ outcome' = Returned("close", IF error = "none" THEN "ok" ELSE "error")
  /\ UNCHANGED <<opening, format, slots, writers, streams, handles, claimed, accepted,
                 finalized, error>>

\* Any call on a writer that is closed: close is a no-op, the others raise.
CallAfterClose ==
  /\ phase = "closed"
  /\ \/ outcome' = Returned("close_again", "ok")
     \/ outcome' = Returned("late_call", "error")
  /\ UNCHANGED <<opening, format, phase, slots, writers, streams, handles, claimed,
                 accepted, finalized, error>>

\* The steps of a close that has begun.
Closing == (\E i \in Slots : CloseWriter(i) \/ Commit(i)) \/ EndClose

Next ==
  \/ OpenFails \/ OpenSource
  \/ \E a \in Assets : AddAsset(a)
  \/ \E m \in Metadata : SetMetadata(m)
  \/ StartClose \/ Closing \/ CallAfterClose

\* A close runs in the caller's thread until it returns.
Spec == Init /\ [][Next]_vars /\ WF_vars(Closing)

-----------------------------------------------------------------------------
(* Properties *)

PlacedKeys == Keys \cup {ParentKey(k) : k \in Keys}
AnyMetadata == Metadata \cup {NoMetadata}

Writer == [queue : Seq([key : PlacedKeys, type : {a.type : a \in Assets}]),
           closed : BOOLEAN, output : {"held", "taken"}, meta : AnyMetadata]

Stream == [state : {"untouched", "torn", "whole"}, keys : SUBSET PlacedKeys, meta : AnyMetadata]

\* Every variable has its type, and the slots are those of the plan in its order.
TypeOK ==
  /\ opening \in Openings /\ format \in Formats
  /\ phase \in {"opening", "failed", "open", "closing", "committing", "closed"}
  /\ slots \in Seq(Range(slots))
  /\ \A i \in Slots : slots[i] = SlotPlan(opening.roles)[i]
  /\ writers \in Seq(Writer) /\ Len(writers) = Len(slots)
  /\ streams \in Seq(Stream) /\ Len(streams) = Len(slots)
  /\ handles \in Seq({"open", "not_ours", "committed", "lost"}) /\ Len(handles) = Len(slots)
  /\ claimed \subseteq Keys /\ accepted \subseteq Keys /\ finalized \subseteq Slots
  /\ error \in {"none", "finalize", "commit"}

\* What slot i has stored is lost to another slot of the same path: of two uploads
\* the later commit replaces the earlier, and a local file that is open twice is
\* written from its start by both.
Overwritten(i) ==
  \E j \in Slots \ {i} :
    /\ slots[j].source = slots[i].source
    /\ IF slots[i].source \in opening.remote
         THEN i < j /\ handles[j] = "committed"
         ELSE streams[j].state # "untouched"

\* A file that is written holds the assets accepted for it under their keys, unless
\* another slot wrote to the same path; and in the formats whose files carry the
\* dataset's metadata, every file carries the same.
FilesAgree ==
  \A i \in Slots : streams[i].state = "whole" /\ ~Overwritten(i) =>
    /\ streams[i].keys = QueuedKeys(writers[i])
    /\ format \in Describing => \A j \in Slots : streams[i].meta = writers[j].meta

\* Where an accepted key is kept: its slot and its key there.
Place(key) ==
  IF IsComposite /\ IsOverviewKey(key)
    THEN [slot |-> SlotOfLevel(key.level), key |-> ParentKey(key)]
    ELSE [slot |-> 1, key |-> key]

\* Whatever was refused before, an accepted asset is in the queue of one writer,
\* the one its level names, and no two accepted assets have one place there.
AcceptedHaveAPlace ==
  /\ \A i \in Slots :
       QueuedKeys(writers[i]) = {Place(k).key : k \in {q \in accepted : Place(q).slot = i}}
  /\ \A k, q \in accepted : Place(k) = Place(q) => k = q

\* bindings/writer.rs, close: "All steps run even if an earlier one fails, so no
\* partial handle is left dangling".
NoHandleDangles == phase = "closed" => OpenHandles = {}

\* bindings/writer.rs, close: "each final flush must land before the
\* corresponding handle closes and the upload commits".
NothingWrittenAfterCommit ==
  [][\A i \in Slots : handles[i] \in {"committed", "lost"} => streams'[i] = streams[i]]_vars

\* What each phase of a dataset has and has not done yet.
StagesInOrder ==
  /\ phase \in {"opening", "failed"} => accepted = {}
  /\ phase \in {"opening", "failed"} => \A i \in Slots : writers[i] = FreshWriter
  /\ phase \notin {"opening", "failed"} => slots # <<>>
  /\ phase \in {"opening", "failed", "open"} => finalized = {} /\ error = "none"
  /\ phase = "closing" => error = "none"
  /\ phase \in {"committing", "closed"} => error = "finalize" \/ finalized = Slots

\* Handles are closed in the last stage, and a lost one is an error.
HandlesInOrder ==
  \A i \in Slots :
    /\ handles[i] \in {"committed", "lost"} => phase \in {"committing", "closed"}
    /\ handles[i] = "lost" => error # "none"
    /\ phase = "closed" => handles[i] # "open"

\* A stream is written when its writer is finalized, with what the writer holds,
\* and as long as no writer has failed, no queue is left out.
StreamsInOrder ==
  \A i \in Slots :
    /\ i \notin finalized => streams[i] = Untouched
    /\ i \in finalized /\ error # "finalize" /\ writers[i].queue # <<>> =>
         streams[i].state = "whole"
    /\ streams[i].state = "whole" => streams[i] = WholeFile(format, writers[i])

\* bindings/io.rs: "Source at index {} cannot be used for two roles".
OneWriterPerSource == \A i, j \in Slots : slots[i].source = slots[j].source => i = j
StreamsHaveOneWriter == opening.mode = "streams" => OneWriterPerSource

\* The inductive invariant from which the others follow.
WritingInv ==
  /\ TypeOK
  /\ StagesInOrder /\ HandlesInOrder /\ StreamsInOrder
  /\ \A i, j \in Slots : writers[i].meta = writers[j].meta
  /\ AcceptedHaveAPlace
  /\ \A k \in accepted : Place(k).slot \in Slots
  /\ StreamsHaveOneWriter

\* The stored part of the accepted keys.
Stored ==
  {k \in accepted : /\ streams[Place(k).slot].state = "whole"
                    /\ handles[Place(k).slot] \in {"not_ours", "committed"}
                    /\ ~Overwritten(Place(k).slot)}

\* close says Ok only when every accepted asset is in a complete file that is
\* committed, through all the writers and handles of a pyramid.  It is kept by a
\* dataset none of whose sources has two writers.
Promise == INSTANCE DatasetPromise
             WITH stored <- Stored,
                  verdict <- IF phase # "closed" THEN "open"
                             ELSE IF error = "none" THEN "ok" ELSE "error"

KeepsThePromise == Promise!Spec

\* A close that has begun returns, whatever fails on the way.
CloseReturns == phase = "closing" ~> phase = "closed"

\* traits/writer.rs, add_asset: "Returns CodecError::DuplicateKey if an asset with
\* the given key already exists".
DuplicateMeansPresent ==
  outcome.call = "add_asset" /\ outcome.result = "duplicate" => outcome.key \in accepted
=============================================================================
