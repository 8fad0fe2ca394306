------------------------------- MODULE JbpFile -------------------------------
(***************************************************************************)
(* Tagged record extensions (TREs) and segments of a JBP (NITF/NSIF) file  *)
(* on their way through the library: queued with the assets, written by    *)
(* JBPDatasetWriter::close, located and collected again by the reader, and *)
(* copied from one file to the next.                                       *)
(*                                                                         *)
(* A container, the file header or an image subheader, has fields for its  *)
(* TREs.  What does not fit goes to a TRE_OVERFLOW data extension segment  *)
(* (DES), whose index is kept in the field.  The writer knows the index    *)
(* only after it has serialized the image subheaders, so it first writes   *)
(* the placeholder "???" and later replaces the first "???" it finds.      *)
(*                                                                         *)
(* A caller may copy a file: it opens what was written before, adds any of *)
(* its assets, in any order, to a new writer, and adds assets of its own.  *)
(* A copied DES is an ordinary asset, an overflow segment as any other.    *)
(***************************************************************************)
EXTENDS Integers, Sequences, FiniteSets, SequencesExt, Sorting

CONSTANTS
  Known,       \* the tags the registry has a definition for
  TagOrder,    \* all tags in their sort order
  Cap,         \* the TRE bytes a field may hold
  SubLen,      \* length of a subheader without its TRE fields
  EntryLen,    \* bytes the file header spends on a segment
  Limit,       \* of each number of the file header, the first with too many digits
  NewAssets,   \* the assets a caller supplies
  NewMetas,    \* the dataset metadata a caller supplies
  Foreign,     \* files of other producers
  MaxAssets,   \* bound on the assets of a file
  MaxNew,      \* bound on those of them that are the caller's
  MaxCopies    \* bound on the copies made

ASSUME LengthAssumption ==
  /\ Cap \in Nat /\ SubLen \in Nat \ {0} /\ EntryLen \in Nat \ {0}
  /\ Limit \in [{"count", "fl", "hl", "lish", "li", "ltsh", "lt", "ldsh", "ld"} -> Nat \ {0}]
ASSUME BoundAssumption ==
  MaxAssets \in Nat /\ MaxNew \in Nat /\ MaxCopies \in Nat \ {0}
ASSUME TagAssumption ==
  /\ TagOrder \in Seq(STRING)
  /\ \A i, j \in DOMAIN TagOrder : TagOrder[i] = TagOrder[j] => i = j

VARIABLES
  source,   \* the file the reader has open, or NoFile
  queue,    \* the assets queued in the writer
  meta,     \* the TREs of the dataset metadata set on the writer
  file,     \* the file close has written, or NoFile
  copies    \* the number of files opened for copying so far

vars == <<source, queue, meta, file, copies>>

-----------------------------------------------------------------------------
(* TREs: records [tag, size, id]; id tells the instances of a tag apart *)

Tre == [tag : ToSet(TagOrder), size : Nat, id : Nat]

\* The sum of the first n numbers of a list.
SumTo(n, f) ==
  LET sum[k \in 0 .. n] == IF k = 0 THEN 0 ELSE sum[k - 1] + f[k]
  IN  sum[n]

Sizes(tres) == [i \in DOMAIN tres |-> tres[i].size]

TresSize(tres) == SumTo(Len(tres), Sizes(tres))

OfTag(tres, tag) == Picked(tres, {i \in DOMAIN tres : tres[i].tag = tag})

\* A provider hands out all instances of a tag at a time: a reader's lists the
\* tags by first appearance, a buffered one in their sort order.
FirstOfTag(tres, tag) == Min({i \in DOMAIN tres : tres[i].tag = tag})

ReaderProvider(tres) ==
  SortedBy([i \in DOMAIN tres |-> FirstOfTag(tres, tres[i].tag)], tres)

TagRank(tag) == CHOOSE n \in DOMAIN TagOrder : TagOrder[n] = tag

BufferedProvider(tres) == SortedBy([i \in DOMAIN tres |-> TagRank(tres[i].tag)], tres)

\* extract_tre_fields_from_provider: a tag without a definition is not written.
Writable(tres) == Picked(tres, {i \in DOMAIN tres : tres[i].tag \in Known})

-----------------------------------------------------------------------------
(* Fields of a container: the length written, the overflow index, the TREs *)

Placeholder == -1

Field == [len : Nat, ofl : Nat \cup {Placeholder}, tres : Seq(Tre)]

NoField == [len |-> 0, ofl |-> 0, tres |-> <<>>]

FilledField(tres, ofl) == [len |-> 3 + TresSize(tres), ofl |-> ofl, tres |-> tres]

\* Faulty variant: envelopes behind the first that does not fit are packed too.
SplitDensely(tres) ==
  LET pack(acc, t) == IF acc.size + t.size > Cap
                        THEN [acc EXCEPT !.spill = Append(@, t)]
                        ELSE [acc EXCEPT !.fit = Append(@, t), !.size = @ + t.size]
      all == FoldLeft(pack, [fit |-> <<>>, spill |-> <<>>, size |-> 0], tres)
  IN  [fit |-> all.fit, spill |-> all.spill]

\* split_tres_by_size: the longest prefix that fits stays.
Split(tres) ==
  LET fits(k) == SumTo(k, Sizes(tres)) <= Cap
      at == CHOOSE k \in 0 .. Len(tres) :
              /\ \A j \in 0 .. k : fits(j)
              /\ k < Len(tres) => ~fits(k + 1)
  IN  [fit |-> SubSeq(tres, 1, at), spill |-> SubSeq(tres, at + 1, Len(tres))]

\* The UDID field of a new image subheader: nothing at all when nothing fits.
ImageField(tres) ==
  LET parts == Split(tres)
  IN  IF parts.fit = <<>> THEN NoField
      ELSE FilledField(parts.fit, IF parts.spill = <<>> THEN 0 ELSE Placeholder)

\* The XHD field of the file header: its length, overflow index and TREs are
\* written when there is anything to keep, inline or not.
HeaderField(tres, index) ==
  LET parts == Split(tres)
  IN  IF tres = <<>> THEN NoField
      ELSE FilledField(parts.fit, IF parts.spill = <<>> THEN 0 ELSE index)

\* Faulty variant: a field with overflow alone is taken for an empty one.
InlineFieldLen(tres) ==
  LET fit == Split(tres).fit IN IF fit = <<>> THEN 5 ELSE 5 + 3 + TresSize(fit)

\* calculate_header_length adds these bytes for the field, before it is written.
HeaderFieldLen(tres) == IF tres = <<>> THEN 5 ELSE 5 + 3 + TresSize(Split(tres).fit)

-----------------------------------------------------------------------------
(* Files *)

\* owner tells which container a DES has overflowed from: an image, 0 for the
\* file header, Nobody for a DES that holds no overflow.
Nobody == -1

Owner == Nat \cup {Nobody}

FileImage == [marked : BOOLEAN, udid : Field, ixshd : Field, len : Nat]
FileDes == [owner : Owner, held : Seq(Tre), len : Nat]

File == [exists : {TRUE}, hl : Nat, xhd : Field, images : Seq(FileImage),
         texts : Seq([len : Nat]), des : Seq(FileDes)]

NoFile == [exists |-> FALSE]

\* An asset of the caller has a key of its own, a copy that of its original.
Asset == [key : {"new", "image", "text", "data"} \X Nat, type : {"image", "text", "data"},
          marked : BOOLEAN, tres : Seq(Tre), owner : Owner, len : Nat]

ASSUME InputAssumption ==
  /\ NewAssets \subseteq Asset
  /\ \A a \in NewAssets : a.key[1] = "new"
  /\ NewMetas \subseteq Seq(Tre)
  /\ Foreign \subseteq File

OfType(q, type) == Picked(q, {i \in DOMAIN q : q[i].type = type})

Images(q) == OfType(q, "image")
Texts(q) == OfType(q, "text")
Des(q) == OfType(q, "data")

Spills(tres) == Split(tres).spill # <<>>

\* The overflow segments close creates: those of the images in their order, then
\* that of the file header.
OverflowSegments(q, m) ==
  LET images == Images(q)
      spilling == Ascending({i \in DOMAIN images : Spills(images[i].tres)})
      segment(owner, tres) == [owner |-> owner, held |-> tres, len |-> TresSize(tres)]
  IN  [k \in DOMAIN spilling |-> segment(spilling[k], Split(images[spilling[k]].tres).spill)]
        \o IF Spills(m) THEN <<segment(0, Split(m).spill)>> ELSE <<>>

\* Faulty variant: segments are counted from 0.
IndexFromZero(q, m, owner) ==
  Len(Des(q)) + SelectInSeq(OverflowSegments(q, m), LAMBDA s : s.owner = owner) - 1

\* Faulty variant: the count is taken anew for each segment that is added.
IndexRecounted(q, m, owner) ==
  Len(Des(q)) + 2 * SelectInSeq(OverflowSegments(q, m), LAMBDA s : s.owner = owner) - 1

\* The index of the segment that holds what owner has spilled.
IndexFor(q, m, owner) ==
  Len(Des(q)) + SelectInSeq(OverflowSegments(q, m), LAMBDA s : s.owner = owner)

\* patch_overflow_index: the first "???" of the subheader becomes the index.  A
\* marked image has one in its texts, which stand before the overflow field.
Patched(image, index) ==
  IF image.marked THEN [image EXCEPT !.marked = FALSE]
  ELSE IF image.udid.ofl = Placeholder THEN [image EXCEPT !.udid.ofl = index]
  ELSE image

WrittenImage(q, m, i) ==
  LET a == Images(q)[i]
      fresh == [marked |-> a.marked, udid |-> ImageField(a.tres), ixshd |-> NoField,
                len |-> a.len]
  IN  IF Spills(a.tres) THEN Patched(fresh, IndexFor(q, m, i)) ELSE fresh

\* The file of close.  HL is calculated from the numbers of segments, those of
\* the overflow included, and from the TREs of the file header.
WrittenFile(q, m) ==
  LET overflow == OverflowSegments(q, m)
      texts == Texts(q)
      des == Des(q)
  IN  [exists |-> TRUE,
       hl     |-> HeaderFieldLen(m) + EntryLen * (Len(q) + Len(overflow)),
       xhd    |-> HeaderField(m, IndexFor(q, m, 0)),
       images |-> [i \in DOMAIN Images(q) |-> WrittenImage(q, m, i)],
       texts  |-> [i \in DOMAIN texts |-> [len |-> texts[i].len]],
       des    |-> [i \in DOMAIN des |->
                     [owner |-> des[i].owner, held |-> des[i].tres, len |-> des[i].len]]
                  \o overflow]

\* The bytes that are written for the parts of a file.
FieldBytes(f) == 5 + f.len

ImageSub(image) == SubLen + FieldBytes(image.udid) + FieldBytes(image.ixshd)

\* The lengths of a segment, whose data length is a number below limit.
SegmentOf(sub, data, limit) == [sub |-> sub, data |-> data, open |-> data = limit - 1]

\* Subheader and data lengths of all segments in the order they are written.
Segments(f) ==
  [i \in DOMAIN f.images |-> SegmentOf(ImageSub(f.images[i]), f.images[i].len, Limit.li)]
    \o [i \in DOMAIN f.texts |-> SegmentOf(SubLen, f.texts[i].len, Limit.lt)]
    \o [i \in DOMAIN f.des |-> SegmentOf(SubLen, f.des[i].len, Limit.ld)]

\* The bytes of the first n segments.
BytesOf(segments) == [i \in DOMAIN segments |-> segments[i].sub + segments[i].data]

SegmentBytes(n, segments) == SumTo(n, BytesOf(segments))

WrittenHeader(f) == FieldBytes(f.xhd) + EntryLen * Len(Segments(f))

FileSize(f) == WrittenHeader(f) + SegmentBytes(Len(Segments(f)), Segments(f))

\* Where the bytes of segment i stand in the file.
StandsAt(f, i) == WrittenHeader(f) + SegmentBytes(i - 1, Segments(f))

\* No number of the header has more digits than its field.  The writer does not ask:
\* one digit more shifts all that follows it in the header, and HL does not count it.
NumbersFit(f) ==
  /\ {Len(f.images), Len(f.texts), Len(f.des)} \subseteq 0 .. Limit.count - 1
  /\ f.hl < Limit.hl /\ FileSize(f) < Limit.fl
  /\ \A i \in DOMAIN f.images :
       ImageSub(f.images[i]) < Limit.lish /\ f.images[i].len < Limit.li
  /\ \A i \in DOMAIN f.texts : SubLen < Limit.ltsh /\ f.texts[i].len < Limit.lt
  /\ \A i \in DOMAIN f.des : SubLen < Limit.ldsh /\ f.des[i].len < Limit.ld

-----------------------------------------------------------------------------
(* The reader *)

\* A data length of all nines means that the length was not known when the header
\* was written; from_header gives up on a second one, and on any subheader length of
\* all nines.
Readable(f) ==
  /\ f.exists
  /\ Cardinality({i \in DOMAIN Segments(f) : Segments(f)[i].open}) <= 1
  /\ \A i \in DOMAIN f.images : ImageSub(f.images[i]) # Limit.lish - 1
  /\ f.texts # <<>> => SubLen # Limit.ltsh - 1
  /\ f.des # <<>> => SubLen # Limit.ldsh - 1

\* The length of the open segment is what the others leave of the file.
DataLength(f, s) ==
  LET known == [i \in DOMAIN Segments(f) |->
                  [Segments(f)[i] EXCEPT !.data = IF Segments(f)[i].open THEN 0 ELSE @]]
  IN  IF s.open THEN FileSize(f) - (f.hl + SegmentBytes(Len(known), known)) ELSE s.data

\* SegmentOffsets::from_header: the segments follow one another from HL on.
FoundAt(f, i) ==
  f.hl + SegmentBytes(i - 1, [k \in DOMAIN Segments(f) |->
                                [Segments(f)[k] EXCEPT !.data = DataLength(f, Segments(f)[k])]])

\* fetch_overflow_tres: the TREs of a DES; an index past the last DES has none.
Fetch(f, index) == IF index \in DOMAIN f.des THEN f.des[index].held ELSE <<>>

\* Faulty variant: the overflow of the first field is taken for all there is.
CollectFirst(f, first, second) ==
  first.tres \o second.tres \o Fetch(f, first.ofl)

\* Both fields in a row, then the overflow of both; an index that is no number
\* makes the reader skip the overflow.
Collect(f, first, second) ==
  first.tres \o second.tres
    \o IF Placeholder \in {first.ofl, second.ofl} THEN <<>>
       ELSE Fetch(f, first.ofl) \o Fetch(f, second.ofl)

ImageTres(f, i) == ReaderProvider(Collect(f, f.images[i].udid, f.images[i].ixshd))

\* The library writes no UDHD.
HeaderTres(f) == ReaderProvider(Collect(f, NoField, f.xhd))

-----------------------------------------------------------------------------
(* The caller *)

\* A caller who starts with a foreign file copies that one.
Init ==
  /\ source \in Foreign \cup {NoFile}
  /\ queue = <<>> /\ meta = <<>>
  /\ file = NoFile
  /\ copies = IF source.exists THEN 1 ELSE 0

Queue(a) ==
  /\ ~file.exists
  /\ Len(queue) < MaxAssets
  /\ \A i \in DOMAIN queue : queue[i].key # a.key
  /\ queue' = Append(queue, a)
  /\ UNCHANGED <<source, meta, file, copies>>

\* add_asset with an asset of the caller.
AddAsset(a) ==
  /\ Cardinality({i \in DOMAIN queue : queue[i].key[1] = "new"}) < MaxNew
  /\ Queue([a EXCEPT !.tres = Writable(BufferedProvider(@))])

\* add_asset with an asset of the reader, which keeps its metadata.
CopyImage(i) ==
  LET image == source.images[i]
  IN  Queue([key |-> <<"image", i>>, type |-> "image", marked |-> image.marked,
             tres |-> Writable(ImageTres(source, i)), owner |-> Nobody, len |-> image.len])

CopyText(i) ==
  Queue([key |-> <<"text", i>>, type |-> "text", marked |-> FALSE, tres |-> <<>>,
         owner |-> Nobody, len |-> source.texts[i].len])

\* DESOFLW, DESITEM and the data of a copied DES stay what they were.
CopyDes(i) ==
  Queue([key |-> <<"data", i>>, type |-> "data", marked |-> FALSE,
         tres |-> source.des[i].held, owner |-> source.des[i].owner,
         len |-> source.des[i].len])

CopySegment ==
  /\ source.exists
  /\ \/ \E i \in DOMAIN source.images : CopyImage(i)
     \/ \E i \in DOMAIN source.texts : CopyText(i)
     \/ \E i \in DOMAIN source.des : CopyDes(i)

SetMetadata(m) ==
  /\ ~file.exists /\ meta = <<>>
  /\ meta' = Writable(m)
  /\ UNCHANGED <<source, queue, file, copies>>

Close ==
  /\ ~file.exists
  /\ file' = WrittenFile(queue, meta)
  /\ UNCHANGED <<source, queue, meta, copies>>

\* Open what has been written, to copy it with a new writer.  A header whose numbers
\* do not fit may still open, with the segments misplaced: a text of 100000 bytes and
\* no DES behind it.  What a reader makes of such a file is not followed.
Reopen ==
  /\ Readable(file) /\ NumbersFit(file) /\ copies < MaxCopies
  /\ source' = file
  /\ queue' = <<>> /\ meta' = <<>> /\ file' = NoFile
  /\ copies' = copies + 1

Next ==
  \/ \E a \in NewAssets : AddAsset(a)
  \/ CopySegment
  \/ \E m \in NewMetas : SetMetadata(BufferedProvider(m))
  \/ source.exists /\ SetMetadata(HeaderTres(source))
  \/ Close \/ Reopen

Spec == Init /\ [][Next]_vars

-----------------------------------------------------------------------------
(* Properties *)

\* Every key is queued once, and an overflow index that close
\* has written is the number of a segment of the file, or was never patched because
\* "???" stood in a text before it (writer.rs add_asset and patch_overflow_index).
TypeOK ==
  /\ queue \in Seq(Asset) /\ Len(queue) <= MaxAssets
  /\ \A i, j \in DOMAIN queue : queue[i].key = queue[j].key => i = j
  /\ meta \in Seq(Tre)
  /\ {source, file} \subseteq File \cup {NoFile}
  /\ file.exists =>
       /\ file.xhd.ofl \in 0 .. Len(file.des)
       /\ \A i \in DOMAIN file.images :
            /\ file.images[i].udid.ofl \in {Placeholder} \cup 0 .. Len(file.des)
            /\ file.images[i].udid.ofl = Placeholder => Images(queue)[i].marked
  /\ copies \in 0 .. MaxCopies

\* The TRE fields of a file with the container each belongs to.
Fields(f) ==
  {[owner |-> i, field |-> f.images[i].udid] : i \in DOMAIN f.images}
    \cup {[owner |-> 0, field |-> f.xhd]}

\* An overflow index leads to the segment that this close has made for this very
\* container, whatever overflow segments of an earlier file were copied before it
\* (writer.rs, close: base_des_count and the order of overflow_tres).
OverflowOwned ==
  file.exists =>
    \A e \in Fields(file) :
      e.field.ofl \notin {0, Placeholder} =>
        /\ file.des[e.field.ofl].owner = e.owner
        /\ e.field.ofl > Len(Des(queue))
        /\ \A d \in Fields(file) : d.field.ofl = e.field.ofl => d = e

\* An image whose TREs are known to be lost: one whose first TRE alone does not
\* fit, and one whose texts contain "???" when its TREs overflow.
LosesTres(a) == Spills(a.tres) /\ (Split(a.tres).fit = <<>> \/ a.marked)

\* Every TRE that was handed to the writer is handed out by a reader of the file,
\* in the order it was handed in and by the container it was handed to, overflow or
\* not (writer.rs split_tres_by_size and close against reader.rs extract_image_tres
\* and extract_file_header_tres).
TresComeBack ==
  file.exists =>
    /\ HeaderTres(file) = meta
    /\ \A i \in DOMAIN file.images :
         LosesTres(Images(queue)[i]) \/ ImageTres(file, i) = Images(queue)[i].tres

\* In the copy of an image the instances of a tag are those of the original in
\* their order, wherever in the original they stood: in UDID, in IXSHD or in an
\* overflow segment (docs/user-guide/metadata.md:245-248, test_duplicate_tres.py).
CopyKeepsRepeats ==
  file.exists =>
    \A i \in DOMAIN file.images :
      LET a == Images(queue)[i]
          original == source.images[a.key[2]]
      IN  a.key[1] = "image" /\ ~LosesTres(a) =>
            \A tag \in Known :
              OfTag(ImageTres(file, i), tag) =
                OfTag(Collect(source, original.udid, original.ixshd), tag)

\* A reader that can open a file whose numbers fit their fields looks for every
\* segment where it stands, with the length it has: HL, which is calculated ahead of
\* the header, agrees with what is written, and a length of all nines is told from a
\* real one only by what the rest of the file leaves (writer.rs
\* calculate_header_length, types.rs from_header).  In a file whose numbers do not
\* fit, the segments are known to be misplaced (writer.rs:2520-2523).
SegmentsLocated ==
  Readable(file) /\ NumbersFit(file) =>
    \A i \in DOMAIN Segments(file) :
      /\ FoundAt(file, i) = StandsAt(file, i)
      /\ DataLength(file, Segments(file)[i]) = Segments(file)[i].data

\* What the user guide says of both levels, the image and the file header: any TRE
\* too large for the field spills into an overflow segment, from which it is read
\* (docs/user-guide/metadata.md:280).  Unlike the file header, the image subheader
\* has no overflow index when nothing is left in the field (writer.rs:2006).
EveryTreComesBack ==
  file.exists =>
    \A i \in DOMAIN file.images :
      ~Images(queue)[i].marked => ImageTres(file, i) = Images(queue)[i].tres

=============================================================================
