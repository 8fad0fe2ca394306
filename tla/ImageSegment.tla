---------------------------- MODULE ImageSegment ----------------------------
(***************************************************************************)
(* An image from set_block to get_block: the in-memory image of            *)
(* src/buffered/image.rs, the block loop of the JBP writer                 *)
(* (encode_image_with_block_encoder, src/jbp/writer.rs), the segment it    *)
(* leaves, and the copy-on-write image made from that segment              *)
(* (from_provider, src/bindings/buffered_image.rs), which can be written   *)
(* again on another grid, in another mode, masked or not.                  *)
(*                                                                         *)
(* set_block takes the write locks of both maps and holds them to its end, *)
(* so it is one step; the writer locks per block it reads, so painting and *)
(* writing interleave between blocks.                                      *)
(***************************************************************************)
EXTENDS BlockLayout

CONSTANTS Depths,           \* bits per pixel, a multiple of 4
          Shapes,           \* block sizes, <<height, width>>
          WriteModes,       \* interleave modes asked of the writer
          MaxSets,          \* bound on set_block and set_full_image
          MaxWrites,        \* bound on closes that get to encode
          MaskedReblock,    \* TRUE: masked writes may ask for another grid
          MaskedSequential  \* TRUE: masked writes may ask for IMODE=S

ASSUME SegmentAssumption ==
    /\ Depths \subseteq {4, 8, 12, 16}
    /\ \A s \in Shapes : s[1] \in Nat \ {0} /\ s[2] \in Nat \ {0}
    /\ WriteModes \subseteq Modes
    /\ MaxSets \in Nat
    /\ MaxWrites \in Nat
    /\ MaskedReblock \in BOOLEAN
    /\ MaskedSequential \in BOOLEAN

VARIABLES depth,    \* nbpp of the image, fixed
          image,    \* the BufferedImageAssetProvider
          segment,  \* the image segment of the last finished file
          reader,   \* what a provider opened on that file answers; the file
                    \* never changes, so its decoding is taken once
          job,      \* the close that is encoding, or NoJob
          sets,     \* set_block and set_full_image so far
          writes,   \* encodings started so far
          shown,    \* history: the picture the image shows
          held      \* history: what each pixel showed since the job began

vars == <<depth, image, shown, segment, reader, job, sets, writes, held>>

NoFile == [ic |-> "none"]
NoJob  == [ic |-> "none"]

Absent  == <<"absent">>
Nothing == <<>>

Stamp(v, p) == <<v, p>>

-----------------------------------------------------------------------------
(* What the image answers.                                                 *)

\* A finished segment as its provider answers, block by block.
Reader(seg) ==
    LET bh == BlockHeight(seg)
        bw == BlockWidth(seg)
    IN  [bh |-> bh, bw |-> bw,
         present |-> {p \in Grid(bh, bw) : SegmentHasBlock(seg, p[1], p[2])},
         blocks |-> [p \in Grid(bh, bw) |-> SegmentGetBlock(seg, p[1], p[2])]]

SameGrid(img) == GridsMatch(img.source, img.bh, img.bw)

\* What was set here, else what the source has, else (on another grid) what
\* the geometry says.
HasBlock(img, r, c) ==
    \/ <<r, c>> \in img.provided
    \/ /\ img.source # NoFile
       /\ IF SameGrid(img)
            THEN <<r, c>> \in img.source.present
            ELSE Overlaps(img.bh, img.bw, r, c)

GetBlock(img, r, c) ==
    IF <<r, c>> \in DOMAIN img.blocks
      THEN img.blocks[<<r, c>>]
      ELSE IF img.source = NoFile
             THEN Missing
             ELSE OutputTile(img.source, img.bh, img.bw, r, c)

\* The image as the writer's assembler sees it.
ImageSource(img) ==
    [bh |-> img.bh, bw |-> img.bw,
     blocks |-> [p \in Grid(img.bh, img.bw) |-> GetBlock(img, p[1], p[2])]]

CollectProvidedBlocks(img) ==
    {p \in Grid(img.bh, img.bw) : HasBlock(img, p[1], p[2])}

\* The picture a source shows through those of its blocks that it announces.
Picture(source, announced) ==
    [p \in PixelSet |->
       IF <<p[2] \div source.bh, p[3] \div source.bw>> \in announced
         THEN Copied(source, p[1], p[2], p[3])
         ELSE Absent]

ImagePicture(img) == Picture(ImageSource(img), CollectProvidedBlocks(img))

\* The image becomes img: the history follows.
ImageBecomes(img) ==
    /\ image' = img
    /\ shown' = ImagePicture(img)
    /\ held' = IF held = Nothing
                 THEN Nothing
                 ELSE [p \in PixelSet |-> held[p] \cup {shown'[p]}]

-----------------------------------------------------------------------------
(* The owner of the image.                                                 *)

\* The block of a full image painted with stamp v (extract_block_bsq).
PaintedTile(img, r, c, v) ==
    LET rows == TileRows(img.bh, r)
        cols == TileCols(img.bw, c)
    IN  MakeTile(rows, cols,
          [p \in BandSet \X (0 .. rows - 1) \X (0 .. cols - 1) |->
             Stamp(v, <<p[1], r * img.bh + p[2], c * img.bw + p[3]>>)])

\* Faulty variant: the blocks are stored but not noted as provided.
InsertUnnoted(img, blocks, v) ==
    [img EXCEPT
       !.blocks = [p \in DOMAIN img.blocks \cup blocks |->
                     IF p \in blocks THEN PaintedTile(img, p[1], p[2], v)
                                     ELSE img.blocks[p]]]

Insert(img, blocks, v) ==
    [img EXCEPT
       !.blocks = [p \in DOMAIN img.blocks \cup blocks |->
                     IF p \in blocks THEN PaintedTile(img, p[1], p[2], v)
                                     ELSE img.blocks[p]],
       !.provided = @ \cup blocks]

SetBlock(r, c) ==
    /\ sets < MaxSets
    /\ sets' = sets + 1
    /\ ImageBecomes(Insert(image, {<<r, c>>}, sets + 1))
    /\ UNCHANGED <<depth, segment, reader, job, writes>>

SetFullImage ==
    /\ sets < MaxSets
    /\ sets' = sets + 1
    /\ ImageBecomes(Insert(image, Grid(image.bh, image.bw), sets + 1))
    /\ UNCHANGED <<depth, segment, reader, job, writes>>

\* from_provider over the reopened file; the old image is let go.
Derive(bh, bw) ==
    /\ segment # NoFile
    /\ job = NoJob
    /\ ImageBecomes([bh |-> bh, bw |-> bw, blocks |-> <<>>, provided |-> {},
                     source |-> reader])
    /\ UNCHANGED <<depth, segment, reader, job, sets, writes>>

-----------------------------------------------------------------------------
(* The writer's close.                                                     *)

\* validate_encoding_hints: a block is never larger than the image.
Clamp(shape) == <<Least(shape[1], Rows), Least(shape[2], Cols)>>

\* An unmasked write with a block missing is refused; it changes nothing.
StartWrite(ic, imode, shape) ==
    LET h == [ic |-> ic, imode |-> imode, depth |-> depth,
              bh |-> Clamp(shape)[1], bw |-> Clamp(shape)[2]]
        provided == CollectProvidedBlocks(image)
    IN  /\ job = NoJob
        /\ writes < MaxWrites
        /\ ic = "NC" => provided = Grid(image.bh, image.bw)
        /\ (ic = "NM" /\ ~MaskedReblock) => Clamp(shape) = Clamp(<<image.bh, image.bw>>)
        /\ (ic = "NM" /\ ~MaskedSequential) => imode # "S" \/ Bands = 1
        /\ writes' = writes + 1
        /\ job' = [ic |-> ic, hints |-> h, provided |-> provided, next |-> 0,
                   bytes |-> IF ic = "NC"
                               THEN [k \in 1 .. EncoderUnits(h) |-> Unit(Fill, 0)]
                               ELSE <<>>,
                   records |-> IF ic = "NC" THEN <<>> ELSE InitialRecords(h, provided)]
        /\ held' = [p \in PixelSet |-> {shown[p]}]
        /\ UNCHANGED <<depth, image, shown, segment, reader, sets>>

Abandoned ==
    /\ job' = NoJob
    /\ held' = Nothing
    /\ UNCHANGED <<depth, image, shown, segment, reader, sets, writes>>

\* The next output tile, as the image is now.
EncodeNext ==
    /\ job # NoJob
    /\ LET h == job.hints
           r == job.next \div GridCols(h.bw)
           c == job.next % GridCols(h.bw)
           tile == OutputTile(ImageSource(image), h.bh, h.bw, r, c)
           encoded ==
             IF job.ic = "NC"
               THEN [job EXCEPT !.next = @ + 1,
                                !.bytes = EncodeBlock(h, @, r, c, tile)]
               ELSE [job EXCEPT !.next = @ + 1,
                                !.records[job.next] = Len(job.bytes) \div UnitsPerByte,
                                !.bytes = @ \o MaskedUnits(h, tile)]
       IN  /\ job.next < BlockCount(h.bh, h.bw)
           /\ IF job.ic = "NM" /\ <<r, c>> \notin job.provided
                THEN /\ job' = [job EXCEPT !.next = @ + 1]
                     /\ UNCHANGED <<depth, image, shown, segment, reader, sets, writes, held>>
                ELSE IF tile = Missing \/ (job.ic = "NC" /\ ~Encodable(h, r, c, tile))
                       THEN Abandoned
                       ELSE /\ job' = encoded
                            /\ UNCHANGED <<depth, image, shown, segment, reader, sets, writes, held>>

\* A source block cannot be read (the file behind a copy, a remote fetch).
SourceFails ==
    /\ job # NoJob
    /\ job.next < BlockCount(job.hints.bh, job.hints.bw)
    /\ image.source # NoFile
    /\ Abandoned

\* The subheader holds 0 for a dimension that is one block (NPPBH, NPPBV).
FinishWrite ==
    /\ job # NoJob
    /\ LET h == job.hints
           masked == job.ic = "NM"
       IN  /\ job.next = BlockCount(h.bh, h.bw)
           /\ segment' =
                [ic |-> job.ic, imode |-> h.imode, depth |-> h.depth,
                 nbpr |-> GridCols(h.bw), nbpc |-> GridRows(h.bh),
                 nppbh |-> IF h.bw = Cols THEN 0 ELSE h.bw,
                 nppbv |-> IF h.bh = Rows THEN 0 ELSE h.bh,
                 mask |-> IF masked THEN MaskTable(h, job.records) ELSE NoMask,
                 bytes |-> IF masked
                             THEN [k \in 1 .. MaskBytes(h) * UnitsPerByte |-> Table]
                                    \o job.bytes
                             ELSE job.bytes]
    /\ reader' = Reader(segment')
    /\ job' = NoJob
    /\ held' = Nothing
    /\ UNCHANGED <<depth, image, shown, sets, writes>>

Init ==
    /\ depth \in Depths
    /\ \E s \in Shapes :
          image = [bh |-> s[1], bw |-> s[2], blocks |-> <<>>, provided |-> {},
                   source |-> NoFile]
    /\ segment = NoFile
    /\ reader = NoFile
    /\ job = NoJob
    /\ sets = 0
    /\ writes = 0
    /\ shown = ImagePicture(image)
    /\ held = Nothing

Next ==
    \/ \E p \in Grid(image.bh, image.bw) : SetBlock(p[1], p[2])
    \/ SetFullImage
    \/ \E s \in Shapes : Derive(s[1], s[2])
    \/ \E ic \in {"NC", "NM"}, imode \in WriteModes, s \in Shapes : StartWrite(ic, imode, s)
    \/ EncodeNext
    \/ SourceFails
    \/ FinishWrite

Spec == Init /\ [][Next]_vars

-----------------------------------------------------------------------------
(* Type invariant: the two maps of the image agree, a job stays inside its *)
(* grid, and a file has the table its compression asks for.                *)
TypeOK ==
    /\ depth \in Depths
    /\ image.provided = DOMAIN image.blocks
    /\ image.provided \subseteq Grid(image.bh, image.bw)
    /\ sets \in 0 .. MaxSets
    /\ writes \in 0 .. MaxWrites
    /\ job # NoJob => job.next \in 0 .. BlockCount(job.hints.bh, job.hints.bw)
    /\ segment # NoFile => (segment.ic = "NM") = (segment.mask # NoMask)
    /\ held = Nothing <=> job = NoJob

(* A block that has_block announces can be read, in full shape and with    *)
(* every sample a value somebody set (or fill): from the image, from a     *)
(* copy on another grid, and from the file.                                *)
Readable(tile, bh, bw, r, c) ==
    /\ tile.rows = TileRows(bh, r)
    /\ tile.cols = TileCols(bw, c)
    /\ Len(tile.data) = Bands * tile.rows * tile.cols
    /\ \A k \in DOMAIN tile.data : tile.data[k] # Garbled

AnnouncedBlocksReadable ==
    /\ \A p \in CollectProvidedBlocks(image) :
          Readable(GetBlock(image, p[1], p[2]), image.bh, image.bw, p[1], p[2])
    /\ segment # NoFile =>
          \A p \in reader.present :
             Readable(reader.blocks[p], reader.bh, reader.bw, p[1], p[2])

(* When the block loop is over, the mask says of each block what the       *)
(* provided set said when the write began, read back the way the provider  *)
(* reads it.                                                               *)
MaskTellsProvided ==
    (job # NoJob /\ job.ic = "NM" /\ job.next = BlockCount(job.hints.bh, job.hints.bw)) =>
       LET written == [nbpr |-> GridCols(job.hints.bw),
                       mask |-> MaskTable(job.hints, job.records)]
       IN  \A p \in Grid(job.hints.bh, job.hints.bw) :
              MaskHasBlock(written, p[1], p[2]) = (p \in job.provided)

(* A pixel the image showed all through a masked write lies in a block     *)
(* that the file holds.                                                    *)
NothingShownIsLeftOut ==
    (job # NoJob /\ job.ic = "NM" /\ job.next = BlockCount(job.hints.bh, job.hints.bw)) =>
       \A p \in PixelSet :
          Absent \notin held[p] =>
             job.records[BlockIndex(job.hints.bw, p[2] \div job.hints.bh,
                                    p[3] \div job.hints.bw)] # EmptyBlock

(* The byte range published for a block holds every byte the decoder takes *)
(* for it and none of another block's, so that a consumer who fetches only *)
(* that range can decode the block alone.  Band-sequential segments of     *)
(* several bands keep a block in one piece per band and are left out.      *)
RangesHoldTheBlock ==
    (segment # NoFile /\ segment.ic = "NC" /\ (segment.imode = "S" => Bands = 1)) =>
       LET bh == BlockHeight(segment)
           bw == BlockWidth(segment)
           size == SampleUnits(depth)
       IN  \A p, q \in Grid(bh, bw) :
              LET range == TileByteRange(segment, p[1], p[2])
                  first == range.first * UnitsPerByte
                  beyond == first + range.length * UnitsPerByte
              IN  /\ beyond <= Len(segment.bytes)
                  /\ \A b \in BandSet, y \in 0 .. TileRows(bh, q[1]) - 1,
                        x \in 0 .. TileCols(bw, q[2]) - 1 :
                        LET at == ReadOffset(segment, q[1], q[2], b, y, x)
                        IN  IF p = q THEN first <= at /\ at + size <= beyond
                                     ELSE at + size <= first \/ beyond <= at

(* Every pixel of a finished file is something the image showed at that    *)
(* pixel while it was written, absent only where no block was there, and   *)
(* the copy of a file shows what the file holds.                           *)
Archive == INSTANCE PictureArchive WITH
    Pixels <- PixelSet,
    Stamps <- 1 .. MaxSets,
    picture <- shown,
    saved <- IF segment = NoFile THEN Nothing ELSE Picture(reader, reader.present)

KeepsThePicture == Archive!Spec
=============================================================================
