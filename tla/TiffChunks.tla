----------------------------- MODULE TiffChunks -----------------------------
(***************************************************************************)
(* Tiles and strips of one TIFF directory: how the writer lays samples out *)
(* in them (pad_tile, bsq_to_interleaved, pack_subbyte_msb_first of        *)
(* src/tiff/writer.rs and src/bitpack.rs), how get_block takes them out    *)
(* again (src/tiff/image.rs), which chunks tile_byte_ranges publishes, and *)
(* what a virtual Zarr view makes of these with TiffTileCodec              *)
(* (src/bindings/codecs.rs, virtualizarr_parsers.py).                      *)
(*                                                                         *)
(* A directory d has rows, cols, spp samples per pixel of `bits' bits in   *)
(* SampleFormat `format', chunks of bh x bw pixels (strips are as wide as  *)
(* the image, and the last one may be short), `of', the image it was made  *)
(* of, and `holds', what the writer made of that image's samples.  A chunk *)
(* is a sequence of cells of one sample; samples of less than a byte fill  *)
(* up each row to a byte boundary.  Compression is left out: libtiff       *)
(* undoes it, for JPEG up to its loss.                                     *)
(***************************************************************************)
EXTENDS Integers, Sequences

CONSTANT TileMultiple    \* 16 in the code

ASSUME TileMultipleAssumption == TileMultiple \in Nat \ {0}

Sample(of, b, y, x) == <<of, b, y, x>>
Nonzero(s) == <<"nonzero", s>>    \* 1 where s is not zero, else 0 (coerce_subbyte)
Pad     == <<"pad">>       \* padding of a chunk
Zero    == <<"zero">>      \* the zero a reader puts where a chunk is too short
Misread == <<"misread">>   \* what a cell cut from the wrong place may be

\* The sample of directory d at a place.
Stored(d, b, y, x) ==
    CASE d.holds = "samples" -> Sample(d.of, b, y, x)
      [] d.holds = "nonzero" -> Nonzero(Sample(d.of, b, y, x))
      [] d.holds = "misread" -> Misread

\* Widths that samples are written with: less than a byte only as
\* pack_subbyte_msb_first takes them.
Widths == {1, 2, 4} \cup 8 .. 64

HasGeometry(d) ==
    /\ {d.rows, d.cols, d.spp, d.bh, d.bw} \subseteq Nat \ {0}
    /\ d.bits \in Widths
    /\ {d.tiled, d.planar} \subseteq BOOLEAN
    /\ d.tiled \/ d.bw = d.cols

\* The sample formats and widths map_pixel_type accepts.
ReadableFormats ==
    ({"uint"} \X {1, 2, 4, 8, 16, 32}) \cup ({"int"} \X {8, 16, 32})
      \cup ({"float"} \X {32, 64})

\* What libtiff may find in a directory and map_pixel_type accepts.
IsDirectory(d) ==
    /\ HasGeometry(d)
    /\ <<d.format, d.bits>> \in ReadableFormats
    /\ d.holds = "samples"
    /\ d.type \in Nat

DivCeil(n, k) == (n + k - 1) \div k
RoundUp(n, k) == DivCeil(n, k) * k
Least(m, n)   == IF m < n THEN m ELSE n

SamplesPerByte(bits) == IF bits < 8 THEN 8 \div bits ELSE 1
RowCells(bits, n)    == RoundUp(n, SamplesPerByte(bits))

Across(d) == DivCeil(d.cols, d.bw)
Down(d)   == DivCeil(d.rows, d.bh)
Blocks(d) == (0 .. Down(d) - 1) \X (0 .. Across(d) - 1)

BlockRows(d, r) == Least(d.bh, d.rows - r * d.bh)
BlockCols(d, c) == Least(d.bw, d.cols - c * d.bw)

Planes(d)        == IF d.planar THEN d.spp ELSE 1
SamplesPerRow(d) == IF d.planar THEN d.bw ELSE d.bw * d.spp
ChunkRows(d, r)  == IF d.tiled THEN d.bh ELSE BlockRows(d, r)

Pixels(d) == (0 .. d.spp - 1) \X (0 .. d.rows - 1) \X (0 .. d.cols - 1)

-----------------------------------------------------------------------------
(* The writer.                                                             *)

\* Chunk n (from 0): plane after plane, or all samples of a pixel together.
Chunk(d, n) ==
    LET spatial == Down(d) * Across(d)
        r == (n % spatial) \div Across(d)
        c == n % Across(d)
        width == RowCells(d.bits, SamplesPerRow(d))
    IN  [k \in 1 .. ChunkRows(d, r) * width |->
           LET y == (k - 1) \div width
               s == (k - 1) % width
               x == IF d.planar THEN s ELSE s \div d.spp
               b == IF d.planar THEN n \div spatial ELSE s % d.spp
           IN  IF s < SamplesPerRow(d) /\ y < BlockRows(d, r) /\ x < BlockCols(d, c)
                 THEN Stored(d, b, r * d.bh + y, c * d.bw + x)
                 ELSE Pad]

-----------------------------------------------------------------------------
(* The reader.                                                             *)

\* Faulty variant: rows are not padded to a byte.
UnpackDense(bits, raw, perRow, rows) ==
    [k \in 1 .. perRow * rows |-> IF k <= Len(raw) THEN raw[k] ELSE Zero]

\* unpack_subbyte_msb_first; whole bytes stay as they are.
Unpack(bits, raw, perRow, rows) ==
    IF bits >= 8
      THEN raw
      ELSE [k \in 1 .. perRow * rows |->
              LET cell == (((k - 1) \div perRow) * RowCells(bits, perRow)) + ((k - 1) % perRow)
              IN  IF cell < Len(raw) THEN raw[cell + 1] ELSE Zero]

CellAt(raw, k) == IF k < Len(raw) THEN raw[k + 1] ELSE Zero

\* resolve_bands with and without a selection.
AllBands(d) == [b \in 1 .. d.spp |-> b - 1]

\* Faulty variant: the planes of a tile follow each other.
ChunkIndexesByTile(d, p, bands) ==
    IF d.planar
      THEN [i \in DOMAIN bands |-> (p[1] * Across(d) + p[2]) * d.spp + bands[i]]
      ELSE <<p[1] * Across(d) + p[2]>>

\* The chunks get_block reads for some bands of block p = <<row, column>>.
ChunkIndexes(d, p, bands) ==
    IF d.planar
      THEN [i \in DOMAIN bands |-> p[1] * Across(d) + p[2] + bands[i] * Down(d) * Across(d)]
      ELSE <<p[1] * Across(d) + p[2]>>

\* The bands of the block one after the other, from those chunks.
DecodeBlock(d, p, bands, raws) ==
    LET plain == [i \in DOMAIN raws |->
                    Unpack(d.bits, raws[i], SamplesPerRow(d), ChunkRows(d, p[1]))]
    IN  [i \in DOMAIN bands |->
           [q \in (0 .. BlockRows(d, p[1]) - 1) \X (0 .. BlockCols(d, p[2]) - 1) |->
              IF d.planar
                THEN CellAt(plain[i], q[1] * d.bw + q[2])
                ELSE CellAt(plain[1], (q[1] * d.bw + q[2]) * d.spp + bands[i])]]

\* What the caller should get.
BlockSamples(d, p, bands) ==
    [i \in DOMAIN bands |->
       [q \in (0 .. BlockRows(d, p[1]) - 1) \X (0 .. BlockCols(d, p[2]) - 1) |->
          Stored(d, bands[i], p[1] * d.bh + q[1], p[2] * d.bw + q[2])]]

-----------------------------------------------------------------------------
(* The virtual view.                                                       *)

\* Faulty variant: every plane is given the chunk of the first one.
RangesOfFirstPlane(d) ==
    [p \in Blocks(d) |-> [b \in 1 .. Planes(d) |-> p[1] * Across(d) + p[2]]]

\* tile_byte_ranges: the chunks of each block, in band order.
Ranges(d) ==
    [p \in Blocks(d) |->
       [b \in 1 .. Planes(d) |-> (b - 1) * (Down(d) * Across(d)) + p[1] * Across(d) + p[2]]]

\* codec_configuration has an answer.
Configured(d) ==
    \/ d.compression = "none" /\ d.spp > 1
    \/ d.compression \in {"lzw", "jpeg", "packbits"}

\* _build_manifest_array accepts the directory: without a codec the bytes of
\* a chunk have to be the samples of one band, so packed ones are refused.
Indexable(d) == Configured(d) \/ (d.bits >= 8 /\ d.spp = 1)

\* No strip is shorter than the others.
WholeStrips(d) == d.tiled \/ d.rows % d.bh = 0

PerPlane(d) == d.planar /\ d.spp > 1 /\ Configured(d)

\* decode_tiff_tile: the tile alone, always of full size.
DecodedTile(d, raw, bands) ==
    LET plain == Unpack(d.bits, raw, d.bw * bands, d.bh)
    IN  [p \in (0 .. bands - 1) \X (0 .. d.bh - 1) \X (0 .. d.bw - 1) |->
           CellAt(plain, (p[2] * d.bw + p[3]) * bands + p[1])]

\* A sample of the view whose chunks are where ranges says.
ViewSample(d, ranges, b, y, x) ==
    LET chunks == ranges[<<y \div d.bh, x \div d.bw>>]
    IN  IF PerPlane(d)
          THEN DecodedTile(d, Chunk(d, chunks[b + 1]), 1)[<<0, y % d.bh, x % d.bw>>]
          ELSE IF Configured(d)
                 THEN DecodedTile(d, Chunk(d, chunks[1]), d.spp)[<<b, y % d.bh, x % d.bw>>]
                 ELSE CellAt(Chunk(d, chunks[1]), ((y % d.bh) * d.bw) + (x % d.bw))
=============================================================================
