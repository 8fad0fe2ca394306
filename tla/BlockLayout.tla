---------------------------- MODULE BlockLayout -----------------------------
(***************************************************************************)
(* Where an uncompressed JBP image segment keeps its samples: the offsets  *)
(* UncompressedBlockEncoder writes to, those UncompressedBlockDecoder      *)
(* reads from, the image data mask in front of a masked segment, and what  *)
(* JBPImageAssetProvider answers from them (src/jbp/image/nc_encoder.rs,   *)
(* nc_decoder.rs, mask.rs, src/jbp/asset.rs).                              *)
(*                                                                         *)
(* Bytes are kept as units of four bits, which divides every bit depth     *)
(* checked.  Unit k of the big-endian container of value v is <<v, k>>: a  *)
(* decoder that takes the wrong units, or in the wrong order, finds no     *)
(* value.  The two formulas are kept apart, each from its own source.      *)
(***************************************************************************)
EXTENDS TileGrid

Modes == {"B", "P", "R", "S"}

\* Table bytes, samples no value explains, and the empty record of a mask.
Garbled    == <<"garbled">>
Table      == <<<<"table">>, 0>>
EmptyBlock == -1
NoMask   == [imdatoff |-> 0, records |-> <<>>]

UnitsPerByte == 2

BytesPerPixel(depth)  == DivCeil(depth, 8)
ContainerUnits(depth) == BytesPerPixel(depth) * UnitsPerByte
IsBitPacked(depth)    == depth % 8 # 0
SampleUnits(depth)    == depth \div 4
BandBytes(depth, bh, bw)  == DivCeil(bh * bw * depth, 8)
BlockBytes(depth, bh, bw) == BandBytes(depth, bh, bw) * Bands

Unit(v, k) == <<v, IF v = Fill THEN 0 ELSE k>>

\* The last n units of a sample's container: all of them, or the low bits that
\* packing keeps.
LowUnits(depth, v, n) ==
    [k \in 1 .. n |-> Unit(v, ContainerUnits(depth) - n + k)]

\* The value whose container ends with these units, or Garbled.
ValueOf(depth, units) ==
    LET v == units[Len(units)][1]
    IN  IF units = LowUnits(depth, v, Len(units)) THEN v ELSE Garbled

\* from_band_sequential, to_band_sequential: position of a sample in a block
\* of the mode's order.
ModePosition(imode, rows, cols, b, y, x) ==
    CASE Bands = 1 \/ imode \in {"S", "B"} -> FlatBands(rows, cols, b, y, x)
      [] Bands # 1 /\ imode = "P"          -> FlatPixels(Bands, cols, b, y, x)
      [] Bands # 1 /\ imode = "R"          -> FlatLines(Bands, cols, b, y, x)

\* Faulty variant: pixel-interleaved blocks are taken for line-interleaved ones.
ModeSampleByLine(imode, tile, k) ==
    LET n == tile.bands
    IN  IF n = 1 \/ imode \in {"S", "B"}
          THEN tile.data[k + 1]
          ELSE Sample(tile, (k \div tile.cols) % n, k \div (n * tile.cols), k % tile.cols)

\* The other way: the sample at position k of a block of the mode's order.
ModeSample(imode, tile, k) ==
    LET n == tile.bands
    IN  CASE n = 1 \/ imode \in {"S", "B"} -> tile.data[k + 1]
          [] n # 1 /\ imode = "P" ->
               Sample(tile, k % n, k \div (n * tile.cols), (k \div n) % tile.cols)
          [] n # 1 /\ imode = "R" ->
               Sample(tile, (k \div tile.cols) % n, k \div (n * tile.cols), k % tile.cols)

BlockIndex(bw, r, c) == r * GridCols(bw) + c
BlockCount(bh, bw)   == GridRows(bh) * GridCols(bw)

-----------------------------------------------------------------------------
(* The encoder.                                                            *)

\* First unit (from 0) the encoder gives the sample (b, y, x) of block (r, c).
WriteOffset(h, r, c, b, y, x) ==
    LET index == BlockIndex(h.bw, r, c)
        rows  == TileRows(h.bh, r)
        cols  == TileCols(h.bw, c)
        band  == BandBytes(h.depth, h.bh, h.bw) * UnitsPerByte
        block == BlockBytes(h.depth, h.bh, h.bw) * UnitsPerByte
        size  == SampleUnits(h.depth)
        position == ModePosition(h.imode, rows, cols, b, y, x)
    IN  CASE h.imode = "S" /\ IsBitPacked(h.depth) ->
                (b * BlockCount(h.bh, h.bw) + index) * band
                  + (position % (rows * cols)) * size
          [] h.imode = "S" /\ ~IsBitPacked(h.depth) ->
                (b * BlockCount(h.bh, h.bw) + index) * band
                  + y * h.bw * size + x * size
          [] h.imode # "S" /\ IsBitPacked(h.depth) ->
                \* Bands equal slices of the converted block, each packed alone
                index * block + (position \div (rows * cols)) * band
                  + (position % (rows * cols)) * size
          [] h.imode = "B" /\ ~IsBitPacked(h.depth) ->
                index * block + b * h.bh * h.bw * size + y * h.bw * size + x * size
          [] h.imode = "P" /\ ~IsBitPacked(h.depth) ->
                index * block + y * h.bw * Bands * size + (x * Bands + b) * size
          [] h.imode = "R" /\ ~IsBitPacked(h.depth) ->
                index * block + y * (h.bw * size) * Bands + b * (h.bw * size) + x * size

EncoderUnits(h) ==
    BlockCount(h.bh, h.bw) * BlockBytes(h.depth, h.bh, h.bw) * UnitsPerByte

\* The zeroed buffer with the block's samples copied over it.
EncodeBlock(h, bytes, r, c, tile) ==
    LET size == SampleUnits(h.depth)
        cells == {[at |-> WriteOffset(h, r, c, p[1], p[2], p[3]),
                   units |-> LowUnits(h.depth, Sample(tile, p[1], p[2], p[3]), size)] :
                    p \in BandSet \X (0 .. tile.rows - 1) \X (0 .. tile.cols - 1)}
    IN  [k \in DOMAIN bytes |->
           IF \E w \in cells : k - w.at \in 1 .. size
             THEN LET w == CHOOSE w \in cells : k - w.at \in 1 .. size
                  IN  w.units[k - w.at]
             ELSE bytes[k]]

\* encode_block accepts only a tile of the block's own shape.
Encodable(h, r, c, tile) ==
    /\ tile.bands = Bands
    /\ tile.rows = TileRows(h.bh, r)
    /\ tile.cols = TileCols(h.bw, c)
    /\ Len(tile.data) = tile.bands * tile.rows * tile.cols

\* A masked block goes out as it is: converted, never packed, no row padding.
MaskedUnits(h, tile) ==
    LET size == ContainerUnits(h.depth)
    IN  [k \in 1 .. tile.bands * tile.rows * tile.cols * size |->
           LowUnits(h.depth, ModeSample(h.imode, tile, (k - 1) \div size), size)
             [((k - 1) % size) + 1]]

-----------------------------------------------------------------------------
(* The image data mask.                                                    *)

RecordCount(h) ==
    BlockCount(h.bh, h.bw) * (IF h.imode = "S" THEN Bands ELSE 1)

\* Faulty variant: a zeroed table, in which nothing is absent.
InitialRecordsZeroed(h, provided) == [n \in 0 .. RecordCount(h) - 1 |-> 0]

\* from_provided_blocks: a placeholder for every record of a provided block.
\* For IMODE=S the records of one block follow each other.
InitialRecords(h, provided) ==
    [n \in 0 .. RecordCount(h) - 1 |->
       IF \E p \in provided \cap Grid(h.bh, h.bw) :
             IF h.imode = "S"
               THEN n \div Bands = BlockIndex(h.bw, p[1], p[2])
               ELSE n = BlockIndex(h.bw, p[1], p[2])
         THEN 0
         ELSE EmptyBlock]

\* to_bytes: the ten header bytes and four per record.
MaskBytes(h) == 10 + 4 * RecordCount(h)

\* Faulty variant: the header is left out of the data offset.
MaskTableOfRecords(h, records) == [imdatoff |-> 4 * RecordCount(h), records |-> records]

MaskTable(h, records) == [imdatoff |-> MaskBytes(h), records |-> records]

\* calculate_block_index with band 0, the one the provider asks for.
MaskIndex(seg, r, c) == r * seg.nbpr + c

MaskHasBlock(seg, r, c) ==
    MaskIndex(seg, r, c) \in DOMAIN seg.mask.records
      /\ seg.mask.records[MaskIndex(seg, r, c)] # EmptyBlock

-----------------------------------------------------------------------------
(* The decoder and the provider on top of it.                              *)

\* effective_nppbh and effective_nppbv: 0 stands for the whole image.
BlockHeight(seg) == IF seg.nppbv = 0 THEN Rows ELSE seg.nppbv
BlockWidth(seg)  == IF seg.nppbh = 0 THEN Cols ELSE seg.nppbh

\* First unit the decoder takes for the sample (b, y, x) of block (r, c).
ReadOffset(seg, r, c, b, y, x) ==
    LET bh == BlockHeight(seg)
        bw == BlockWidth(seg)
        rows == TileRows(bh, r)
        cols == TileCols(bw, c)
        band == BandBytes(seg.depth, bh, bw) * UnitsPerByte
        size == SampleUnits(seg.depth)
        start == IF seg.imode = "S"
                   THEN (r * seg.nbpr + c) * band
                   ELSE (r * seg.nbpr + c) * band * Bands
        k == ModePosition(seg.imode, rows, cols, b, y, x)
        plane == rows * cols
    IN  CASE seg.imode = "S" ->
                start + b * (seg.nbpr * seg.nbpc) * band
                  + (IF IsBitPacked(seg.depth) THEN y * cols + x ELSE y * bw + x) * size
          [] seg.imode # "S" /\ IsBitPacked(seg.depth) ->
                start + (k \div plane) * band + (k % plane) * size
          [] seg.imode = "B" /\ ~IsBitPacked(seg.depth) ->
                start + ((b * bh + y) * bw + x) * size
          [] seg.imode = "P" /\ ~IsBitPacked(seg.depth) ->
                start + ((y * bw + x) * Bands + b) * size
          [] seg.imode = "R" /\ ~IsBitPacked(seg.depth) ->
                start + ((y * Bands + b) * bw + x) * size

DecodeBlock(seg, r, c) ==
    LET rows == TileRows(BlockHeight(seg), r)
        cols == TileCols(BlockWidth(seg), c)
    IN  MakeTile(rows, cols,
          [p \in BandSet \X (0 .. rows - 1) \X (0 .. cols - 1) |->
             LET at == ReadOffset(seg, r, c, p[1], p[2], p[3])
             IN  ValueOf(seg.depth,
                         SubSeq(seg.bytes, at + 1, at + SampleUnits(seg.depth)))])

\* decode_block_at_offset: the actual shape, contiguous, in container size.
DecodeBlockAtOffset(seg, offset, r, c) ==
    LET rows == TileRows(BlockHeight(seg), r)
        cols == TileCols(BlockWidth(seg), c)
        size == ContainerUnits(seg.depth)
    IN  IF offset * UnitsPerByte + Bands * rows * cols * size > Len(seg.bytes)
          THEN Missing
          ELSE MakeTile(rows, cols,
                 [p \in BandSet \X (0 .. rows - 1) \X (0 .. cols - 1) |->
                    LET at == offset * UnitsPerByte
                               + ModePosition(seg.imode, rows, cols, p[1], p[2], p[3]) * size
                    IN  ValueOf(seg.depth, SubSeq(seg.bytes, at + 1, at + size))])

SegmentHasBlock(seg, r, c) ==
    IF seg.mask # NoMask
      THEN MaskHasBlock(seg, r, c)
      ELSE r < seg.nbpc /\ c < seg.nbpr

SegmentGetBlock(seg, r, c) ==
    LET rows == TileRows(BlockHeight(seg), r)
        cols == TileCols(BlockWidth(seg), c)
    IN  IF seg.mask = NoMask
          THEN DecodeBlock(seg, r, c)
          ELSE IF MaskHasBlock(seg, r, c)
                 THEN DecodeBlockAtOffset(seg,
                        seg.mask.imdatoff + seg.mask.records[MaskIndex(seg, r, c)], r, c)
                 ELSE MakeTile(rows, cols,
                        [p \in BandSet \X (0 .. rows - 1) \X (0 .. cols - 1) |-> Fill])

\* Faulty variant: the length of one band.
TileByteRangeOfBand(seg, r, c) ==
    LET band == BandBytes(seg.depth, BlockHeight(seg), BlockWidth(seg))
    IN  [first |-> (r * seg.nbpr + c) * (IF seg.imode = "S" THEN band ELSE band * Bands),
         length |-> band]

\* tile_byte_ranges of an unmasked segment: first byte and length.
TileByteRange(seg, r, c) ==
    LET bh == BlockHeight(seg)
        bw == BlockWidth(seg)
        index == r * seg.nbpr + c
    IN  [first |-> index * (IF seg.imode = "S"
                              THEN BandBytes(seg.depth, bh, bw)
                              ELSE BlockBytes(seg.depth, bh, bw)),
         length |-> BlockBytes(seg.depth, bh, bw)]
=============================================================================
