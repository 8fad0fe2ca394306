------------------------------ MODULE TileGrid ------------------------------
(***************************************************************************)
(* The geometry every image of the library shares: an image of Rows x Cols *)
(* pixels and Bands bands, cut into tiles of bh x bw pixels (the last ones *)
(* smaller), and the assembler that makes the tiles of one grid out of the *)
(* tiles of another (src/assembly/tile_assembler.rs).                      *)
(*                                                                         *)
(* A tile is what get_block returns: its shape and its samples in          *)
(* band-sequential order.  A source is a provider as the assembler sees    *)
(* it: its block size and, for each block of its grid, the tile it returns *)
(* or Missing when it returns an error.                                    *)
(***************************************************************************)
EXTENDS Integers, Sequences

CONSTANTS Rows, Cols, Bands

ASSUME DimensionsAssumption ==
    Rows \in Nat \ {0} /\ Cols \in Nat \ {0} /\ Bands \in Nat \ {0}

Missing == [bands |-> 0, rows |-> 0, cols |-> 0, data |-> <<>>]

\* The sample of a zero-initialised buffer, and of an absent block.
Fill == <<"fill">>

DivCeil(n, d) == (n + d - 1) \div d

Least(m, n) == IF m < n THEN m ELSE n

GridRows(bh) == DivCeil(Rows, bh)
GridCols(bw) == DivCeil(Cols, bw)
Grid(bh, bw) == (0 .. GridRows(bh) - 1) \X (0 .. GridCols(bw) - 1)

\* Blocks at the right and bottom edges hold only what is left of the image.
TileRows(bh, r) == IF r * bh + bh > Rows THEN Rows - r * bh ELSE bh
TileCols(bw, c) == IF c * bw + bw > Cols THEN Cols - c * bw ELSE bw

BandSet  == 0 .. Bands - 1
PixelSet == BandSet \X (0 .. Rows - 1) \X (0 .. Cols - 1)

-----------------------------------------------------------------------------
(* Flat positions (from 0) of sample (b, y, x) of a rows x cols block.     *)

FlatBands(rows, cols, b, y, x)  == (b * rows + y) * cols + x
FlatPixels(bands, cols, b, y, x) == (y * cols + x) * bands + b
FlatLines(bands, cols, b, y, x) == (y * bands + b) * cols + x

Sample(tile, b, y, x) ==
    tile.data[FlatBands(tile.rows, tile.cols, b, y, x) + 1]

\* A tile of the whole band set: band after band, row after row.
MakeTile(rows, cols, sample) ==
    [bands |-> Bands, rows |-> rows, cols |-> cols,
     data  |-> [n \in 1 .. Bands * rows * cols |->
                  sample[<<(n - 1) \div (rows * cols), ((n - 1) % (rows * cols)) \div cols,
                           (n - 1) % cols>>]]]

-----------------------------------------------------------------------------
GridsMatch(source, bh, bw) == source.bh = bh /\ source.bw = bw

\* The geometric has_block: does this output tile touch the image?
Overlaps(bh, bw, r, c) == c * bw < Cols /\ r * bh < Rows

\* The source blocks that the output tile (r, c) touches.
SourceBlocks(source, bh, bw, r, c) ==
    LET endY == Least(r * bh + bh, Rows)
        endX == Least(c * bw + bw, Cols)
    IN  ((r * bh) \div source.bh .. (endY - 1) \div source.bh)
          \X ((c * bw) \div source.bw .. (endX - 1) \div source.bw)

\* What copy_tile_region leaves at image row y, column x: the sample of the
\* block that covers it, addressed by the stride that block returned, and the
\* zero of the fresh buffer where the block is too short.
Copied(source, b, y, x) ==
    LET r == y \div source.bh
        c == x \div source.bw
        t == source.blocks[<<r, c>>]
    IN  IF y - r * source.bh < t.rows /\ x - c * source.bw < t.cols
          THEN Sample(t, b, y - r * source.bh, x - c * source.bw)
          ELSE Fill

OutputTile(source, bh, bw, r, c) ==
    LET rows == Least(r * bh + bh, Rows) - r * bh
        cols == Least(c * bw + bw, Cols) - c * bw
    IN  CASE GridsMatch(source, bh, bw) -> source.blocks[<<r, c>>]
          [] /\ ~GridsMatch(source, bh, bw)
             /\ \E p \in SourceBlocks(source, bh, bw, r, c) :
                   source.blocks[p] = Missing -> Missing
          [] OTHER ->
               MakeTile(rows, cols,
                 [p \in BandSet \X (0 .. rows - 1) \X (0 .. cols - 1) |->
                    Copied(source, p[1], r * bh + p[2], c * bw + p[3])])
=============================================================================
