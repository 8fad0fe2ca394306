------------------------- MODULE ImageSegmentProofs -------------------------
(***************************************************************************)
(* Proofs about ImageSegment for every image size, block size, bit depth   *)
(* and number of bands: the grid arithmetic of TileGrid, the agreement of  *)
(* the encoder's and the decoder's offsets, the invariant of the writer's  *)
(* loop that makes the mask right, and the refinement of PictureArchive:   *)
(* what a history of paints, writes and copies may show.                   *)
(***************************************************************************)
EXTENDS ImageSegment, BasicLemmas, SequenceTheorems, TLAPS

-----------------------------------------------------------------------------
(* The grid *)

\* A block size gives at least one block, and the last one starts inside.
LEMMA Ceiling ==
  ASSUME NEW n \in Nat \ {0}, NEW d \in Nat \ {0}
  PROVE  /\ DivCeil(n, d) \in Nat \ {0}
         /\ \A k \in 0 .. n - 1 : k \div d \in 0 .. DivCeil(n, d) - 1
         /\ \A q \in 0 .. DivCeil(n, d) - 1 : q * d < n
<1> DEFINE g == DivCeil(n, d)
<1>1. n + d - 1 \in Nat
  OBVIOUS
<1>2. g \in Nat /\ (n + d - 1) % d \in 0 .. d - 1
        /\ n + d - 1 = g * d + ((n + d - 1) % d)
  BY <1>1, Division DEF DivCeil
<1>3. PICK s \in 0 .. d - 1 : n + d - 1 = g * d + s
  BY <1>2
<1> HIDE DEF g
<1>4. g * d \in Nat
  BY <1>2, SMTT(10)
<1>5. g * d >= n
  BY <1>3, <1>4
<1>6. g # 0
  BY <1>2, <1>5, SMTT(10)
<1>7. ASSUME NEW k \in 0 .. n - 1
      PROVE  k \div d \in 0 .. g - 1
  <2>1. k \in 0 .. g * d - 1
    BY <1>4, <1>5
  <2>2. QED
    BY <1>2, <2>1, RowMajor
<1>8. ASSUME NEW q \in 0 .. g - 1
      PROVE  q * d < n
  <2>1. (q + 1) * d <= g * d
    BY <1>2, SMTT(10)
  <2>2. (q + 1) * d = q * d + d
    BY SMTT(10)
  <2>3. q * d \in Nat
    BY SMTT(10)
  <2>4. QED
    BY <1>3, <1>4, <2>1, <2>2, <2>3
<1>9. QED
  BY <1>2, <1>6, <1>7, <1>8 DEF g

(* Every pixel of the image lies in exactly one tile of every grid, inside *)
(* the extent actual_block_dimensions gives that tile: assembling and      *)
(* cutting tiles neither loses nor doubles a pixel, edges included.        *)
THEOREM TilesPartitionTheImage ==
  ASSUME NEW bh \in Nat \ {0}, NEW bw \in Nat \ {0},
         NEW y \in 0 .. Rows - 1, NEW x \in 0 .. Cols - 1
  PROVE  /\ <<y \div bh, x \div bw>> \in Grid(bh, bw)
         /\ y - (y \div bh) * bh \in 0 .. TileRows(bh, y \div bh) - 1
         /\ x - (x \div bw) * bw \in 0 .. TileCols(bw, x \div bw) - 1
         /\ \A r \in 0 .. GridRows(bh) - 1, c \in 0 .. GridCols(bw) - 1 :
               (/\ y - r * bh \in 0 .. TileRows(bh, r) - 1
                /\ x - c * bw \in 0 .. TileCols(bw, c) - 1)
               => r = y \div bh /\ c = x \div bw
<1>1. ASSUME NEW n \in Nat \ {0}, NEW d \in Nat \ {0}, NEW k \in 0 .. n - 1
      PROVE  LET size(q) == IF q * d + d > n THEN n - q * d ELSE d
             IN  /\ k - (k \div d) * d \in 0 .. size(k \div d) - 1
                 /\ \A q \in 0 .. DivCeil(n, d) - 1 :
                       k - q * d \in 0 .. size(q) - 1 => q = k \div d
  <2> DEFINE size(q) == IF q * d + d > n THEN n - q * d ELSE d
  <2>1. k \div d \in Nat /\ k % d \in 0 .. d - 1 /\ k = (k \div d) * d + (k % d)
    <3>1. k \in Nat
      OBVIOUS
    <3>2. QED
      BY <3>1, Division
  <2>2. (k \div d) * d \in Nat
    BY <2>1, SMTT(10)
  <2>3. k - (k \div d) * d \in 0 .. size(k \div d) - 1
    <3> DEFINE m == (k \div d) * d
    <3>1. m \in Nat /\ k - m \in 0 .. d - 1
      BY <2>1, <2>2
    <3> HIDE DEF m
    <3>2. CASE m + d > n
      <4>1. k - m \in 0 .. (n - m) - 1
        BY <3>1
      <4>2. QED
        BY <3>2, <4>1 DEF m
    <3>3. CASE ~(m + d > n)
      BY <3>1, <3>3 DEF m
    <3>4. QED
      BY <3>2, <3>3
  <2>4. ASSUME NEW q \in 0 .. DivCeil(n, d) - 1, k - q * d \in 0 .. size(q) - 1
        PROVE  q = k \div d
    <3>1. DivCeil(n, d) \in Nat
      BY Ceiling
    <3>2. q \in Nat /\ q * d \in Nat
      BY <3>1, SMTT(10)
    <3>3. PICK r \in 0 .. d - 1 : k = q * d + r
      <4>1. k - q * d \in 0 .. d - 1
        BY <2>4, <3>2
      <4>2. k = q * d + (k - q * d)
        BY <3>2
      <4>3. QED
        BY <4>1, <4>2
    <3>4. QED
      BY <3>2, <3>3, QuotientAndRemainder
  <2>5. QED
    BY <2>3, <2>4
<1>2. Rows \in Nat \ {0} /\ Cols \in Nat \ {0}
  BY DimensionsAssumption
<1>3. y \div bh \in 0 .. GridRows(bh) - 1 /\ x \div bw \in 0 .. GridCols(bw) - 1
  BY <1>2, Ceiling DEF GridRows, GridCols
<1>4. QED
  BY <1>1, <1>2, <1>3 DEF Grid, GridRows, GridCols, TileRows, TileCols

-----------------------------------------------------------------------------
(* Offsets *)

\* The fields of a segment that the writer fills in from its hints.
Describes(seg, h) ==
    /\ seg.imode = h.imode
    /\ seg.depth = h.depth
    /\ seg.nbpr = GridCols(h.bw)
    /\ seg.nbpc = GridRows(h.bh)
    /\ seg.nppbh = IF h.bw = Cols THEN 0 ELSE h.bw
    /\ seg.nppbv = IF h.bh = Rows THEN 0 ELSE h.bh

\* What validate_encoding_hints lets through.
Sound(h) ==
    /\ h.bh \in 1 .. Rows
    /\ h.bw \in 1 .. Cols
    /\ h.imode \in Modes
    /\ h.depth \in {4, 8, 12, 16}

LEMMA DescribedShape ==
  ASSUME NEW h, NEW seg, Sound(h), Describes(seg, h)
  PROVE  BlockHeight(seg) = h.bh /\ BlockWidth(seg) = h.bw
BY DimensionsAssumption DEF Sound, Describes, BlockHeight, BlockWidth

LEMMA TileShape ==
  ASSUME NEW bh \in Nat \ {0}, NEW bw \in Nat \ {0},
         NEW r \in 0 .. GridRows(bh) - 1, NEW c \in 0 .. GridCols(bw) - 1
  PROVE  TileRows(bh, r) \in 1 .. bh /\ TileCols(bw, c) \in 1 .. bw
<1>1. Rows \in Nat \ {0} /\ Cols \in Nat \ {0}
  BY DimensionsAssumption
<1>2. GridRows(bh) \in Nat /\ GridCols(bw) \in Nat
  BY <1>1, Ceiling DEF GridRows, GridCols
<1>3. r * bh < Rows /\ c * bw < Cols
  BY <1>1, Ceiling DEF GridRows, GridCols
<1>4. r * bh \in Nat /\ c * bw \in Nat
  BY <1>2, SMTT(10)
<1>5. QED
  BY <1>1, <1>3, <1>4 DEF TileRows, TileCols

\* Band-after-band positions split into the band and the place in its plane.
LEMMA BandPosition ==
  ASSUME NEW rows \in Nat \ {0}, NEW cols \in Nat \ {0},
         NEW b \in BandSet, NEW y \in 0 .. rows - 1, NEW x \in 0 .. cols - 1
  PROVE  /\ rows * cols \in Nat \ {0}
         /\ y * cols + x \in 0 .. rows * cols - 1
         /\ FlatBands(rows, cols, b, y, x) = b * (rows * cols) + (y * cols + x)
         /\ FlatBands(rows, cols, b, y, x) \div (rows * cols) = b
         /\ FlatBands(rows, cols, b, y, x) % (rows * cols) = y * cols + x
<1> DEFINE n == rows * cols
           k == y * cols + x
<1>1. n \in Nat \ {0}
  BY SMTT(10)
<1>2. k \in 0 .. n - 1
  BY RowMajor
<1>3. FlatBands(rows, cols, b, y, x) = b * n + k
  <2>1. (b * rows + y) * cols + x = b * (rows * cols) + (y * cols + x)
    BY DimensionsAssumption, SMTT(10) DEF BandSet
  <2>2. QED
    BY <2>1 DEF FlatBands
<1>4. b \in Nat
  BY DimensionsAssumption DEF BandSet
<1>5. (b * n + k) \div n = b /\ (b * n + k) % n = k
  <2> HIDE DEF n, k
  <2>1. QED
    BY <1>1, <1>2, <1>4, QuotientAndRemainder
<1>6. QED
  BY <1>1, <1>2, <1>3, <1>5

(* UncompressedBlockDecoder takes every sample from the place where        *)
(* UncompressedBlockEncoder put it, for every image size, block size, bit  *)
(* depth, number of bands and interleave mode, in edge blocks too.         *)
THEOREM OffsetsAgree ==
  ASSUME NEW h, NEW seg, Sound(h), Describes(seg, h),
         NEW r \in 0 .. GridRows(h.bh) - 1, NEW c \in 0 .. GridCols(h.bw) - 1,
         NEW b \in BandSet,
         NEW y \in 0 .. TileRows(h.bh, r) - 1, NEW x \in 0 .. TileCols(h.bw, c) - 1
  PROVE  WriteOffset(h, r, c, b, y, x) = ReadOffset(seg, r, c, b, y, x)
<1> DEFINE rows == TileRows(h.bh, r)
           cols == TileCols(h.bw, c)
           bytes == BandBytes(h.depth, h.bh, h.bw)
           size == SampleUnits(h.depth)
           index == r * GridCols(h.bw) + c
           blocks == GridRows(h.bh) * GridCols(h.bw)
           k == ModePosition(h.imode, rows, cols, b, y, x)
           packed == IsBitPacked(h.depth)
<1>1. /\ h.bh \in Nat \ {0} /\ h.bw \in Nat \ {0}
      /\ h.depth \in Nat \ {0}
      /\ Bands \in Nat \ {0} /\ b \in Nat
  BY DimensionsAssumption DEF Sound, BandSet
<1>2. /\ rows \in Nat \ {0} /\ cols \in Nat \ {0}
      /\ y \in Nat /\ x \in Nat
  BY <1>1, TileShape
<1>3. /\ BlockHeight(seg) = h.bh /\ BlockWidth(seg) = h.bw
      /\ seg.imode = h.imode /\ seg.depth = h.depth
      /\ seg.nbpr = GridCols(h.bw) /\ seg.nbpc = GridRows(h.bh)
  BY DescribedShape DEF Describes
<1>4. GridRows(h.bh) \in Nat /\ GridCols(h.bw) \in Nat
  BY <1>1, DimensionsAssumption, Ceiling DEF GridRows, GridCols
<1>5. bytes \in Nat /\ size \in Nat /\ index \in Nat /\ blocks \in Nat
  <2>1. size \in Nat
    BY DEF Sound, SampleUnits
  <2>2. index \in Nat /\ blocks \in Nat
    BY <1>4, SMTT(10)
  <2>3. h.bh * h.bw * h.depth \in Nat
    BY <1>1, SMTT(10)
  <2>4. bytes \in Nat
    BY <2>3, Division DEF BandBytes, DivCeil
  <2>5. QED
    BY <2>1, <2>2, <2>4
<1>6. CASE h.imode = "S"
  <2>1. k = FlatBands(rows, cols, b, y, x)
    BY <1>6 DEF ModePosition
  <2>2. k % (rows * cols) = y * cols + x
    <3>1. y \in 0 .. rows - 1 /\ x \in 0 .. cols - 1
      OBVIOUS
    <3> HIDE DEF rows, cols, k
    <3>2. QED
      BY <1>2, <2>1, <3>1, BandPosition
  <2>3. WriteOffset(h, r, c, b, y, x) =
          (b * blocks + index) * (bytes * 2)
            + (IF packed THEN (y * cols + x) * size ELSE y * h.bw * size + x * size)
    <3>1. CASE packed
      <4>1. WriteOffset(h, r, c, b, y, x) =
              (b * blocks + index) * (bytes * 2) + (k % (rows * cols)) * size
        BY <1>6, <3>1 DEF WriteOffset, BlockCount, BlockIndex, UnitsPerByte
      <4> HIDE DEF bytes, size, index, blocks, rows, cols, k
      <4>2. QED
        BY <2>2, <3>1, <4>1
    <3>2. CASE ~packed
      <4>1. WriteOffset(h, r, c, b, y, x) =
              (b * blocks + index) * (bytes * 2) + y * h.bw * size + x * size
        BY <1>6, <3>2 DEF WriteOffset, BlockCount, BlockIndex, UnitsPerByte
      <4>2. /\ (b * blocks + index) * (bytes * 2) \in Nat
            /\ y * h.bw * size \in Nat /\ x * size \in Nat
        BY <1>1, <1>2, <1>5, SMTT(10)
      <4> HIDE DEF bytes, size, index, blocks, rows, cols, k
      <4>3. QED
        BY <3>2, <4>1, <4>2
    <3>3. QED
      BY <3>1, <3>2
  <2>4. ReadOffset(seg, r, c, b, y, x) =
          index * (bytes * 2) + b * blocks * (bytes * 2)
            + (IF packed THEN (y * cols + x) * size ELSE (y * h.bw + x) * size)
    <3>1. b * (GridCols(h.bw) * GridRows(h.bh)) = b * blocks
      BY <1>1, <1>4, SMTT(10)
    <3>2. QED
      BY <1>3, <1>6, <3>1 DEF ReadOffset, UnitsPerByte
  <2> HIDE DEF bytes, size, index, blocks, rows, cols
  <2>5. (b * blocks + index) * (bytes * 2) = index * (bytes * 2) + b * blocks * (bytes * 2)
    BY <1>1, <1>5, SMTT(10)
  <2>6. y * h.bw * size + x * size = (y * h.bw + x) * size
    BY <1>1, <1>2, <1>5, SMTT(10)
  <2>7. QED
    BY <2>3, <2>4, <2>5, <2>6
<1>7. CASE h.imode # "S" /\ packed
  <2>1. WriteOffset(h, r, c, b, y, x) =
          index * (bytes * Bands * 2) + (k \div (rows * cols)) * (bytes * 2)
            + (k % (rows * cols)) * size
    BY <1>7 DEF WriteOffset, BlockBytes, BlockIndex, UnitsPerByte
  <2>2. ReadOffset(seg, r, c, b, y, x) =
          index * (bytes * 2) * Bands + (k \div (rows * cols)) * (bytes * 2)
            + (k % (rows * cols)) * size
    BY <1>3, <1>7 DEF ReadOffset, UnitsPerByte
  <2> HIDE DEF bytes, size, index, blocks, rows, cols, k
  <2>3. index * (bytes * Bands * 2) = index * (bytes * 2) * Bands
    BY <1>1, <1>5, SMTT(10)
  <2>4. QED
    BY <2>1, <2>2, <2>3
<1>8. CASE h.imode # "S" /\ ~packed
  <2> DEFINE start == index * (bytes * 2) * Bands
  <2>1. index * (bytes * Bands * 2) = start
    <3> HIDE DEF bytes, index
    <3>1. QED
      BY <1>1, <1>5, SMTT(10)
  <2>2. h.imode \in {"B", "P", "R"}
    BY <1>8 DEF Sound, Modes
  <2>3. CASE h.imode = "B"
    <3>1. WriteOffset(h, r, c, b, y, x) =
            start + b * h.bh * h.bw * size + y * h.bw * size + x * size
      BY <1>8, <2>1, <2>3 DEF WriteOffset, BlockBytes, BlockIndex, UnitsPerByte
    <3>2. ReadOffset(seg, r, c, b, y, x) = start + ((b * h.bh + y) * h.bw + x) * size
      BY <1>3, <1>8, <2>3 DEF ReadOffset, UnitsPerByte
    <3> HIDE DEF start, size
    <3>3. b * h.bh * h.bw * size + y * h.bw * size + x * size
            = ((b * h.bh + y) * h.bw + x) * size
      BY <1>1, <1>2, <1>5, SMTT(10)
    <3>4. start \in Nat
      BY <1>1, <1>5, SMTT(10) DEF start
    <3>5. /\ b * h.bh * h.bw * size \in Nat /\ y * h.bw * size \in Nat
          /\ x * size \in Nat
      BY <1>1, <1>2, <1>5, SMTT(10)
    <3>6. QED
      BY <3>1, <3>2, <3>3, <3>4, <3>5
  <2>4. CASE h.imode = "P"
    <3>1. WriteOffset(h, r, c, b, y, x) =
            start + y * h.bw * Bands * size + (x * Bands + b) * size
      BY <1>8, <2>1, <2>4 DEF WriteOffset, BlockBytes, BlockIndex, UnitsPerByte
    <3>2. ReadOffset(seg, r, c, b, y, x) = start + ((y * h.bw + x) * Bands + b) * size
      BY <1>3, <1>8, <2>4 DEF ReadOffset, UnitsPerByte
    <3> HIDE DEF start, size
    <3>3. y * h.bw * Bands * size + (x * Bands + b) * size
            = ((y * h.bw + x) * Bands + b) * size
      BY <1>1, <1>2, <1>5, SMTT(10)
    <3>4. start \in Nat
      BY <1>1, <1>5, SMTT(10) DEF start
    <3>5. y * h.bw * Bands * size \in Nat /\ (x * Bands + b) * size \in Nat
      BY <1>1, <1>2, <1>5, SMTT(10)
    <3>6. QED
      BY <3>1, <3>2, <3>3, <3>4, <3>5
  <2>5. CASE h.imode = "R"
    <3>1. WriteOffset(h, r, c, b, y, x) =
            start + y * (h.bw * size) * Bands + b * (h.bw * size) + x * size
      BY <1>8, <2>1, <2>5 DEF WriteOffset, BlockBytes, BlockIndex, UnitsPerByte
    <3>2. ReadOffset(seg, r, c, b, y, x) = start + ((y * Bands + b) * h.bw + x) * size
      BY <1>3, <1>8, <2>5 DEF ReadOffset, UnitsPerByte
    <3> HIDE DEF start, size
    <3>3. y * (h.bw * size) * Bands + b * (h.bw * size) + x * size
            = ((y * Bands + b) * h.bw + x) * size
      BY <1>1, <1>2, <1>5, SMTT(10)
    <3>4. start \in Nat
      BY <1>1, <1>5, SMTT(10) DEF start
    <3>5. /\ y * (h.bw * size) * Bands \in Nat /\ b * (h.bw * size) \in Nat
          /\ x * size \in Nat
      BY <1>1, <1>2, <1>5, SMTT(10)
    <3>6. QED
      BY <3>1, <3>2, <3>3, <3>4, <3>5
  <2>6. QED
    BY <2>2, <2>3, <2>4, <2>5
<1>9. QED
  BY <1>6, <1>7, <1>8

-----------------------------------------------------------------------------
(* Places *)

\* Mixed-radix numbers of three digits fill their range without clashing.
LEMMA ThreeDigits ==
  ASSUME NEW l \in Nat \ {0}, NEW m \in Nat \ {0}, NEW n \in Nat \ {0}
  PROVE  /\ \A i \in 0 .. l - 1, j \in 0 .. m - 1, k \in 0 .. n - 1 :
               (i * m + j) * n + k \in 0 .. (l * m) * n - 1
         /\ \A i, u \in 0 .. l - 1, j, v \in 0 .. m - 1, k, w \in 0 .. n - 1 :
               (i * m + j) * n + k = (u * m + v) * n + w => i = u /\ j = v /\ k = w
<1>1. l * m \in Nat \ {0}
  BY SMTT(10)
<1>2. \A i \in 0 .. l - 1, j \in 0 .. m - 1 : i * m + j \in 0 .. l * m - 1
  BY RowMajor
<1>3. ASSUME NEW i \in 0 .. l - 1, NEW j \in 0 .. m - 1, NEW k \in 0 .. n - 1
      PROVE  (i * m + j) * n + k \in 0 .. (l * m) * n - 1
  <2> DEFINE q == i * m + j
  <2>1. q \in 0 .. l * m - 1
    BY <1>2
  <2> HIDE DEF q
  <2>2. q * n + k \in 0 .. (l * m) * n - 1
    BY <1>1, <2>1, RowMajor
  <2>3. QED
    BY <2>2 DEF q
<1>4. ASSUME NEW i \in 0 .. l - 1, NEW u \in 0 .. l - 1,
             NEW j \in 0 .. m - 1, NEW v \in 0 .. m - 1,
             NEW k \in 0 .. n - 1, NEW w \in 0 .. n - 1,
             (i * m + j) * n + k = (u * m + v) * n + w
      PROVE  i = u /\ j = v /\ k = w
  <2> DEFINE q == i * m + j
             t == u * m + v
  <2>1. q \in 0 .. l * m - 1 /\ t \in 0 .. l * m - 1
    BY <1>2
  <2>2. q * n + k = t * n + w
    BY <1>4
  <2>3. q \in Nat /\ t \in Nat
    BY <1>1, <2>1
  <2>4. q = t /\ k = w
    <3> HIDE DEF q, t
    <3>1. QED
      BY <2>2, <2>3, MixedRadix
  <2>5. i = u /\ j = v
    BY <2>4, MixedRadix
  <2>6. QED
    BY <2>4, <2>5
<1>5. QED
  BY <1>3, <1>4

\* Every interleave mode numbers the samples of a block without clashing.
LEMMA ModePositions ==
  ASSUME NEW imode \in Modes, NEW rows \in Nat \ {0}, NEW cols \in Nat \ {0},
         NEW b \in BandSet, NEW y \in 0 .. rows - 1, NEW x \in 0 .. cols - 1,
         NEW b2 \in BandSet, NEW y2 \in 0 .. rows - 1, NEW x2 \in 0 .. cols - 1
  PROVE  /\ ModePosition(imode, rows, cols, b, y, x) \in 0 .. Bands * (rows * cols) - 1
         /\ ModePosition(imode, rows, cols, b, y, x)
              = ModePosition(imode, rows, cols, b2, y2, x2)
            => b = b2 /\ y = y2 /\ x = x2
<1>1. /\ Bands \in Nat \ {0}
      /\ b \in 0 .. Bands - 1 /\ b2 \in 0 .. Bands - 1
  BY DimensionsAssumption DEF BandSet
<1>2. CASE Bands = 1 \/ imode \in {"S", "B"}
  <2>1. \A d \in BandSet, t, s \in Int : ModePosition(imode, rows, cols, d, t, s)
                                           = (d * rows + t) * cols + s
    BY <1>2 DEF ModePosition, FlatBands
  <2>2. (Bands * rows) * cols = Bands * (rows * cols)
    BY <1>1, SMTT(10)
  <2>3. /\ (b * rows + y) * cols + x \in 0 .. (Bands * rows) * cols - 1
        /\ (b * rows + y) * cols + x = (b2 * rows + y2) * cols + x2
           => b = b2 /\ y = y2 /\ x = x2
    BY <1>1, ThreeDigits
  <2>4. QED
    BY <2>1, <2>2, <2>3
<1>3. CASE Bands # 1 /\ imode = "P"
  <2>1. \A d \in BandSet, t, s \in Int : ModePosition(imode, rows, cols, d, t, s)
                                           = (t * cols + s) * Bands + d
    BY <1>3 DEF ModePosition, FlatPixels
  <2>2. (rows * cols) * Bands = Bands * (rows * cols)
    BY <1>1, SMTT(10)
  <2>3. /\ (y * cols + x) * Bands + b \in 0 .. (rows * cols) * Bands - 1
        /\ (y * cols + x) * Bands + b = (y2 * cols + x2) * Bands + b2
           => y = y2 /\ x = x2 /\ b = b2
    BY <1>1, ThreeDigits
  <2>4. QED
    BY <2>1, <2>2, <2>3
<1>4. CASE Bands # 1 /\ imode = "R"
  <2>1. \A d \in BandSet, t, s \in Int : ModePosition(imode, rows, cols, d, t, s)
                                           = (t * Bands + d) * cols + s
    BY <1>4 DEF ModePosition, FlatLines
  <2>2. (rows * Bands) * cols = Bands * (rows * cols)
    BY <1>1, SMTT(10)
  <2>3. /\ (y * Bands + b) * cols + x \in 0 .. (rows * Bands) * cols - 1
        /\ (y * Bands + b) * cols + x = (y2 * Bands + b2) * cols + x2
           => y = y2 /\ b = b2 /\ x = x2
    BY <1>1, ThreeDigits
  <2>4. QED
    BY <2>1, <2>2, <2>3
<1>5. QED
  BY <1>2, <1>3, <1>4 DEF Modes

\* A band of a block has room for its samples, and without packing no more.
LEMMA BandUnits ==
  ASSUME NEW h, Sound(h)
  PROVE  LET band == BandBytes(h.depth, h.bh, h.bw) * UnitsPerByte
             size == SampleUnits(h.depth)
         IN  /\ size \in Nat \ {0}
             /\ BandBytes(h.depth, h.bh, h.bw) \in Nat
             /\ band \in Nat
             /\ h.bh * h.bw \in Nat \ {0}
             /\ (h.bh * h.bw) * size <= band
             /\ ~IsBitPacked(h.depth) => (h.bh * h.bw) * size = band
<1> DEFINE n == h.bh * h.bw
<1>1. h.bh \in Nat \ {0} /\ h.bw \in Nat \ {0}
  BY DEF Sound
<1>2. n \in Nat \ {0}
  BY <1>1, SMTT(10)
<1> HIDE DEF n
<1>3. BandBytes(h.depth, h.bh, h.bw) = (n * h.depth + 8 - 1) \div 8
  BY DEF BandBytes, DivCeil, n
<1>4. CASE h.depth = 4
  BY <1>2, <1>3, <1>4 DEF n, SampleUnits, IsBitPacked, UnitsPerByte
<1>5. CASE h.depth = 8
  BY <1>2, <1>3, <1>5 DEF n, SampleUnits, IsBitPacked, UnitsPerByte
<1>6. CASE h.depth = 12
  BY <1>2, <1>3, <1>6 DEF n, SampleUnits, IsBitPacked, UnitsPerByte
<1>7. CASE h.depth = 16
  BY <1>2, <1>3, <1>7 DEF n, SampleUnits, IsBitPacked, UnitsPerByte
<1>8. QED
  BY <1>4, <1>5, <1>6, <1>7 DEF Sound

\* The number of a sample in its block as stored: rows are padded to the full
\* width of a block unless the samples are packed.
Area(h, r, c) ==
    IF IsBitPacked(h.depth) THEN TileRows(h.bh, r) * TileCols(h.bw, c) ELSE h.bh * h.bw
Position(h, r, c, b, y, x) ==
    IF IsBitPacked(h.depth)
      THEN ModePosition(h.imode, TileRows(h.bh, r), TileCols(h.bw, c), b, y, x)
      ELSE ModePosition(h.imode, h.bh, h.bw, b, y, x)

\* The file is a row of slots, each with room for one band of one block.
Slot(h, r, c, q) ==
    IF h.imode = "S" THEN q * BlockCount(h.bh, h.bw) + BlockIndex(h.bw, r, c)
                     ELSE BlockIndex(h.bw, r, c) * Bands + q

LEMMA GridSize ==
  ASSUME NEW h, Sound(h)
  PROVE  /\ GridRows(h.bh) \in Nat \ {0} /\ GridCols(h.bw) \in Nat \ {0}
         /\ BlockCount(h.bh, h.bw) \in Nat
         /\ EncoderUnits(h) \in Nat
<1>1. h.bh \in Nat \ {0} /\ h.bw \in Nat \ {0} /\ Rows \in Nat \ {0} /\ Cols \in Nat \ {0}
  BY DimensionsAssumption DEF Sound
<1>2. GridRows(h.bh) \in Nat \ {0} /\ GridCols(h.bw) \in Nat \ {0}
  BY <1>1, Ceiling DEF GridRows, GridCols
<1>3. BlockCount(h.bh, h.bw) \in Nat
  BY <1>2, SMTT(10) DEF BlockCount
<1>4. BandBytes(h.depth, h.bh, h.bw) \in Nat
  BY BandUnits
<1>5. EncoderUnits(h) \in Nat
  BY <1>3, <1>4, DimensionsAssumption, SMTT(10) DEF EncoderUnits, BlockBytes, UnitsPerByte
<1>6. QED
  BY <1>2, <1>3, <1>5

LEMMA Numbers ==
  ASSUME NEW h, Sound(h),
         NEW r \in 0 .. GridRows(h.bh) - 1, NEW c \in 0 .. GridCols(h.bw) - 1
  PROVE  /\ GridRows(h.bh) \in Nat /\ GridCols(h.bw) \in Nat
         /\ BlockIndex(h.bw, r, c) \in 0 .. BlockCount(h.bh, h.bw) - 1
         /\ BlockCount(h.bh, h.bw) \in Nat
         /\ Area(h, r, c) \in Nat \ {0}
         /\ Area(h, r, c) <= h.bh * h.bw
<1>1. h.bh \in Nat \ {0} /\ h.bw \in Nat \ {0} /\ Rows \in Nat \ {0} /\ Cols \in Nat \ {0}
  BY DimensionsAssumption DEF Sound
<1>2. GridRows(h.bh) \in Nat /\ GridCols(h.bw) \in Nat \ {0}
  BY <1>1, Ceiling DEF GridRows, GridCols
<1>3. BlockIndex(h.bw, r, c) \in 0 .. BlockCount(h.bh, h.bw) - 1
  BY <1>2, RowMajor DEF BlockIndex, BlockCount
<1>4. BlockCount(h.bh, h.bw) \in Nat
  BY <1>2, SMTT(10) DEF BlockCount
<1>5. TileRows(h.bh, r) \in 1 .. h.bh /\ TileCols(h.bw, c) \in 1 .. h.bw
  BY <1>1, TileShape
<1>6. TileRows(h.bh, r) * TileCols(h.bw, c) \in Nat \ {0}
        /\ h.bh * h.bw \in Nat \ {0}
        /\ TileRows(h.bh, r) * TileCols(h.bw, c) <= h.bh * h.bw
  <2>1. ASSUME NEW u \in Nat \ {0}, NEW v \in Nat \ {0},
               NEW s \in 1 .. u, NEW t \in 1 .. v
        PROVE  s * t \in Nat \ {0} /\ u * v \in Nat \ {0} /\ s * t <= u * v
    <3>1. s * t <= u * t /\ u * t <= u * v
      BY SMTT(10)
    <3>2. s * t \in Nat \ {0} /\ u * t \in Nat /\ u * v \in Nat \ {0}
      BY SMTT(10)
    <3>3. QED
      BY <3>1, <3>2
  <2>2. QED
    BY <1>1, <1>5, <2>1
<1>7. Area(h, r, c) \in Nat \ {0} /\ Area(h, r, c) <= h.bh * h.bw
  BY <1>6 DEF Area
<1>8. QED
  BY <1>2, <1>3, <1>4, <1>7

LEMMA Positions ==
  ASSUME NEW h, Sound(h),
         NEW r \in 0 .. GridRows(h.bh) - 1, NEW c \in 0 .. GridCols(h.bw) - 1,
         NEW b \in BandSet,
         NEW y \in 0 .. TileRows(h.bh, r) - 1, NEW x \in 0 .. TileCols(h.bw, c) - 1,
         NEW b2 \in BandSet,
         NEW y2 \in 0 .. TileRows(h.bh, r) - 1, NEW x2 \in 0 .. TileCols(h.bw, c) - 1
  PROVE  /\ Position(h, r, c, b, y, x) \in 0 .. Bands * Area(h, r, c) - 1
         /\ Position(h, r, c, b, y, x) = Position(h, r, c, b2, y2, x2)
            => b = b2 /\ y = y2 /\ x = x2
<1>1. h.bh \in Nat \ {0} /\ h.bw \in Nat \ {0} /\ h.imode \in Modes
  BY DEF Sound
<1>2. TileRows(h.bh, r) \in 1 .. h.bh /\ TileCols(h.bw, c) \in 1 .. h.bw
  BY <1>1, TileShape
<1>3. CASE IsBitPacked(h.depth)
  <2> DEFINE rows == TileRows(h.bh, r)
             cols == TileCols(h.bw, c)
  <2>1. /\ rows \in Nat \ {0} /\ cols \in Nat \ {0}
        /\ y \in 0 .. rows - 1 /\ x \in 0 .. cols - 1
        /\ y2 \in 0 .. rows - 1 /\ x2 \in 0 .. cols - 1
    BY <1>1, <1>2
  <2>2. /\ Position(h, r, c, b, y, x) = ModePosition(h.imode, rows, cols, b, y, x)
        /\ Position(h, r, c, b2, y2, x2) = ModePosition(h.imode, rows, cols, b2, y2, x2)
        /\ Area(h, r, c) = rows * cols
    BY <1>3 DEF Position, Area
  <2> HIDE DEF rows, cols
  <2>3. QED
    BY <1>1, <2>1, <2>2, ModePositions
<1>4. CASE ~IsBitPacked(h.depth)
  <2>1. /\ y \in 0 .. h.bh - 1 /\ x \in 0 .. h.bw - 1
        /\ y2 \in 0 .. h.bh - 1 /\ x2 \in 0 .. h.bw - 1
    BY <1>1, <1>2
  <2>2. /\ Position(h, r, c, b, y, x) = ModePosition(h.imode, h.bh, h.bw, b, y, x)
        /\ Position(h, r, c, b2, y2, x2) = ModePosition(h.imode, h.bh, h.bw, b2, y2, x2)
        /\ Area(h, r, c) = h.bh * h.bw
    BY <1>4 DEF Position, Area
  <2>3. QED
    BY <1>1, <2>1, <2>2, ModePositions
<1>5. QED
  BY <1>3, <1>4

LEMMA WrittenAt ==
  ASSUME NEW h, Sound(h),
         NEW r \in 0 .. GridRows(h.bh) - 1, NEW c \in 0 .. GridCols(h.bw) - 1,
         NEW b \in BandSet,
         NEW y \in 0 .. TileRows(h.bh, r) - 1, NEW x \in 0 .. TileCols(h.bw, c) - 1
  PROVE  LET n == Area(h, r, c)
             k == Position(h, r, c, b, y, x)
             band == BandBytes(h.depth, h.bh, h.bw) * UnitsPerByte
         IN  /\ WriteOffset(h, r, c, b, y, x)
                  = Slot(h, r, c, k \div n) * band + (k % n) * SampleUnits(h.depth)
             /\ k \div n \in 0 .. Bands - 1
             /\ k % n \in 0 .. n - 1
             /\ k = (k \div n) * n + (k % n)
             /\ h.imode = "S" => k \div n = b
<1> DEFINE n == Area(h, r, c)
           k == Position(h, r, c, b, y, x)
           bytes == BandBytes(h.depth, h.bh, h.bw)
           band == bytes * UnitsPerByte
           size == SampleUnits(h.depth)
           rows == TileRows(h.bh, r)
           cols == TileCols(h.bw, c)
           index == BlockIndex(h.bw, r, c)
           blocks == BlockCount(h.bh, h.bw)
<1>1. /\ h.bh \in Nat \ {0} /\ h.bw \in Nat \ {0}
      /\ Bands \in Nat \ {0} /\ b \in Nat /\ b < Bands
  BY DimensionsAssumption DEF Sound, BandSet
<1>2. rows \in 1 .. h.bh /\ cols \in 1 .. h.bw
  BY <1>1, TileShape
<1>3. y \in 0 .. h.bh - 1 /\ x \in 0 .. h.bw - 1 /\ y \in Nat /\ x \in Nat
  BY <1>1, <1>2
<1>4. n \in Nat \ {0} /\ index \in Nat /\ blocks \in Nat
  BY Numbers
<1>5. k \in 0 .. Bands * n - 1
  BY Positions
<1>6. size \in Nat \ {0} /\ band \in Nat
  BY BandUnits
<1>7. /\ k \div n \in 0 .. Bands - 1 /\ k % n \in 0 .. n - 1
      /\ k = (k \div n) * n + (k % n)
  <2>1. Bands * n \in Nat
    BY <1>1, <1>4, SMTT(10)
  <2>2. k \in Nat
    BY <1>5, <2>1
  <2> HIDE DEF n, k
  <2>3. QED
    BY <1>1, <1>4, <1>5, <2>2, RowMajor, Division
<1>flat. /\ FlatBands(h.bh, h.bw, b, y, x) \div (h.bh * h.bw) = b
         /\ FlatBands(h.bh, h.bw, b, y, x) % (h.bh * h.bw) = y * h.bw + x
  <2> DEFINE u == h.bh
             v == h.bw
  <2>1. /\ u \in Nat \ {0} /\ v \in Nat \ {0}
        /\ y \in 0 .. u - 1 /\ x \in 0 .. v - 1
    BY <1>1, <1>3
  <2> HIDE DEF u, v
  <2>2. /\ FlatBands(u, v, b, y, x) \div (u * v) = b
        /\ FlatBands(u, v, b, y, x) % (u * v) = y * v + x
    BY <2>1, BandPosition
  <2>3. QED
    BY <2>2 DEF u, v
<1>8. h.imode = "S" => k \div n = b
  <2> HAVE h.imode = "S"
  <2>1. CASE IsBitPacked(h.depth)
    <3>1. k = FlatBands(rows, cols, b, y, x) /\ n = rows * cols
      BY <2>1 DEF Position, Area, ModePosition
    <3>2. /\ rows \in Nat \ {0} /\ cols \in Nat \ {0}
          /\ y \in 0 .. rows - 1 /\ x \in 0 .. cols - 1
      BY <1>1, <1>2
    <3> HIDE DEF rows, cols, k, n
    <3>3. FlatBands(rows, cols, b, y, x) \div (rows * cols) = b
      BY <3>2, BandPosition
    <3>4. QED
      BY <3>1, <3>3
  <2>2. CASE ~IsBitPacked(h.depth)
    <3>1. k = FlatBands(h.bh, h.bw, b, y, x) /\ n = h.bh * h.bw
      BY <2>2 DEF Position, Area, ModePosition
    <3>2. QED
      BY <1>flat, <3>1
  <2>3. QED
    BY <2>1, <2>2
<1>9. WriteOffset(h, r, c, b, y, x) = Slot(h, r, c, k \div n) * band + (k % n) * size
  <2>1. CASE h.imode = "S" /\ IsBitPacked(h.depth)
    <3>1. WriteOffset(h, r, c, b, y, x) = (b * blocks + index) * band + (k % n) * size
      BY <2>1 DEF WriteOffset, Position, Area
    <3>2. QED
      BY <1>8, <2>1, <3>1 DEF Slot
  <2>2. CASE h.imode = "S" /\ ~IsBitPacked(h.depth)
    <3>1. WriteOffset(h, r, c, b, y, x)
            = (b * blocks + index) * band + y * h.bw * size + x * size
      BY <2>2 DEF WriteOffset
    <3>2. k = FlatBands(h.bh, h.bw, b, y, x) /\ n = h.bh * h.bw
      BY <2>2 DEF Position, Area, ModePosition
    <3>3. k % n = y * h.bw + x
      BY <1>flat, <3>2
    <3>4. Slot(h, r, c, k \div n) = b * blocks + index
      BY <1>8, <2>2 DEF Slot
    <3> HIDE DEF n, k, band, size, index, blocks
    <3>5. /\ (y * h.bw + x) * size = y * h.bw * size + x * size
          /\ y * h.bw * size \in Nat /\ x * size \in Nat
          /\ (b * blocks + index) * band \in Nat
      BY <1>1, <1>3, <1>4, <1>6, SMTT(10)
    <3>6. QED
      BY <3>1, <3>3, <3>4, <3>5
  <2>3. CASE h.imode # "S" /\ IsBitPacked(h.depth)
    <3>1. WriteOffset(h, r, c, b, y, x)
            = index * (bytes * Bands * UnitsPerByte) + (k \div n) * band + (k % n) * size
      BY <2>3 DEF WriteOffset, Position, Area, BlockBytes
    <3>2. Slot(h, r, c, k \div n) = index * Bands + (k \div n)
      BY <2>3 DEF Slot
    <3>3. bytes \in Nat
      BY BandUnits
    <3> DEFINE q == k \div n
               j == k % n
    <3>4. q \in Nat /\ j \in Nat
      BY <1>7
    <3> HIDE DEF n, k, bytes, size, index, q, j
    <3>5. (index * Bands + q) * (bytes * UnitsPerByte) + j * size
            = index * (bytes * Bands * UnitsPerByte) + q * (bytes * UnitsPerByte) + j * size
      BY <1>1, <1>4, <1>6, <3>3, <3>4, SMTT(10) DEF UnitsPerByte
    <3>6. QED
      BY <3>1, <3>2, <3>5 DEF q, j
  <2>4. CASE h.imode # "S" /\ ~IsBitPacked(h.depth)
    <3> DEFINE start == index * (bytes * Bands * UnitsPerByte)
    <3>1. bytes \in Nat
      BY BandUnits
    <3>2. start \in Nat
      <4> HIDE DEF index, bytes
      <4>1. QED
        BY <1>1, <1>4, <3>1, SMTT(10) DEF UnitsPerByte
    <3>3. k = ModePosition(h.imode, h.bh, h.bw, b, y, x) /\ n = h.bh * h.bw
      BY <2>4 DEF Position, Area
    <3>4. WriteOffset(h, r, c, b, y, x) = start + k * size
      <4>1. CASE h.imode = "B"
        <5>1. WriteOffset(h, r, c, b, y, x) =
                start + b * h.bh * h.bw * size + y * h.bw * size + x * size
          BY <2>4, <4>1 DEF WriteOffset, BlockBytes
        <5>2. k = (b * h.bh + y) * h.bw + x
          BY <3>3, <4>1 DEF ModePosition, FlatBands
        <5> HIDE DEF start, size, k
        <5>3. /\ b * h.bh * h.bw * size + y * h.bw * size + x * size
                   = ((b * h.bh + y) * h.bw + x) * size
              /\ b * h.bh * h.bw * size \in Nat /\ y * h.bw * size \in Nat
              /\ x * size \in Nat
          BY <1>1, <1>3, <1>6, SMTT(10)
        <5>4. QED
          BY <3>2, <5>1, <5>2, <5>3
      <4>2. CASE h.imode = "P"
        <5>1. WriteOffset(h, r, c, b, y, x) =
                start + y * h.bw * Bands * size + (x * Bands + b) * size
          BY <2>4, <4>2 DEF WriteOffset, BlockBytes
        <5>2. k = (y * h.bw + x) * Bands + b
          BY <1>1, <1>3, <3>3, <4>2, SMTT(10) DEF ModePosition, FlatBands, FlatPixels
        <5> HIDE DEF start, size, k
        <5>3. /\ y * h.bw * Bands * size + (x * Bands + b) * size
                   = ((y * h.bw + x) * Bands + b) * size
              /\ y * h.bw * Bands * size \in Nat /\ (x * Bands + b) * size \in Nat
          BY <1>1, <1>3, <1>6, SMTT(10)
        <5>4. QED
          BY <3>2, <5>1, <5>2, <5>3
      <4>3. CASE h.imode = "R"
        <5>1. WriteOffset(h, r, c, b, y, x) =
                start + y * (h.bw * size) * Bands + b * (h.bw * size) + x * size
          BY <2>4, <4>3 DEF WriteOffset, BlockBytes
        <5>2. k = (y * Bands + b) * h.bw + x
          BY <1>1, <1>3, <3>3, <4>3, SMTT(10) DEF ModePosition, FlatBands, FlatLines
        <5> HIDE DEF start, size, k
        <5>3. /\ y * (h.bw * size) * Bands + b * (h.bw * size) + x * size
                   = ((y * Bands + b) * h.bw + x) * size
              /\ y * (h.bw * size) * Bands \in Nat /\ b * (h.bw * size) \in Nat
              /\ x * size \in Nat
          BY <1>1, <1>3, <1>6, SMTT(10)
        <5>4. QED
          BY <3>2, <5>1, <5>2, <5>3
      <4>4. QED
        BY <2>4, <4>1, <4>2, <4>3 DEF Sound, Modes
    <3>5. Slot(h, r, c, k \div n) = index * Bands + (k \div n)
      BY <2>4 DEF Slot
    <3>6. n * size = band
      BY <2>4, <3>3, BandUnits
    <3> DEFINE q == k \div n
               j == k % n
    <3>7. q \in Nat /\ j \in Nat /\ k = q * n + j
      BY <1>7
    <3> HIDE DEF n, k, bytes, size, index, q, j, band
    <3>8. (q * n + j) * size = q * band + j * size
      <4>1. (q * n + j) * size = q * (n * size) + j * size
        BY <1>4, <1>6, <3>7, SMTT(10)
      <4>2. QED
        BY <3>6, <4>1
    <3>9. start = index * Bands * band
      <4>1. index * (bytes * Bands * 2) = index * Bands * (bytes * 2)
        BY <1>1, <1>4, <3>1, SMTT(10)
      <4>2. QED
        BY <4>1 DEF band, UnitsPerByte
    <3>10. (index * Bands + q) * band = index * Bands * band + q * band
      BY <1>1, <1>4, <1>6, <3>7, SMTT(10)
    <3>11. /\ index * Bands * band \in Nat /\ q * band \in Nat /\ j * size \in Nat
      BY <1>1, <1>4, <1>6, <3>7, SMTT(10)
    <3>12. WriteOffset(h, r, c, b, y, x) = (index * Bands + q) * band + j * size
      BY <3>4, <3>7, <3>8, <3>9, <3>10, <3>11
    <3>13. QED
      BY <3>5, <3>12 DEF q, j
  <2>5. QED
    BY <2>1, <2>2, <2>3, <2>4
<1>10. QED
  BY <1>7, <1>8, <1>9

\* A slot for each band of each block, and none used twice.
LEMMA Slots ==
  ASSUME NEW h, Sound(h),
         NEW r \in 0 .. GridRows(h.bh) - 1, NEW c \in 0 .. GridCols(h.bw) - 1,
         NEW r2 \in 0 .. GridRows(h.bh) - 1, NEW c2 \in 0 .. GridCols(h.bw) - 1,
         NEW q \in 0 .. Bands - 1, NEW q2 \in 0 .. Bands - 1
  PROVE  /\ Slot(h, r, c, q) \in 0 .. BlockCount(h.bh, h.bw) * Bands - 1
         /\ Slot(h, r, c, q) = Slot(h, r2, c2, q2) => r = r2 /\ c = c2 /\ q = q2
<1> DEFINE index == BlockIndex(h.bw, r, c)
           index2 == BlockIndex(h.bw, r2, c2)
           blocks == BlockCount(h.bh, h.bw)
           cols == GridCols(h.bw)
<1>1. Bands \in Nat \ {0} /\ q \in Nat /\ q2 \in Nat
  BY DimensionsAssumption
<1>2. /\ index \in 0 .. blocks - 1 /\ index2 \in 0 .. blocks - 1
      /\ blocks \in Nat \ {0} /\ cols \in Nat /\ GridRows(h.bh) \in Nat
  <2>1. index \in 0 .. blocks - 1 /\ blocks \in Nat
    BY Numbers
  <2>2. index2 \in 0 .. blocks - 1
    BY Numbers
  <2>3. GridRows(h.bh) \in Nat /\ cols \in Nat
    BY Numbers
  <2>4. blocks # 0
    BY <2>1
  <2>5. QED
    BY <2>1, <2>2, <2>3, <2>4
<1>3. index = index2 => r = r2 /\ c = c2
  <2>1. r \in Nat /\ r2 \in Nat /\ cols \in Nat \ {0}
    BY <1>2
  <2>2. r * cols + c = r2 * cols + c2 => r = r2 /\ c = c2
    BY <2>1, MixedRadix
  <2>3. QED
    BY <2>2 DEF BlockIndex
<1>4. CASE h.imode = "S"
  <2>1. Slot(h, r, c, q) = q * blocks + index /\ Slot(h, r2, c2, q2) = q2 * blocks + index2
    BY <1>4 DEF Slot
  <2> HIDE DEF index, index2, blocks
  <2>2. q * blocks + index \in 0 .. Bands * blocks - 1
    BY <1>1, <1>2, RowMajor
  <2>3. q * blocks + index = q2 * blocks + index2 => q = q2 /\ index = index2
    BY <1>1, <1>2, MixedRadix
  <2>4. Bands * blocks = blocks * Bands
    BY <1>1, <1>2, SMTT(10)
  <2>5. QED
    BY <1>3, <2>1, <2>2, <2>3, <2>4 DEF blocks
<1>5. CASE h.imode # "S"
  <2>1. Slot(h, r, c, q) = index * Bands + q /\ Slot(h, r2, c2, q2) = index2 * Bands + q2
    BY <1>5 DEF Slot
  <2> HIDE DEF index, index2, blocks
  <2>2. index * Bands + q \in 0 .. blocks * Bands - 1
    BY <1>1, <1>2, RowMajor
  <2>3. index * Bands + q = index2 * Bands + q2 => q = q2 /\ index = index2
    BY <1>1, <1>2, MixedRadix
  <2>4. QED
    BY <1>3, <2>1, <2>2, <2>3 DEF blocks
<1>6. QED
  BY <1>4, <1>5

\* The place of a sample ends inside its slot.
LEMMA InSlot ==
  ASSUME NEW n \in Nat \ {0}, NEW area \in Nat, n <= area,
         NEW size \in Nat \ {0}, NEW band \in Nat, area * size <= band,
         NEW j \in 0 .. n - 1, NEW s \in Nat
  PROVE  /\ j * size \in Nat /\ s * band \in Nat
         /\ s * band + j * size + size <= (s + 1) * band
<1>1. (j + 1) * size <= area * size
  BY SMTT(10)
<1>2. (j + 1) * size = j * size + size
  BY SMTT(10)
<1>3. (s + 1) * band = s * band + band
  BY SMTT(10)
<1>4. j * size \in Nat /\ s * band \in Nat /\ area * size \in Nat
  BY SMTT(10)
<1>5. QED
  BY <1>1, <1>2, <1>3, <1>4

\* Everything goes inside the buffer that new() allocates.
LEMMA SamplesInside ==
  ASSUME NEW h, Sound(h),
         NEW r \in 0 .. GridRows(h.bh) - 1, NEW c \in 0 .. GridCols(h.bw) - 1,
         NEW b \in BandSet,
         NEW y \in 0 .. TileRows(h.bh, r) - 1, NEW x \in 0 .. TileCols(h.bw, c) - 1
  PROVE  /\ EncoderUnits(h) \in Nat
         /\ WriteOffset(h, r, c, b, y, x) \in Nat
         /\ WriteOffset(h, r, c, b, y, x) + SampleUnits(h.depth) <= EncoderUnits(h)
<1> DEFINE n == Area(h, r, c)
           k == Position(h, r, c, b, y, x)
           bytes == BandBytes(h.depth, h.bh, h.bw)
           band == bytes * UnitsPerByte
           size == SampleUnits(h.depth)
           blocks == BlockCount(h.bh, h.bw)
           q == k \div n
           j == k % n
           s == Slot(h, r, c, q)
<1>1. Bands \in Nat \ {0}
  BY DimensionsAssumption
<1>2. /\ WriteOffset(h, r, c, b, y, x) = s * band + j * size
      /\ q \in 0 .. Bands - 1
      /\ j \in 0 .. n - 1
  BY WrittenAt
<1>3. s \in 0 .. blocks * Bands - 1
  BY <1>2, Slots
<1>4. n \in Nat \ {0} /\ n <= h.bh * h.bw /\ blocks \in Nat
  BY Numbers
<1>5. /\ size \in Nat \ {0} /\ bytes \in Nat /\ band \in Nat
      /\ h.bh * h.bw \in Nat /\ (h.bh * h.bw) * size <= band
  BY BandUnits
<1>6. EncoderUnits(h) = (blocks * Bands) * band
  <2>1. EncoderUnits(h) = blocks * (bytes * Bands) * UnitsPerByte
    BY DEF EncoderUnits, BlockBytes
  <2> HIDE DEF blocks, bytes
  <2>2. QED
    BY <1>1, <1>4, <1>5, <2>1, SMTT(10) DEF UnitsPerByte
<1> DEFINE area == h.bh * h.bw
<1> HIDE DEF n, band, size, blocks, j, s, area
<1>7. blocks * Bands \in Nat
  BY <1>1, <1>4, SMTT(10)
<1>8. s \in Nat /\ s + 1 <= blocks * Bands
  BY <1>3, <1>7
<1>9. /\ j * size \in Nat /\ s * band \in Nat
      /\ s * band + j * size + size <= (s + 1) * band
  BY <1>2, <1>4, <1>5, <1>8, InSlot DEF area
<1>10. (s + 1) * band <= (blocks * Bands) * band /\ (blocks * Bands) * band \in Nat
  BY <1>5, <1>7, <1>8, SMTT(10)
<1>11. (s + 1) * band \in Nat
  BY <1>5, <1>8, SMTT(10)
<1>12. QED
  BY <1>2, <1>5, <1>6, <1>9, <1>10, <1>11 DEF size

(* No two samples of an image share a byte of the file, whatever the sizes *)
(* of image and blocks, the bit depth, the bands and the interleave mode:  *)
(* encode_block writes blocks in any order without disturbing another.     *)
THEOREM SamplesApart ==
  ASSUME NEW h, Sound(h),
         NEW r \in 0 .. GridRows(h.bh) - 1, NEW c \in 0 .. GridCols(h.bw) - 1,
         NEW b \in BandSet,
         NEW y \in 0 .. TileRows(h.bh, r) - 1, NEW x \in 0 .. TileCols(h.bw, c) - 1,
         NEW r2 \in 0 .. GridRows(h.bh) - 1, NEW c2 \in 0 .. GridCols(h.bw) - 1,
         NEW b2 \in BandSet,
         NEW y2 \in 0 .. TileRows(h.bh, r2) - 1, NEW x2 \in 0 .. TileCols(h.bw, c2) - 1
  PROVE  LET at  == WriteOffset(h, r, c, b, y, x)
             at2 == WriteOffset(h, r2, c2, b2, y2, x2)
         IN  \/ <<r, c, b, y, x>> = <<r2, c2, b2, y2, x2>>
             \/ at + SampleUnits(h.depth) <= at2
             \/ at2 + SampleUnits(h.depth) <= at
<1> DEFINE n == Area(h, r, c)
           k == Position(h, r, c, b, y, x)
           n2 == Area(h, r2, c2)
           k2 == Position(h, r2, c2, b2, y2, x2)
           band == BandBytes(h.depth, h.bh, h.bw) * UnitsPerByte
           size == SampleUnits(h.depth)
           area == h.bh * h.bw
           q == k \div n
           j == k % n
           q2 == k2 \div n2
           j2 == k2 % n2
           s == Slot(h, r, c, q)
           s2 == Slot(h, r2, c2, q2)
           at  == WriteOffset(h, r, c, b, y, x)
           at2 == WriteOffset(h, r2, c2, b2, y2, x2)
<1>1. Bands \in Nat \ {0}
  BY DimensionsAssumption
<1>2. /\ at = s * band + j * size
      /\ q \in 0 .. Bands - 1 /\ j \in 0 .. n - 1
      /\ k = q * n + j
  BY WrittenAt
<1>3. /\ at2 = s2 * band + j2 * size
      /\ q2 \in 0 .. Bands - 1 /\ j2 \in 0 .. n2 - 1
      /\ k2 = q2 * n2 + j2
  BY WrittenAt
<1>4. /\ s \in 0 .. BlockCount(h.bh, h.bw) * Bands - 1
      /\ s2 \in 0 .. BlockCount(h.bh, h.bw) * Bands - 1
      /\ s = s2 => r = r2 /\ c = c2 /\ q = q2
  <2> HIDE DEF q, q2
  <2>1. QED
    BY <1>2, <1>3, Slots
<1>5. n \in Nat \ {0} /\ n <= area
  BY Numbers
<1>6. n2 \in Nat \ {0} /\ n2 <= area
  BY Numbers
<1>7. size \in Nat \ {0} /\ band \in Nat /\ area \in Nat /\ area * size <= band
  BY BandUnits
<1>8. s \in Nat /\ s2 \in Nat
  BY <1>4
<1>9. CASE s = s2 /\ j = j2
  <2>1. r = r2 /\ c = c2 /\ q = q2
    BY <1>4, <1>9
  <2>2. n = n2
    BY <2>1
  <2>3. k = k2
    BY <1>2, <1>3, <1>9, <2>1, <2>2
  <2>4. /\ y2 \in 0 .. TileRows(h.bh, r) - 1 /\ x2 \in 0 .. TileCols(h.bw, c) - 1
        /\ k2 = Position(h, r, c, b2, y2, x2)
    BY <2>1
  <2>5. b = b2 /\ y = y2 /\ x = x2
    BY <2>3, <2>4, Positions
  <2>6. QED
    BY <2>1, <2>5
<1>10. CASE s = s2 /\ j # j2
  <2> HIDE DEF n, n2, band, size, j, j2, s, s2, at, at2
  <2>1. j \in Nat /\ j2 \in Nat
    BY <1>2, <1>3, <1>5, <1>6
  <2>2. ASSUME NEW u \in Nat, NEW v \in Nat, u < v
        PROVE  u * size + size <= v * size /\ u * size \in Nat /\ v * size \in Nat
    <3>1. (u + 1) * size <= v * size
      BY <1>7, <2>2, SMTT(10)
    <3>2. (u + 1) * size = u * size + size
      BY <1>7, SMTT(10)
    <3>3. u * size \in Nat /\ v * size \in Nat
      BY <1>7, SMTT(10)
    <3>4. QED
      BY <3>1, <3>2, <3>3
  <2>3. s * band \in Nat
    BY <1>7, <1>8, SMTT(10)
  <2>4. CASE j < j2
    BY <1>2, <1>3, <1>7, <1>10, <2>1, <2>2, <2>3, <2>4 DEF at, at2, size
  <2>5. CASE j2 < j
    BY <1>2, <1>3, <1>7, <1>10, <2>1, <2>2, <2>3, <2>5 DEF at, at2, size
  <2>6. QED
    BY <1>10, <2>1, <2>4, <2>5
<1>11. CASE s # s2
  <2> HIDE DEF n, n2, band, size, j, j2, s, s2, at, at2, area
  <2>1. /\ j * size \in Nat /\ s * band \in Nat
        /\ s * band + j * size + size <= (s + 1) * band
    BY <1>2, <1>5, <1>7, <1>8, InSlot
  <2>2. /\ j2 * size \in Nat /\ s2 * band \in Nat
        /\ s2 * band + j2 * size + size <= (s2 + 1) * band
    BY <1>3, <1>6, <1>7, <1>8, InSlot
  <2>3. ASSUME NEW u \in Nat, NEW v \in Nat, u < v
        PROVE  (u + 1) * band <= v * band /\ (u + 1) * band \in Nat /\ v * band \in Nat
    BY <1>7, <2>3, SMTT(10)
  <2>4. CASE s < s2
    BY <1>2, <1>3, <1>7, <1>8, <2>1, <2>2, <2>3, <2>4 DEF at, at2, size
  <2>5. CASE s2 < s
    BY <1>2, <1>3, <1>7, <1>8, <2>1, <2>2, <2>3, <2>5 DEF at, at2, size
  <2>6. QED
    BY <1>8, <1>11, <2>4, <2>5
<1>12. QED
  BY <1>9, <1>10, <1>11

-----------------------------------------------------------------------------
(* Encoding and decoding *)

\* A tile that encode_block accepts, as a function of its samples.
Fits(h, r, c, tile) ==
    /\ tile.rows = TileRows(h.bh, r)
    /\ tile.cols = TileCols(h.bw, c)

\* After block (r, c) is encoded, the units of a sample of block (r2, c2) are
\* those of the tile if it is the same block, else what they were.
Lands(h, bytes, r, c, tile, r2, c2, b, y, x) ==
    LET at == WriteOffset(h, r2, c2, b, y, x)
    IN  \A k \in 1 .. SampleUnits(h.depth) :
           EncodeBlock(h, bytes, r, c, tile)[at + k] =
             IF r = r2 /\ c = c2
               THEN LowUnits(h.depth, Sample(tile, b, y, x), SampleUnits(h.depth))[k]
               ELSE bytes[at + k]

LEMMA EncodedUnits ==
  ASSUME NEW h, Sound(h), NEW bytes, DOMAIN bytes = 1 .. EncoderUnits(h),
         NEW r \in 0 .. GridRows(h.bh) - 1, NEW c \in 0 .. GridCols(h.bw) - 1,
         NEW tile, Fits(h, r, c, tile),
         NEW r2 \in 0 .. GridRows(h.bh) - 1, NEW c2 \in 0 .. GridCols(h.bw) - 1,
         NEW b \in BandSet,
         NEW y \in 0 .. TileRows(h.bh, r2) - 1, NEW x \in 0 .. TileCols(h.bw, c2) - 1
  PROVE  Lands(h, bytes, r, c, tile, r2, c2, b, y, x)
<1> SUFFICES ASSUME NEW k \in 1 .. SampleUnits(h.depth)
             PROVE  LET o == WriteOffset(h, r2, c2, b, y, x)
                    IN  EncodeBlock(h, bytes, r, c, tile)[o + k] =
                          IF r = r2 /\ c = c2
                            THEN LowUnits(h.depth, Sample(tile, b, y, x),
                                          SampleUnits(h.depth))[k]
                            ELSE bytes[o + k]
  BY DEF Lands
<1> DEFINE size == SampleUnits(h.depth)
           at == WriteOffset(h, r2, c2, b, y, x)
           Cell(p) == [at |-> WriteOffset(h, r, c, p[1], p[2], p[3]),
                       units |-> LowUnits(h.depth, Sample(tile, p[1], p[2], p[3]), size)]
           places == BandSet \X (0 .. tile.rows - 1) \X (0 .. tile.cols - 1)
           cells == {Cell(p) : p \in places}
           covers(w) == (at + k) - w.at \in 1 .. size
<1>1. /\ EncoderUnits(h) \in Nat /\ at \in Nat
      /\ at + size <= EncoderUnits(h)
  BY SamplesInside
<1>2. size \in Nat \ {0}
  BY BandUnits
<1>3. at + k \in 1 .. EncoderUnits(h)
  <2> HIDE DEF size, at
  <2>1. k \in 1 .. size
    BY DEF size
  <2>2. at + k \in 1 .. EncoderUnits(h)
    BY <1>1, <1>2, <2>1
  <2>3. QED
    BY <2>2 DEF at
<1>4. EncodeBlock(h, bytes, r, c, tile)[at + k] =
        IF \E w \in cells : covers(w)
          THEN LET w == CHOOSE w \in cells : covers(w) IN w.units[(at + k) - w.at]
          ELSE bytes[at + k]
  BY <1>3 DEF EncodeBlock
<1>5. ASSUME NEW w \in cells, covers(w)
      PROVE  r = r2 /\ c = c2 /\ w = Cell(<<b, y, x>>)
  <2>1. PICK p \in places : w = Cell(p)
    OBVIOUS
  <2> DEFINE at2 == WriteOffset(h, r, c, p[1], p[2], p[3])
  <2>2. /\ p[1] \in BandSet /\ p[2] \in 0 .. TileRows(h.bh, r) - 1
        /\ p[3] \in 0 .. TileCols(h.bw, c) - 1
        /\ p = <<p[1], p[2], p[3]>>
    BY DEF Fits
  <2>3. at2 \in Nat
    BY <2>2, SamplesInside
  <2>4. (at + k) - at2 \in 1 .. size
    BY <1>5, <2>1
  <2>5. \/ <<r2, c2, b, y, x>> = <<r, c, p[1], p[2], p[3]>>
        \/ at + size <= at2
        \/ at2 + size <= at
    BY <2>2, SamplesApart
  <2>6. ~(at + size <= at2) /\ ~(at2 + size <= at)
    <3>1. k \in 1 .. size
      OBVIOUS
    <3> HIDE DEF at, at2, size
    <3>2. QED
      BY <1>1, <1>2, <2>3, <2>4, <3>1
  <2>7. QED
    BY <2>1, <2>2, <2>5, <2>6
<1>6. CASE r = r2 /\ c = c2
  <2>1. <<b, y, x>> \in places
    BY <1>6 DEF Fits
  <2>2. Cell(<<b, y, x>>) \in cells
    BY <2>1
  <2>3. Cell(<<b, y, x>>).at = at
    BY <1>6
  <2>4. covers(Cell(<<b, y, x>>))
    <3>1. (at + k) - at = k
      BY <1>1, <1>2
    <3>2. QED
      BY <2>3, <3>1
  <2> DEFINE w == CHOOSE w \in cells : covers(w)
  <2>5. w \in cells /\ covers(w)
    <3> HIDE DEF cells, covers
    <3>1. QED
      BY <2>2, <2>4
  <2>6. w = Cell(<<b, y, x>>)
    <3> HIDE DEF w
    <3>1. QED
      BY <1>5, <2>5
  <2>7. w.units[(at + k) - w.at] = LowUnits(h.depth, Sample(tile, b, y, x), size)[k]
    <3>1. (at + k) - at = k
      BY <1>1, <1>2
    <3> HIDE DEF w
    <3>2. w.at = at
      BY <2>3, <2>6
    <3>3. w.units = LowUnits(h.depth, Sample(tile, b, y, x), size)
      BY <2>6
    <3>4. QED
      BY <3>1, <3>2, <3>3
  <2>8. \E v \in cells : covers(v)
    BY <2>2, <2>4
  <2> HIDE DEF cells, covers, at, size
  <2>9. EncodeBlock(h, bytes, r, c, tile)[at + k] = w.units[(at + k) - w.at]
    BY <1>4, <2>8
  <2>10. QED
    BY <1>3, <1>6, <2>7, <2>9 DEF at, size
<1>7. CASE ~(r = r2 /\ c = c2)
  <2>1. ~ \E w \in cells : covers(w)
    <3> HIDE DEF cells, covers
    <3>1. QED
      BY <1>5, <1>7
  <2> HIDE DEF cells, covers
  <2>2. QED
    BY <1>3, <1>4, <1>7, <2>1
<1>8. QED
  BY <1>6, <1>7

\* A slice of a sequence is what its units say.
LEMMA Slice ==
  ASSUME NEW S, NEW n \in Nat, NEW f \in [1 .. n -> S],
         NEW m \in Nat, NEW size \in Nat, m + size <= n
  PROVE  /\ SubSeq(f, m + 1, m + size) \in [1 .. size -> S]
         /\ \A k \in 1 .. size : SubSeq(f, m + 1, m + size)[k] = f[m + k]
<1> DEFINE g == SubSeq(f, m + 1, m + size)
<1>1. \A i \in m + 1 .. m + size : f[i] \in S
  OBVIOUS
<1>2. /\ g \in Seq(S)
      /\ Len(g) = IF m + 1 <= m + size THEN (m + size) - (m + 1) + 1 ELSE 0
      /\ \A i \in 1 .. (m + size) - (m + 1) + 1 : g[i] = f[(m + 1) + i - 1]
  BY <1>1, SubSeqProperties
<1> HIDE DEF g
<1>3. Len(g) = size
  BY <1>2
<1>4. g \in [1 .. size -> S]
  BY <1>2, <1>3, LenProperties
<1>5. ASSUME NEW k \in 1 .. size
      PROVE  g[k] = f[m + k]
  <2>1. (m + 1) + k - 1 = m + k /\ k \in 1 .. (m + size) - (m + 1) + 1
    OBVIOUS
  <2>2. QED
    BY <1>2, <2>1
<1>6. QED
  BY <1>4, <1>5 DEF g

LEMMA SliceIs ==
  ASSUME NEW S, NEW n \in Nat, NEW f \in [1 .. n -> S],
         NEW m \in Nat, NEW size \in Nat, m + size <= n,
         NEW T, NEW g \in [1 .. size -> T], \A k \in 1 .. size : f[m + k] = g[k]
  PROVE  SubSeq(f, m + 1, m + size) = g
<1> DEFINE u == SubSeq(f, m + 1, m + size)
<1>1. u \in [1 .. size -> S] /\ \A k \in 1 .. size : u[k] = f[m + k]
  BY Slice
<1> HIDE DEF u
<1>2. u = g
  BY <1>1
<1>3. QED
  BY <1>2 DEF u

\* Two sequences that agree on a stretch have the same slice there.
LEMMA SameSlice ==
  ASSUME NEW S, NEW n \in Nat, NEW f \in [1 .. n -> S],
         NEW T, NEW g \in [1 .. n -> T],
         NEW m \in Nat, NEW size \in Nat, m + size <= n,
         \A k \in 1 .. size : f[m + k] = g[m + k]
  PROVE  SubSeq(f, m + 1, m + size) = SubSeq(g, m + 1, m + size)
<1> DEFINE u == SubSeq(g, m + 1, m + size)
<1>1. u \in [1 .. size -> T] /\ \A k \in 1 .. size : u[k] = g[m + k]
  BY Slice
<1> HIDE DEF u
<1>2. \A k \in 1 .. size : f[m + k] = u[k]
  BY <1>1
<1>3. SubSeq(f, m + 1, m + size) = u
  BY <1>1, <1>2, SliceIs
<1>4. QED
  BY <1>3 DEF u

\* A tile holds the samples it was made from.
LEMMA MadeTile ==
  ASSUME NEW rows \in Nat \ {0}, NEW cols \in Nat \ {0}, NEW f,
         NEW b \in BandSet, NEW y \in 0 .. rows - 1, NEW x \in 0 .. cols - 1
  PROVE  Sample(MakeTile(rows, cols, f), b, y, x) = f[<<b, y, x>>]
<1> DEFINE k == FlatBands(rows, cols, b, y, x)
           t == MakeTile(rows, cols, f)
<1>1. Bands \in Nat \ {0} /\ b \in Nat /\ b \in 0 .. Bands - 1
  BY DimensionsAssumption DEF BandSet
<1>2. k \in 0 .. (Bands * rows) * cols - 1
  BY <1>1, ThreeDigits DEF FlatBands
<1>3. k \div (rows * cols) = b /\ k % (rows * cols) = y * cols + x
  BY BandPosition
<1>4. (y * cols + x) \div cols = y
  BY QuotientAndRemainder
<1>5. k % cols = x
  <2>1. b * rows + y \in Nat
    BY <1>1, SMTT(10)
  <2>2. QED
    BY <2>1, QuotientAndRemainder DEF FlatBands
<1>6. (Bands * rows) * cols \in Nat
  BY <1>1, SMTT(10)
<1> HIDE DEF k
<1>7. k + 1 \in 1 .. Bands * rows * cols /\ (k + 1) - 1 = k
  BY <1>2, <1>6
<1>8. t.data[k + 1] = f[<<b, y, x>>]
  BY <1>3, <1>4, <1>5, <1>7 DEF MakeTile
<1>9. t.rows = rows /\ t.cols = cols
  BY DEF MakeTile
<1>10. QED
  BY <1>8, <1>9 DEF Sample, k

\* A sample survives its container.
LEMMA ValueSurvives ==
  ASSUME NEW bits \in {4, 8, 12, 16}, NEW v
  PROVE  LET size == SampleUnits(bits)
         IN  ValueOf(bits, LowUnits(bits, v, size)) = v
<1> DEFINE size == SampleUnits(bits)
           units == LowUnits(bits, v, size)
<1>1. size \in Nat \ {0}
  BY DEF SampleUnits
<1>2. units \in [1 .. size -> {units[k] : k \in 1 .. size}]
  BY DEF LowUnits
<1>3. Len(units) = size
  <2> HIDE DEF units, size
  <2> DEFINE T == {units[k] : k \in 1 .. size}
  <2> HIDE DEF T
  <2>1. units \in [1 .. size -> T]
    BY <1>2 DEF T
  <2>2. QED
    BY <1>1, <2>1, SeqDef, LenProperties
<1>4. units[size][1] = v
  BY <1>1 DEF LowUnits, Unit
<1>5. QED
  BY <1>3, <1>4 DEF ValueOf

\* The segment has all the units of its blocks.
Filled(seg, h) == \E S : seg.bytes \in [1 .. EncoderUnits(h) -> S]

(* Encoding a block and decoding it gives its samples back, and leaves     *)
(* what the decoder finds in every other block as it was: for every image  *)
(* and block size, bit depth, number of bands and interleave mode, the     *)
(* narrow blocks at the edges included.                                    *)
THEOREM RoundTrip ==
  ASSUME NEW h, Sound(h),
         NEW r \in 0 .. GridRows(h.bh) - 1, NEW c \in 0 .. GridCols(h.bw) - 1,
         NEW tile, Fits(h, r, c, tile),
         NEW before, Describes(before, h), Filled(before, h),
         NEW after, Describes(after, h), after.bytes = EncodeBlock(h, before.bytes, r, c, tile)
  PROVE  \A r2 \in 0 .. GridRows(h.bh) - 1, c2 \in 0 .. GridCols(h.bw) - 1, b \in BandSet :
            \A y \in 0 .. TileRows(h.bh, r2) - 1, x \in 0 .. TileCols(h.bw, c2) - 1 :
               Sample(DecodeBlock(after, r2, c2), b, y, x) =
                 IF r = r2 /\ c = c2 THEN Sample(tile, b, y, x)
                                     ELSE Sample(DecodeBlock(before, r2, c2), b, y, x)
<1> DEFINE bytes == before.bytes
<1> HIDE DEF bytes
<1> TAKE r2 \in 0 .. GridRows(h.bh) - 1, c2 \in 0 .. GridCols(h.bw) - 1, b \in BandSet
<1> TAKE y \in 0 .. TileRows(h.bh, r2) - 1, x \in 0 .. TileCols(h.bw, c2) - 1
<1>0. PICK S : bytes \in [1 .. EncoderUnits(h) -> S]
  BY DEF Filled, bytes
<1>a. before.bytes = bytes /\ after.bytes = EncodeBlock(h, bytes, r, c, tile)
  BY DEF bytes
<1> DEFINE size == SampleUnits(h.depth)
           at == WriteOffset(h, r2, c2, b, y, x)
           new == EncodeBlock(h, bytes, r, c, tile)
<1>1. /\ EncoderUnits(h) \in Nat /\ at \in Nat
      /\ at + size <= EncoderUnits(h)
  BY SamplesInside
<1>2. size \in Nat \ {0}
  BY BandUnits
<1>3. ASSUME NEW seg, Describes(seg, h)
      PROVE  Sample(DecodeBlock(seg, r2, c2), b, y, x)
               = ValueOf(h.depth, SubSeq(seg.bytes, at + 1, at + size))
  <2> DEFINE rows == TileRows(h.bh, r2)
             cols == TileCols(h.bw, c2)
             f == [p \in BandSet \X (0 .. rows - 1) \X (0 .. cols - 1) |->
                     LET o == ReadOffset(seg, r2, c2, p[1], p[2], p[3])
                     IN  ValueOf(seg.depth,
                                 SubSeq(seg.bytes, o + 1, o + SampleUnits(seg.depth)))]
  <2>1. h.bh \in Nat \ {0} /\ h.bw \in Nat \ {0}
    BY DEF Sound
  <2>2. rows \in Nat \ {0} /\ cols \in Nat \ {0}
    BY <2>1, TileShape
  <2>3. DecodeBlock(seg, r2, c2) = MakeTile(rows, cols, f)
    <3>1. BlockHeight(seg) = h.bh /\ BlockWidth(seg) = h.bw
      BY <1>3, DescribedShape
    <3>2. QED
      BY <3>1 DEF DecodeBlock
  <2>4. at = ReadOffset(seg, r2, c2, b, y, x)
    BY <1>3, OffsetsAgree
  <2>5. seg.depth = h.depth
    BY <1>3 DEF Describes
  <2>6. f[<<b, y, x>>] = ValueOf(h.depth, SubSeq(seg.bytes, at + 1, at + size))
    BY <2>4, <2>5
  <2>7. y \in 0 .. rows - 1 /\ x \in 0 .. cols - 1
    OBVIOUS
  <2> HIDE DEF f, rows, cols, at, size
  <2>8. QED
    BY <2>2, <2>3, <2>6, <2>7, MadeTile
<1> DEFINE N == EncoderUnits(h)
           T == {new[k] : k \in 1 .. N}
           value == LowUnits(h.depth, Sample(tile, b, y, x), size)
           U == {value[k] : k \in 1 .. size}
<1>4. DOMAIN bytes = 1 .. N /\ new \in [1 .. N -> T]
  BY <1>0 DEF EncodeBlock
<1>5. ASSUME NEW k \in 1 .. size
      PROVE  new[at + k] = IF r = r2 /\ c = c2 THEN value[k] ELSE bytes[at + k]
  <2>1. DOMAIN bytes = 1 .. EncoderUnits(h)
    BY <1>4
  <2>2. Lands(h, bytes, r, c, tile, r2, c2, b, y, x)
    BY <2>1, EncodedUnits
  <2>3. QED
    BY <2>2 DEF Lands
<1>6. value \in [1 .. size -> U]
  BY DEF LowUnits
<1>7. CASE r = r2 /\ c = c2
  <2>1. SubSeq(new, at + 1, at + size) = value
    <3> HIDE DEF new, at, size, value, N, T, U
    <3>1. QED
      BY <1>1, <1>2, <1>4, <1>5, <1>6, <1>7, SliceIs DEF N
  <2>2. ValueOf(h.depth, value) = Sample(tile, b, y, x)
    BY ValueSurvives DEF Sound
  <2>3. Sample(DecodeBlock(after, r2, c2), b, y, x) = Sample(tile, b, y, x)
    <3> HIDE DEF value, at, size
    <3>1. QED
      BY <1>a, <1>3, <2>1, <2>2 DEF new
  <2>4. QED
    BY <1>7, <2>3
<1>8. CASE ~(r = r2 /\ c = c2)
  <2>1. \A k \in 1 .. size : new[at + k] = bytes[at + k]
    BY <1>5, <1>8
  <2>2. SubSeq(new, at + 1, at + size) = SubSeq(bytes, at + 1, at + size)
    <3>1. size \in Nat /\ N \in Nat /\ at \in Nat /\ at + size <= N
      BY <1>1, <1>2
    <3>2. bytes \in [1 .. N -> S] /\ new \in [1 .. N -> T]
      BY <1>0, <1>4
    <3> HIDE DEF new, at, size, value, N, T, U
    <3>3. QED
      BY <2>1, <3>1, <3>2, SameSlice, SMTT(30)
  <2>3. Sample(DecodeBlock(after, r2, c2), b, y, x)
          = Sample(DecodeBlock(before, r2, c2), b, y, x)
    <3> HIDE DEF at, size
    <3>1. QED
      BY <1>a, <1>3, <2>2 DEF new
  <2>4. QED
    BY <1>8, <2>3
<1>9. QED
  BY <1>7, <1>8

-----------------------------------------------------------------------------
(* The invariant *)

IsTile(tile) == tile.bands \in Nat /\ tile.rows \in Nat /\ tile.cols \in Nat

SourceSound(source) ==
    /\ source.bh \in Nat \ {0}
    /\ source.bw \in Nat \ {0}
    /\ \A p \in Grid(source.bh, source.bw) : IsTile(source.blocks[p])

ImageSound(img) ==
    /\ img = [bh |-> img.bh, bw |-> img.bw, blocks |-> img.blocks,
              provided |-> img.provided, source |-> img.source]
    /\ img.bh \in Nat \ {0}
    /\ img.bw \in Nat \ {0}
    /\ \A p \in DOMAIN img.blocks : IsTile(img.blocks[p])
    /\ img.source # NoFile => SourceSound(img.source)

\* Where the record of a block is the record of that block alone.
OneRecord(h) == h.imode # "S" \/ Bands = 1

MaskSoFar(records, h, provided) ==
    /\ DOMAIN records = 0 .. BlockCount(h.bh, h.bw) - 1
    /\ \A p \in Grid(h.bh, h.bw) :
          (records[BlockIndex(h.bw, p[1], p[2])] # EmptyBlock) <=> p \in provided

JobSound ==
    /\ job = [ic |-> job.ic, hints |-> job.hints, provided |-> job.provided,
              next |-> job.next, bytes |-> job.bytes, records |-> job.records]
    /\ job.ic \in {"NC", "NM"}
    /\ Sound(job.hints)
    /\ job.hints.depth = depth
    /\ job.next \in 0 .. BlockCount(job.hints.bh, job.hints.bw)
    /\ \E S : job.bytes \in Seq(S)
    /\ job.ic = "NC" => Len(job.bytes) = EncoderUnits(job.hints)
    /\ (job.ic = "NM" /\ OneRecord(job.hints)) =>
          MaskSoFar(job.records, job.hints, job.provided)
    /\ (job.ic = "NM" /\ ~MaskedSequential) => OneRecord(job.hints)

SegmentSound ==
    /\ segment.ic \in {"NC", "NM"}
    /\ (segment.ic = "NM") = (segment.mask # NoMask)
    /\ \E h : /\ Sound(h)
              /\ Describes(segment, h)
              /\ h.depth = depth
              /\ segment.ic = "NC" => Len(segment.bytes) = EncoderUnits(h)
    /\ SourceSound(reader)

IInv ==
    /\ TypeOK
    /\ ImageSound(image)
    /\ job # NoJob => JobSound
    /\ segment # NoFile => SegmentSound

LEMMA GridCell ==
  ASSUME NEW bh \in Nat \ {0}, NEW bw \in Nat \ {0},
         NEW r \in 0 .. GridRows(bh) - 1, NEW c \in 0 .. GridCols(bw) - 1
  PROVE  /\ Least(r * bh + bh, Rows) - r * bh = TileRows(bh, r)
         /\ Least(c * bw + bw, Cols) - c * bw = TileCols(bw, c)
         /\ TileRows(bh, r) \in Nat \ {0}
         /\ TileCols(bw, c) \in Nat \ {0}
<1>1. Rows \in Nat \ {0} /\ Cols \in Nat \ {0}
  BY DimensionsAssumption
<1>2. GridRows(bh) \in Nat /\ GridCols(bw) \in Nat
  BY <1>1, Ceiling DEF GridRows, GridCols
<1>3. r \in Nat /\ c \in Nat
  BY <1>2
<1>4. r * bh \in Nat /\ c * bw \in Nat
  BY <1>3, SMTT(10)
<1>5. r * bh < Rows /\ c * bw < Cols
  BY <1>1, Ceiling DEF GridRows, GridCols
<1>6. TileRows(bh, r) \in 1 .. bh /\ TileCols(bw, c) \in 1 .. bw
  BY TileShape
<1> DEFINE u == r * bh
           v == c * bw
<1>7. Least(u + bh, Rows) - u = IF u + bh > Rows THEN Rows - u ELSE bh
  <2> HIDE DEF u
  <2>1. u \in Nat
    BY <1>4 DEF u
  <2>2. QED
    BY <1>1, <2>1 DEF Least
<1>8. Least(v + bw, Cols) - v = IF v + bw > Cols THEN Cols - v ELSE bw
  <2> HIDE DEF v
  <2>1. v \in Nat
    BY <1>4 DEF v
  <2>2. QED
    BY <1>1, <2>1 DEF Least
<1>9. QED
  BY <1>6, <1>7, <1>8 DEF TileRows, TileCols

LEMMA MadeTileIsTile ==
  ASSUME NEW rows \in Nat, NEW cols \in Nat, NEW f
  PROVE  IsTile(MakeTile(rows, cols, f))
BY DimensionsAssumption DEF IsTile, MakeTile

LEMMA MissingIsTile == IsTile(Missing)
BY DEF IsTile, Missing

LEMMA AssembledTile ==
  ASSUME NEW source, SourceSound(source), NEW bh \in Nat \ {0}, NEW bw \in Nat \ {0},
         NEW r \in 0 .. GridRows(bh) - 1, NEW c \in 0 .. GridCols(bw) - 1
  PROVE  IsTile(OutputTile(source, bh, bw, r, c))
<1> DEFINE rows == Least(r * bh + bh, Rows) - r * bh
           cols == Least(c * bw + bw, Cols) - c * bw
           f == [p \in BandSet \X (0 .. rows - 1) \X (0 .. cols - 1) |->
                   Copied(source, p[1], r * bh + p[2], c * bw + p[3])]
           failed == \E p \in SourceBlocks(source, bh, bw, r, c) : source.blocks[p] = Missing
<1>1. CASE GridsMatch(source, bh, bw)
  <2>1. OutputTile(source, bh, bw, r, c) = source.blocks[<<r, c>>]
    BY <1>1 DEF OutputTile
  <2>2. <<r, c>> \in Grid(source.bh, source.bw)
    BY <1>1 DEF GridsMatch, Grid
  <2>3. QED
    BY <2>1, <2>2 DEF SourceSound
<1>2. CASE ~GridsMatch(source, bh, bw) /\ failed
  <2>1. OutputTile(source, bh, bw, r, c) = Missing
    BY <1>2 DEF OutputTile
  <2>2. QED
    BY <2>1, MissingIsTile
<1>3. CASE ~GridsMatch(source, bh, bw) /\ ~failed
  <2>1. OutputTile(source, bh, bw, r, c) = MakeTile(rows, cols, f)
    BY <1>3 DEF OutputTile
  <2>2. rows \in Nat /\ cols \in Nat
    BY GridCell
  <2> HIDE DEF rows, cols, f
  <2>3. QED
    BY <2>1, <2>2, MadeTileIsTile
<1>4. QED
  BY <1>1, <1>2, <1>3

LEMMA ImageSourceIsSound ==
  ASSUME NEW img, ImageSound(img)
  PROVE  SourceSound(ImageSource(img))
<1>1. ImageSource(img).bh = img.bh /\ ImageSource(img).bw = img.bw
  BY DEF ImageSource
<1>2. ASSUME NEW p \in Grid(img.bh, img.bw)
      PROVE  IsTile(ImageSource(img).blocks[p])
  <2>1. p = <<p[1], p[2]>> /\ p[1] \in 0 .. GridRows(img.bh) - 1
          /\ p[2] \in 0 .. GridCols(img.bw) - 1
    BY DEF Grid
  <2>2. ImageSource(img).blocks[p] = GetBlock(img, p[1], p[2])
    BY DEF ImageSource
  <2>3. CASE p \in DOMAIN img.blocks
    BY <2>1, <2>2, <2>3 DEF GetBlock, ImageSound
  <2>4. CASE p \notin DOMAIN img.blocks /\ img.source = NoFile
    BY <2>1, <2>2, <2>4, MissingIsTile DEF GetBlock
  <2>5. CASE p \notin DOMAIN img.blocks /\ img.source # NoFile
    <3>1. GetBlock(img, p[1], p[2]) = OutputTile(img.source, img.bh, img.bw, p[1], p[2])
      BY <2>1, <2>5 DEF GetBlock
    <3>2. SourceSound(img.source) /\ img.bh \in Nat \ {0} /\ img.bw \in Nat \ {0}
      BY <2>5 DEF ImageSound
    <3>3. QED
      BY <2>1, <2>2, <3>1, <3>2, AssembledTile
  <2>6. QED
    BY <2>3, <2>4, <2>5
<1>3. QED
  BY <1>1, <1>2 DEF SourceSound, ImageSound

LEMMA ReaderIsSound ==
  ASSUME NEW h, Sound(h), NEW seg, Describes(seg, h)
  PROVE  SourceSound(Reader(seg))
<1>1. BlockHeight(seg) = h.bh /\ BlockWidth(seg) = h.bw
  BY DescribedShape
<1>2. h.bh \in Nat \ {0} /\ h.bw \in Nat \ {0}
  BY DEF Sound
<1>3. ASSUME NEW p \in Grid(h.bh, h.bw)
      PROVE  IsTile(SegmentGetBlock(seg, p[1], p[2]))
  <2>1. p[1] \in 0 .. GridRows(h.bh) - 1 /\ p[2] \in 0 .. GridCols(h.bw) - 1
    BY DEF Grid
  <2>2. TileRows(h.bh, p[1]) \in Nat /\ TileCols(h.bw, p[2]) \in Nat
    BY <1>2, <2>1, GridCell
  <2>3. IsTile(DecodeBlock(seg, p[1], p[2]))
    BY <1>1, <2>2, MadeTileIsTile DEF DecodeBlock
  <2>4. ASSUME NEW o
        PROVE  IsTile(DecodeBlockAtOffset(seg, o, p[1], p[2]))
    BY <1>1, <2>2, MadeTileIsTile, MissingIsTile DEF DecodeBlockAtOffset
  <2>5. QED
    BY <1>1, <2>2, <2>3, <2>4, MadeTileIsTile DEF SegmentGetBlock
<1>4. QED
  BY <1>1, <1>2, <1>3 DEF Reader, SourceSound

LEMMA PixelsExist == PixelSet # {}
<1>1. <<0, 0, 0>> \in PixelSet
  BY DimensionsAssumption DEF PixelSet, BandSet
<1>2. QED
  BY <1>1

LEMMA NotNothing ==
  ASSUME NEW f, DOMAIN f = PixelSet
  PROVE  f # Nothing
<1>1. DOMAIN Nothing = {}
  BY DEF Nothing
<1>2. QED
  BY <1>1, PixelsExist

LEMMA InitInv == Init => IInv
<1> SUFFICES ASSUME Init PROVE IInv
  OBVIOUS
<1>1. PICK s \in Shapes :
         image = [bh |-> s[1], bw |-> s[2], blocks |-> <<>>, provided |-> {},
                  source |-> NoFile]
  BY DEF Init
<1>2. DOMAIN image.blocks = {}
  BY <1>1
<1>3. ImageSound(image)
  BY <1>1, <1>2, SegmentAssumption DEF ImageSound
<1>4. TypeOK
  BY <1>1, <1>2, SegmentAssumption DEF TypeOK, Init, NoJob, NoFile
<1>5. QED
  BY <1>3, <1>4 DEF IInv, Init

\* Painted blocks are tiles, and both maps of the image get the same keys.
LEMMA InsertKeeps ==
  ASSUME NEW img, ImageSound(img), img.provided = DOMAIN img.blocks,
         img.provided \subseteq Grid(img.bh, img.bw),
         NEW blocks \in SUBSET Grid(img.bh, img.bw), NEW v
  PROVE  LET new == Insert(img, blocks, v)
         IN  /\ ImageSound(new)
             /\ new.provided = DOMAIN new.blocks
             /\ new.provided \subseteq Grid(new.bh, new.bw)
<1> DEFINE new == Insert(img, blocks, v)
           map == [p \in DOMAIN img.blocks \cup blocks |->
                     IF p \in blocks THEN PaintedTile(img, p[1], p[2], v)
                                     ELSE img.blocks[p]]
<1>1. new = [bh |-> img.bh, bw |-> img.bw, blocks |-> map,
             provided |-> img.provided \cup blocks, source |-> img.source]
  <2>1. DOMAIN img = {"bh", "bw", "blocks", "provided", "source"}
    BY DEF ImageSound
  <2>2. new = [img EXCEPT !.blocks = map, !.provided = img.provided \cup blocks]
    BY DEF Insert
  <2> HIDE DEF new, map
  <2>3. QED
    BY <2>1, <2>2
<1>2. ASSUME NEW p \in DOMAIN map
      PROVE  IsTile(map[p])
  <2>1. CASE p \in blocks
    <3>1. p[1] \in 0 .. GridRows(img.bh) - 1 /\ p[2] \in 0 .. GridCols(img.bw) - 1
      BY <2>1 DEF Grid
    <3>2. TileRows(img.bh, p[1]) \in Nat /\ TileCols(img.bw, p[2]) \in Nat
      BY <3>1, GridCell DEF ImageSound
    <3>3. IsTile(PaintedTile(img, p[1], p[2], v))
      BY <3>2, MadeTileIsTile DEF PaintedTile
    <3>4. QED
      BY <2>1, <3>3
  <2>2. CASE p \notin blocks
    BY <2>2 DEF ImageSound
  <2>3. QED
    BY <2>1, <2>2
<1> HIDE DEF map
<1>3. DOMAIN map = DOMAIN img.blocks \cup blocks
  BY DEF map
<1>4. QED
  BY <1>1, <1>2, <1>3 DEF ImageSound

LEMMA BecomesKeeps ==
  ASSUME IInv, NEW img, ImageBecomes(img), UNCHANGED job
  PROVE  held' = Nothing <=> job' = NoJob
BY NotNothing DEF IInv, TypeOK, ImageBecomes

LEMMA SetStep ==
  ASSUME IInv, NEW blocks \in SUBSET Grid(image.bh, image.bw),
         sets < MaxSets, sets' = sets + 1,
         ImageBecomes(Insert(image, blocks, sets + 1)),
         UNCHANGED <<depth, segment, reader, job, writes>>
  PROVE  IInv'
<1>1. /\ ImageSound(image')
      /\ image'.provided = DOMAIN image'.blocks
      /\ image'.provided \subseteq Grid(image'.bh, image'.bw)
  <2>1. /\ ImageSound(image) /\ image.provided = DOMAIN image.blocks
        /\ image.provided \subseteq Grid(image.bh, image.bw)
    BY DEF IInv, TypeOK
  <2>2. image' = Insert(image, blocks, sets + 1)
    BY DEF ImageBecomes
  <2>3. QED
    BY <2>1, <2>2, InsertKeeps
<1>2. held' = Nothing <=> job' = NoJob
  BY BecomesKeeps
<1>3. sets' \in 0 .. MaxSets
  BY SegmentAssumption DEF IInv, TypeOK
<1>4. TypeOK'
  BY <1>1, <1>2, <1>3 DEF IInv, TypeOK
<1>5. job' # NoJob => JobSound'
  BY DEF IInv, JobSound
<1>6. segment' # NoFile => SegmentSound'
  BY DEF IInv, SegmentSound
<1>7. QED
  BY <1>1, <1>4, <1>5, <1>6 DEF IInv

LEMMA DeriveStep ==
  ASSUME IInv, NEW s \in Shapes, Derive(s[1], s[2])
  PROVE  IInv'
<1>1. image' = [bh |-> s[1], bw |-> s[2], blocks |-> <<>>, provided |-> {},
                source |-> reader]
  BY DEF Derive, ImageBecomes
<1>2. DOMAIN image'.blocks = {}
  BY <1>1
<1>3. SourceSound(reader)
  BY DEF Derive, IInv, SegmentSound
<1>4. ImageSound(image')
  BY <1>1, <1>2, <1>3, SegmentAssumption DEF ImageSound
<1>5. held' = Nothing <=> job' = NoJob
  BY BecomesKeeps DEF Derive
<1>6. TypeOK'
  BY <1>1, <1>2, <1>5 DEF IInv, TypeOK, Derive
<1>7. QED
  BY <1>4, <1>6 DEF IInv, JobSound, SegmentSound, Derive

LEMMA TableIsSequence ==
  ASSUME NEW n \in Nat, NEW S, NEW f \in [1 .. n -> S]
  PROVE  f \in Seq(S) /\ Len(f) = n
BY SeqDef, LenProperties

LEMMA Indices ==
  ASSUME NEW h, Sound(h), NEW p \in Grid(h.bh, h.bw), NEW q \in Grid(h.bh, h.bw)
  PROVE  /\ BlockIndex(h.bw, p[1], p[2]) \in 0 .. BlockCount(h.bh, h.bw) - 1
         /\ BlockIndex(h.bw, p[1], p[2]) = BlockIndex(h.bw, q[1], q[2]) => p = q
<1>1. /\ p[1] \in 0 .. GridRows(h.bh) - 1 /\ p[2] \in 0 .. GridCols(h.bw) - 1
      /\ q[1] \in 0 .. GridRows(h.bh) - 1 /\ q[2] \in 0 .. GridCols(h.bw) - 1
      /\ p = <<p[1], p[2]>> /\ q = <<q[1], q[2]>>
  BY DEF Grid
<1>2. BlockIndex(h.bw, p[1], p[2]) \in 0 .. BlockCount(h.bh, h.bw) - 1
  BY <1>1, Numbers
<1>3. GridRows(h.bh) \in Nat /\ GridCols(h.bw) \in Nat \ {0}
  BY <1>1, Numbers
<1>4. BlockIndex(h.bw, p[1], p[2]) = BlockIndex(h.bw, q[1], q[2])
        => p[1] = q[1] /\ p[2] = q[2]
  BY <1>1, <1>3, MixedRadix DEF BlockIndex
<1>5. QED
  BY <1>1, <1>2, <1>4

LEMMA MaskAtStart ==
  ASSUME NEW h, Sound(h), OneRecord(h), NEW provided
  PROVE  MaskSoFar(InitialRecords(h, provided), h, provided)
<1> DEFINE records == InitialRecords(h, provided)
           blocks == BlockCount(h.bh, h.bw)
           Provides(n) == \E p \in provided \cap Grid(h.bh, h.bw) :
                          n = BlockIndex(h.bw, p[1], p[2])
<1>2. blocks \in Nat
  BY GridSize
<1>3. RecordCount(h) = blocks
  <2> HIDE DEF blocks
  <2>1. QED
    BY <1>2 DEF RecordCount, OneRecord, blocks
<1>4. \A n \in 0 .. blocks - 1 : n \div 1 = n
  BY <1>2
<1>5. records = [n \in 0 .. blocks - 1 |-> IF Provides(n) THEN 0 ELSE EmptyBlock]
  <2>1. CASE h.imode # "S"
    BY <1>3, <2>1 DEF InitialRecords
  <2>2. CASE h.imode = "S" /\ Bands = 1
    BY <1>3, <1>4, <2>2 DEF InitialRecords
  <2>3. QED
    BY <2>1, <2>2 DEF OneRecord
<1>6. ASSUME NEW p \in Grid(h.bh, h.bw)
      PROVE  (records[BlockIndex(h.bw, p[1], p[2])] # EmptyBlock) <=> p \in provided
  <2> DEFINE i == BlockIndex(h.bw, p[1], p[2])
  <2>1. i \in 0 .. blocks - 1
    BY Indices
  <2>2. Provides(i) <=> p \in provided
    BY Indices
  <2>3. records[i] = IF Provides(i) THEN 0 ELSE EmptyBlock
    BY <1>5, <2>1
  <2>4. QED
    BY <2>2, <2>3 DEF EmptyBlock
<1>7. QED
  BY <1>5, <1>6 DEF MaskSoFar

LEMMA StartStep ==
  ASSUME IInv, NEW ic \in {"NC", "NM"}, NEW imode \in WriteModes, NEW s \in Shapes,
         StartWrite(ic, imode, s)
  PROVE  IInv'
<1> DEFINE h == [ic |-> ic, imode |-> imode, depth |-> depth,
                 bh |-> Clamp(s)[1], bw |-> Clamp(s)[2]]
           provided == CollectProvidedBlocks(image)
           bytes == IF ic = "NC" THEN [k \in 1 .. EncoderUnits(h) |-> Unit(Fill, 0)] ELSE <<>>
           records == IF ic = "NC" THEN <<>> ELSE InitialRecords(h, provided)
<1>1. job' = [ic |-> ic, hints |-> h, provided |-> provided, next |-> 0,
              bytes |-> bytes, records |-> records]
  BY DEF StartWrite
<1>2. Sound(h)
  <2>1. Clamp(s)[1] \in 1 .. Rows /\ Clamp(s)[2] \in 1 .. Cols
    BY SegmentAssumption, DimensionsAssumption DEF Clamp, Least
  <2>2. h.depth \in {4, 8, 12, 16} /\ h.imode \in Modes
    BY SegmentAssumption DEF IInv, TypeOK
  <2>3. QED
    BY <2>1, <2>2 DEF Sound
<1>3. BlockCount(h.bh, h.bw) \in Nat /\ EncoderUnits(h) \in Nat
  <2> HIDE DEF h
  <2>1. QED
    BY <1>2, GridSize
<1>4. /\ \E S : bytes \in Seq(S)
      /\ ic = "NC" => Len(bytes) = EncoderUnits(h)
  <2>1. CASE ic = "NC"
    <3> DEFINE n == EncoderUnits(h)
    <3>1. bytes \in [1 .. n -> {Unit(Fill, 0)}]
      BY <2>1
    <3> HIDE DEF n, bytes, h
    <3>2. bytes \in Seq({Unit(Fill, 0)}) /\ Len(bytes) = n
      BY <1>3, <3>1, TableIsSequence DEF n
    <3>3. QED
      BY <3>2 DEF n
  <2>2. CASE ic # "NC"
    <3>1. bytes \in Seq({})
      BY <2>2
    <3>2. QED
      BY <2>2, <3>1
  <2>3. QED
    BY <2>1, <2>2
<1>5. ic = "NM" /\ OneRecord(h) => MaskSoFar(records, h, provided)
  <2> HIDE DEF h, provided
  <2>1. QED
    BY <1>2, MaskAtStart
<1>6. ic = "NM" /\ ~MaskedSequential => OneRecord(h)
  BY DEF StartWrite, OneRecord
<1>7. JobSound'
  <2>1. h.depth = depth'
    BY DEF StartWrite
  <2> HIDE DEF h, provided, bytes, records
  <2>2. /\ job'.ic = ic /\ job'.hints = h /\ job'.provided = provided /\ job'.next = 0
        /\ job'.bytes = bytes /\ job'.records = records
    BY <1>1
  <2>3. job'.next \in 0 .. BlockCount(job'.hints.bh, job'.hints.bw)
    BY <1>3, <2>2
  <2>4. QED
    BY <1>1, <1>2, <1>4, <1>5, <1>6, <2>1, <2>2, <2>3 DEF JobSound
<1>8. held' = Nothing <=> job' = NoJob
  <2>1. held' # Nothing
    BY NotNothing DEF StartWrite
  <2>2. job' # NoJob
    BY <1>1 DEF NoJob
  <2>3. QED
    BY <2>1, <2>2
<1>9. writes' \in 0 .. MaxWrites
  BY SegmentAssumption DEF StartWrite, IInv, TypeOK
<1>10. TypeOK'
  BY <1>7, <1>8, <1>9 DEF StartWrite, IInv, TypeOK, JobSound
<1>11. QED
  BY <1>7, <1>10 DEF StartWrite, IInv, SegmentSound

LEMMA AbandonStep ==
  ASSUME IInv, Abandoned
  PROVE  IInv'
BY DEF IInv, TypeOK, Abandoned, SegmentSound

LEMMA MaskedUnitsAreUnits ==
  ASSUME NEW h, Sound(h), NEW tile, IsTile(tile)
  PROVE  \E S : MaskedUnits(h, tile) \in Seq(S)
<1> DEFINE size == ContainerUnits(h.depth)
           n == tile.bands * tile.rows * tile.cols * size
           units == MaskedUnits(h, tile)
           S == {units[k] : k \in 1 .. n}
<1>1. size \in Nat
  BY DEF Sound, ContainerUnits, BytesPerPixel, DivCeil, UnitsPerByte
<1>2. n \in Nat
  <2> HIDE DEF size
  <2>1. QED
    BY <1>1, SMTT(10) DEF IsTile
<1>3. units \in [1 .. n -> S]
  BY DEF MaskedUnits
<1> HIDE DEF n, units, S
<1>4. units \in Seq(S)
  BY <1>2, <1>3, TableIsSequence
<1>5. QED
  BY <1>4 DEF units

LEMMA EncodeStep ==
  ASSUME IInv, EncodeNext
  PROVE  IInv'
<1> DEFINE h == job.hints
           blocks == BlockCount(h.bh, h.bw)
           r == job.next \div GridCols(h.bw)
           c == job.next % GridCols(h.bw)
           tile == OutputTile(ImageSource(image), h.bh, h.bw, r, c)
           after == EncodeBlock(h, job.bytes, r, c, tile)
           offset == Len(job.bytes) \div UnitsPerByte
           appended == job.bytes \o MaskedUnits(h, tile)
<1>1. job # NoJob /\ JobSound /\ Sound(h) /\ job.next \in 0 .. blocks
        /\ job.next < blocks
  BY DEF EncodeNext, IInv, JobSound
<1>2. /\ r \in 0 .. GridRows(h.bh) - 1 /\ c \in 0 .. GridCols(h.bw) - 1
      /\ BlockIndex(h.bw, r, c) = job.next
      /\ blocks \in Nat
  <2>1. /\ GridRows(h.bh) \in Nat \ {0} /\ GridCols(h.bw) \in Nat \ {0} /\ blocks \in Nat
    BY <1>1, GridSize
  <2>2. job.next \in 0 .. GridRows(h.bh) * GridCols(h.bw) - 1
    BY <1>1, <2>1 DEF BlockCount
  <2>3. job.next \in Nat
    BY <1>1, <2>1
  <2> DEFINE k == job.next
             rows == GridRows(h.bh)
             cols == GridCols(h.bw)
  <2> HIDE DEF k, rows, cols
  <2>4. k \div cols \in 0 .. rows - 1 /\ k % cols \in 0 .. cols - 1
          /\ k = (k \div cols) * cols + (k % cols)
    BY <2>1, <2>2, <2>3, RowMajor, Division DEF k, rows, cols
  <2>5. QED
    BY <2>1, <2>4 DEF k, rows, cols, BlockIndex
<1>3. h.bh \in Nat \ {0} /\ h.bw \in Nat \ {0} /\ IsTile(tile)
  <2>1. h.bh \in Nat \ {0} /\ h.bw \in Nat \ {0}
    BY <1>1 DEF Sound
  <2>2. SourceSound(ImageSource(image))
    BY ImageSourceIsSound DEF IInv
  <2> HIDE DEF h, r, c
  <2>3. QED
    BY <1>2, <2>1, <2>2, AssembledTile DEF h
<1>4. PICK S : job.bytes \in Seq(S)
  BY <1>1 DEF JobSound
<1>5. Len(job.bytes) \in Nat /\ DOMAIN job.bytes = 1 .. Len(job.bytes)
  BY <1>4, LenProperties
<1>6. DOMAIN job = {"ic", "hints", "provided", "next", "bytes", "records"}
  BY <1>1 DEF JobSound
<1>7. job.next + 1 \in 0 .. blocks
  <2> HIDE DEF blocks
  <2>1. QED
    BY <1>1, <1>2
<1> HIDE DEF h, blocks, r, c, tile
<1>8. CASE /\ job.ic = "NM" /\ <<r, c>> \notin job.provided
           /\ job' = [job EXCEPT !.next = @ + 1]
           /\ UNCHANGED <<depth, image, shown, segment, reader, sets, writes, held>>
  <2>1. job' = [ic |-> job.ic, hints |-> job.hints, provided |-> job.provided,
                next |-> job.next + 1, bytes |-> job.bytes, records |-> job.records]
    BY <1>6, <1>8
  <2>2. JobSound'
    BY <1>1, <1>7, <1>8, <2>1 DEF JobSound, h, blocks
  <2>3. job' # NoJob
    BY <1>1, <2>1 DEF NoJob, JobSound
  <2>4. TypeOK'
    BY <1>1, <1>7, <1>8, <2>1, <2>3 DEF IInv, TypeOK, h, blocks
  <2>5. QED
    BY <1>8, <2>2, <2>4 DEF IInv, SegmentSound
<1>9. CASE Abandoned
  BY <1>9, AbandonStep
<1>10. CASE /\ job.ic = "NC"
            /\ job' = [job EXCEPT !.next = @ + 1, !.bytes = EncodeBlock(h, @, r, c, tile)]
            /\ UNCHANGED <<depth, image, shown, segment, reader, sets, writes, held>>
  <2>1. job' = [ic |-> job.ic, hints |-> job.hints, provided |-> job.provided,
                next |-> job.next + 1, bytes |-> after, records |-> job.records]
    BY <1>6, <1>10
  <2>2. \E T : after \in Seq(T) /\ Len(after) = Len(job.bytes)
    <3> DEFINE n == Len(job.bytes)
               T == {after[k] : k \in 1 .. n}
    <3>1. after \in [1 .. n -> T]
      BY <1>5 DEF EncodeBlock
    <3> HIDE DEF after, n, T
    <3>2. after \in Seq(T) /\ Len(after) = n
      BY <1>5, <3>1, TableIsSequence DEF n
    <3>3. QED
      BY <3>2 DEF n
  <2> HIDE DEF after
  <2>3. JobSound'
    <3>1. /\ job'.ic = job.ic /\ job'.hints = h /\ job'.provided = job.provided
          /\ job'.next = job.next + 1 /\ job'.bytes = after /\ job'.records = job.records
      BY <2>1 DEF h
    <3>2. /\ job'.next \in 0 .. BlockCount(job'.hints.bh, job'.hints.bw)
          /\ job'.hints.depth = depth'
      BY <1>1, <1>7, <1>10, <3>1 DEF JobSound, h, blocks
    <3>3. \E T : job'.bytes \in Seq(T) /\ Len(job'.bytes) = EncoderUnits(h)
      BY <1>1, <1>10, <2>2, <3>1 DEF JobSound, h
    <3>4. QED
      BY <1>1, <1>10, <2>1, <3>1, <3>2, <3>3 DEF JobSound
  <2>4. job' # NoJob
    BY <1>10, <2>1 DEF NoJob
  <2>5. TypeOK'
    BY <1>1, <1>7, <1>10, <2>1, <2>4 DEF IInv, TypeOK, h, blocks
  <2>6. QED
    BY <1>10, <2>3, <2>5 DEF IInv, SegmentSound
<1>11. CASE /\ job.ic = "NM" /\ <<r, c>> \in job.provided
            /\ job' = [job EXCEPT !.next = @ + 1,
                                  !.records[job.next] = offset,
                                  !.bytes = @ \o MaskedUnits(h, tile)]
            /\ UNCHANGED <<depth, image, shown, segment, reader, sets, writes, held>>
  <2> DEFINE records == [job.records EXCEPT ![job.next] = offset]
  <2>1. job' = [ic |-> job.ic, hints |-> job.hints, provided |-> job.provided,
                next |-> job.next + 1, bytes |-> appended, records |-> records]
    BY <1>6, <1>11
  <2>2. \E T : appended \in Seq(T)
    <3>1. PICK U : MaskedUnits(h, tile) \in Seq(U)
      BY <1>1, <1>3, MaskedUnitsAreUnits
    <3>2. job.bytes \in Seq(S \cup U) /\ MaskedUnits(h, tile) \in Seq(S \cup U)
      BY <1>4, <3>1, SeqMonotonic
    <3>3. appended \in Seq(S \cup U)
      BY <3>2, ConcatProperties
    <3>4. QED
      BY <3>3
  <2>3. offset # EmptyBlock
    <3> DEFINE n == Len(job.bytes)
    <3> HIDE DEF n
    <3>1. n \in Nat
      BY <1>5 DEF n
    <3>2. n \div 2 # -1
      BY <3>1
    <3>3. QED
      BY <3>2 DEF EmptyBlock, UnitsPerByte, n
  <2>4. OneRecord(h) => MaskSoFar(records, h, job.provided)
    <3> HAVE OneRecord(h)
    <3>1. MaskSoFar(job.records, h, job.provided)
      BY <1>1, <1>11 DEF JobSound, h
    <3>2. ASSUME NEW p \in Grid(h.bh, h.bw)
          PROVE  (records[BlockIndex(h.bw, p[1], p[2])] # EmptyBlock) <=> p \in job.provided
      <4> DEFINE i == BlockIndex(h.bw, p[1], p[2])
      <4>1. i \in 0 .. blocks - 1
        BY <1>1, Indices DEF blocks
      <4>2. i \in DOMAIN job.records
        BY <3>1, <4>1 DEF MaskSoFar, blocks
      <4>3. <<r, c>> \in Grid(h.bh, h.bw)
        BY <1>2 DEF Grid
      <4>4. i = job.next => p = <<r, c>>
        <5>1. /\ <<r, c>>[1] = r /\ <<r, c>>[2] = c
          OBVIOUS
        <5>2. i = BlockIndex(h.bw, <<r, c>>[1], <<r, c>>[2]) => p = <<r, c>>
          BY <1>1, <4>3, Indices
        <5>3. QED
          BY <1>2, <5>1, <5>2
      <4>5. CASE i = job.next
        <5>1. records[i] = offset
          BY <4>2, <4>5
        <5>2. QED
          BY <1>11, <2>3, <4>4, <4>5, <5>1
      <4>6. CASE i # job.next
        <5>1. records[i] = job.records[i]
          BY <4>2, <4>6
        <5>2. QED
          BY <3>1, <5>1 DEF MaskSoFar
      <4>7. QED
        BY <4>5, <4>6
    <3>3. QED
      BY <3>1, <3>2 DEF MaskSoFar
  <2> HIDE DEF appended, records
  <2>5. JobSound'
    <3>1. /\ job'.ic = job.ic /\ job'.hints = h /\ job'.provided = job.provided
          /\ job'.next = job.next + 1 /\ job'.bytes = appended /\ job'.records = records
      BY <2>1 DEF h
    <3>2. /\ job'.next \in 0 .. BlockCount(job'.hints.bh, job'.hints.bw)
          /\ job'.hints.depth = depth'
      BY <1>1, <1>7, <1>11, <3>1 DEF JobSound, h, blocks
    <3>3. ~MaskedSequential => OneRecord(h)
      BY <1>1, <1>11 DEF JobSound, h
    <3>4. QED
      BY <1>1, <1>11, <2>1, <2>2, <2>4, <3>1, <3>2, <3>3 DEF JobSound
  <2>6. job' # NoJob
    BY <1>11, <2>1 DEF NoJob
  <2>7. TypeOK'
    BY <1>1, <1>7, <1>11, <2>1, <2>6 DEF IInv, TypeOK, h, blocks
  <2>8. QED
    BY <1>11, <2>5, <2>7 DEF IInv, SegmentSound
<1>12. job.ic \in {"NC", "NM"}
  BY <1>1 DEF JobSound
<1>13. QED
  BY <1>8, <1>9, <1>10, <1>11, <1>12 DEF EncodeNext, h, r, c, tile

LEMMA FinishStep ==
  ASSUME IInv, FinishWrite
  PROVE  IInv'
<1> DEFINE h == job.hints
           bytes == IF job.ic = "NM"
                      THEN [k \in 1 .. MaskBytes(h) * UnitsPerByte |-> Table] \o job.bytes
                      ELSE job.bytes
           mask == IF job.ic = "NM" THEN MaskTable(h, job.records) ELSE NoMask
           new == [ic |-> job.ic, imode |-> h.imode, depth |-> h.depth,
                   nbpr |-> GridCols(h.bw), nbpc |-> GridRows(h.bh),
                   nppbh |-> IF h.bw = Cols THEN 0 ELSE h.bw,
                   nppbv |-> IF h.bh = Rows THEN 0 ELSE h.bh,
                   mask |-> mask, bytes |-> bytes]
<1>1. JobSound /\ Sound(h) /\ h.depth = depth /\ job.ic \in {"NC", "NM"}
  BY DEF FinishWrite, IInv, JobSound
<1>2. segment' = new /\ reader' = Reader(new)
  BY DEF FinishWrite
<1>3. Describes(new, h)
  BY DEF Describes
<1>4. SourceSound(Reader(new))
  <2> HIDE DEF new, h
  <2>1. QED
    BY <1>1, <1>3, ReaderIsSound
<1>5. (new.ic = "NM") = (new.mask # NoMask)
  <2>1. RecordCount(h) \in Nat
    <3>1. BlockCount(h.bh, h.bw) \in Nat
      BY <1>1, GridSize
    <3>2. QED
      BY <3>1, DimensionsAssumption, SMTT(10) DEF RecordCount
  <2>2. MaskBytes(h) # 0
    BY <2>1 DEF MaskBytes
  <2>3. MaskTable(h, job.records) # NoMask
    BY <2>2 DEF MaskTable, NoMask
  <2>4. QED
    BY <1>1, <2>3
<1>6. new.ic = "NC" => Len(new.bytes) = EncoderUnits(h)
  BY <1>1 DEF JobSound
<1> HIDE DEF new
<1>7. SegmentSound'
  BY <1>1, <1>2, <1>3, <1>4, <1>5, <1>6 DEF SegmentSound, FinishWrite, new
<1>8. TypeOK'
  BY <1>2, <1>5 DEF IInv, TypeOK, FinishWrite, NoJob
<1>9. QED
  BY <1>7, <1>8 DEF IInv, FinishWrite

LEMMA NextInv == IInv /\ [Next]_vars => IInv'
<1> SUFFICES ASSUME IInv, [Next]_vars PROVE IInv'
  OBVIOUS
<1>1. ASSUME NEW p \in Grid(image.bh, image.bw), SetBlock(p[1], p[2]) PROVE IInv'
  <2>1. {<<p[1], p[2]>>} \in SUBSET Grid(image.bh, image.bw)
    BY DEF Grid
  <2>2. QED
    BY <1>1, <2>1, SetStep DEF SetBlock
<1>2. CASE SetFullImage
  BY <1>2, SetStep DEF SetFullImage
<1>3. ASSUME NEW s \in Shapes, Derive(s[1], s[2]) PROVE IInv'
  BY <1>3, DeriveStep
<1>4. ASSUME NEW ic \in {"NC", "NM"}, NEW imode \in WriteModes, NEW s \in Shapes,
             StartWrite(ic, imode, s)
      PROVE  IInv'
  BY <1>4, StartStep
<1>5. CASE EncodeNext
  BY <1>5, EncodeStep
<1>6. CASE SourceFails
  BY <1>6, AbandonStep DEF SourceFails
<1>7. CASE FinishWrite
  BY <1>7, FinishStep
<1>8. CASE UNCHANGED vars
  BY <1>8 DEF vars, IInv, TypeOK, JobSound, SegmentSound
<1>9. QED
  BY <1>1, <1>2, <1>3, <1>4, <1>5, <1>6, <1>7, <1>8 DEF Next

LEMMA Invariant == Spec => []IInv
BY InitInv, NextInv, PTL DEF Spec

(* The image's two maps name the same blocks, the write stays in its grid  *)
(* and a finished file has a mask exactly when it is masked, for images,   *)
(* blocks and write sequences of any size.                                 *)
THEOREM TypeInvariant == Spec => []TypeOK
<1>1. IInv => TypeOK
  BY DEF IInv
<1>2. QED
  BY <1>1, Invariant, PTL

(* At the end of a masked write the provider finds in the mask exactly the *)
(* blocks the image provided when the write began, as long as no band-     *)
(* sequential mask of several bands is written.                            *)
THEOREM MaskIsTold ==
  ASSUME ~MaskedSequential
  PROVE  Spec => []MaskTellsProvided
<1>1. IInv => MaskTellsProvided
  <2> SUFFICES ASSUME IInv, job # NoJob, job.ic = "NM",
                      NEW p \in Grid(job.hints.bh, job.hints.bw)
               PROVE  MaskHasBlock([nbpr |-> GridCols(job.hints.bw),
                                    mask |-> MaskTable(job.hints, job.records)], p[1], p[2])
                        = (p \in job.provided)
    BY DEF MaskTellsProvided
  <2> DEFINE i == BlockIndex(job.hints.bw, p[1], p[2])
             seg == [nbpr |-> GridCols(job.hints.bw),
                     mask |-> MaskTable(job.hints, job.records)]
  <2>1. Sound(job.hints) /\ MaskSoFar(job.records, job.hints, job.provided)
    BY DEF IInv, JobSound
  <2>2. i \in DOMAIN job.records
    BY <2>1, Indices DEF MaskSoFar
  <2>3. MaskIndex(seg, p[1], p[2]) = i /\ seg.mask.records = job.records
    BY DEF MaskIndex, BlockIndex, MaskTable
  <2>4. MaskHasBlock(seg, p[1], p[2]) = (job.records[i] # EmptyBlock)
    BY <2>2, <2>3 DEF MaskHasBlock
  <2>5. (job.records[i] # EmptyBlock) <=> p \in job.provided
    BY <2>1 DEF MaskSoFar
  <2>6. QED
    BY <2>4, <2>5
<1>2. QED
  BY <1>1, Invariant, PTL

\* A block's samples lie between the first unit of its range and the next one's.
LEMMA InRange ==
  ASSUME NEW h, Sound(h), NEW seg, Describes(seg, h), h.imode = "S" => Bands = 1,
         NEW r \in 0 .. GridRows(h.bh) - 1, NEW c \in 0 .. GridCols(h.bw) - 1,
         NEW b \in BandSet,
         NEW y \in 0 .. TileRows(h.bh, r) - 1, NEW x \in 0 .. TileCols(h.bw, c) - 1
  PROVE  LET unit == BlockBytes(h.depth, h.bh, h.bw) * UnitsPerByte
             index == BlockIndex(h.bw, r, c)
             at == ReadOffset(seg, r, c, b, y, x)
         IN  /\ at \in Nat
             /\ index * unit <= at
             /\ at + SampleUnits(h.depth) <= (index + 1) * unit
<1> DEFINE n == Area(h, r, c)
           k == Position(h, r, c, b, y, x)
           bytes == BandBytes(h.depth, h.bh, h.bw)
           band == bytes * UnitsPerByte
           size == SampleUnits(h.depth)
           area == h.bh * h.bw
           index == BlockIndex(h.bw, r, c)
           unit == BlockBytes(h.depth, h.bh, h.bw) * UnitsPerByte
           q == k \div n
           j == k % n
           s == Slot(h, r, c, q)
           at == WriteOffset(h, r, c, b, y, x)
<1>1. Bands \in Nat \ {0}
  BY DimensionsAssumption
<1>2. /\ at = s * band + j * size
      /\ q \in 0 .. Bands - 1 /\ j \in 0 .. n - 1
      /\ h.imode = "S" => q = b
  BY WrittenAt
<1>3. n \in Nat \ {0} /\ n <= area /\ index \in Nat
  BY Numbers
<1>4. /\ size \in Nat \ {0} /\ bytes \in Nat /\ band \in Nat
      /\ area \in Nat /\ area * size <= band
  BY BandUnits
<1>5. s = index * Bands + q
  <2>1. CASE h.imode = "S"
    <3>1. Bands = 1 /\ b = 0 /\ q = 0
      BY <1>2, <2>1 DEF BandSet
    <3>2. s = q * BlockCount(h.bh, h.bw) + index
      BY <2>1 DEF Slot
    <3>3. BlockCount(h.bh, h.bw) \in Nat
      BY GridSize
    <3> HIDE DEF q, s, index
    <3>4. QED
      BY <1>3, <3>1, <3>2, <3>3
  <2>2. CASE h.imode # "S"
    BY <2>2 DEF Slot
  <2>3. QED
    BY <2>1, <2>2
<1>6. unit = Bands * band
  <2> HIDE DEF bytes
  <2>1. bytes * Bands * 2 = Bands * (bytes * 2)
    BY <1>1, <1>4, SMTT(10)
  <2>2. QED
    BY <2>1 DEF BlockBytes, UnitsPerByte, bytes
<1>7. at = ReadOffset(seg, r, c, b, y, x)
  BY OffsetsAgree
<1> HIDE DEF n, band, size, area, index, unit, q, j, s, at
<1>8. q \in Nat /\ s \in Nat
  BY <1>1, <1>2, <1>3, <1>5, SMTT(10)
<1>9. /\ j * size \in Nat /\ s * band \in Nat
      /\ s * band + j * size + size <= (s + 1) * band
  BY <1>2, <1>3, <1>4, <1>8, InSlot
<1>10. (s + 1) * band <= (index * Bands + Bands) * band
  BY <1>1, <1>2, <1>3, <1>4, <1>5, <1>8, SMTT(10)
<1>11. (index * Bands + Bands) * band = (index + 1) * unit
  BY <1>1, <1>3, <1>4, <1>6, SMTT(10)
<1>12. index * unit <= s * band
  <2>1. s * band = index * unit + q * band
    BY <1>1, <1>3, <1>4, <1>5, <1>6, <1>8, SMTT(10)
  <2>2. index * unit \in Nat /\ q * band \in Nat
    BY <1>1, <1>3, <1>4, <1>6, <1>8, SMTT(10)
  <2>3. QED
    BY <2>1, <2>2
<1>13. (s + 1) * band \in Nat /\ (index + 1) * unit \in Nat /\ index * unit \in Nat
  BY <1>1, <1>3, <1>4, <1>6, <1>8, SMTT(10)
<1>14. /\ at \in Nat /\ index * unit <= at /\ at + size <= (index + 1) * unit
  BY <1>2, <1>4, <1>9, <1>10, <1>11, <1>12, <1>13
<1>15. QED
  BY <1>7, <1>14 DEF index, unit, size

(* The byte range published for a block of an unmasked segment lies in the *)
(* file and holds the whole block and nothing of another, for every size.  *)
THEOREM RangesAreWhole == Spec => []RangesHoldTheBlock
<1>1. IInv => RangesHoldTheBlock
  <2> SUFFICES ASSUME IInv, segment # NoFile, segment.ic = "NC",
                      segment.imode = "S" => Bands = 1,
                      NEW p \in Grid(BlockHeight(segment), BlockWidth(segment)),
                      NEW q \in Grid(BlockHeight(segment), BlockWidth(segment))
               PROVE  LET range == TileByteRange(segment, p[1], p[2])
                          first == range.first * UnitsPerByte
                          beyond == first + range.length * UnitsPerByte
                          size == SampleUnits(depth)
                      IN  /\ beyond <= Len(segment.bytes)
                          /\ \A b \in BandSet,
                                y \in 0 .. TileRows(BlockHeight(segment), q[1]) - 1,
                                x \in 0 .. TileCols(BlockWidth(segment), q[2]) - 1 :
                                LET at == ReadOffset(segment, q[1], q[2], b, y, x)
                                IN  IF p = q THEN first <= at /\ at + size <= beyond
                                             ELSE at + size <= first \/ beyond <= at
    BY DEF RangesHoldTheBlock
  <2>1. PICK h : /\ Sound(h)
                 /\ Describes(segment, h)
                 /\ h.depth = depth
                 /\ Len(segment.bytes) = EncoderUnits(h)
    BY DEF IInv, SegmentSound
  <2>2. /\ BlockHeight(segment) = h.bh /\ BlockWidth(segment) = h.bw
        /\ segment.imode = h.imode /\ segment.depth = depth
        /\ segment.nbpr = GridCols(h.bw)
    BY <2>1, DescribedShape DEF Describes
  <2> DEFINE unit == BlockBytes(h.depth, h.bh, h.bw) * UnitsPerByte
             i == BlockIndex(h.bw, p[1], p[2])
             k == BlockIndex(h.bw, q[1], q[2])
             blocks == BlockCount(h.bh, h.bw)
             range == TileByteRange(segment, p[1], p[2])
             size == SampleUnits(depth)
  <2>3. p \in Grid(h.bh, h.bw) /\ q \in Grid(h.bh, h.bw)
    BY <2>2
  <2>4. i \in 0 .. blocks - 1 /\ k \in 0 .. blocks - 1 /\ (i = k => p = q) /\ blocks \in Nat
    BY <2>1, <2>3, Indices, GridSize
  <2>5. BandBytes(h.depth, h.bh, h.bw) \in Nat /\ Bands \in Nat \ {0}
    BY <2>1, BandUnits, DimensionsAssumption
  <2>6. unit \in Nat
    BY <2>5, SMTT(10) DEF BlockBytes, UnitsPerByte
  <2>7. range.first = i * BlockBytes(h.depth, h.bh, h.bw)
          /\ range.length = BlockBytes(h.depth, h.bh, h.bw)
    <3>1. h.imode = "S" => BandBytes(h.depth, h.bh, h.bw) = BlockBytes(h.depth, h.bh, h.bw)
      BY <2>2, <2>5 DEF BlockBytes
    <3>2. QED
      BY <2>1, <2>2, <3>1 DEF TileByteRange, BlockIndex
  <2>8. range.first * UnitsPerByte = i * unit
          /\ range.first * UnitsPerByte + range.length * UnitsPerByte = (i + 1) * unit
    <3> DEFINE n == BlockBytes(h.depth, h.bh, h.bw)
    <3>1. n \in Nat
      BY <2>5, SMTT(10) DEF BlockBytes
    <3> HIDE DEF n, i, range
    <3>2. i \in Nat
      BY <2>4
    <3>3. (i * n) * 2 = i * (n * 2) /\ (i * n) * 2 + n * 2 = (i + 1) * (n * 2)
      BY <3>1, <3>2, SMTT(10)
    <3>4. QED
      BY <2>7, <3>3 DEF UnitsPerByte, n
  <2>9. (i + 1) * unit <= Len(segment.bytes)
    <3>1. EncoderUnits(h) = blocks * unit
      <4> DEFINE n == BlockBytes(h.depth, h.bh, h.bw)
      <4>1. n \in Nat
        BY <2>5, SMTT(10) DEF BlockBytes
      <4> HIDE DEF n, blocks
      <4>2. blocks * n * 2 = blocks * (n * 2)
        BY <2>4, <4>1, SMTT(10)
      <4>3. QED
        BY <4>2 DEF EncoderUnits, UnitsPerByte, n, blocks
    <3> HIDE DEF blocks, i, unit
    <3>2. (i + 1) * unit <= blocks * unit
      BY <2>4, <2>6, SMTT(10)
    <3>3. QED
      BY <2>1, <3>1, <3>2
  <2>10. ASSUME NEW b \in BandSet,
                NEW y \in 0 .. TileRows(h.bh, q[1]) - 1,
                NEW x \in 0 .. TileCols(h.bw, q[2]) - 1
         PROVE  LET at == ReadOffset(segment, q[1], q[2], b, y, x)
                IN  IF p = q THEN i * unit <= at /\ at + size <= (i + 1) * unit
                             ELSE at + size <= i * unit \/ (i + 1) * unit <= at
    <3> DEFINE at == ReadOffset(segment, q[1], q[2], b, y, x)
    <3>1. q[1] \in 0 .. GridRows(h.bh) - 1 /\ q[2] \in 0 .. GridCols(h.bw) - 1
      BY <2>3 DEF Grid
    <3>2. h.imode = "S" => Bands = 1
      BY <2>2
    <3>3. at \in Nat /\ k * unit <= at /\ at + size <= (k + 1) * unit
      BY <2>1, <3>1, <3>2, InRange
    <3>4. p = q => i = k
      OBVIOUS
    <3> HIDE DEF at, i, k, unit, blocks, size
    <3>5. size \in Nat
      BY <2>1, BandUnits DEF size
    <3>6. ASSUME NEW u \in Nat, NEW v \in Nat, u < v
          PROVE  (u + 1) * unit <= v * unit /\ (u + 1) * unit \in Nat /\ v * unit \in Nat
      BY <2>6, <3>6, SMTT(10)
    <3>7. i \in Nat /\ k \in Nat
      BY <2>4
    <3>8. CASE p = q
      BY <3>3, <3>4, <3>8 DEF at
    <3>9. CASE p # q /\ i < k
      <4>1. (i + 1) * unit <= at
        BY <3>3, <3>6, <3>7, <3>9
      <4>2. QED
        BY <3>9, <4>1 DEF at
    <3>10. CASE p # q /\ k < i
      <4>1. at + size <= i * unit
        BY <3>3, <3>5, <3>6, <3>7, <3>10
      <4>2. QED
        BY <3>10, <4>1 DEF at
    <3>11. QED
      BY <2>4, <3>7, <3>8, <3>9, <3>10 DEF at
  <2> HIDE DEF unit, i, size, range
  <2>11. QED
    BY <2>2, <2>8, <2>9, <2>10 DEF range, size
<1>2. QED
  BY <1>1, Invariant, PTL

-----------------------------------------------------------------------------
(* Whole tiles *)

\* A tile of the full shape.
Shaped(tile, rows, cols) ==
    /\ tile.bands = Bands
    /\ tile.rows = rows
    /\ tile.cols = cols
    /\ tile.data = [k \in 1 .. Bands * rows * cols |-> tile.data[k]]

\* The samples of tile (r, c) of a grid of bh x bw blocks.
Inside(bh, bw, r, c) ==
    BandSet \X (0 .. TileRows(bh, r) - 1) \X (0 .. TileCols(bw, c) - 1)

\* The pixel a sample of that tile is.
PixelOf(bh, bw, r, c, s) == <<s[1], r * bh + s[2], c * bw + s[3]>>

SampleAt(tile, s) == Sample(tile, s[1], s[2], s[3])

Whole(tile, bh, bw, r, c) ==
    /\ Shaped(tile, TileRows(bh, r), TileCols(bw, c))
    /\ \A s \in Inside(bh, bw, r, c) : SampleAt(tile, s) # Garbled

\* Every block of the source is whole or an error.
Serves(source) ==
    /\ source.bh \in Nat \ {0}
    /\ source.bw \in Nat \ {0}
    /\ \A p \in Grid(source.bh, source.bw) :
          \/ source.blocks[p] = Missing
          \/ Whole(source.blocks[p], source.bh, source.bw, p[1], p[2])

\* A finished file: every block is whole, and one it does not announce is fill.
Complete(source) ==
    /\ source # NoFile
    /\ source.bh \in Nat \ {0}
    /\ source.bw \in Nat \ {0}
    /\ source.present \subseteq Grid(source.bh, source.bw)
    /\ \A p \in Grid(source.bh, source.bw) :
          /\ Whole(source.blocks[p], source.bh, source.bw, p[1], p[2])
          /\ p \notin source.present =>
                \A s \in Inside(source.bh, source.bw, p[1], p[2]) :
                   SampleAt(source.blocks[p], s) = Fill

-----------------------------------------------------------------------------
(* The picture on its way to the file *)

ImageWhole(img) ==
    /\ img.bh \in Nat \ {0}
    /\ img.bw \in Nat \ {0}
    /\ img.provided = DOMAIN img.blocks
    /\ img.provided \subseteq Grid(img.bh, img.bw)
    /\ \A p \in DOMAIN img.blocks : Whole(img.blocks[p], img.bh, img.bw, p[1], p[2])
    /\ img.source # NoFile => Complete(img.source)

BlockOf(bh, bw, p) == <<p[2] \div bh, p[3] \div bw>>

\* What a masked file holds of a sample, the block starting at byte offset.
PieceUnits(h) == ContainerUnits(h.depth)
PieceAt(h, offset, r, c, s) ==
    offset * UnitsPerByte
      + ModePosition(h.imode, TileRows(h.bh, r), TileCols(h.bw, c), s[1], s[2], s[3])
          * PieceUnits(h)
Piece(h, bytes, offset, r, c, s) ==
    ValueOf(h.depth, SubSeq(bytes, PieceAt(h, offset, r, c, s) + 1,
                                   PieceAt(h, offset, r, c, s) + PieceUnits(h)))

\* The segment of an unmasked write, finished or not.
Plain(h, bytes) ==
    [ic |-> "NC", imode |-> h.imode, depth |-> h.depth,
     nbpr |-> GridCols(h.bw), nbpc |-> GridRows(h.bh),
     nppbh |-> IF h.bw = Cols THEN 0 ELSE h.bw,
     nppbv |-> IF h.bh = Rows THEN 0 ELSE h.bh,
     mask |-> NoMask, bytes |-> bytes]

\* The blocks written so far decode to what their pixels have shown.
PlainKept(h, bytes, next, seen) ==
    \A q \in Grid(h.bh, h.bw) :
       BlockIndex(h.bw, q[1], q[2]) < next =>
          \A s \in Inside(h.bh, h.bw, q[1], q[2]) :
             SampleAt(DecodeBlock(Plain(h, bytes), q[1], q[2]), s)
               \in seen[PixelOf(h.bh, h.bw, q[1], q[2], s)]

\* How many units a masked block takes, and that they are inside the first n.
PieceCount(h, r, c) == Bands * TileRows(h.bh, r) * TileCols(h.bw, c) * PieceUnits(h)
Room(h, r, c, offset, n) == offset * UnitsPerByte + PieceCount(h, r, c) <= n

\* g, of N units, has the n units of f from position w on.
Stands(g, N, f, n, w) ==
    /\ n \in Nat /\ N \in Nat /\ w \in Nat
    /\ \E S : f \in [1 .. n -> S]
    /\ \E S : g \in [1 .. N -> S]
    /\ w + n <= N
    /\ \A k \in 1 .. n : g[w + k] = f[k]

\* The same of a masked write: the block of a record shows what was seen.
PieceKept(h, bytes, offset, q, seen) ==
    /\ offset \in Nat
    /\ Room(h, q[1], q[2], offset, Len(bytes))
    /\ \A s \in Inside(h.bh, h.bw, q[1], q[2]) :
          Piece(h, bytes, offset, q[1], q[2], s) \in seen[PixelOf(h.bh, h.bw, q[1], q[2], s)]

MaskedKept(h, bytes, records, provided, next, seen) ==
    /\ \E n \in Nat : Len(bytes) = n * UnitsPerByte
    /\ \A q \in Grid(h.bh, h.bw) \cap provided :
          BlockIndex(h.bw, q[1], q[2]) < next =>
             PieceKept(h, bytes, records[BlockIndex(h.bw, q[1], q[2])], q, seen)

\* What a running write relies on: the blocks it was promised stay there, and
\* what it leaves out was not shown when it began.
JobKeeps ==
    /\ job.provided \subseteq CollectProvidedBlocks(image)
    /\ \A p \in PixelSet : shown[p] \in held[p] /\ Garbled \notin held[p]
    /\ job.ic = "NC" => /\ job.provided = Grid(image.bh, image.bw)
                        /\ PlainKept(job.hints, job.bytes, job.next, held)
    /\ job.ic = "NM" => /\ <<job.hints.bh, job.hints.bw>> = Clamp(<<image.bh, image.bw>>)
                        /\ \A p \in PixelSet :
                              BlockOf(job.hints.bh, job.hints.bw, p) \notin job.provided
                                => Absent \in held[p]
                        /\ MaskedKept(job.hints, job.bytes, job.records, job.provided,
                                       job.next, held)

PictureInv ==
    /\ ImageWhole(image)
    /\ shown = ImagePicture(image)
    /\ job # NoJob => JobKeeps
    /\ segment # NoFile => Complete(reader)

\* Every place of a band-sequential buffer is the place of a sample.
LEMMA EveryPlace ==
  ASSUME NEW rows \in Nat \ {0}, NEW cols \in Nat \ {0},
         NEW k \in 1 .. Bands * rows * cols
  PROVE  \E b \in BandSet, y \in 0 .. rows - 1, x \in 0 .. cols - 1 :
            k = FlatBands(rows, cols, b, y, x) + 1
<1> DEFINE m == Bands * rows
           j == k - 1
           q == j \div cols
           x == j % cols
           b == q \div rows
           y == q % rows
<1>1. Bands \in Nat \ {0}
  BY DimensionsAssumption
<1>2. m \in Nat
  BY <1>1, SMTT(10)
<1>3. m * cols \in Nat
  BY <1>2, SMTT(10)
<1>4. j \in 0 .. m * cols - 1 /\ j \in Nat /\ k = j + 1
  <2> HIDE DEF m
  <2>1. k \in 1 .. m * cols
    BY DEF m
  <2>2. QED
    BY <1>3, <2>1
<1> HIDE DEF m, j
<1>5. q \in 0 .. m - 1 /\ x \in 0 .. cols - 1 /\ j = q * cols + x
  BY <1>2, <1>4, RowMajor, Division
<1> HIDE DEF q, x
<1>6. q \in 0 .. Bands * rows - 1 /\ q \in Nat
  BY <1>2, <1>5 DEF m
<1>7. b \in 0 .. Bands - 1 /\ y \in 0 .. rows - 1 /\ q = b * rows + y
  BY <1>1, <1>6, RowMajor, Division
<1> HIDE DEF b, y
<1>8. k = FlatBands(rows, cols, b, y, x) + 1
  BY <1>4, <1>5, <1>7 DEF FlatBands
<1>9. QED
  BY <1>5, <1>7, <1>8 DEF BandSet

\* A block of a grid has rows and columns, and its samples are pixels.
LEMMA PixelsOfTile ==
  ASSUME NEW bh \in Nat \ {0}, NEW bw \in Nat \ {0},
         NEW r \in 0 .. GridRows(bh) - 1, NEW c \in 0 .. GridCols(bw) - 1
  PROVE  /\ TileRows(bh, r) \in Nat \ {0} /\ TileCols(bw, c) \in Nat \ {0}
         /\ \A s \in Inside(bh, bw, r, c) :
               /\ s = <<s[1], s[2], s[3]>>
               /\ s[1] \in BandSet
               /\ s[2] \in 0 .. TileRows(bh, r) - 1
               /\ s[3] \in 0 .. TileCols(bw, c) - 1
               /\ PixelOf(bh, bw, r, c, s) \in PixelSet
               /\ PixelOf(bh, bw, r, c, s)[1] = s[1]
               /\ PixelOf(bh, bw, r, c, s)[2] = r * bh + s[2]
               /\ PixelOf(bh, bw, r, c, s)[3] = c * bw + s[3]
               /\ BlockOf(bh, bw, PixelOf(bh, bw, r, c, s)) = <<r, c>>
               /\ (r * bh + s[2]) - r * bh = s[2]
               /\ (c * bw + s[3]) - c * bw = s[3]
<1>1. Rows \in Nat \ {0} /\ Cols \in Nat \ {0}
  BY DimensionsAssumption
<1>2. TileRows(bh, r) \in 1 .. bh /\ TileCols(bw, c) \in 1 .. bw
  BY TileShape
<1>3. r \in Nat /\ c \in Nat
  <2>1. GridRows(bh) \in Nat /\ GridCols(bw) \in Nat
    BY <1>1, Ceiling DEF GridRows, GridCols
  <2>2. QED
    BY <2>1
<1> DEFINE u == r * bh
           v == c * bw
<1>4. u \in Nat /\ v \in Nat
  BY <1>3, SMTT(10)
<1>5. ASSUME NEW s \in Inside(bh, bw, r, c)
      PROVE  /\ s = <<s[1], s[2], s[3]>>
             /\ s[1] \in BandSet
             /\ s[2] \in 0 .. TileRows(bh, r) - 1
             /\ s[3] \in 0 .. TileCols(bw, c) - 1
  BY DEF Inside
<1>6. ASSUME NEW s \in Inside(bh, bw, r, c)
      PROVE  /\ s[2] \in 0 .. bh - 1 /\ s[3] \in 0 .. bw - 1
             /\ u + s[2] \in 0 .. Rows - 1 /\ v + s[3] \in 0 .. Cols - 1
             /\ (u + s[2]) - u = s[2] /\ (v + s[3]) - v = s[3]
  <2>1. s[2] \in 0 .. TileRows(bh, r) - 1 /\ s[3] \in 0 .. TileCols(bw, c) - 1
    BY <1>5
  <2>2. /\ TileRows(bh, r) = IF u + bh > Rows THEN Rows - u ELSE bh
        /\ TileCols(bw, c) = IF v + bw > Cols THEN Cols - v ELSE bw
    BY DEF TileRows, TileCols
  <2> HIDE DEF u, v
  <2>3. QED
    BY <1>1, <1>2, <1>4, <2>1, <2>2
<1>7. ASSUME NEW s \in Inside(bh, bw, r, c)
      PROVE  (u + s[2]) \div bh = r /\ (v + s[3]) \div bw = c
  BY <1>3, <1>6, QuotientAndRemainder
<1>8. QED
  BY <1>2, <1>5, <1>6, <1>7 DEF PixelOf, BlockOf, PixelSet

\* Every pixel is a sample of its block.
LEMMA SampleOfPixel ==
  ASSUME NEW bh \in Nat \ {0}, NEW bw \in Nat \ {0}, NEW p \in PixelSet
  PROVE  LET q == BlockOf(bh, bw, p)
             s == <<p[1], p[2] - q[1] * bh, p[3] - q[2] * bw>>
         IN  /\ q \in Grid(bh, bw) /\ q = <<q[1], q[2]>>
             /\ q[1] \in 0 .. GridRows(bh) - 1 /\ q[2] \in 0 .. GridCols(bw) - 1
             /\ q[1] = p[2] \div bh /\ q[2] = p[3] \div bw
             /\ s \in Inside(bh, bw, q[1], q[2])
             /\ PixelOf(bh, bw, q[1], q[2], s) = p
<1> DEFINE q == BlockOf(bh, bw, p)
           y == p[2]
           x == p[3]
<1>1. /\ p = <<p[1], y, x>> /\ p[1] \in BandSet
      /\ y \in 0 .. Rows - 1 /\ x \in 0 .. Cols - 1
  BY DEF PixelSet
<1>2. q[1] = y \div bh /\ q[2] = x \div bw /\ q = <<y \div bh, x \div bw>>
  BY DEF BlockOf
<1>3. /\ <<y \div bh, x \div bw>> \in Grid(bh, bw)
      /\ y - (y \div bh) * bh \in 0 .. TileRows(bh, y \div bh) - 1
      /\ x - (x \div bw) * bw \in 0 .. TileCols(bw, x \div bw) - 1
  BY <1>1, TilesPartitionTheImage
<1>4. q[1] \in 0 .. GridRows(bh) - 1 /\ q[2] \in 0 .. GridCols(bw) - 1
  BY <1>2, <1>3 DEF Grid
<1>5. q[1] * bh \in Int /\ q[2] * bw \in Int
  <2>1. q[1] \in Int /\ q[2] \in Int
    BY <1>4
  <2> HIDE DEF q
  <2>2. QED
    BY <2>1, SMTT(10)
<1> DEFINE u == q[1] * bh
           v == q[2] * bw
           s == <<p[1], y - u, x - v>>
<1>6. s \in Inside(bh, bw, q[1], q[2])
  <2>1. y - u \in 0 .. TileRows(bh, q[1]) - 1 /\ x - v \in 0 .. TileCols(bw, q[2]) - 1
    BY <1>2, <1>3
  <2> HIDE DEF u, v, q
  <2>2. QED
    BY <1>1, <2>1 DEF Inside
<1>7. PixelOf(bh, bw, q[1], q[2], s) = p
  <2>1. PixelOf(bh, bw, q[1], q[2], s) = <<s[1], u + s[2], v + s[3]>>
    BY DEF PixelOf
  <2>2. s[1] = p[1] /\ s[2] = y - u /\ s[3] = x - v
    OBVIOUS
  <2> HIDE DEF u, v, s
  <2>3. u \in Int /\ v \in Int /\ y \in Int /\ x \in Int
    BY <1>1, <1>5 DEF u, v
  <2>4. u + (y - u) = y /\ v + (x - v) = x
    BY <2>3
  <2>5. QED
    BY <1>1, <2>1, <2>2, <2>4
<1>8. QED
  BY <1>2, <1>3, <1>4, <1>6, <1>7

\* A tile made of values is whole and holds them.
LEMMA MadeWhole ==
  ASSUME NEW bh \in Nat \ {0}, NEW bw \in Nat \ {0},
         NEW r \in 0 .. GridRows(bh) - 1, NEW c \in 0 .. GridCols(bw) - 1,
         NEW f
  PROVE  LET t == MakeTile(TileRows(bh, r), TileCols(bw, c), f)
         IN  /\ Shaped(t, TileRows(bh, r), TileCols(bw, c))
             /\ \A s \in Inside(bh, bw, r, c) : SampleAt(t, s) = f[s]
             /\ (\A s \in Inside(bh, bw, r, c) : f[s] # Garbled) => Whole(t, bh, bw, r, c)
<1> DEFINE rows == TileRows(bh, r)
           cols == TileCols(bw, c)
           t == MakeTile(rows, cols, f)
<1>1. rows \in Nat \ {0} /\ cols \in Nat \ {0}
  BY PixelsOfTile
<1>2. Shaped(t, rows, cols)
  <2> HIDE DEF rows, cols
  <2>1. QED
    BY DEF MakeTile, Shaped
<1>3. ASSUME NEW s \in Inside(bh, bw, r, c)
      PROVE  SampleAt(t, s) = f[s]
  <2>1. /\ s = <<s[1], s[2], s[3]>>
        /\ s[1] \in BandSet /\ s[2] \in 0 .. rows - 1 /\ s[3] \in 0 .. cols - 1
    BY PixelsOfTile
  <2> HIDE DEF rows, cols
  <2>2. Sample(t, s[1], s[2], s[3]) = f[<<s[1], s[2], s[3]>>]
    BY <1>1, <2>1, MadeTile
  <2>3. QED
    BY <2>1, <2>2 DEF SampleAt
<1>4. QED
  BY <1>2, <1>3 DEF Whole

\* A whole tile is what a reader of the block may ask for.
LEMMA WholeIsReadable ==
  ASSUME NEW bh \in Nat \ {0}, NEW bw \in Nat \ {0},
         NEW r \in 0 .. GridRows(bh) - 1, NEW c \in 0 .. GridCols(bw) - 1,
         NEW t, Whole(t, bh, bw, r, c)
  PROVE  /\ Readable(t, bh, bw, r, c)
         /\ t # Missing
         /\ IsTile(t)
<1> DEFINE rows == TileRows(bh, r)
           cols == TileCols(bw, c)
           n == Bands * rows * cols
           S == {t.data[k] : k \in 1 .. n}
<1>1. rows \in Nat \ {0} /\ cols \in Nat \ {0} /\ Bands \in Nat \ {0}
  BY PixelsOfTile, DimensionsAssumption
<1>2. n \in Nat
  <2> HIDE DEF rows, cols
  <2>1. Bands * rows \in Nat
    BY <1>1, SMTT(10)
  <2>2. QED
    BY <1>1, <2>1, SMTT(10)
<1>3. /\ t.bands = Bands /\ t.rows = rows /\ t.cols = cols
      /\ t.data = [k \in 1 .. n |-> t.data[k]]
  BY DEF Whole, Shaped
<1>4. DOMAIN t.data = 1 .. n /\ t.data \in [1 .. n -> S]
  <2> HIDE DEF n
  <2>1. QED
    BY <1>3
<1>5. Len(t.data) = n
  <2> HIDE DEF n, S
  <2>1. QED
    BY <1>2, <1>4, TableIsSequence
<1>6. ASSUME NEW k \in 1 .. n
      PROVE  t.data[k] # Garbled
  <2> HIDE DEF rows, cols
  <2>1. PICK b \in BandSet, y \in 0 .. rows - 1, x \in 0 .. cols - 1 :
           k = FlatBands(rows, cols, b, y, x) + 1
    BY <1>1, EveryPlace
  <2>2. <<b, y, x>> \in Inside(bh, bw, r, c)
    BY DEF Inside, rows, cols
  <2>3. SampleAt(t, <<b, y, x>>) # Garbled
    BY <2>2 DEF Whole
  <2>4. SampleAt(t, <<b, y, x>>) = t.data[k]
    BY <1>3, <2>1 DEF SampleAt, Sample
  <2>5. QED
    BY <2>3, <2>4
<1> HIDE DEF n, rows, cols
<1>7. Readable(t, bh, bw, r, c)
  BY <1>3, <1>4, <1>5, <1>6 DEF Readable, n, rows, cols
<1>8. QED
  BY <1>1, <1>3, <1>7 DEF Missing, IsTile

-----------------------------------------------------------------------------
(* Assembling *)

\* What the assembler takes for a pixel is the sample of the block there, and
\* never anything that nobody set.
LEMMA CopiedSample ==
  ASSUME NEW source, Serves(source), NEW p \in PixelSet
  PROVE  LET q == BlockOf(source.bh, source.bw, p)
             s == <<p[1], p[2] - q[1] * source.bh, p[3] - q[2] * source.bw>>
             v == Copied(source, p[1], p[2], p[3])
         IN  /\ v # Garbled
             /\ source.blocks[q] # Missing => v = SampleAt(source.blocks[q], s)
<1> DEFINE bh == source.bh
           bw == source.bw
           q == BlockOf(bh, bw, p)
           y == p[2] - q[1] * bh
           x == p[3] - q[2] * bw
           s == <<p[1], y, x>>
           t == source.blocks[q]
           v == Copied(source, p[1], p[2], p[3])
<1>1. bh \in Nat \ {0} /\ bw \in Nat \ {0}
  BY DEF Serves
<1>2. /\ q \in Grid(bh, bw) /\ q = <<q[1], q[2]>>
      /\ q[1] \in 0 .. GridRows(bh) - 1 /\ q[2] \in 0 .. GridCols(bw) - 1
      /\ q[1] = p[2] \div bh /\ q[2] = p[3] \div bw
      /\ s \in Inside(bh, bw, q[1], q[2])
  <2> HIDE DEF bh, bw
  <2>1. QED
    BY <1>1, SampleOfPixel
<1>3. v = IF y < t.rows /\ x < t.cols THEN Sample(t, p[1], y, x) ELSE Fill
  BY <1>2 DEF Copied
<1>4. y \in 0 .. TileRows(bh, q[1]) - 1 /\ x \in 0 .. TileCols(bw, q[2]) - 1
  BY <1>2 DEF Inside
<1>5. TileRows(bh, q[1]) \in Nat /\ TileCols(bw, q[2]) \in Nat
  BY <1>1, <1>2, TileShape
<1>6. SampleAt(t, s) = Sample(t, p[1], y, x)
  BY DEF SampleAt
<1>7. t = Missing \/ Whole(t, bh, bw, q[1], q[2])
  BY <1>2 DEF Serves
<1>8. Fill # Garbled
  BY DEF Fill, Garbled
<1> HIDE DEF bh, bw, q, y, x, s, t, v
<1>9. CASE t = Missing
  <2>1. t.rows = 0
    BY <1>9 DEF Missing
  <2>2. ~(y < t.rows)
    BY <1>4, <1>5, <2>1
  <2>3. QED
    BY <1>3, <1>8, <1>9, <2>2 DEF bh, bw, q, y, x, s, t, v
<1>10. CASE Whole(t, bh, bw, q[1], q[2])
  <2>1. t.rows = TileRows(bh, q[1]) /\ t.cols = TileCols(bw, q[2])
    BY <1>10 DEF Whole, Shaped
  <2>2. y < t.rows /\ x < t.cols
    BY <1>4, <1>5, <2>1
  <2>3. v = SampleAt(t, s)
    BY <1>3, <1>6, <2>2
  <2>4. v # Garbled
    BY <1>2, <1>10, <2>3 DEF Whole
  <2>5. QED
    BY <2>3, <2>4 DEF bh, bw, q, y, x, s, t, v
<1>11. QED
  BY <1>7, <1>9, <1>10

\* An output tile shows its pixels, unless a block it needs cannot be read.
LEMMA OutputTileShows ==
  ASSUME NEW source, Serves(source), NEW bh \in Nat \ {0}, NEW bw \in Nat \ {0},
         NEW r \in 0 .. GridRows(bh) - 1, NEW c \in 0 .. GridCols(bw) - 1,
         OutputTile(source, bh, bw, r, c) # Missing
  PROVE  LET t == OutputTile(source, bh, bw, r, c)
         IN  /\ Whole(t, bh, bw, r, c)
             /\ \A s \in Inside(bh, bw, r, c) :
                   SampleAt(t, s) = Copied(source, s[1], r * bh + s[2], c * bw + s[3])
<1> DEFINE t == OutputTile(source, bh, bw, r, c)
           Value(s) == Copied(source, s[1], r * bh + s[2], c * bw + s[3])
<1>1. ASSUME NEW s \in Inside(bh, bw, r, c)
      PROVE  /\ PixelOf(bh, bw, r, c, s) \in PixelSet
             /\ Value(s) = Copied(source, PixelOf(bh, bw, r, c, s)[1],
                                  PixelOf(bh, bw, r, c, s)[2], PixelOf(bh, bw, r, c, s)[3])
  BY PixelsOfTile
<1>2. ASSUME NEW s \in Inside(bh, bw, r, c)
      PROVE  Value(s) # Garbled
  <2> HIDE DEF Value
  <2>1. QED
    BY <1>1, CopiedSample
<1>3. CASE GridsMatch(source, bh, bw)
  <2>1. source.bh = bh /\ source.bw = bw /\ t = source.blocks[<<r, c>>]
    BY <1>3 DEF OutputTile, GridsMatch
  <2>2. <<r, c>> \in Grid(bh, bw) /\ <<r, c>>[1] = r /\ <<r, c>>[2] = c
    BY DEF Grid
  <2> HIDE DEF t
  <2>3. Whole(t, bh, bw, r, c)
    <3>1. \/ source.blocks[<<r, c>>] = Missing
          \/ Whole(source.blocks[<<r, c>>], bh, bw, <<r, c>>[1], <<r, c>>[2])
      BY <2>1, <2>2 DEF Serves
    <3>2. QED
      BY <2>1, <2>2, <3>1 DEF t
  <2>4. ASSUME NEW s \in Inside(bh, bw, r, c)
        PROVE  SampleAt(t, s) = Value(s)
    <3> DEFINE p == PixelOf(bh, bw, r, c, s)
               q == BlockOf(bh, bw, p)
    <3>1. /\ q = <<r, c>> /\ p[1] = s[1] /\ p[2] = r * bh + s[2] /\ p[3] = c * bw + s[3]
          /\ p \in PixelSet
          /\ (r * bh + s[2]) - r * bh = s[2] /\ (c * bw + s[3]) - c * bw = s[3]
          /\ s = <<s[1], s[2], s[3]>>
      BY PixelsOfTile
    <3>2. s = <<p[1], p[2] - q[1] * bh, p[3] - q[2] * bw>>
      BY <2>2, <3>1
    <3> HIDE DEF p, q
    <3>3. Copied(source, p[1], p[2], p[3]) = SampleAt(source.blocks[q], s)
      BY <2>1, <3>1, <3>2, CopiedSample DEF q, t
    <3>4. QED
      BY <1>1, <2>1, <3>1, <3>3 DEF p
  <2>5. QED
    BY <2>3, <2>4 DEF t
<1>4. CASE ~GridsMatch(source, bh, bw)
  <2> DEFINE f == [s \in Inside(bh, bw, r, c) |-> Value(s)]
  <2>1. /\ Least(r * bh + bh, Rows) - r * bh = TileRows(bh, r)
        /\ Least(c * bw + bw, Cols) - c * bw = TileCols(bw, c)
    BY GridCell
  <2>2. t = MakeTile(TileRows(bh, r), TileCols(bw, c), f)
    BY <1>4, <2>1 DEF OutputTile, Inside
  <2>3. \A s \in Inside(bh, bw, r, c) : f[s] = Value(s)
    OBVIOUS
  <2> HIDE DEF f, Value, t
  <2>4. QED
    BY <1>2, <2>2, <2>3, MadeWhole DEF Value, t
<1>5. QED
  BY <1>3, <1>4

\* A source that has all its blocks serves every output tile.
LEMMA CompleteServes ==
  ASSUME NEW source, Complete(source), NEW bh \in Nat \ {0}, NEW bw \in Nat \ {0},
         NEW r \in 0 .. GridRows(bh) - 1, NEW c \in 0 .. GridCols(bw) - 1
  PROVE  /\ Serves(source)
         /\ OutputTile(source, bh, bw, r, c) # Missing
<1>1. \A p \in Grid(source.bh, source.bw) :
         /\ Whole(source.blocks[p], source.bh, source.bw, p[1], p[2])
         /\ source.blocks[p] # Missing
  <2> SUFFICES ASSUME NEW p \in Grid(source.bh, source.bw)
               PROVE  /\ Whole(source.blocks[p], source.bh, source.bw, p[1], p[2])
                      /\ source.blocks[p] # Missing
    OBVIOUS
  <2>1. source.bh \in Nat \ {0} /\ source.bw \in Nat \ {0}
    BY DEF Complete
  <2>2. p[1] \in 0 .. GridRows(source.bh) - 1 /\ p[2] \in 0 .. GridCols(source.bw) - 1
    BY DEF Grid
  <2>3. Whole(source.blocks[p], source.bh, source.bw, p[1], p[2])
    BY DEF Complete
  <2>4. QED
    BY <2>1, <2>2, <2>3, WholeIsReadable
<1>2. Serves(source)
  BY <1>1 DEF Serves, Complete
<1>3. CASE GridsMatch(source, bh, bw)
  <2>1. <<r, c>> \in Grid(source.bh, source.bw)
    BY <1>3 DEF GridsMatch, Grid
  <2>2. OutputTile(source, bh, bw, r, c) = source.blocks[<<r, c>>]
    BY <1>3 DEF OutputTile
  <2>3. QED
    BY <1>1, <1>2, <2>1, <2>2
<1>4. CASE ~GridsMatch(source, bh, bw)
  <2> DEFINE rows == TileRows(bh, r)
             cols == TileCols(bw, c)
             f == [p \in BandSet \X (0 .. rows - 1) \X (0 .. cols - 1) |->
                     Copied(source, p[1], r * bh + p[2], c * bw + p[3])]
  <2>1. SourceBlocks(source, bh, bw, r, c) \subseteq Grid(source.bh, source.bw)
    <3> DEFINE u == r * bh
               v == c * bw
               endY == Least(u + bh, Rows)
               endX == Least(v + bw, Cols)
    <3>1. u + (endY - u) = endY /\ v + (endX - v) = endX
          /\ u \in Nat /\ v \in Nat /\ endY \in 1 .. Rows /\ endX \in 1 .. Cols
          /\ u <= endY - 1 /\ v <= endX - 1
      <4>1. r \in Nat /\ c \in Nat
        BY DimensionsAssumption, Ceiling DEF GridRows, GridCols
      <4>2. u \in Nat /\ v \in Nat
        BY <4>1, SMTT(10)
      <4>3. endY - u \in Nat \ {0} /\ endX - v \in Nat \ {0}
        BY GridCell
      <4>4. endY \in Int /\ endY <= Rows /\ endX \in Int /\ endX <= Cols
        <5> HIDE DEF u, v
        <5>1. QED
          BY <4>2, DimensionsAssumption DEF Least
      <4> HIDE DEF u, v, endY, endX
      <4>5. QED
        BY <4>2, <4>3, <4>4, DimensionsAssumption
    <3>2. source.bh \in Nat \ {0} /\ source.bw \in Nat \ {0}
      BY DEF Complete
    <3> DEFINE bh2 == source.bh
               bw2 == source.bw
    <3>3. u \in 0 .. Rows - 1 /\ endY - 1 \in 0 .. Rows - 1
          /\ v \in 0 .. Cols - 1 /\ endX - 1 \in 0 .. Cols - 1
      <4> HIDE DEF u, v, endY, endX
      <4>1. QED
        BY <3>1, DimensionsAssumption
    <3>4. /\ u \div bh2 \in 0 .. GridRows(bh2) - 1
          /\ (endY - 1) \div bh2 \in 0 .. GridRows(bh2) - 1
          /\ v \div bw2 \in 0 .. GridCols(bw2) - 1
          /\ (endX - 1) \div bw2 \in 0 .. GridCols(bw2) - 1
      <4> HIDE DEF u, v, endY, endX, bh2, bw2
      <4>1. bh2 \in Nat \ {0} /\ bw2 \in Nat \ {0}
        BY <3>2 DEF bh2, bw2
      <4>2. QED
        BY <3>3, <4>1, Ceiling, DimensionsAssumption DEF GridRows, GridCols
    <3>5. /\ (u \div bh2) .. ((endY - 1) \div bh2) \subseteq 0 .. GridRows(bh2) - 1
          /\ (v \div bw2) .. ((endX - 1) \div bw2) \subseteq 0 .. GridCols(bw2) - 1
      <4> HIDE DEF u, v, endY, endX, bh2, bw2
      <4>1. GridRows(bh2) \in Nat /\ GridCols(bw2) \in Nat
        BY <3>2, Ceiling, DimensionsAssumption DEF GridRows, GridCols, bh2, bw2
      <4>2. QED
        BY <3>4, <4>1
    <3>6. SourceBlocks(source, bh, bw, r, c)
            = ((u \div bh2) .. ((endY - 1) \div bh2))
                \X ((v \div bw2) .. ((endX - 1) \div bw2))
      BY DEF SourceBlocks
    <3> HIDE DEF u, v, endY, endX, bh2, bw2
    <3>7. QED
      BY <3>5, <3>6 DEF Grid, bh2, bw2
  <2>2. ~ \E p \in SourceBlocks(source, bh, bw, r, c) : source.blocks[p] = Missing
    BY <1>1, <2>1
  <2>3. OutputTile(source, bh, bw, r, c) = MakeTile(rows, cols, f)
    <3>1. /\ Least(r * bh + bh, Rows) - r * bh = rows
          /\ Least(c * bw + bw, Cols) - c * bw = cols
      BY GridCell
    <3> HIDE DEF rows, cols
    <3>2. QED
      BY <1>4, <2>2, <3>1 DEF OutputTile
  <2>4. MakeTile(rows, cols, f) # Missing
    BY DimensionsAssumption DEF MakeTile, Missing
  <2>5. QED
    BY <1>2, <2>3, <2>4
<1>5. QED
  BY <1>3, <1>4

-----------------------------------------------------------------------------
(* The image *)

\* The image is a source in which every announced block is whole.
LEMMA ImageServes ==
  ASSUME NEW img, ImageWhole(img)
  PROVE  /\ Serves(ImageSource(img))
         /\ ImageSource(img).bh = img.bh /\ ImageSource(img).bw = img.bw
         /\ \A q \in Grid(img.bh, img.bw) :
               /\ ImageSource(img).blocks[q] = GetBlock(img, q[1], q[2])
               /\ HasBlock(img, q[1], q[2]) => GetBlock(img, q[1], q[2]) # Missing
               /\ GetBlock(img, q[1], q[2]) # Missing =>
                     Whole(GetBlock(img, q[1], q[2]), img.bh, img.bw, q[1], q[2])
<1>1. ImageSource(img).bh = img.bh /\ ImageSource(img).bw = img.bw
  BY DEF ImageSource
<1>2. img.bh \in Nat \ {0} /\ img.bw \in Nat \ {0}
  BY DEF ImageWhole
<1>3. ASSUME NEW q \in Grid(img.bh, img.bw)
      PROVE  /\ ImageSource(img).blocks[q] = GetBlock(img, q[1], q[2])
             /\ HasBlock(img, q[1], q[2]) => GetBlock(img, q[1], q[2]) # Missing
             /\ GetBlock(img, q[1], q[2]) # Missing =>
                   Whole(GetBlock(img, q[1], q[2]), img.bh, img.bw, q[1], q[2])
  <2> DEFINE t == GetBlock(img, q[1], q[2])
  <2>1. /\ q = <<q[1], q[2]>>
        /\ q[1] \in 0 .. GridRows(img.bh) - 1 /\ q[2] \in 0 .. GridCols(img.bw) - 1
    BY DEF Grid
  <2>2. ImageSource(img).blocks[q] = t
    BY DEF ImageSource
  <2>3. CASE q \in DOMAIN img.blocks
    <3>1. t = img.blocks[q]
      BY <2>1, <2>3 DEF GetBlock
    <3>2. Whole(t, img.bh, img.bw, q[1], q[2])
      BY <2>3, <3>1 DEF ImageWhole
    <3> HIDE DEF t
    <3>3. t # Missing
      BY <1>2, <2>1, <3>2, WholeIsReadable
    <3>4. QED
      BY <2>2, <3>2, <3>3 DEF t
  <2>4. CASE q \notin DOMAIN img.blocks /\ img.source = NoFile
    <3>1. t = Missing /\ ~HasBlock(img, q[1], q[2])
      BY <2>1, <2>4 DEF GetBlock, HasBlock, ImageWhole
    <3>2. QED
      BY <2>2, <3>1
  <2>5. CASE q \notin DOMAIN img.blocks /\ img.source # NoFile
    <3>1. t = OutputTile(img.source, img.bh, img.bw, q[1], q[2])
      BY <2>1, <2>5 DEF GetBlock
    <3>2. Complete(img.source)
      BY <2>5 DEF ImageWhole
    <3> HIDE DEF t
    <3>3. t # Missing /\ Serves(img.source)
      BY <1>2, <2>1, <3>1, <3>2, CompleteServes
    <3>4. Whole(t, img.bh, img.bw, q[1], q[2])
      BY <1>2, <2>1, <3>1, <3>3, OutputTileShows
    <3>5. QED
      BY <2>2, <3>3, <3>4 DEF t
  <2>6. QED
    BY <2>3, <2>4, <2>5
<1>4. Serves(ImageSource(img))
  <2>1. \A q \in Grid(img.bh, img.bw) :
           \/ ImageSource(img).blocks[q] = Missing
           \/ Whole(ImageSource(img).blocks[q], img.bh, img.bw, q[1], q[2])
    BY <1>3
  <2>2. QED
    BY <1>1, <1>2, <2>1 DEF Serves
<1>5. QED
  BY <1>1, <1>3, <1>4

\* What the image shows at a pixel.
LEMMA PixelShown ==
  ASSUME NEW img, ImageWhole(img), NEW p \in PixelSet
  PROVE  LET q == BlockOf(img.bh, img.bw, p)
         IN  /\ ImagePicture(img)[p] = IF HasBlock(img, q[1], q[2])
                                         THEN Copied(ImageSource(img), p[1], p[2], p[3])
                                         ELSE Absent
             /\ ImagePicture(img)[p] # Garbled
<1> DEFINE q == BlockOf(img.bh, img.bw, p)
           v == Copied(ImageSource(img), p[1], p[2], p[3])
<1>1. img.bh \in Nat \ {0} /\ img.bw \in Nat \ {0}
  BY DEF ImageWhole
<1>2. q \in Grid(img.bh, img.bw)
  BY <1>1, SampleOfPixel
<1>3. /\ Serves(ImageSource(img))
      /\ ImageSource(img).bh = img.bh /\ ImageSource(img).bw = img.bw
  BY ImageServes
<1>4. v # Garbled
  BY <1>3, CopiedSample
<1>5. ImagePicture(img)[p] = IF HasBlock(img, q[1], q[2]) THEN v ELSE Absent
  <2> HIDE DEF v
  <2>1. q = <<p[2] \div ImageSource(img).bh, p[3] \div ImageSource(img).bw>>
    BY <1>3 DEF BlockOf
  <2>2. q \in CollectProvidedBlocks(img) <=> HasBlock(img, q[1], q[2])
    BY <1>2 DEF CollectProvidedBlocks
  <2> HIDE DEF q
  <2>3. ImagePicture(img)[p] = IF q \in CollectProvidedBlocks(img) THEN v ELSE Absent
    BY <2>1 DEF ImagePicture, Picture, v
  <2>4. QED
    BY <2>2, <2>3
<1>6. Absent # Garbled
  BY DEF Absent, Garbled
<1> HIDE DEF q, v
<1>7. QED
  BY <1>4, <1>5, <1>6 DEF q, v

\* Two sources show the same at a pixel if they have the same block there.
LEMMA SameCopy ==
  ASSUME NEW one, NEW two, one.bh = two.bh, one.bw = two.bw, NEW p,
         one.blocks[BlockOf(one.bh, one.bw, p)] = two.blocks[BlockOf(one.bh, one.bw, p)]
  PROVE  Copied(one, p[1], p[2], p[3]) = Copied(two, p[1], p[2], p[3])
BY DEF Copied, BlockOf

\* Painting changes the pixels of the painted blocks and no others.
LEMMA InsertShows ==
  ASSUME NEW img, ImageSound(img), ImageWhole(img),
         NEW blocks \in SUBSET Grid(img.bh, img.bw), NEW v \in Nat
  PROVE  LET new == Insert(img, blocks, v)
         IN  /\ ImageWhole(new)
             /\ new.bh = img.bh /\ new.bw = img.bw
             /\ CollectProvidedBlocks(img) \subseteq CollectProvidedBlocks(new)
             /\ \A p \in PixelSet :
                   ImagePicture(new)[p] = IF BlockOf(img.bh, img.bw, p) \in blocks
                                            THEN Stamp(v, p)
                                            ELSE ImagePicture(img)[p]
<1> DEFINE new == Insert(img, blocks, v)
           bh == img.bh
           bw == img.bw
           map == [p \in DOMAIN img.blocks \cup blocks |->
                     IF p \in blocks THEN PaintedTile(img, p[1], p[2], v)
                                     ELSE img.blocks[p]]
<1>1. /\ bh \in Nat \ {0} /\ bw \in Nat \ {0}
      /\ img.provided = DOMAIN img.blocks
      /\ img.provided \subseteq Grid(bh, bw)
  BY DEF ImageWhole
<1>2. new = [bh |-> bh, bw |-> bw, blocks |-> map,
             provided |-> img.provided \cup blocks, source |-> img.source]
  <2>1. DOMAIN img = {"bh", "bw", "blocks", "provided", "source"}
    BY DEF ImageSound
  <2>2. new = [img EXCEPT !.blocks = map, !.provided = img.provided \cup blocks]
    BY DEF Insert
  <2> HIDE DEF new, map
  <2>3. QED
    BY <2>1, <2>2
<1>3. ASSUME NEW q \in blocks
      PROVE  /\ q \in Grid(bh, bw) /\ q = <<q[1], q[2]>>
             /\ q[1] \in 0 .. GridRows(bh) - 1 /\ q[2] \in 0 .. GridCols(bw) - 1
             /\ Whole(map[q], bh, bw, q[1], q[2])
             /\ \A s \in Inside(bh, bw, q[1], q[2]) :
                   SampleAt(map[q], s) = Stamp(v, PixelOf(bh, bw, q[1], q[2], s))
  <2>1. q \in Grid(bh, bw) /\ q = <<q[1], q[2]>>
          /\ q[1] \in 0 .. GridRows(bh) - 1 /\ q[2] \in 0 .. GridCols(bw) - 1
    BY DEF Grid
  <2> DEFINE f == [s \in Inside(bh, bw, q[1], q[2]) |->
                     Stamp(v, PixelOf(bh, bw, q[1], q[2], s))]
  <2>2. map[q] = MakeTile(TileRows(bh, q[1]), TileCols(bw, q[2]), f)
    <3>1. map[q] = PaintedTile(img, q[1], q[2], v)
      OBVIOUS
    <3>2. QED
      BY <3>1 DEF PaintedTile, Inside, PixelOf
  <2>3. \A s \in Inside(bh, bw, q[1], q[2]) :
           f[s] = Stamp(v, PixelOf(bh, bw, q[1], q[2], s)) /\ f[s] # Garbled
    BY DEF Stamp, Garbled
  <2> HIDE DEF f, map
  <2>4. /\ \A s \in Inside(bh, bw, q[1], q[2]) : SampleAt(map[q], s) = f[s]
        /\ Whole(map[q], bh, bw, q[1], q[2])
    BY <1>1, <2>1, <2>2, <2>3, MadeWhole
  <2>5. QED
    BY <2>1, <2>3, <2>4
<1>4. \A p \in DOMAIN img.blocks : p \notin blocks => map[p] = img.blocks[p]
  OBVIOUS
<1>5. DOMAIN map = DOMAIN img.blocks \cup blocks
  OBVIOUS
<1> HIDE DEF map
<1>6. ASSUME NEW p \in DOMAIN map
      PROVE  Whole(map[p], bh, bw, p[1], p[2])
  <2>1. CASE p \in blocks
    BY <1>3, <2>1
  <2>2. CASE p \notin blocks
    BY <1>4, <1>5, <2>2 DEF ImageWhole
  <2>3. QED
    BY <2>1, <2>2
<1>7. ImageWhole(new)
  <2>1. /\ new.bh = bh /\ new.bw = bw /\ new.blocks = map
        /\ new.provided = img.provided \cup blocks /\ new.source = img.source
    BY <1>2
  <2> HIDE DEF new
  <2>2. QED
    BY <1>1, <1>5, <1>6, <2>1 DEF ImageWhole
<1>8. /\ new.bh = bh /\ new.bw = bw /\ new.source = img.source /\ new.blocks = map
      /\ new.provided = img.provided \cup blocks
  BY <1>2
<1> HIDE DEF new
<1>9. ASSUME NEW q \in Grid(bh, bw)
      PROVE  /\ q \in blocks => HasBlock(new, q[1], q[2])
             /\ q \notin blocks => (HasBlock(new, q[1], q[2]) <=> HasBlock(img, q[1], q[2]))
             /\ HasBlock(img, q[1], q[2]) => HasBlock(new, q[1], q[2])
             /\ q \in blocks => GetBlock(new, q[1], q[2]) = map[q]
             /\ q \notin blocks => GetBlock(new, q[1], q[2]) = GetBlock(img, q[1], q[2])
  <2>1. q = <<q[1], q[2]>>
    BY DEF Grid
  <2>2. SameGrid(new) <=> SameGrid(img)
    BY <1>8 DEF SameGrid
  <2>3. q \in blocks => GetBlock(new, q[1], q[2]) = map[q]
    BY <1>5, <1>8, <2>1 DEF GetBlock
  <2>4. q \notin blocks => GetBlock(new, q[1], q[2]) = GetBlock(img, q[1], q[2])
    BY <1>4, <1>5, <1>8, <2>1 DEF GetBlock
  <2>5. QED
    BY <1>8, <2>1, <2>2, <2>3, <2>4 DEF HasBlock
<1>10. CollectProvidedBlocks(img) \subseteq CollectProvidedBlocks(new)
  BY <1>8, <1>9 DEF CollectProvidedBlocks
<1>11. ASSUME NEW p \in PixelSet
       PROVE  ImagePicture(new)[p] = IF BlockOf(bh, bw, p) \in blocks
                                       THEN Stamp(v, p)
                                       ELSE ImagePicture(img)[p]
  <2> DEFINE q == BlockOf(bh, bw, p)
             s == <<p[1], p[2] - q[1] * bh, p[3] - q[2] * bw>>
             one == ImageSource(img)
             two == ImageSource(new)
  <2>1. q \in Grid(bh, bw) /\ s \in Inside(bh, bw, q[1], q[2])
          /\ PixelOf(bh, bw, q[1], q[2], s) = p
    <3> HIDE DEF bh, bw
    <3>1. QED
      BY <1>1, SampleOfPixel
  <2>2. /\ one.bh = bh /\ one.bw = bw
        /\ one.blocks[q] = GetBlock(img, q[1], q[2])
    BY <2>1, ImageServes
  <2>3. /\ two.bh = bh /\ two.bw = bw /\ Serves(two)
        /\ two.blocks[q] = GetBlock(new, q[1], q[2])
        /\ HasBlock(new, q[1], q[2]) => two.blocks[q] # Missing
    BY <1>7, <1>8, <2>1, ImageServes
  <2>4. ImagePicture(new)[p] = IF HasBlock(new, q[1], q[2])
                                 THEN Copied(two, p[1], p[2], p[3]) ELSE Absent
    BY <1>7, <1>8, PixelShown
  <2>5. ImagePicture(img)[p] = IF HasBlock(img, q[1], q[2])
                                 THEN Copied(one, p[1], p[2], p[3]) ELSE Absent
    BY PixelShown
  <2>6. q = BlockOf(two.bh, two.bw, p) /\ q = BlockOf(one.bh, one.bw, p)
          /\ s = <<p[1], p[2] - q[1] * two.bh, p[3] - q[2] * two.bw>>
    BY <2>2, <2>3
  <2>7. two.blocks[q] # Missing => Copied(two, p[1], p[2], p[3]) = SampleAt(two.blocks[q], s)
    <3> HIDE DEF q, s, two
    <3>1. QED
      BY <2>3, <2>6, CopiedSample
  <2> HIDE DEF q, s, one, two
  <2>8. CASE q \in blocks
    <3>1. /\ HasBlock(new, q[1], q[2]) /\ two.blocks[q] = map[q]
      BY <1>9, <2>1, <2>3, <2>8
    <3>2. ImagePicture(new)[p] = SampleAt(map[q], s)
      BY <2>3, <2>4, <2>7, <3>1
    <3>3. SampleAt(map[q], s) = Stamp(v, p)
      BY <1>3, <2>1, <2>8
    <3>4. QED
      BY <2>8, <3>2, <3>3 DEF q
  <2>9. CASE q \notin blocks
    <3>1. one.blocks[q] = two.blocks[q]
      BY <1>9, <2>1, <2>2, <2>3, <2>9
    <3>2. Copied(one, p[1], p[2], p[3]) = Copied(two, p[1], p[2], p[3])
      BY <2>2, <2>3, <2>6, <3>1, SameCopy
    <3>3. HasBlock(new, q[1], q[2]) <=> HasBlock(img, q[1], q[2])
      BY <1>9, <2>1, <2>9
    <3>4. QED
      BY <2>4, <2>5, <2>9, <3>2, <3>3 DEF q
  <2>10. QED
    BY <2>8, <2>9
<1>12. QED
  BY <1>7, <1>8, <1>10, <1>11 DEF new

\* A copy of a file shows what the file shows, and fill where it shows nothing.
LEMMA DerivedShows ==
  ASSUME NEW source, Complete(source), NEW bh \in Nat \ {0}, NEW bw \in Nat \ {0},
         NEW img, img = [bh |-> bh, bw |-> bw, blocks |-> <<>>, provided |-> {},
                         source |-> source]
  PROVE  /\ ImageWhole(img)
         /\ \A p \in PixelSet :
               LET was == Picture(source, source.present)[p]
               IN  \/ ImagePicture(img)[p] = was
                   \/ was = Absent /\ ImagePicture(img)[p] = Fill
<1>1. /\ img.bh = bh /\ img.bw = bw /\ img.provided = {} /\ img.source = source
      /\ DOMAIN img.blocks = {}
  OBVIOUS
<1>2. ImageWhole(img)
  BY <1>1 DEF ImageWhole
<1>3. source.bh \in Nat \ {0} /\ source.bw \in Nat \ {0} /\ source # NoFile
  BY DEF Complete
<1>4. ASSUME NEW p \in PixelSet
      PROVE  LET was == Picture(source, source.present)[p]
             IN  \/ ImagePicture(img)[p] = was
                 \/ was = Absent /\ ImagePicture(img)[p] = Fill
  <2> DEFINE q == BlockOf(bh, bw, p)
             s == <<p[1], p[2] - q[1] * bh, p[3] - q[2] * bw>>
             o == BlockOf(source.bh, source.bw, p)
             u == <<p[1], p[2] - o[1] * source.bh, p[3] - o[2] * source.bw>>
             was == Picture(source, source.present)[p]
             now == ImagePicture(img)[p]
             v == Copied(source, p[1], p[2], p[3])
             copy == ImageSource(img)
             t == GetBlock(img, q[1], q[2])
  <2>1. /\ q \in Grid(bh, bw) /\ q = <<q[1], q[2]>>
        /\ q[1] \in 0 .. GridRows(bh) - 1 /\ q[2] \in 0 .. GridCols(bw) - 1
        /\ s \in Inside(bh, bw, q[1], q[2])
        /\ PixelOf(bh, bw, q[1], q[2], s) = p
    BY SampleOfPixel
  <2>2. /\ o \in Grid(source.bh, source.bw)
        /\ o[1] \in 0 .. GridRows(source.bh) - 1 /\ o[2] \in 0 .. GridCols(source.bw) - 1
        /\ u \in Inside(source.bh, source.bw, o[1], o[2])
    BY <1>3, SampleOfPixel
  <2>3. was = IF o \in source.present THEN v ELSE Absent
    BY DEF Picture, BlockOf
  <2>4. now = IF HasBlock(img, q[1], q[2]) THEN Copied(copy, p[1], p[2], p[3]) ELSE Absent
    BY <1>1, <1>2, PixelShown
  <2>5. /\ Serves(copy) /\ copy.bh = bh /\ copy.bw = bw /\ copy.blocks[q] = t
    BY <1>1, <1>2, <2>1, ImageServes
  <2>6. t = OutputTile(source, bh, bw, q[1], q[2])
    BY <1>1, <1>3, <2>1 DEF GetBlock
  <2>7. t # Missing /\ Serves(source)
    <3> HIDE DEF t, q
    <3>1. QED
      BY <2>1, <2>6, CompleteServes
  <2>8. o \notin source.present => v = Fill
    <3>1. source.blocks[o] # Missing
      <4> HIDE DEF o
      <4>1. QED
        BY <1>3, <2>2, WholeIsReadable DEF Complete
    <3>2. v = SampleAt(source.blocks[o], u)
      BY <2>7, <3>1, CopiedSample
    <3> HIDE DEF v, o, u
    <3>3. QED
      BY <2>2, <3>2 DEF Complete
  <2>9. Copied(copy, p[1], p[2], p[3]) = v
    <3>1. SampleAt(t, s) = Copied(source, s[1], q[1] * bh + s[2], q[2] * bw + s[3])
      <4> HIDE DEF t, q, s
      <4>1. QED
        BY <2>1, <2>6, <2>7, OutputTileShows
    <3>2. PixelOf(bh, bw, q[1], q[2], s)
            = <<s[1], q[1] * bh + s[2], q[2] * bw + s[3]>>
      BY DEF PixelOf
    <3>3. /\ p[1] = s[1] /\ p[2] = q[1] * bh + s[2] /\ p[3] = q[2] * bw + s[3]
      <4> HIDE DEF q, s
      <4>1. p = <<s[1], q[1] * bh + s[2], q[2] * bw + s[3]>>
        BY <2>1, <3>2
      <4>2. QED
        BY <4>1
    <3>4. SampleAt(t, s) = v
      <4> HIDE DEF q, s, t
      <4>1. QED
        BY <3>1, <3>3
    <3>5. Copied(copy, p[1], p[2], p[3]) = SampleAt(copy.blocks[q], s)
      <4>1. q = BlockOf(copy.bh, copy.bw, p)
              /\ s = <<p[1], p[2] - q[1] * copy.bh, p[3] - q[2] * copy.bw>>
        BY <2>5
      <4>2. copy.blocks[q] # Missing
        BY <2>5, <2>7
      <4> HIDE DEF q, s, copy, t
      <4>3. QED
        BY <2>5, <4>1, <4>2, CopiedSample
    <3>6. QED
      BY <2>5, <3>4, <3>5
  <2>10. HasBlock(img, q[1], q[2]) <=> (SameGrid(img) => o \in source.present)
    <3>1. HasBlock(img, q[1], q[2]) <=>
             IF SameGrid(img) THEN <<q[1], q[2]>> \in source.present
                              ELSE Overlaps(bh, bw, q[1], q[2])
      BY <1>1, <1>3 DEF HasBlock
    <3>2. Overlaps(bh, bw, q[1], q[2])
      BY <2>1, Ceiling, DimensionsAssumption DEF Overlaps, GridRows, GridCols
    <3>3. SameGrid(img) => o = q
      BY <1>1 DEF SameGrid, GridsMatch
    <3> HIDE DEF q, o
    <3>4. QED
      BY <2>1, <3>1, <3>2, <3>3
  <2> HIDE DEF q, s, o, u, was, now, v, copy, t
  <2>11. now = was \/ (was = Absent /\ now = Fill)
    BY <2>3, <2>4, <2>8, <2>9, <2>10
  <2>12. QED
    BY <2>11 DEF was, now
<1>5. QED
  BY <1>2, <1>4

-----------------------------------------------------------------------------
(* Masked blocks *)

\* to_band_sequential undoes from_band_sequential.
LEMMA ModesInverse ==
  ASSUME NEW imode \in Modes, NEW rows \in Nat \ {0}, NEW cols \in Nat \ {0},
         NEW tile, Shaped(tile, rows, cols),
         NEW b \in BandSet, NEW y \in 0 .. rows - 1, NEW x \in 0 .. cols - 1
  PROVE  ModeSample(imode, tile, ModePosition(imode, rows, cols, b, y, x))
           = Sample(tile, b, y, x)
<1> DEFINE k == ModePosition(imode, rows, cols, b, y, x)
           n == Bands
<1>1. tile.bands = n /\ tile.rows = rows /\ tile.cols = cols
  BY DEF Shaped
<1>2. n \in Nat \ {0} /\ b \in 0 .. n - 1 /\ b \in Nat /\ y \in Nat /\ x \in Nat
  BY DimensionsAssumption DEF BandSet
<1>3. CASE n = 1 \/ imode \in {"S", "B"}
  <2>1. k = FlatBands(rows, cols, b, y, x)
    BY <1>3 DEF ModePosition
  <2>2. ModeSample(imode, tile, k) = tile.data[k + 1]
    BY <1>1, <1>3 DEF ModeSample
  <2>3. QED
    BY <1>1, <2>1, <2>2 DEF Sample
<1>4. CASE n # 1 /\ imode = "P"
  <2>1. k = (y * cols + x) * n + b
    BY <1>4 DEF ModePosition, FlatPixels
  <2>2. ModeSample(imode, tile, k)
          = Sample(tile, k % n, k \div (n * cols), (k \div n) % cols)
    BY <1>1, <1>4 DEF ModeSample
  <2> DEFINE j == y * cols + x
  <2>3. j \in Nat /\ j \div cols = y /\ j % cols = x
    BY <1>2, QuotientAndRemainder
  <2>4. k = j * n + b
    BY <2>1
  <2> HIDE DEF j, k, n
  <2>5. k \div n = j /\ k % n = b
    BY <1>2, <2>3, <2>4, QuotientAndRemainder
  <2>6. k \div (n * cols) = y
    <3> DEFINE w == n * cols
               e == x * n + b
    <3>1. w \in Nat \ {0}
      BY <1>2, SMTT(10)
    <3>2. e \in 0 .. cols * n - 1
      BY <1>2, RowMajor
    <3>3. cols * n = w
      BY <1>2, SMTT(10)
    <3>4. k = y * w + e
      BY <1>2, <2>4, SMTT(10) DEF j
    <3> HIDE DEF w, e
    <3>5. k \div w = y
      BY <1>2, <3>1, <3>2, <3>3, <3>4, QuotientAndRemainder
    <3>6. QED
      BY <3>5 DEF w
  <2>7. QED
    BY <2>2, <2>3, <2>5, <2>6 DEF k
<1>5. CASE n # 1 /\ imode = "R"
  <2>1. k = (y * n + b) * cols + x
    BY <1>5 DEF ModePosition, FlatLines
  <2>2. ModeSample(imode, tile, k)
          = Sample(tile, (k \div cols) % n, k \div (n * cols), k % cols)
    BY <1>1, <1>5 DEF ModeSample
  <2> DEFINE j == y * n + b
  <2>3. j \in Nat /\ j \div n = y /\ j % n = b
    BY <1>2, QuotientAndRemainder
  <2>4. k = j * cols + x
    BY <2>1
  <2> HIDE DEF j, k, n
  <2>5. k \div cols = j /\ k % cols = x
    BY <1>2, <2>3, <2>4, QuotientAndRemainder
  <2>6. k \div (n * cols) = y
    <3> DEFINE w == n * cols
               e == b * cols + x
    <3>1. w \in Nat \ {0}
      BY <1>2, SMTT(10)
    <3>2. e \in 0 .. n * cols - 1
      BY <1>2, RowMajor
    <3>3. k = y * w + e
      BY <1>2, <2>4, SMTT(10) DEF j
    <3> HIDE DEF w, e
    <3>4. k \div w = y
      BY <1>2, <3>1, <3>2, <3>3, QuotientAndRemainder DEF w
    <3>5. QED
      BY <3>4 DEF w
  <2>7. QED
    BY <2>2, <2>3, <2>5, <2>6 DEF k
<1>6. QED
  BY <1>3, <1>4, <1>5 DEF Modes

\* A container of any width gives its value back.
LEMMA UnitsGiveValue ==
  ASSUME NEW bits, NEW v, NEW size \in Nat \ {0}, size = ContainerUnits(bits)
  PROVE  ValueOf(bits, LowUnits(bits, v, size)) = v
<1> DEFINE units == LowUnits(bits, v, size)
           T == {units[k] : k \in 1 .. size}
<1>1. units \in [1 .. size -> T]
  BY DEF LowUnits
<1>2. Len(units) = size
  <2> HIDE DEF units, T
  <2>1. QED
    BY <1>1, TableIsSequence
<1>3. units[size][1] = v
  BY DEF LowUnits, Unit
<1>4. QED
  BY <1>2, <1>3 DEF ValueOf

LEMMA Containers ==
  ASSUME NEW h, Sound(h)
  PROVE  /\ PieceUnits(h) \in Nat \ {0}
         /\ PieceUnits(h) = ContainerUnits(h.depth)
         /\ PieceUnits(h) \in {2, 4}
BY DEF Sound, PieceUnits, ContainerUnits, BytesPerPixel, DivCeil, UnitsPerByte

LEMMA Product ==
  ASSUME NEW k \in Nat, NEW l \in Nat, NEW m \in Nat, NEW n \in Nat
  PROVE  k * l * m * n \in Nat
<1>1. k * l \in Nat
  BY SMTT(10)
<1>2. k * l * m \in Nat
  BY <1>1, SMTT(10)
<1>3. QED
  BY <1>2, SMTT(10)

\* Two joined sequences.
LEMMA Joined ==
  ASSUME NEW S, NEW a \in Seq(S), NEW b \in Seq(S)
  PROVE  /\ a \o b \in Seq(S)
         /\ Len(a \o b) = Len(a) + Len(b)
         /\ Len(a) \in Nat /\ Len(b) \in Nat
         /\ a \in [1 .. Len(a) -> S] /\ b \in [1 .. Len(b) -> S]
         /\ a \o b \in [1 .. Len(a) + Len(b) -> S]
         /\ \A k \in 1 .. Len(a) + Len(b) :
               (a \o b)[k] = IF k <= Len(a) THEN a[k] ELSE b[k - Len(a)]
<1>2. /\ Len(a) \in Nat /\ Len(b) \in Nat
      /\ a \in [1 .. Len(a) -> S] /\ b \in [1 .. Len(b) -> S]
  BY LenProperties
<1>3. /\ a \o b \in Seq(S)
      /\ Len(a \o b) = Len(a) + Len(b)
      /\ \A k \in 1 .. Len(a) + Len(b) :
            (a \o b)[k] = IF k <= Len(a) THEN a[k] ELSE b[k - Len(a)]
  BY ConcatProperties
<1>4. a \o b \in [1 .. Len(a) + Len(b) -> S]
  BY <1>3, LenProperties
<1>5. QED
  BY <1>2, <1>3, <1>4

\* The position of a sample is inside its block.
LEMMA ModePositionInside ==
  ASSUME NEW imode \in Modes, NEW rows \in Nat \ {0}, NEW cols \in Nat \ {0},
         NEW b \in BandSet, NEW y \in 0 .. rows - 1, NEW x \in 0 .. cols - 1
  PROVE  ModePosition(imode, rows, cols, b, y, x) \in 0 .. Bands * (rows * cols) - 1
BY ModePositions

\* The samples of a masked block lie in the stretch from its offset on.
LEMMA PieceInside ==
  ASSUME NEW h, Sound(h),
         NEW r \in 0 .. GridRows(h.bh) - 1, NEW c \in 0 .. GridCols(h.bw) - 1,
         NEW s \in Inside(h.bh, h.bw, r, c), NEW offset \in Nat
  PROVE  LET k == ModePosition(h.imode, TileRows(h.bh, r), TileCols(h.bw, c),
                               s[1], s[2], s[3])
             size == PieceUnits(h)
         IN  /\ size \in Nat \ {0}
             /\ PieceCount(h, r, c) \in Nat
             /\ k \in Nat /\ k * size \in Nat
             /\ k * size + size <= PieceCount(h, r, c)
             /\ PieceAt(h, offset, r, c, s) = offset * UnitsPerByte + k * size
             /\ PieceAt(h, offset, r, c, s) \in Nat
             /\ PieceAt(h, offset, r, c, s) + size
                  <= offset * UnitsPerByte + PieceCount(h, r, c)
<1> DEFINE rows == TileRows(h.bh, r)
           cols == TileCols(h.bw, c)
           k == ModePosition(h.imode, rows, cols, s[1], s[2], s[3])
           size == PieceUnits(h)
           n == rows * cols
           at == PieceAt(h, offset, r, c, s)
           count == PieceCount(h, r, c)
<1>1. h.bh \in Nat \ {0} /\ h.bw \in Nat \ {0} /\ h.imode \in Modes
  BY DEF Sound
<1>2. /\ rows \in Nat \ {0} /\ cols \in Nat \ {0}
      /\ s[1] \in BandSet /\ s[2] \in 0 .. rows - 1 /\ s[3] \in 0 .. cols - 1
  BY <1>1, PixelsOfTile
<1>3. size \in Nat \ {0} /\ Bands \in Nat \ {0}
  BY Containers, DimensionsAssumption
<1>4. k \in 0 .. Bands * n - 1
  <2> DEFINE b == s[1]
             y == s[2]
             x == s[3]
  <2>1. b \in BandSet /\ y \in 0 .. rows - 1 /\ x \in 0 .. cols - 1
    BY <1>2
  <2> HIDE DEF rows, cols, b, y, x
  <2>2. ModePosition(h.imode, rows, cols, b, y, x) \in 0 .. Bands * (rows * cols) - 1
    BY <1>1, <1>2, <2>1, ModePositionInside
  <2>3. QED
    BY <2>2 DEF b, y, x
<1>5. count = Bands * rows * cols * size /\ at = offset * UnitsPerByte + k * size
  BY DEF PieceCount, PieceAt
<1> HIDE DEF rows, cols, k, size, at, count
<1>6. n \in Nat
  BY <1>2, SMTT(10)
<1>7. Bands * n \in Nat /\ Bands * rows * cols = Bands * n
  BY <1>2, <1>3, <1>6, SMTT(10)
<1> DEFINE m == Bands * n
<1> HIDE DEF m
<1>8. m \in Nat /\ k \in 0 .. m - 1 /\ k \in Nat
  BY <1>4, <1>7 DEF m
<1>9. count = m * size
  BY <1>5, <1>7 DEF m
<1>10. (k + 1) * size <= m * size /\ (k + 1) * size = k * size + size
        /\ k * size \in Nat /\ m * size \in Nat
  BY <1>3, <1>8, SMTT(10)
<1>11. offset * UnitsPerByte \in Nat
  BY DEF UnitsPerByte
<1>12. /\ count \in Nat /\ k * size + size <= count
       /\ at \in Nat /\ at + size <= offset * UnitsPerByte + count
  BY <1>3, <1>5, <1>9, <1>10, <1>11
<1>13. QED
  BY <1>3, <1>5, <1>8, <1>10, <1>12 DEF rows, cols, k, size, at, count

\* A slice of a sequence is the same wherever the sequence stands in another.
LEMMA SliceMoves ==
  ASSUME NEW g, NEW N, NEW f, NEW n, NEW w, Stands(g, N, f, n, w),
         NEW m \in Nat, NEW size \in Nat, m + size <= n, NEW u, u = w + m
  PROVE  SubSeq(g, u + 1, u + size) = SubSeq(f, m + 1, m + size)
<1>0. PICK S, T : f \in [1 .. n -> S] /\ g \in [1 .. N -> T]
  BY DEF Stands
<1>a. n \in Nat /\ N \in Nat /\ w \in Nat /\ w + n <= N /\ \A k \in 1 .. n : g[w + k] = f[k]
  BY DEF Stands
<1> DEFINE v == SubSeq(f, m + 1, m + size)
<1>1. v \in [1 .. size -> S] /\ \A k \in 1 .. size : v[k] = f[m + k]
  <2>1. n \in Nat /\ f \in [1 .. n -> S]
    BY <1>0, <1>a
  <2>2. QED
    BY <2>1, Slice, SMTT(30)
<1> HIDE DEF v
<1>2. ASSUME NEW k \in 1 .. size
      PROVE  g[u + k] = v[k]
  <2>1. m + k \in 1 .. n /\ u + k = w + (m + k)
    BY <1>a
  <2>2. QED
    BY <1>a, <1>1, <2>1
<1>3. u \in Nat /\ u + size <= N
  BY <1>a
<1>4. SubSeq(g, u + 1, u + size) = v
  BY <1>0, <1>a, <1>1, <1>2, <1>3, SliceIs
<1>5. QED
  BY <1>4 DEF v

\* A masked block decodes to the same samples wherever its units stand.
LEMMA PieceMoves ==
  ASSUME NEW h, Sound(h),
         NEW r \in 0 .. GridRows(h.bh) - 1, NEW c \in 0 .. GridCols(h.bw) - 1,
         NEW s \in Inside(h.bh, h.bw, r, c), NEW offset \in Nat,
         NEW f, NEW n, NEW m \in Nat, NEW g, NEW N,
         Stands(g, N, f, n, m * UnitsPerByte), Room(h, r, c, offset, n)
  PROVE  Piece(h, g, m + offset, r, c, s) = Piece(h, f, offset, r, c, s)
<1> DEFINE at == PieceAt(h, offset, r, c, s)
           beyond == PieceAt(h, m + offset, r, c, s)
           size == PieceUnits(h)
           k == ModePosition(h.imode, TileRows(h.bh, r), TileCols(h.bw, c),
                             s[1], s[2], s[3]) * size
           w == m * UnitsPerByte
<1>1. /\ at \in Nat /\ size \in Nat /\ k \in Nat
      /\ at + size <= offset * UnitsPerByte + PieceCount(h, r, c)
      /\ PieceCount(h, r, c) \in Nat
      /\ at = offset * UnitsPerByte + k
  BY PieceInside
<1>2. beyond = (m + offset) * UnitsPerByte + k
  BY DEF PieceAt
<1>3. w \in Nat /\ Stands(g, N, f, n, w)
  BY DEF UnitsPerByte
<1> HIDE DEF at, size, k, beyond
<1>4. beyond = w + at
  BY <1>1, <1>2 DEF UnitsPerByte
<1> HIDE DEF w
<1>5. at + size <= n /\ n \in Nat
  BY <1>1, <1>3 DEF UnitsPerByte, Room, Stands
<1>7. SubSeq(g, beyond + 1, beyond + size) = SubSeq(f, at + 1, at + size)
  <2>1. /\ Stands(g, N, f, n, w) /\ at \in Nat /\ size \in Nat /\ at + size <= n
        /\ beyond = w + at
    BY <1>1, <1>3, <1>4, <1>5
  <2>2. QED
    BY <2>1, SliceMoves
<1>8. QED
  BY <1>7 DEF Piece, at, size, beyond

\* The units of a masked block decode to the tile they were made from.
LEMMA PieceOfTile ==
  ASSUME NEW h, Sound(h),
         NEW r \in 0 .. GridRows(h.bh) - 1, NEW c \in 0 .. GridCols(h.bw) - 1,
         NEW tile, Shaped(tile, TileRows(h.bh, r), TileCols(h.bw, c))
  PROVE  LET units == MaskedUnits(h, tile)
             count == PieceCount(h, r, c)
         IN  /\ \E T : units \in [1 .. count -> T]
             /\ count \in Nat /\ \E w \in Nat : count = w * UnitsPerByte
             /\ \A s \in Inside(h.bh, h.bw, r, c) :
                   Piece(h, units, 0, r, c, s) = SampleAt(tile, s)
<1> DEFINE rows == TileRows(h.bh, r)
           cols == TileCols(h.bw, c)
           size == PieceUnits(h)
           count == PieceCount(h, r, c)
           units == MaskedUnits(h, tile)
           T == {units[k] : k \in 1 .. count}
           Value(k) == LowUnits(h.depth, ModeSample(h.imode, tile, (k - 1) \div size), size)
                         [((k - 1) % size) + 1]
<1>1. h.bh \in Nat \ {0} /\ h.bw \in Nat \ {0} /\ h.imode \in Modes
  BY DEF Sound
<1>2. rows \in Nat \ {0} /\ cols \in Nat \ {0} /\ Bands \in Nat \ {0}
  BY <1>1, PixelsOfTile, DimensionsAssumption
<1>3. size \in Nat \ {0} /\ size \in {2, 4} /\ size = ContainerUnits(h.depth)
  BY Containers
<1>4. /\ tile.bands = Bands /\ tile.rows = rows /\ tile.cols = cols
  BY DEF Shaped
<1>5. units = [k \in 1 .. count |-> Value(k)]
  BY <1>3, <1>4 DEF MaskedUnits, PieceCount, PieceUnits
<1>6. \E w \in Nat : count = w * UnitsPerByte
  <2> DEFINE m == Bands * rows * cols
  <2>1. m \in Nat
    <3> HIDE DEF rows, cols
    <3>1. Bands * rows \in Nat
      BY <1>2, SMTT(10)
    <3>2. QED
      BY <1>2, <3>1, SMTT(10)
  <2>2. count = m * size
    BY DEF PieceCount
  <2> HIDE DEF m, count, size
  <2>3. CASE size = 2
    BY <2>1, <2>2, <2>3 DEF UnitsPerByte
  <2>4. CASE size = 4
    <3>1. count = (m * 2) * UnitsPerByte /\ m * 2 \in Nat
      BY <2>1, <2>2, <2>4 DEF UnitsPerByte
    <3>2. QED
      BY <3>1
  <2>5. QED
    BY <1>3, <2>3, <2>4
<1>7. count \in Nat
  BY <1>6 DEF UnitsPerByte
<1>8. \A k \in 1 .. count : units[k] = Value(k)
  BY <1>5
<1>9. units \in [1 .. count -> T]
  BY <1>5
<1> HIDE DEF units, count, T, Value, size, rows, cols
<1>10. ASSUME NEW s \in Inside(h.bh, h.bw, r, c)
       PROVE  Piece(h, units, 0, r, c, s) = SampleAt(tile, s)
  <2> DEFINE k == ModePosition(h.imode, rows, cols, s[1], s[2], s[3])
             at == PieceAt(h, 0, r, c, s)
             v == SampleAt(tile, s)
             low == LowUnits(h.depth, v, size)
             L == {low[i] : i \in 1 .. size}
             m == k * size
  <2>1. /\ k \in Nat /\ m \in Nat /\ m + size <= count
        /\ at = m
    <3>1. /\ k \in Nat /\ m \in Nat /\ m + size <= count
          /\ at = 0 * UnitsPerByte + m
      BY PieceInside DEF rows, cols, size, count
    <3> HIDE DEF m, at
    <3>2. QED
      BY <3>1 DEF UnitsPerByte
  <2>2. ModeSample(h.imode, tile, k) = v
    <3>1. /\ s[1] \in BandSet /\ s[2] \in 0 .. rows - 1 /\ s[3] \in 0 .. cols - 1
          /\ Shaped(tile, rows, cols)
      BY <1>1, PixelsOfTile DEF rows, cols
    <3>2. QED
      BY <1>1, <1>2, <3>1, ModesInverse DEF SampleAt
  <2>3. low \in [1 .. size -> L]
    BY DEF LowUnits
  <2> HIDE DEF k, v, low, L
  <2>4. ASSUME NEW i \in 1 .. size
        PROVE  units[m + i] = low[i]
    <3>1. m + i \in 1 .. count /\ (m + i) - 1 = k * size + (i - 1)
      <4>1. m = k * size
        OBVIOUS
      <4> HIDE DEF m
      <4>2. m + i \in 1 .. count /\ (m + i) - 1 = m + (i - 1)
        BY <1>3, <1>7, <2>1
      <4>3. QED
        BY <4>1, <4>2
    <3>2. i - 1 \in 0 .. size - 1
      BY <1>3
    <3>3. (k * size + (i - 1)) \div size = k /\ (k * size + (i - 1)) % size = i - 1
      BY <1>3, <2>1, <3>2, QuotientAndRemainder
    <3>4. (i - 1) + 1 = i
      BY <1>3
    <3>5. Value(m + i) = low[i]
      <4>1. Value(m + i) = LowUnits(h.depth, ModeSample(h.imode, tile, ((m + i) - 1) \div size),
                                    size)[(((m + i) - 1) % size) + 1]
        BY DEF Value
      <4> HIDE DEF m
      <4>2. QED
        BY <2>2, <3>1, <3>3, <3>4, <4>1 DEF low
    <3> HIDE DEF m
    <3>6. QED
      BY <1>8, <3>1, <3>5
  <2>5. SubSeq(units, m + 1, m + size) = low
    <3> HIDE DEF m
    <3>1. QED
      BY <1>3, <1>7, <1>9, <2>1, <2>3, <2>4, SliceIs
  <2> HIDE DEF m, at
  <2>6. ValueOf(h.depth, low) = v
    BY <1>3, UnitsGiveValue DEF low
  <2>7. Piece(h, units, 0, r, c, s) = ValueOf(h.depth, SubSeq(units, at + 1, at + size))
    BY DEF Piece, at, size
  <2>8. QED
    BY <2>1, <2>5, <2>6, <2>7 DEF v
<1>11. QED
  BY <1>6, <1>7, <1>9, <1>10 DEF units, count

-----------------------------------------------------------------------------
(* One block more *)

\* The blocks are written in the order of their numbers.
LEMMA NextBlock ==
  ASSUME NEW h, Sound(h), NEW n \in 0 .. BlockCount(h.bh, h.bw) - 1
  PROVE  LET r == n \div GridCols(h.bw)
             c == n % GridCols(h.bw)
         IN  /\ r \in 0 .. GridRows(h.bh) - 1
             /\ c \in 0 .. GridCols(h.bw) - 1
             /\ <<r, c>> \in Grid(h.bh, h.bw)
             /\ BlockIndex(h.bw, r, c) = n
             /\ \A q \in Grid(h.bh, h.bw) :
                   /\ BlockIndex(h.bw, q[1], q[2]) \in Nat
                   /\ BlockIndex(h.bw, q[1], q[2]) = n => q = <<r, c>>
<1> DEFINE cols == GridCols(h.bw)
           rows == GridRows(h.bh)
           r == n \div cols
           c == n % cols
<1>1. rows \in Nat \ {0} /\ cols \in Nat \ {0} /\ BlockCount(h.bh, h.bw) = rows * cols
  BY GridSize DEF BlockCount
<1> HIDE DEF rows, cols
<1>2. n \in Nat
  BY <1>1, SMTT(10)
<1>3. n = r * cols + c /\ c \in 0 .. cols - 1 /\ r \in Nat
  BY <1>1, <1>2, Division
<1>4. r < rows
  <2> HIDE DEF r, c
  <2>1. SUFFICES ASSUME r >= rows
                 PROVE  FALSE
    BY <1>1, <1>3
  <2>2. r * cols >= rows * cols
    BY <1>1, <1>3, <2>1, SMTT(10)
  <2>3. n < rows * cols
    BY <1>1, <1>2
  <2>4. r * cols \in Nat /\ rows * cols \in Nat
    BY <1>1, <1>3, SMTT(10)
  <2>5. QED
    BY <1>2, <1>3, <2>2, <2>3, <2>4
<1>5. r \in 0 .. rows - 1
  BY <1>1, <1>3, <1>4
<1>6. <<r, c>> \in Grid(h.bh, h.bw)
  BY <1>3, <1>5 DEF Grid, rows, cols
<1>7. BlockIndex(h.bw, r, c) = n
  BY <1>3 DEF BlockIndex, cols
<1> HIDE DEF r, c
<1>8. ASSUME NEW q \in Grid(h.bh, h.bw)
      PROVE  /\ BlockIndex(h.bw, q[1], q[2]) \in Nat
             /\ BlockIndex(h.bw, q[1], q[2]) = n => q = <<r, c>>
  <2> DEFINE p == <<r, c>>
  <2>1. BlockIndex(h.bw, q[1], q[2]) \in 0 .. BlockCount(h.bh, h.bw) - 1
    BY Indices
  <2>2. p \in Grid(h.bh, h.bw) /\ BlockIndex(h.bw, p[1], p[2]) = n
    BY <1>6, <1>7
  <2> HIDE DEF p
  <2>3. BlockIndex(h.bw, q[1], q[2]) = n => q = p
    BY <2>2, Indices
  <2>4. BlockIndex(h.bw, q[1], q[2]) \in Nat
    BY <1>1, <2>1
  <2>5. QED
    BY <2>3, <2>4 DEF p
<1>9. QED
  BY <1>3, <1>5, <1>6, <1>7, <1>8 DEF r, c, rows, cols

\* What was kept stays kept when more has been seen.
LEMMA KeptGrows ==
  ASSUME NEW h, Sound(h), NEW one, NEW two, \A p \in PixelSet : one[p] \subseteq two[p],
         NEW bytes, NEW next
  PROVE  /\ PlainKept(h, bytes, next, one) => PlainKept(h, bytes, next, two)
         /\ \A records, provided :
               MaskedKept(h, bytes, records, provided, next, one)
                 => MaskedKept(h, bytes, records, provided, next, two)
<1>1. ASSUME NEW q \in Grid(h.bh, h.bw), NEW s \in Inside(h.bh, h.bw, q[1], q[2])
      PROVE  one[PixelOf(h.bh, h.bw, q[1], q[2], s)]
               \subseteq two[PixelOf(h.bh, h.bw, q[1], q[2], s)]
  <2>1. h.bh \in Nat \ {0} /\ h.bw \in Nat \ {0}
    BY DEF Sound
  <2>2. q[1] \in 0 .. GridRows(h.bh) - 1 /\ q[2] \in 0 .. GridCols(h.bw) - 1
    BY DEF Grid
  <2>3. PixelOf(h.bh, h.bw, q[1], q[2], s) \in PixelSet
    BY <2>1, <2>2, PixelsOfTile
  <2>4. QED
    BY <2>3
<1>2. PlainKept(h, bytes, next, one) => PlainKept(h, bytes, next, two)
  BY <1>1 DEF PlainKept
<1>3. ASSUME NEW offset, NEW q \in Grid(h.bh, h.bw), PieceKept(h, bytes, offset, q, one)
      PROVE  PieceKept(h, bytes, offset, q, two)
  BY <1>1, <1>3 DEF PieceKept
<1>4. ASSUME NEW records, NEW provided,
             MaskedKept(h, bytes, records, provided, next, one)
      PROVE  MaskedKept(h, bytes, records, provided, next, two)
  BY <1>3, <1>4 DEF MaskedKept
<1>5. QED
  BY <1>2, <1>4

\* Encoding a block keeps the earlier ones and adds its own.
LEMMA PlainAdvances ==
  ASSUME NEW h, Sound(h), NEW bytes, Filled(Plain(h, bytes), h), NEW seen,
         NEW n \in 0 .. BlockCount(h.bh, h.bw) - 1,
         NEW r, NEW c, r = n \div GridCols(h.bw), c = n % GridCols(h.bw),
         NEW tile, Fits(h, r, c, tile),
         \A s \in Inside(h.bh, h.bw, r, c) :
            SampleAt(tile, s) \in seen[PixelOf(h.bh, h.bw, r, c, s)],
         PlainKept(h, bytes, n, seen)
  PROVE  PlainKept(h, EncodeBlock(h, bytes, r, c, tile), n + 1, seen)
<1> DEFINE before == Plain(h, bytes)
           after == Plain(h, EncodeBlock(h, bytes, r, c, tile))
<1>1. /\ r \in 0 .. GridRows(h.bh) - 1 /\ c \in 0 .. GridCols(h.bw) - 1
      /\ \A q \in Grid(h.bh, h.bw) :
            /\ BlockIndex(h.bw, q[1], q[2]) \in Nat
            /\ BlockIndex(h.bw, q[1], q[2]) = n => q = <<r, c>>
  BY NextBlock
<1>2. /\ Describes(before, h) /\ before.bytes = bytes /\ Filled(before, h)
      /\ Describes(after, h) /\ after.bytes = EncodeBlock(h, bytes, r, c, tile)
  BY DEF Plain, Describes
<1>3. h.bh \in Nat \ {0} /\ h.bw \in Nat \ {0}
  BY DEF Sound
<1> HIDE DEF before, after
<1>4. SUFFICES ASSUME NEW q \in Grid(h.bh, h.bw), BlockIndex(h.bw, q[1], q[2]) < n + 1,
                      NEW s \in Inside(h.bh, h.bw, q[1], q[2])
               PROVE  SampleAt(DecodeBlock(after, q[1], q[2]), s)
                        \in seen[PixelOf(h.bh, h.bw, q[1], q[2], s)]
  BY DEF PlainKept, after
<1>5. /\ q[1] \in 0 .. GridRows(h.bh) - 1 /\ q[2] \in 0 .. GridCols(h.bw) - 1
      /\ q = <<q[1], q[2]>>
  BY DEF Grid
<1>6. /\ s[1] \in BandSet /\ s[2] \in 0 .. TileRows(h.bh, q[1]) - 1
      /\ s[3] \in 0 .. TileCols(h.bw, q[2]) - 1
  BY <1>3, <1>5, PixelsOfTile
<1>7. SampleAt(DecodeBlock(after, q[1], q[2]), s) =
        IF r = q[1] /\ c = q[2] THEN SampleAt(tile, s)
                                ELSE SampleAt(DecodeBlock(before, q[1], q[2]), s)
  <2>1. \A r2 \in 0 .. GridRows(h.bh) - 1, c2 \in 0 .. GridCols(h.bw) - 1, b \in BandSet :
           \A y \in 0 .. TileRows(h.bh, r2) - 1, x \in 0 .. TileCols(h.bw, c2) - 1 :
              Sample(DecodeBlock(after, r2, c2), b, y, x) =
                IF r = r2 /\ c = c2 THEN Sample(tile, b, y, x)
                                    ELSE Sample(DecodeBlock(before, r2, c2), b, y, x)
    BY <1>1, <1>2, RoundTrip
  <2>2. QED
    BY <1>5, <1>6, <2>1 DEF SampleAt
<1>8. CASE r = q[1] /\ c = q[2]
  BY <1>7, <1>8
<1>9. CASE ~(r = q[1] /\ c = q[2])
  <2>1. BlockIndex(h.bw, q[1], q[2]) < n
    <3>1. BlockIndex(h.bw, q[1], q[2]) # n
      BY <1>1, <1>5, <1>9
    <3>2. BlockIndex(h.bw, q[1], q[2]) \in Nat /\ n \in Int
      BY <1>1
    <3>3. QED
      BY <1>4, <3>1, <3>2
  <2>2. SampleAt(DecodeBlock(before, q[1], q[2]), s)
          \in seen[PixelOf(h.bh, h.bw, q[1], q[2], s)]
    BY <2>1 DEF PlainKept, before
  <2>3. QED
    BY <1>7, <1>9, <2>2
<1>10. QED
  BY <1>8, <1>9

-----------------------------------------------------------------------------
(* One masked block more *)

\* Both parts of a longer sequence stand in it.
LEMMA Appended ==
  ASSUME NEW S, NEW bytes \in Seq(S), NEW T, NEW n \in Nat, NEW units \in [1 .. n -> T]
  PROVE  LET joined == bytes \o units
         IN  /\ Len(bytes) \in Nat /\ Len(joined) = Len(bytes) + n
             /\ \E V : joined \in Seq(V)
             /\ Stands(joined, Len(joined), bytes, Len(bytes), 0)
             /\ Stands(joined, Len(joined), units, n, Len(bytes))
<1> DEFINE V == S \cup T
           m == Len(bytes)
           joined == bytes \o units
<1>1. bytes \in Seq(V)
  BY SeqMonotonic
<1>2. units \in Seq(V) /\ Len(units) = n
  <2>1. units \in Seq(T) /\ Len(units) = n
    BY TableIsSequence
  <2>2. QED
    BY <2>1, SeqMonotonic
<1> HIDE DEF V
<1>3. /\ joined \in Seq(V) /\ Len(joined) = m + Len(units)
      /\ m \in Nat
      /\ bytes \in [1 .. m -> V] /\ units \in [1 .. Len(units) -> V]
      /\ joined \in [1 .. m + Len(units) -> V]
      /\ \A k \in 1 .. m + Len(units) :
            joined[k] = IF k <= m THEN bytes[k] ELSE units[k - m]
  BY <1>1, <1>2, Joined
<1>4. /\ Len(joined) = m + n
      /\ units \in [1 .. n -> V] /\ joined \in [1 .. m + n -> V]
      /\ \A k \in 1 .. m + n : joined[k] = IF k <= m THEN bytes[k] ELSE units[k - m]
  BY <1>2, <1>3
<1> HIDE DEF joined, m
<1>5. ASSUME NEW k \in 1 .. m
      PROVE  joined[0 + k] = bytes[k]
  <2>1. 0 + k = k /\ k \in 1 .. m + n /\ k <= m
    BY <1>3
  <2>2. QED
    BY <1>4, <2>1
<1>6. ASSUME NEW k \in 1 .. n
      PROVE  joined[m + k] = units[k]
  <2>1. m + k \in 1 .. m + n /\ ~(m + k <= m) /\ (m + k) - m = k
    BY <1>3
  <2>2. QED
    BY <1>4, <2>1
<1>7. Stands(joined, m + n, bytes, m, 0)
  <2>1. 0 + m <= m + n /\ m + n \in Nat
    BY <1>3
  <2>2. QED
    BY <1>3, <1>4, <1>5, <2>1 DEF Stands
<1>8. Stands(joined, m + n, units, n, m)
  <2>1. m + n <= m + n /\ m + n \in Nat
    BY <1>3
  <2>2. QED
    BY <1>3, <1>4, <1>6, <2>1 DEF Stands
<1>9. QED
  BY <1>3, <1>4, <1>7, <1>8 DEF joined, m

LEMMA KeptCount ==
  ASSUME NEW h, Sound(h),
         NEW r \in 0 .. GridRows(h.bh) - 1, NEW c \in 0 .. GridCols(h.bw) - 1
  PROVE  PieceCount(h, r, c) \in Nat
<1>1. h.bh \in Nat \ {0} /\ h.bw \in Nat \ {0}
  BY DEF Sound
<1>2. TileRows(h.bh, r) \in Nat \ {0} /\ TileCols(h.bw, c) \in Nat \ {0}
  BY <1>1, PixelsOfTile
<1>3. PieceUnits(h) \in Nat /\ Bands \in Nat
  BY Containers, DimensionsAssumption
<1>4. QED
  BY <1>2, <1>3, Product DEF PieceCount

\* A kept block is kept wherever its bytes stand.
LEMMA PieceKeptMoves ==
  ASSUME NEW h, Sound(h), NEW q \in Grid(h.bh, h.bw), NEW seen, NEW offset,
         NEW f, PieceKept(h, f, offset, q, seen),
         NEW g, NEW m \in Nat, Stands(g, Len(g), f, Len(f), m * UnitsPerByte)
  PROVE  PieceKept(h, g, m + offset, q, seen)
<1> DEFINE r == q[1]
           c == q[2]
<1>1. r \in 0 .. GridRows(h.bh) - 1 /\ c \in 0 .. GridCols(h.bw) - 1
  BY DEF Grid
<1>2. offset \in Nat /\ Room(h, r, c, offset, Len(f))
  BY DEF PieceKept
<1>3. ASSUME NEW s \in Inside(h.bh, h.bw, r, c)
      PROVE  Piece(h, g, m + offset, r, c, s) \in seen[PixelOf(h.bh, h.bw, r, c, s)]
  <2>1. Piece(h, f, offset, r, c, s) \in seen[PixelOf(h.bh, h.bw, r, c, s)]
    BY DEF PieceKept
  <2>2. Piece(h, g, m + offset, r, c, s) = Piece(h, f, offset, r, c, s)
    <3> HIDE DEF r, c
    <3>1. QED
      BY <1>1, <1>2, PieceMoves
  <2>3. QED
    BY <2>1, <2>2
<1>4. Room(h, r, c, m + offset, Len(g))
  <2> DEFINE count == PieceCount(h, r, c)
             w == m * UnitsPerByte
             M == Len(f)
             N == Len(g)
  <2>1. count \in Nat
    BY <1>1, KeptCount
  <2>2. offset * UnitsPerByte + count <= M
    BY <1>2 DEF Room
  <2>3. w + M <= N /\ M \in Nat /\ N \in Nat /\ w \in Nat
    BY DEF Stands
  <2>4. (m + offset) * UnitsPerByte = w + offset * UnitsPerByte /\ offset * UnitsPerByte \in Nat
    BY <1>2 DEF UnitsPerByte
  <2> HIDE DEF count, w, M, N
  <2>5. (m + offset) * UnitsPerByte + count <= N
    BY <2>1, <2>2, <2>3, <2>4
  <2>6. QED
    BY <2>5 DEF Room, count, N
<1>5. m + offset \in Nat
  BY <1>2
<1>6. QED
  BY <1>3, <1>4, <1>5 DEF PieceKept

\* The units of a tile keep it, from their first byte on.
LEMMA TileIsKept ==
  ASSUME NEW h, Sound(h), NEW q \in Grid(h.bh, h.bw), NEW seen,
         NEW tile, Shaped(tile, TileRows(h.bh, q[1]), TileCols(h.bw, q[2])),
         \A s \in Inside(h.bh, h.bw, q[1], q[2]) :
            SampleAt(tile, s) \in seen[PixelOf(h.bh, h.bw, q[1], q[2], s)]
  PROVE  LET units == MaskedUnits(h, tile)
         IN  /\ \E n \in Nat : Len(units) = n /\ \E T : units \in [1 .. n -> T]
             /\ \E w \in Nat : Len(units) = w * UnitsPerByte
             /\ PieceKept(h, units, 0, q, seen)
<1> DEFINE units == MaskedUnits(h, tile)
           count == PieceCount(h, q[1], q[2])
<1>1. q[1] \in 0 .. GridRows(h.bh) - 1 /\ q[2] \in 0 .. GridCols(h.bw) - 1
  BY DEF Grid
<1>2. /\ \E T : units \in [1 .. count -> T]
      /\ count \in Nat /\ \E w \in Nat : count = w * UnitsPerByte
      /\ \A s \in Inside(h.bh, h.bw, q[1], q[2]) :
            Piece(h, units, 0, q[1], q[2], s) = SampleAt(tile, s)
  BY <1>1, PieceOfTile
<1> HIDE DEF units, count
<1>3. Len(units) = count
  BY <1>2, TableIsSequence
<1>4. Room(h, q[1], q[2], 0, Len(units))
  BY <1>2, <1>3 DEF Room, UnitsPerByte, count
<1>5. PieceKept(h, units, 0, q, seen)
  BY <1>2, <1>4 DEF PieceKept
<1>6. QED
  BY <1>2, <1>3, <1>5 DEF units

\* An absent block is passed over.
LEMMA MaskedSkips ==
  ASSUME NEW h, Sound(h), NEW n \in 0 .. BlockCount(h.bh, h.bw) - 1,
         NEW r, NEW c, r = n \div GridCols(h.bw), c = n % GridCols(h.bw),
         NEW provided, <<r, c>> \notin provided,
         NEW bytes, NEW records, NEW seen,
         MaskedKept(h, bytes, records, provided, n, seen)
  PROVE  MaskedKept(h, bytes, records, provided, n + 1, seen)
<1>1. \A q \in Grid(h.bh, h.bw) :
         /\ BlockIndex(h.bw, q[1], q[2]) \in Nat
         /\ BlockIndex(h.bw, q[1], q[2]) = n => q = <<r, c>>
  BY NextBlock
<1>2. ASSUME NEW q \in Grid(h.bh, h.bw) \cap provided, BlockIndex(h.bw, q[1], q[2]) < n + 1
      PROVE  BlockIndex(h.bw, q[1], q[2]) < n
  <2>1. BlockIndex(h.bw, q[1], q[2]) # n /\ BlockIndex(h.bw, q[1], q[2]) \in Nat
    BY <1>1
  <2>2. n \in Int
    OBVIOUS
  <2>3. QED
    BY <1>2, <2>1, <2>2
<1>3. QED
  BY <1>2 DEF MaskedKept

\* Appending a block keeps the earlier ones and adds its own.
LEMMA MaskedAdvances ==
  ASSUME NEW h, Sound(h), NEW n \in 0 .. BlockCount(h.bh, h.bw) - 1,
         NEW r, NEW c, r = n \div GridCols(h.bw), c = n % GridCols(h.bw),
         NEW provided, NEW S, NEW bytes \in Seq(S),
         NEW records, DOMAIN records = 0 .. BlockCount(h.bh, h.bw) - 1, NEW seen,
         MaskedKept(h, bytes, records, provided, n, seen),
         NEW tile, Shaped(tile, TileRows(h.bh, r), TileCols(h.bw, c)),
         \A s \in Inside(h.bh, h.bw, r, c) :
            SampleAt(tile, s) \in seen[PixelOf(h.bh, h.bw, r, c, s)]
  PROVE  MaskedKept(h, bytes \o MaskedUnits(h, tile),
                    [records EXCEPT ![n] = Len(bytes) \div UnitsPerByte],
                    provided, n + 1, seen)
<1> DEFINE units == MaskedUnits(h, tile)
           joined == bytes \o units
           after == [records EXCEPT ![n] = Len(bytes) \div UnitsPerByte]
           here == <<r, c>>
<1>1. /\ here \in Grid(h.bh, h.bw)
      /\ \A q \in Grid(h.bh, h.bw) :
            /\ BlockIndex(h.bw, q[1], q[2]) \in Nat
            /\ BlockIndex(h.bw, q[1], q[2]) = n => q = here
  BY NextBlock
<1>2. here[1] = r /\ here[2] = c
  OBVIOUS
<1> HIDE DEF here
<1>3. /\ \E k \in Nat : Len(units) = k /\ \E T : units \in [1 .. k -> T]
      /\ \E w \in Nat : Len(units) = w * UnitsPerByte
      /\ PieceKept(h, units, 0, here, seen)
  BY <1>1, <1>2, TileIsKept
<1> HIDE DEF units
<1>4. PICK k \in Nat : Len(units) = k /\ \E T : units \in [1 .. k -> T]
  BY <1>3
<1>5. PICK m \in Nat : Len(bytes) = m * UnitsPerByte
  BY DEF MaskedKept
<1>6. /\ Len(bytes) \in Nat /\ Len(joined) = Len(bytes) + k
      /\ Stands(joined, Len(joined), bytes, Len(bytes), 0)
      /\ Stands(joined, Len(joined), units, k, Len(bytes))
  <2>1. PICK T : units \in [1 .. k -> T]
    BY <1>4
  <2>2. /\ Len(bytes) \in Nat /\ Len(bytes \o units) = Len(bytes) + k
        /\ Stands(bytes \o units, Len(bytes \o units), bytes, Len(bytes), 0)
        /\ Stands(bytes \o units, Len(bytes \o units), units, k, Len(bytes))
    BY <2>1, Appended, Zenon
  <2>3. QED
    BY <2>2
<1> HIDE DEF joined
<1>7. Len(bytes) \div UnitsPerByte = m
  BY <1>5 DEF UnitsPerByte
<1>8. PieceKept(h, joined, m + 0, here, seen)
  BY <1>1, <1>3, <1>4, <1>5, <1>6, PieceKeptMoves
<1>9. \E j \in Nat : Len(joined) = j * UnitsPerByte
  <2>1. PICK w \in Nat : k = w * UnitsPerByte
    BY <1>3, <1>4
  <2>2. Len(joined) = (m + w) * UnitsPerByte
    BY <1>5, <1>6, <2>1 DEF UnitsPerByte
  <2>3. QED
    BY <2>2
<1>10. ASSUME NEW q \in Grid(h.bh, h.bw) \cap provided, BlockIndex(h.bw, q[1], q[2]) < n + 1
       PROVE  PieceKept(h, joined, after[BlockIndex(h.bw, q[1], q[2])], q, seen)
  <2> DEFINE i == BlockIndex(h.bw, q[1], q[2])
  <2>1. i \in Nat /\ (i = n => q = here) /\ i < n + 1 /\ n \in Int
    BY <1>1, <1>10
  <2>2. i \in DOMAIN records
    <3>1. i \in 0 .. BlockCount(h.bh, h.bw) - 1
      BY Indices
    <3>2. QED
      BY <3>1
  <2> HIDE DEF i
  <2>3. CASE i = n
    <3>1. after[i] = m
      BY <1>7, <2>2, <2>3
    <3>2. m + 0 = m
      OBVIOUS
    <3>3. QED
      BY <1>8, <2>1, <2>3, <3>1, <3>2 DEF i
  <2>4. CASE i # n
    <3>1. after[i] = records[i]
      BY <2>2, <2>4
    <3>2. PieceKept(h, bytes, records[i], q, seen)
      <4>1. i < n
        BY <2>1, <2>4
      <4>2. QED
        BY <4>1 DEF MaskedKept, i
    <3>3. Stands(joined, Len(joined), bytes, Len(bytes), 0 * UnitsPerByte)
      BY <1>6 DEF UnitsPerByte
    <3>4. PieceKept(h, joined, 0 + records[i], q, seen)
      BY <3>2, <3>3, PieceKeptMoves
    <3>5. 0 + records[i] = records[i]
      BY <3>2 DEF PieceKept
    <3>6. QED
      BY <3>1, <3>4, <3>5 DEF i
  <2>5. QED
    BY <2>3, <2>4
<1>11. QED
  BY <1>9, <1>10 DEF MaskedKept, joined, units

-----------------------------------------------------------------------------
(* The finished file *)

\* The block is made of samples that were seen, or it is absent and fill.
Shows(seg, h, q, seen) ==
    \E f : /\ SegmentGetBlock(seg, q[1], q[2])
                = MakeTile(TileRows(h.bh, q[1]), TileCols(h.bw, q[2]), f)
           /\ \A s \in Inside(h.bh, h.bw, q[1], q[2]) :
                 IF SegmentHasBlock(seg, q[1], q[2])
                   THEN f[s] \in seen[PixelOf(h.bh, h.bw, q[1], q[2], s)]
                   ELSE f[s] = Fill /\ Absent \in seen[PixelOf(h.bh, h.bw, q[1], q[2], s)]

LEMMA ReaderShows ==
  ASSUME NEW h, Sound(h), NEW seg, Describes(seg, h), NEW seen,
         \A p \in PixelSet : Garbled \notin seen[p],
         \A q \in Grid(h.bh, h.bw) : Shows(seg, h, q, seen)
  PROVE  /\ Complete(Reader(seg))
         /\ \A p \in PixelSet : Picture(Reader(seg), Reader(seg).present)[p] \in seen[p]
<1> DEFINE R == Reader(seg)
<1>1. h.bh \in Nat \ {0} /\ h.bw \in Nat \ {0}
  BY DEF Sound
<1>2. /\ R.bh = h.bh /\ R.bw = h.bw
      /\ R.present = {p \in Grid(h.bh, h.bw) : SegmentHasBlock(seg, p[1], p[2])}
      /\ R.blocks = [p \in Grid(h.bh, h.bw) |-> SegmentGetBlock(seg, p[1], p[2])]
  BY DescribedShape DEF Reader
<1>3. R # NoFile
  <2>1. "bh" \in DOMAIN R /\ "bh" \notin DOMAIN NoFile
    BY DEF Reader, NoFile
  <2>2. QED
    BY <2>1
<1> HIDE DEF R
<1>4. ASSUME NEW q \in Grid(h.bh, h.bw)
      PROVE  /\ q[1] \in 0 .. GridRows(h.bh) - 1 /\ q[2] \in 0 .. GridCols(h.bw) - 1
             /\ q \in R.present <=> SegmentHasBlock(seg, q[1], q[2])
             /\ Whole(R.blocks[q], h.bh, h.bw, q[1], q[2])
             /\ \A s \in Inside(h.bh, h.bw, q[1], q[2]) :
                   IF q \in R.present
                     THEN SampleAt(R.blocks[q], s) \in seen[PixelOf(h.bh, h.bw, q[1], q[2], s)]
                     ELSE /\ SampleAt(R.blocks[q], s) = Fill
                          /\ Absent \in seen[PixelOf(h.bh, h.bw, q[1], q[2], s)]
  <2>1. q[1] \in 0 .. GridRows(h.bh) - 1 /\ q[2] \in 0 .. GridCols(h.bw) - 1
    BY DEF Grid
  <2>2. PICK f :
          /\ SegmentGetBlock(seg, q[1], q[2])
                = MakeTile(TileRows(h.bh, q[1]), TileCols(h.bw, q[2]), f)
          /\ \A s \in Inside(h.bh, h.bw, q[1], q[2]) :
                 IF SegmentHasBlock(seg, q[1], q[2])
                   THEN f[s] \in seen[PixelOf(h.bh, h.bw, q[1], q[2], s)]
                   ELSE f[s] = Fill /\ Absent \in seen[PixelOf(h.bh, h.bw, q[1], q[2], s)]
    BY DEF Shows
  <2> DEFINE t == MakeTile(TileRows(h.bh, q[1]), TileCols(h.bw, q[2]), f)
  <2>3. R.blocks[q] = t
    BY <1>2, <2>2
  <2>4. q \in R.present <=> SegmentHasBlock(seg, q[1], q[2])
    BY <1>2
  <2>5. ASSUME NEW s \in Inside(h.bh, h.bw, q[1], q[2])
        PROVE  f[s] # Garbled
    <3>1. PixelOf(h.bh, h.bw, q[1], q[2], s) \in PixelSet
      BY <1>1, <2>1, PixelsOfTile
    <3>2. Fill # Garbled
      BY DEF Fill, Garbled
    <3>3. QED
      BY <2>2, <3>1, <3>2
  <2>6. /\ \A s \in Inside(h.bh, h.bw, q[1], q[2]) : SampleAt(t, s) = f[s]
        /\ Whole(t, h.bh, h.bw, q[1], q[2])
    BY <1>1, <2>1, <2>5, MadeWhole
  <2> HIDE DEF t
  <2>7. QED
    BY <2>1, <2>2, <2>3, <2>4, <2>6
<1>5. Complete(R)
  BY <1>1, <1>2, <1>3, <1>4 DEF Complete
<1>6. ASSUME NEW p \in PixelSet
      PROVE  Picture(R, R.present)[p] \in seen[p]
  <2> DEFINE q == BlockOf(h.bh, h.bw, p)
             s == <<p[1], p[2] - q[1] * h.bh, p[3] - q[2] * h.bw>>
  <2>1. /\ q \in Grid(h.bh, h.bw) /\ s \in Inside(h.bh, h.bw, q[1], q[2])
        /\ PixelOf(h.bh, h.bw, q[1], q[2], s) = p
    BY <1>1, SampleOfPixel
  <2>2. Picture(R, R.present)[p] = IF q \in R.present THEN Copied(R, p[1], p[2], p[3])
                                                      ELSE Absent
    BY <1>2 DEF Picture, BlockOf
  <2>3. q[1] \in 0 .. GridRows(h.bh) - 1 /\ q[2] \in 0 .. GridCols(h.bw) - 1
    BY <2>1 DEF Grid
  <2>4. Copied(R, p[1], p[2], p[3]) = SampleAt(R.blocks[q], s)
    <3>1. Serves(R)
      BY <1>1, <1>5, <2>3, CompleteServes
    <3>2. R.blocks[q] # Missing
      BY <1>1, <1>4, <2>1, <2>3, WholeIsReadable
    <3>3. LET q1 == BlockOf(R.bh, R.bw, p)
              s1 == <<p[1], p[2] - q1[1] * R.bh, p[3] - q1[2] * R.bw>>
          IN  R.blocks[q1] # Missing => Copied(R, p[1], p[2], p[3]) = SampleAt(R.blocks[q1], s1)
      BY <3>1, CopiedSample
    <3>4. QED
      BY <1>2, <3>2, <3>3
  <2> HIDE DEF q, s
  <2>5. CASE q \in R.present
    BY <1>4, <2>1, <2>2, <2>4, <2>5
  <2>6. CASE q \notin R.present
    BY <1>4, <2>1, <2>2, <2>6
  <2>7. QED
    BY <2>5, <2>6
<1>7. QED
  BY <1>5, <1>6 DEF R

\* An unmasked write, its last block written.
LEMMA PlainFinishes ==
  ASSUME NEW h, Sound(h), NEW bytes, NEW seen,
         \A p \in PixelSet : Garbled \notin seen[p],
         PlainKept(h, bytes, BlockCount(h.bh, h.bw), seen)
  PROVE  LET R == Reader(Plain(h, bytes))
         IN  /\ Complete(R)
             /\ \A p \in PixelSet : Picture(R, R.present)[p] \in seen[p]
<1> DEFINE seg == Plain(h, bytes)
<1>1. Describes(seg, h) /\ seg.mask = NoMask
  BY DEF Plain, Describes
<1>2. h.bh \in Nat \ {0} /\ h.bw \in Nat \ {0}
  BY DEF Sound
<1> HIDE DEF seg
<1>3. ASSUME NEW q \in Grid(h.bh, h.bw)
      PROVE  Shows(seg, h, q, seen)
  <2> DEFINE rows == TileRows(h.bh, q[1])
             cols == TileCols(h.bw, q[2])
             f == [p \in BandSet \X (0 .. rows - 1) \X (0 .. cols - 1) |->
                     LET o == ReadOffset(seg, q[1], q[2], p[1], p[2], p[3])
                     IN  ValueOf(seg.depth,
                                 SubSeq(seg.bytes, o + 1, o + SampleUnits(seg.depth)))]
  <2>1. q[1] \in 0 .. GridRows(h.bh) - 1 /\ q[2] \in 0 .. GridCols(h.bw) - 1
    BY DEF Grid
  <2>2. DecodeBlock(seg, q[1], q[2]) = MakeTile(rows, cols, f)
    <3>1. BlockHeight(seg) = h.bh /\ BlockWidth(seg) = h.bw
      BY <1>1, DescribedShape
    <3>2. QED
      BY <3>1 DEF DecodeBlock
  <2>3. SegmentGetBlock(seg, q[1], q[2]) = DecodeBlock(seg, q[1], q[2])
    BY <1>1 DEF SegmentGetBlock
  <2>4. SegmentHasBlock(seg, q[1], q[2])
    <3>1. seg.nbpr = GridCols(h.bw) /\ seg.nbpc = GridRows(h.bh)
      BY <1>1 DEF Describes
    <3>2. GridCols(h.bw) \in Nat /\ GridRows(h.bh) \in Nat
      BY GridSize
    <3>3. QED
      BY <1>1, <2>1, <3>1, <3>2 DEF SegmentHasBlock
  <2> HIDE DEF f
  <2>5. \A s \in Inside(h.bh, h.bw, q[1], q[2]) :
           SampleAt(MakeTile(rows, cols, f), s) = f[s]
    BY <1>2, <2>1, MadeWhole
  <2>6. BlockIndex(h.bw, q[1], q[2]) < BlockCount(h.bh, h.bw)
    <3>1. BlockIndex(h.bw, q[1], q[2]) \in 0 .. BlockCount(h.bh, h.bw) - 1
      BY Indices
    <3>2. BlockCount(h.bh, h.bw) \in Nat
      BY GridSize
    <3>3. QED
      BY <3>1, <3>2
  <2>7. \A s \in Inside(h.bh, h.bw, q[1], q[2]) :
           f[s] \in seen[PixelOf(h.bh, h.bw, q[1], q[2], s)]
    BY <2>2, <2>5, <2>6 DEF PlainKept, seg
  <2>8. QED
    BY <2>2, <2>3, <2>4, <2>7 DEF Shows
<1>4. Complete(Reader(seg))
      /\ \A p \in PixelSet : Picture(Reader(seg), Reader(seg).present)[p] \in seen[p]
  BY <1>1, <1>3, ReaderShows
<1>5. QED
  BY <1>4 DEF seg

\* The segment of a finished masked write.
Masked(h, bytes, records) ==
    [ic |-> "NM", imode |-> h.imode, depth |-> h.depth,
     nbpr |-> GridCols(h.bw), nbpc |-> GridRows(h.bh),
     nppbh |-> IF h.bw = Cols THEN 0 ELSE h.bw,
     nppbv |-> IF h.bh = Rows THEN 0 ELSE h.bh,
     mask |-> MaskTable(h, records),
     bytes |-> [k \in 1 .. MaskBytes(h) * UnitsPerByte |-> Table] \o bytes]

\* A masked write, its last block written.
LEMMA MaskedFinishes ==
  ASSUME NEW h, Sound(h), NEW S, NEW bytes \in Seq(S), NEW records, NEW provided,
         MaskSoFar(records, h, provided), NEW seen,
         \A p \in PixelSet :
            /\ Garbled \notin seen[p]
            /\ BlockOf(h.bh, h.bw, p) \notin provided => Absent \in seen[p],
         MaskedKept(h, bytes, records, provided, BlockCount(h.bh, h.bw), seen)
  PROVE  LET R == Reader(Masked(h, bytes, records))
         IN  /\ Complete(R)
             /\ \A p \in PixelSet : Picture(R, R.present)[p] \in seen[p]
<1> DEFINE table == MaskBytes(h)
           front == [k \in 1 .. table * UnitsPerByte |-> Table]
           all == front \o bytes
           seg == Masked(h, bytes, records)
<1>1. /\ Describes(seg, h) /\ seg.bytes = all /\ seg.depth = h.depth /\ seg.imode = h.imode
      /\ seg.mask.imdatoff = table /\ seg.mask.records = records
      /\ seg.nbpr = GridCols(h.bw)
  BY DEF Masked, Describes, MaskTable
<1>2. h.bh \in Nat \ {0} /\ h.bw \in Nat \ {0}
  BY DEF Sound
<1>3. table \in Nat \ {0}
  <2>1. RecordCount(h) \in Nat
    <3>1. BlockCount(h.bh, h.bw) \in Nat /\ Bands \in Nat
      BY GridSize, DimensionsAssumption
    <3>2. BlockCount(h.bh, h.bw) * Bands \in Nat /\ BlockCount(h.bh, h.bw) * 1 \in Nat
      BY <3>1, SMTT(10)
    <3>3. QED
      BY <3>2 DEF RecordCount
  <2>2. QED
    BY <2>1 DEF MaskBytes
<1>4. seg.mask # NoMask
  BY <1>1, <1>3 DEF NoMask
<1> HIDE DEF seg, table
<1>5. Len(front) = table * UnitsPerByte /\ front \in Seq({Table})
  <2> DEFINE n == table * UnitsPerByte
  <2>1. n \in Nat
    BY <1>3 DEF UnitsPerByte
  <2>2. front \in [1 .. n -> {Table}]
    OBVIOUS
  <2> HIDE DEF n, front
  <2>3. front \in Seq({Table}) /\ Len(front) = n
    BY <2>1, <2>2, TableIsSequence
  <2>4. QED
    BY <2>3 DEF n
<1> HIDE DEF front
<1>6. Stands(all, Len(all), bytes, Len(bytes), table * UnitsPerByte)
  <2>1. Len(bytes) \in Nat /\ bytes \in [1 .. Len(bytes) -> S]
    BY LenProperties
  <2>2. Stands(front \o bytes, Len(front \o bytes), bytes, Len(bytes), Len(front))
    BY <1>5, <2>1, Appended
  <2>3. QED
    BY <1>5, <2>2
<1> HIDE DEF all
<1>7. ASSUME NEW q \in Grid(h.bh, h.bw)
      PROVE  Shows(seg, h, q, seen)
  <2> DEFINE r == q[1]
             c == q[2]
             rows == TileRows(h.bh, r)
             cols == TileCols(h.bw, c)
             index == BlockIndex(h.bw, r, c)
             offset == table + records[index]
             cells == BandSet \X (0 .. rows - 1) \X (0 .. cols - 1)
             f == [p \in cells |->
                     LET at == offset * UnitsPerByte
                                + ModePosition(seg.imode, rows, cols, p[1], p[2], p[3])
                                    * ContainerUnits(seg.depth)
                     IN  ValueOf(seg.depth,
                                 SubSeq(seg.bytes, at + 1, at + ContainerUnits(seg.depth)))]
             blank == [p \in cells |-> Fill]
  <2>1. /\ r \in 0 .. GridRows(h.bh) - 1 /\ c \in 0 .. GridCols(h.bw) - 1
        /\ q = <<r, c>>
    BY DEF Grid
  <2>2. MaskIndex(seg, r, c) = index
    BY <1>1 DEF MaskIndex, BlockIndex
  <2>3. /\ index \in 0 .. BlockCount(h.bh, h.bw) - 1
        /\ index \in DOMAIN records
        /\ records[index] # EmptyBlock <=> q \in provided
    BY Indices DEF MaskSoFar
  <2>4. MaskHasBlock(seg, r, c) <=> q \in provided
    BY <1>1, <2>2, <2>3 DEF MaskHasBlock
  <2>5. SegmentHasBlock(seg, r, c) <=> q \in provided
    BY <1>4, <2>4 DEF SegmentHasBlock
  <2>6. BlockHeight(seg) = h.bh /\ BlockWidth(seg) = h.bw
    BY <1>1, DescribedShape
  <2>7. CASE q \in provided
    <3>1. index < BlockCount(h.bh, h.bw)
      <4>1. BlockCount(h.bh, h.bw) \in Nat
        BY GridSize
      <4>2. QED
        BY <2>3, <4>1
    <3>2. PieceKept(h, bytes, records[index], q, seen)
      BY <2>7, <3>1 DEF MaskedKept
    <3>3. PieceKept(h, all, offset, q, seen)
      <4> HIDE DEF index
      <4>1. QED
        BY <1>3, <1>6, <3>2, PieceKeptMoves
    <3>4. SegmentGetBlock(seg, r, c) = DecodeBlockAtOffset(seg, offset, r, c)
      BY <1>1, <1>4, <2>2, <2>4, <2>7 DEF SegmentGetBlock
    <3>5. ~(offset * UnitsPerByte + Bands * rows * cols * ContainerUnits(seg.depth)
              > Len(seg.bytes))
      <4>1. Room(h, r, c, offset, Len(all))
        BY <3>3 DEF PieceKept
      <4>2. Len(all) \in Nat /\ offset \in Nat
        BY <1>6, <3>3 DEF Stands, PieceKept
      <4>3. offset * UnitsPerByte + PieceCount(h, r, c) <= Len(all)
        BY <4>1 DEF Room
      <4>4. PieceCount(h, r, c) = Bands * rows * cols * ContainerUnits(seg.depth)
        BY <1>1 DEF PieceCount, PieceUnits
      <4>5. PieceCount(h, r, c) \in Nat
        BY <2>1, KeptCount
      <4> HIDE DEF offset, rows, cols
      <4>6. offset * UnitsPerByte \in Nat
        BY <4>2 DEF UnitsPerByte
      <4>7. ~(offset * UnitsPerByte + PieceCount(h, r, c) > Len(all))
        BY <4>2, <4>3, <4>5, <4>6
      <4>8. QED
        BY <1>1, <4>4, <4>7
    <3>6. DecodeBlockAtOffset(seg, offset, r, c) = MakeTile(rows, cols, f)
      <4> HIDE DEF offset
      <4>1. QED
        BY <2>6, <3>5 DEF DecodeBlockAtOffset
    <3>7. ASSUME NEW s \in Inside(h.bh, h.bw, r, c)
          PROVE  f[s] \in seen[PixelOf(h.bh, h.bw, r, c, s)]
      <4>1. s \in cells
        BY DEF Inside
      <4>2. f[s] = Piece(h, all, offset, r, c, s)
        <5> HIDE DEF offset, cells
        <5>1. QED
          BY <1>1, <4>1 DEF Piece, PieceAt, PieceUnits
      <4>3. QED
        BY <3>3, <4>2 DEF PieceKept
    <3> HIDE DEF f
    <3>8. QED
      BY <2>5, <2>7, <3>4, <3>6, <3>7 DEF Shows
  <2>8. CASE q \notin provided
    <3>1. SegmentGetBlock(seg, r, c) = MakeTile(rows, cols, blank)
      BY <1>4, <2>4, <2>6, <2>8 DEF SegmentGetBlock
    <3>2. ASSUME NEW s \in Inside(h.bh, h.bw, r, c)
          PROVE  blank[s] = Fill /\ Absent \in seen[PixelOf(h.bh, h.bw, r, c, s)]
      <4>1. /\ PixelOf(h.bh, h.bw, r, c, s) \in PixelSet
            /\ BlockOf(h.bh, h.bw, PixelOf(h.bh, h.bw, r, c, s)) = <<r, c>>
        BY <1>2, <2>1, PixelsOfTile
      <4>2. Absent \in seen[PixelOf(h.bh, h.bw, r, c, s)]
        BY <2>1, <2>8, <4>1
      <4>3. s \in cells
        BY DEF Inside
      <4>4. QED
        BY <4>2, <4>3
    <3> HIDE DEF blank
    <3>3. QED
      BY <2>5, <2>8, <3>1, <3>2 DEF Shows
  <2>9. QED
    BY <2>7, <2>8
<1>8. Complete(Reader(seg))
      /\ \A p \in PixelSet : Picture(Reader(seg), Reader(seg).present)[p] \in seen[p]
  BY <1>1, <1>7, ReaderShows
<1>9. QED
  BY <1>8 DEF seg

-----------------------------------------------------------------------------
(* The steps keep the picture *)

\* A block size cut down to the image cuts the image into the same blocks.
LEMMA ClampedBlock ==
  ASSUME NEW h, NEW bh \in Nat \ {0}, NEW bw \in Nat \ {0},
         <<h.bh, h.bw>> = Clamp(<<bh, bw>>), NEW p \in PixelSet
  PROVE  BlockOf(h.bh, h.bw, p) = BlockOf(bh, bw, p)
<1>1. p[2] \in 0 .. Rows - 1 /\ p[3] \in 0 .. Cols - 1
  BY DEF PixelSet
<1>2. ASSUME NEW n \in Nat \ {0}, NEW k \in 0 .. n - 1, NEW d \in Nat \ {0}
      PROVE  k \div Least(d, n) = k \div d
  <2>1. ASSUME NEW m \in Nat \ {0}, k < m
        PROVE  k \div m = 0
    <3>1. k \in 0 .. m - 1 /\ 0 * m + k = k
      BY <2>1
    <3>2. (0 * m + k) \div m = 0
      BY <3>1, QuotientAndRemainder
    <3>3. QED
      BY <3>1, <3>2
  <2>2. CASE d < n
    BY <2>2 DEF Least
  <2>3. CASE ~(d < n)
    <3>1. Least(d, n) = n /\ k < n /\ k < d
      BY <2>3 DEF Least
    <3>2. QED
      BY <2>1, <3>1
  <2>4. QED
    BY <2>2, <2>3
<1>3. h.bh = Least(bh, Rows) /\ h.bw = Least(bw, Cols)
  BY DEF Clamp
<1>4. p[2] \div h.bh = p[2] \div bh /\ p[3] \div h.bw = p[3] \div bw
  <2>1. p[2] \div Least(bh, Rows) = p[2] \div bh
    BY <1>1, <1>2, DimensionsAssumption
  <2>2. p[3] \div Least(bw, Cols) = p[3] \div bw
    BY <1>1, <1>2, DimensionsAssumption
  <2>3. QED
    BY <1>3, <2>1, <2>2
<1>5. QED
  BY <1>4 DEF BlockOf

LEMMA InitPicture == Init => PictureInv
<1> SUFFICES ASSUME Init PROVE PictureInv
  OBVIOUS
<1>1. PICK s \in Shapes :
         image = [bh |-> s[1], bw |-> s[2], blocks |-> <<>>, provided |-> {},
                  source |-> NoFile]
  BY DEF Init
<1>2. DOMAIN image.blocks = {}
  BY <1>1
<1>3. ImageWhole(image)
  BY <1>1, <1>2, SegmentAssumption DEF ImageWhole
<1>4. QED
  BY <1>3 DEF Init, PictureInv

LEMMA SetPicture ==
  ASSUME IInv, PictureInv, NEW blocks \in SUBSET Grid(image.bh, image.bw),
         sets < MaxSets, sets' = sets + 1,
         ImageBecomes(Insert(image, blocks, sets + 1)),
         UNCHANGED <<depth, segment, reader, job, writes>>
  PROVE  /\ PictureInv'
         /\ \A p \in PixelSet : shown'[p] = IF BlockOf(image.bh, image.bw, p) \in blocks
                                              THEN Stamp(sets + 1, p)
                                              ELSE shown[p]
<1>1. /\ image' = Insert(image, blocks, sets + 1)
      /\ shown' = ImagePicture(image')
      /\ held' = IF held = Nothing
                   THEN Nothing
                   ELSE [p \in PixelSet |-> held[p] \cup {shown'[p]}]
  BY DEF ImageBecomes
<1>2. /\ ImageSound(image) /\ ImageWhole(image) /\ shown = ImagePicture(image)
      /\ sets + 1 \in Nat
  BY SegmentAssumption DEF IInv, TypeOK, PictureInv
<1>3. /\ ImageWhole(image')
      /\ image'.bh = image.bh /\ image'.bw = image.bw
      /\ CollectProvidedBlocks(image) \subseteq CollectProvidedBlocks(image')
      /\ \A p \in PixelSet :
            shown'[p] = IF BlockOf(image.bh, image.bw, p) \in blocks
                          THEN Stamp(sets + 1, p)
                          ELSE shown[p]
  <2> DEFINE v == sets + 1
             new == Insert(image, blocks, v)
  <2> HIDE DEF v
  <2>1. v \in Nat
    BY <1>2 DEF v
  <2>2. /\ ImageWhole(new)
        /\ new.bh = image.bh /\ new.bw = image.bw
        /\ CollectProvidedBlocks(image) \subseteq CollectProvidedBlocks(new)
        /\ \A p \in PixelSet :
              ImagePicture(new)[p] = IF BlockOf(image.bh, image.bw, p) \in blocks
                                       THEN Stamp(v, p)
                                       ELSE ImagePicture(image)[p]
    BY <1>2, <2>1, InsertShows
  <2>3. image' = new
    BY <1>1 DEF v
  <2> HIDE DEF new
  <2>4. QED
    BY <1>1, <1>2, <2>2, <2>3 DEF v
<1>4. ASSUME job # NoJob
      PROVE  JobKeeps'
  <2>1. JobKeeps /\ held # Nothing /\ job' = job
    BY <1>4 DEF PictureInv, IInv, TypeOK
  <2>2. held' = [p \in PixelSet |-> held[p] \cup {shown'[p]}]
    BY <1>1, <2>1
  <2>3. \A p \in PixelSet : held[p] \subseteq held'[p] /\ shown'[p] \in held'[p]
    BY <2>2
  <2>4. \A p \in PixelSet : Garbled \notin held'[p]
    <3>1. \A p \in PixelSet : shown'[p] # Garbled
      BY <1>1, <1>3, PixelShown
    <3>2. \A p \in PixelSet : Garbled \notin held[p]
      BY <2>1 DEF JobKeeps
    <3>3. QED
      BY <2>2, <3>1, <3>2
  <2>5. Sound(job.hints)
    BY <1>4 DEF IInv, JobSound
  <2>6. \A bytes, next :
           /\ PlainKept(job.hints, bytes, next, held) => PlainKept(job.hints, bytes, next, held')
           /\ \A records, provided :
                 MaskedKept(job.hints, bytes, records, provided, next, held)
                   => MaskedKept(job.hints, bytes, records, provided, next, held')
    BY <2>3, <2>5, KeptGrows
  <2>7. job.provided \subseteq CollectProvidedBlocks(image')
    BY <1>3, <2>1 DEF JobKeeps
  <2>8. job.ic = "NC" => /\ job.provided = Grid(image'.bh, image'.bw)
                         /\ PlainKept(job.hints, job.bytes, job.next, held')
    BY <1>3, <2>1, <2>6 DEF JobKeeps
  <2>9. job.ic = "NM" => /\ <<job.hints.bh, job.hints.bw>> = Clamp(<<image'.bh, image'.bw>>)
                         /\ \A p \in PixelSet :
                               BlockOf(job.hints.bh, job.hints.bw, p) \notin job.provided
                                 => Absent \in held'[p]
                         /\ MaskedKept(job.hints, job.bytes, job.records, job.provided,
                                       job.next, held')
    BY <1>3, <2>1, <2>3, <2>6 DEF JobKeeps
  <2>10. QED
    BY <2>1, <2>3, <2>4, <2>7, <2>8, <2>9 DEF JobKeeps
<1>5. QED
  BY <1>1, <1>3, <1>4 DEF PictureInv

LEMMA DerivePicture ==
  ASSUME PictureInv, NEW s \in Shapes, Derive(s[1], s[2])
  PROVE  /\ PictureInv'
         /\ \A p \in PixelSet :
               LET was == Picture(reader, reader.present)[p]
               IN  \/ shown'[p] = was
                   \/ was = Absent /\ shown'[p] = Fill
<1>1. /\ image' = [bh |-> s[1], bw |-> s[2], blocks |-> <<>>, provided |-> {},
                   source |-> reader]
      /\ shown' = ImagePicture(image')
      /\ job' = NoJob /\ segment' = segment /\ reader' = reader
  BY DEF Derive, ImageBecomes
<1>2. Complete(reader)
  BY DEF Derive, PictureInv
<1>3. s[1] \in Nat \ {0} /\ s[2] \in Nat \ {0}
  BY SegmentAssumption
<1>4. /\ ImageWhole(image')
      /\ \A p \in PixelSet :
            LET was == Picture(reader, reader.present)[p]
            IN  \/ ImagePicture(image')[p] = was
                \/ was = Absent /\ ImagePicture(image')[p] = Fill
  BY <1>1, <1>2, <1>3, DerivedShows
<1>5. QED
  BY <1>1, <1>2, <1>4 DEF PictureInv

\* A pixel of a block that a write counts on is shown as the assembler copies it.
LEMMA CountedOn ==
  ASSUME PictureInv, NEW p \in PixelSet,
         BlockOf(image.bh, image.bw, p) \in CollectProvidedBlocks(image)
  PROVE  shown[p] = Copied(ImageSource(image), p[1], p[2], p[3])
<1> DEFINE q == BlockOf(image.bh, image.bw, p)
<1>1. HasBlock(image, q[1], q[2])
  BY DEF CollectProvidedBlocks
<1>2. ImageWhole(image) /\ shown = ImagePicture(image)
  BY DEF PictureInv
<1>3. ImagePicture(image)[p] = IF HasBlock(image, q[1], q[2])
                                 THEN Copied(ImageSource(image), p[1], p[2], p[3])
                                 ELSE Absent
  BY <1>2, PixelShown
<1>4. QED
  BY <1>1, <1>2, <1>3

LEMMA StartPicture ==
  ASSUME IInv, IInv', PictureInv, ~MaskedReblock,
         NEW ic \in {"NC", "NM"}, NEW imode \in WriteModes, NEW s \in Shapes,
         StartWrite(ic, imode, s)
  PROVE  PictureInv'
<1> DEFINE h == [ic |-> ic, imode |-> imode, depth |-> depth,
                 bh |-> Clamp(s)[1], bw |-> Clamp(s)[2]]
           provided == CollectProvidedBlocks(image)
           bytes == IF ic = "NC" THEN [k \in 1 .. EncoderUnits(h) |-> Unit(Fill, 0)] ELSE <<>>
           records == IF ic = "NC" THEN <<>> ELSE InitialRecords(h, provided)
<1>1. /\ job' = [ic |-> ic, hints |-> h, provided |-> provided, next |-> 0,
                 bytes |-> bytes, records |-> records]
      /\ held' = [p \in PixelSet |-> {shown[p]}]
      /\ image' = image /\ shown' = shown /\ segment' = segment /\ reader' = reader
      /\ ic = "NC" => provided = Grid(image.bh, image.bw)
      /\ ic = "NM" => Clamp(s) = Clamp(<<image.bh, image.bw>>)
  BY DEF StartWrite
<1>2. h.bh = Clamp(s)[1] /\ h.bw = Clamp(s)[2]
  OBVIOUS
<1>3. ic # "NC" => bytes = <<>>
  OBVIOUS
<1> HIDE DEF h, bytes, records
<1>4. /\ job'.ic = ic /\ job'.hints = h /\ job'.provided = provided /\ job'.next = 0
      /\ job'.bytes = bytes /\ job'.records = records
  BY <1>1
<1>5. job' # NoJob
  BY <1>1 DEF NoJob
<1>6. Sound(h)
  <2>1. Sound(job'.hints)
    BY <1>5 DEF IInv, JobSound
  <2>2. QED
    BY <1>4, <2>1
<1>7. ImageWhole(image) /\ shown = ImagePicture(image)
  BY DEF PictureInv
<1>8. \A p \in PixelSet : shown'[p] \in held'[p] /\ Garbled \notin held'[p]
  <2>1. \A p \in PixelSet : shown[p] # Garbled
    BY <1>7, PixelShown
  <2>2. QED
    BY <1>1, <2>1
<1>9. \A q \in Grid(h.bh, h.bw) : ~(BlockIndex(h.bw, q[1], q[2]) < 0)
  <2>1. ASSUME NEW q \in Grid(h.bh, h.bw)
        PROVE  ~(BlockIndex(h.bw, q[1], q[2]) < 0)
    <3>1. BlockIndex(h.bw, q[1], q[2]) \in 0 .. BlockCount(h.bh, h.bw) - 1
      BY <1>6, Indices
    <3>2. BlockCount(h.bh, h.bw) \in Nat
      BY <1>6, GridSize
    <3>3. QED
      BY <3>1, <3>2
  <2>2. QED
    BY <2>1
<1>10. PlainKept(h, bytes, 0, held')
  BY <1>9 DEF PlainKept
<1>11. CASE ic = "NC"
  <2>1. JobKeeps'
    <3> HIDE DEF provided
    <3>1. provided = Grid(image'.bh, image'.bw) /\ job'.ic # "NM"
      BY <1>1, <1>4, <1>11
    <3>2. job'.provided \subseteq CollectProvidedBlocks(image)'
      BY <1>1, <1>4 DEF provided
    <3>3. PlainKept(job'.hints, job'.bytes, job'.next, held')
      BY <1>4, <1>10
    <3>4. QED
      BY <1>4, <1>8, <3>1, <3>2, <3>3 DEF JobKeeps
  <2>2. QED
    BY <1>1, <2>1 DEF PictureInv
<1>12. CASE ic = "NM"
  <2>1. <<h.bh, h.bw>> = Clamp(<<image.bh, image.bw>>)
    <3>1. <<h.bh, h.bw>> = Clamp(s)
      BY <1>2 DEF Clamp
    <3>2. QED
      BY <1>1, <1>12, <3>1
  <2>2. ASSUME NEW p \in PixelSet, BlockOf(h.bh, h.bw, p) \notin provided
        PROVE  Absent \in held'[p]
    <3> DEFINE q == BlockOf(image.bh, image.bw, p)
    <3>1. image.bh \in Nat \ {0} /\ image.bw \in Nat \ {0}
      BY <1>7 DEF ImageWhole
    <3>2. BlockOf(h.bh, h.bw, p) = q
      BY <2>1, <3>1, ClampedBlock
    <3>3. q \in Grid(image.bh, image.bw)
      BY <3>1, SampleOfPixel
    <3>4. ~HasBlock(image, q[1], q[2])
      BY <2>2, <3>2, <3>3 DEF CollectProvidedBlocks
    <3>5. ImagePicture(image)[p] = IF HasBlock(image, q[1], q[2])
                                     THEN Copied(ImageSource(image), p[1], p[2], p[3])
                                     ELSE Absent
      BY <1>7, PixelShown
    <3> HIDE DEF q
    <3>6. shown[p] = Absent
      BY <1>7, <3>4, <3>5
    <3>7. QED
      BY <1>1, <3>6
  <2>3. MaskedKept(h, bytes, records, provided, 0, held')
    <3>1. \E n \in Nat : Len(bytes) = n * UnitsPerByte
      <4>1. Len(bytes) = 0 /\ 0 * UnitsPerByte = 0
        BY <1>3, <1>12 DEF UnitsPerByte
      <4>2. QED
        BY <4>1
    <3>2. QED
      BY <1>9, <3>1 DEF MaskedKept
  <2>4. JobKeeps'
    <3>1. job'.provided \subseteq CollectProvidedBlocks(image)'
      BY <1>1, <1>4
    <3> HIDE DEF provided
    <3>2. job'.ic = "NM" /\ job'.ic # "NC"
      BY <1>4, <1>12
    <3>3. <<job'.hints.bh, job'.hints.bw>> = Clamp(<<image'.bh, image'.bw>>)
      BY <1>1, <1>4, <2>1
    <3>4. \A p \in PixelSet : BlockOf(job'.hints.bh, job'.hints.bw, p) \notin job'.provided
                                => Absent \in held'[p]
      BY <1>4, <2>2
    <3>5. MaskedKept(job'.hints, job'.bytes, job'.records, job'.provided, job'.next, held')
      BY <1>4, <2>3
    <3>6. QED
      BY <1>8, <3>1, <3>2, <3>3, <3>4, <3>5 DEF JobKeeps
  <2>5. QED
    BY <1>1, <2>4 DEF PictureInv
<1>13. QED
  BY <1>11, <1>12

LEMMA AbandonPicture ==
  ASSUME PictureInv, Abandoned
  PROVE  PictureInv'
BY DEF PictureInv, Abandoned

LEMMA EncodePicture ==
  ASSUME IInv, PictureInv, ~MaskedSequential, EncodeNext
  PROVE  PictureInv'
<1> DEFINE h == job.hints
           r == job.next \div GridCols(h.bw)
           c == job.next % GridCols(h.bw)
           here == <<r, c>>
           tile == OutputTile(ImageSource(image), h.bh, h.bw, r, c)
           offset == Len(job.bytes) \div UnitsPerByte
           n == job.next
<1>1. /\ JobSound /\ JobKeeps /\ Sound(h) /\ job.ic \in {"NC", "NM"}
      /\ n \in 0 .. BlockCount(h.bh, h.bw) - 1
      /\ ImageWhole(image)
  <2>1. JobSound /\ JobKeeps /\ ImageWhole(image) /\ n < BlockCount(h.bh, h.bw)
    BY DEF EncodeNext, IInv, PictureInv
  <2>2. Sound(h) /\ job.ic \in {"NC", "NM"} /\ n \in 0 .. BlockCount(h.bh, h.bw)
    BY <2>1 DEF JobSound
  <2>3. BlockCount(h.bh, h.bw) \in Nat
    BY <2>2, GridSize
  <2>4. QED
    BY <2>1, <2>2, <2>3
<1>2. /\ r \in 0 .. GridRows(h.bh) - 1 /\ c \in 0 .. GridCols(h.bw) - 1
      /\ here \in Grid(h.bh, h.bw) /\ here[1] = r /\ here[2] = c
  <2> HIDE DEF h
  <2>1. QED
    BY <1>1, NextBlock
<1>3. h.bh \in Nat \ {0} /\ h.bw \in Nat \ {0}
  BY <1>1 DEF Sound
<1>4. PICK S : job.bytes \in Seq(S)
  BY <1>1 DEF JobSound
<1>5. DOMAIN job = {"ic", "hints", "provided", "next", "bytes", "records"}
  BY <1>1 DEF JobSound
<1>6. ASSUME tile # Missing, job.ic = "NM" => here \in job.provided
      PROVE  /\ Whole(tile, h.bh, h.bw, r, c)
             /\ \A s \in Inside(h.bh, h.bw, r, c) :
                   SampleAt(tile, s) \in held[PixelOf(h.bh, h.bw, r, c, s)]
  <2> DEFINE source == ImageSource(image)
  <2>1. Serves(source)
    BY <1>1, ImageServes
  <2>a. tile = OutputTile(source, h.bh, h.bw, r, c)
    OBVIOUS
  <2> HIDE DEF h, r, c, source, tile
  <2>2. /\ Whole(tile, h.bh, h.bw, r, c)
        /\ \A s \in Inside(h.bh, h.bw, r, c) :
              SampleAt(tile, s) = Copied(source, s[1], r * h.bh + s[2], c * h.bw + s[3])
    <3>1. OutputTile(source, h.bh, h.bw, r, c) # Missing
      BY <1>6, <2>a
    <3> DEFINE t == OutputTile(source, h.bh, h.bw, r, c)
    <3>2. /\ Whole(t, h.bh, h.bw, r, c)
          /\ \A s \in Inside(h.bh, h.bw, r, c) :
                SampleAt(t, s) = Copied(source, s[1], r * h.bh + s[2], c * h.bw + s[3])
      BY <1>2, <1>3, <2>1, <3>1, OutputTileShows
    <3> HIDE DEF t
    <3>3. QED
      BY <2>a, <3>2 DEF t
  <2>3. ASSUME NEW s \in Inside(h.bh, h.bw, r, c)
        PROVE  SampleAt(tile, s) \in held[PixelOf(h.bh, h.bw, r, c, s)]
    <3> DEFINE p == PixelOf(h.bh, h.bw, r, c, s)
    <3>1. /\ p \in PixelSet
          /\ p[1] = s[1] /\ p[2] = r * h.bh + s[2] /\ p[3] = c * h.bw + s[3]
          /\ BlockOf(h.bh, h.bw, p) = here
      BY <1>2, <1>3, PixelsOfTile
    <3> HIDE DEF p, here, tile
    <3>2. SampleAt(tile, s) = Copied(source, p[1], p[2], p[3])
      BY <2>2, <3>1
    <3>3. BlockOf(image.bh, image.bw, p) \in CollectProvidedBlocks(image)
      <4>1. image.bh \in Nat \ {0} /\ image.bw \in Nat \ {0}
        BY <1>1 DEF ImageWhole
      <4>2. job.provided \subseteq CollectProvidedBlocks(image)
        BY <1>1 DEF JobKeeps
      <4>3. CASE job.ic = "NC"
        <5>1. BlockOf(image.bh, image.bw, p) \in Grid(image.bh, image.bw)
          BY <3>1, <4>1, SampleOfPixel
        <5>2. QED
          BY <1>1, <4>2, <4>3, <5>1 DEF JobKeeps
      <4>4. CASE job.ic = "NM"
        <5>1. <<h.bh, h.bw>> = Clamp(<<image.bh, image.bw>>)
          BY <1>1, <4>4 DEF JobKeeps, h
        <5>2. BlockOf(h.bh, h.bw, p) = BlockOf(image.bh, image.bw, p)
          BY <3>1, <4>1, <5>1, ClampedBlock
        <5>3. QED
          BY <1>6, <3>1, <4>2, <4>4, <5>2
      <4>5. QED
        BY <1>1, <4>3, <4>4
    <3>4. shown[p] = Copied(source, p[1], p[2], p[3])
      BY <3>1, <3>3, CountedOn DEF source
    <3>5. shown[p] \in held[p]
      BY <1>1, <3>1 DEF JobKeeps
    <3>6. QED
      BY <3>2, <3>4, <3>5 DEF p
  <2>4. QED
    BY <2>2, <2>3
<1> HIDE DEF h, r, c, here, tile, n
<1>7. CASE /\ job.ic = "NM" /\ here \notin job.provided
           /\ job' = [job EXCEPT !.next = @ + 1]
           /\ UNCHANGED <<depth, image, shown, segment, reader, sets, writes, held>>
  <2>1. /\ job'.ic = "NM" /\ job'.hints = h /\ job'.provided = job.provided
        /\ job'.next = n + 1 /\ job'.bytes = job.bytes /\ job'.records = job.records
    BY <1>5, <1>7 DEF h, n
  <2>2. MaskedKept(h, job.bytes, job.records, job.provided, n, held)
    BY <1>1, <1>7 DEF JobKeeps, h, n
  <2>3. MaskedKept(h, job.bytes, job.records, job.provided, n + 1, held)
    BY <1>1, <1>7, <2>2, MaskedSkips DEF here, r, c, n
  <2>4. MaskedKept(job'.hints, job'.bytes, job'.records, job'.provided, job'.next, held')
    BY <1>7, <2>1, <2>3
  <2>5. JobKeeps'
    BY <1>1, <1>7, <2>1, <2>4 DEF JobKeeps, h
  <2>6. QED
    BY <1>7, <2>5 DEF PictureInv
<1>8. CASE Abandoned
  BY <1>8, AbandonPicture
<1>9. CASE /\ job.ic = "NC" /\ tile # Missing
           /\ job' = [job EXCEPT !.next = @ + 1, !.bytes = EncodeBlock(h, @, r, c, tile)]
           /\ UNCHANGED <<depth, image, shown, segment, reader, sets, writes, held>>
  <2> DEFINE after == EncodeBlock(h, job.bytes, r, c, tile)
  <2>1. /\ job'.ic = "NC" /\ job'.hints = h /\ job'.provided = job.provided
        /\ job'.next = n + 1 /\ job'.bytes = after
    BY <1>5, <1>9 DEF h, n
  <2>2. PlainKept(h, job.bytes, n, held)
    BY <1>1, <1>9 DEF JobKeeps, h, n
  <2>3. Filled(Plain(h, job.bytes), h)
    <3>1. job.bytes \in [1 .. Len(job.bytes) -> S]
      BY <1>4, LenProperties
    <3>2. Len(job.bytes) = EncoderUnits(h)
      BY <1>1, <1>9 DEF JobSound, h
    <3>3. Plain(h, job.bytes).bytes = job.bytes
      BY DEF Plain
    <3>4. QED
      BY <3>1, <3>2, <3>3 DEF Filled
  <2>4. /\ Fits(h, r, c, tile)
        /\ \A s \in Inside(h.bh, h.bw, r, c) :
              SampleAt(tile, s) \in held[PixelOf(h.bh, h.bw, r, c, s)]
    BY <1>6, <1>9 DEF Whole, Shaped, Fits
  <2>5. PlainKept(h, after, n + 1, held)
    BY <1>1, <2>2, <2>3, <2>4, PlainAdvances DEF r, c, n
  <2> HIDE DEF after
  <2>6. PlainKept(job'.hints, job'.bytes, job'.next, held')
    BY <1>9, <2>1, <2>5
  <2>7. JobKeeps'
    BY <1>1, <1>9, <2>1, <2>6 DEF JobKeeps, h
  <2>8. QED
    BY <1>9, <2>7 DEF PictureInv
<1>10. CASE /\ job.ic = "NM" /\ here \in job.provided /\ tile # Missing
            /\ job' = [job EXCEPT !.next = @ + 1,
                                  !.records[job.next] = offset,
                                  !.bytes = @ \o MaskedUnits(h, tile)]
            /\ UNCHANGED <<depth, image, shown, segment, reader, sets, writes, held>>
  <2> DEFINE joined == job.bytes \o MaskedUnits(h, tile)
             records == [job.records EXCEPT ![n] = offset]
  <2>1. /\ job'.ic = "NM" /\ job'.hints = h /\ job'.provided = job.provided
        /\ job'.next = n + 1 /\ job'.bytes = joined /\ job'.records = records
    BY <1>5, <1>10 DEF h, n
  <2>2. MaskedKept(h, job.bytes, job.records, job.provided, n, held)
    BY <1>1, <1>10 DEF JobKeeps, h, n
  <2>3. DOMAIN job.records = 0 .. BlockCount(h.bh, h.bw) - 1
    BY <1>1, <1>10 DEF JobSound, MaskSoFar, h
  <2>4. /\ Shaped(tile, TileRows(h.bh, r), TileCols(h.bw, c))
        /\ \A s \in Inside(h.bh, h.bw, r, c) :
              SampleAt(tile, s) \in held[PixelOf(h.bh, h.bw, r, c, s)]
    BY <1>6, <1>10 DEF Whole
  <2>5. r = n \div GridCols(h.bw) /\ c = n % GridCols(h.bw)
    BY DEF r, c, n
  <2>6. MaskedKept(h, joined, records, job.provided, n + 1, held)
    BY <1>1, <1>4, <2>2, <2>3, <2>4, <2>5, MaskedAdvances
  <2> HIDE DEF joined, records
  <2>7. MaskedKept(job'.hints, job'.bytes, job'.records, job'.provided, job'.next, held')
    BY <1>10, <2>1, <2>6
  <2>8. JobKeeps'
    BY <1>1, <1>10, <2>1, <2>7 DEF JobKeeps, h
  <2>9. QED
    BY <1>10, <2>8 DEF PictureInv
<1>11. QED
  BY <1>1, <1>7, <1>8, <1>9, <1>10 DEF EncodeNext, h, r, c, here, tile

LEMMA FinishPicture ==
  ASSUME IInv, PictureInv, ~MaskedSequential, FinishWrite
  PROVE  /\ PictureInv'
         /\ segment' # NoFile
         /\ \A p \in PixelSet : Picture(reader', reader'.present)[p] \in held[p]
<1> DEFINE h == job.hints
<1>1. /\ JobSound /\ JobKeeps /\ Sound(h) /\ job.ic \in {"NC", "NM"}
      /\ job.next = BlockCount(h.bh, h.bw)
      /\ ImageWhole(image)
  BY DEF FinishWrite, IInv, PictureInv, JobSound
<1>2. segment' = IF job.ic = "NM" THEN Masked(h, job.bytes, job.records)
                                  ELSE Plain(h, job.bytes)
  BY <1>1 DEF FinishWrite, Masked, Plain
<1>3. segment' # NoFile
  <2>1. "bytes" \in DOMAIN Masked(h, job.bytes, job.records)
    BY DEF Masked
  <2>2. "bytes" \in DOMAIN Plain(h, job.bytes)
    BY DEF Plain
  <2>3. "bytes" \notin DOMAIN NoFile
    BY DEF NoFile
  <2>4. QED
    BY <1>2, <2>1, <2>2, <2>3
<1>4. /\ Complete(reader')
      /\ \A p \in PixelSet : Picture(reader', reader'.present)[p] \in held[p]
  <2>1. reader' = Reader(segment')
    BY DEF FinishWrite
  <2>2. \A p \in PixelSet : Garbled \notin held[p]
    BY <1>1 DEF JobKeeps
  <2>3. CASE job.ic = "NC"
    <3> DEFINE R == Reader(Plain(h, job.bytes))
    <3>1. PlainKept(h, job.bytes, BlockCount(h.bh, h.bw), held)
      BY <1>1, <2>3 DEF JobKeeps
    <3> HIDE DEF h
    <3>2. Complete(R) /\ \A p \in PixelSet : Picture(R, R.present)[p] \in held[p]
      BY <1>1, <2>2, <3>1, PlainFinishes
    <3>3. reader' = R
      BY <1>2, <2>1, <2>3
    <3> HIDE DEF R
    <3>4. QED
      BY <3>2, <3>3
  <2>4. CASE job.ic = "NM"
    <3> DEFINE R == Reader(Masked(h, job.bytes, job.records))
    <3>1. MaskedKept(h, job.bytes, job.records, job.provided, BlockCount(h.bh, h.bw), held)
      BY <1>1, <2>4 DEF JobKeeps
    <3>2. MaskSoFar(job.records, h, job.provided)
      BY <1>1, <2>4 DEF JobSound
    <3>3. PICK S : job.bytes \in Seq(S)
      BY <1>1 DEF JobSound
    <3>4. \A p \in PixelSet :
             /\ Garbled \notin held[p]
             /\ BlockOf(h.bh, h.bw, p) \notin job.provided => Absent \in held[p]
      BY <1>1, <2>4 DEF JobKeeps
    <3> HIDE DEF h
    <3>5. Complete(R) /\ \A p \in PixelSet : Picture(R, R.present)[p] \in held[p]
      BY <1>1, <3>1, <3>2, <3>3, <3>4, MaskedFinishes
    <3>6. reader' = R
      BY <1>2, <2>1, <2>4
    <3> HIDE DEF R
    <3>7. QED
      BY <3>5, <3>6
  <2>5. QED
    BY <1>1, <2>3, <2>4
<1>5. job' = NoJob /\ image' = image /\ shown' = shown
  BY DEF FinishWrite
<1>6. QED
  BY <1>3, <1>4, <1>5 DEF PictureInv

\* Both invariants, for the writes that keep one record per block and, masked,
\* the grid of the image.
Keeps == IInv /\ PictureInv

LEMMA NextPicture ==
  ASSUME ~MaskedReblock, ~MaskedSequential
  PROVE  Keeps /\ [Next]_vars => Keeps'
<1> SUFFICES ASSUME Keeps, [Next]_vars PROVE Keeps'
  OBVIOUS
<1>1. IInv /\ PictureInv /\ IInv'
  BY NextInv DEF Keeps
<1>a. SUFFICES PictureInv'
  BY <1>1 DEF Keeps
<1>2. ASSUME NEW p \in Grid(image.bh, image.bw), SetBlock(p[1], p[2]) PROVE PictureInv'
  <2>1. {<<p[1], p[2]>>} \in SUBSET Grid(image.bh, image.bw)
    BY DEF Grid
  <2>2. QED
    BY <1>1, <1>2, <2>1, SetPicture DEF SetBlock
<1>3. CASE SetFullImage
  BY <1>1, <1>3, SetPicture DEF SetFullImage
<1>4. ASSUME NEW s \in Shapes, Derive(s[1], s[2]) PROVE PictureInv'
  BY <1>1, <1>4, DerivePicture
<1>5. ASSUME NEW ic \in {"NC", "NM"}, NEW imode \in WriteModes, NEW s \in Shapes,
             StartWrite(ic, imode, s)
      PROVE  PictureInv'
  BY <1>1, <1>5, StartPicture
<1>6. CASE EncodeNext
  BY <1>1, <1>6, EncodePicture
<1>7. CASE SourceFails
  BY <1>1, <1>7, AbandonPicture DEF SourceFails
<1>8. CASE FinishWrite
  BY <1>1, <1>8, FinishPicture
<1>9. CASE UNCHANGED vars
  BY <1>1, <1>9 DEF vars, PictureInv, JobKeeps
<1>10. QED
  BY <1>2, <1>3, <1>4, <1>5, <1>6, <1>7, <1>8, <1>9 DEF Next

LEMMA PictureInvariant ==
  ASSUME ~MaskedReblock, ~MaskedSequential
  PROVE  Spec => []Keeps
<1>1. Init => Keeps
  BY InitInv, InitPicture DEF Keeps
<1>2. Keeps /\ [Next]_vars => Keeps'
  BY NextPicture
<1>3. QED
  BY <1>1, <1>2, PTL DEF Spec

(* Every block that an image or a finished file announces is read in full   *)
(* shape, each sample a value somebody set or fill: for images, blocks and  *)
(* sequences of writes and copies of any size.                              *)
THEOREM BlocksAreReadable ==
  ASSUME ~MaskedReblock, ~MaskedSequential
  PROVE  Spec => []AnnouncedBlocksReadable
<1>1. ASSUME PictureInv
      PROVE  AnnouncedBlocksReadable
  <2>1. ImageWhole(image)
    BY <1>1 DEF PictureInv
  <2>2. image.bh \in Nat \ {0} /\ image.bw \in Nat \ {0}
    BY <2>1 DEF ImageWhole
  <2>3. ASSUME NEW p \in CollectProvidedBlocks(image)
        PROVE  Readable(GetBlock(image, p[1], p[2]), image.bh, image.bw, p[1], p[2])
    <3>1. p \in Grid(image.bh, image.bw) /\ HasBlock(image, p[1], p[2])
      BY DEF CollectProvidedBlocks
    <3>2. p[1] \in 0 .. GridRows(image.bh) - 1 /\ p[2] \in 0 .. GridCols(image.bw) - 1
      BY <3>1 DEF Grid
    <3>3. Whole(GetBlock(image, p[1], p[2]), image.bh, image.bw, p[1], p[2])
      BY <2>1, <3>1, ImageServes
    <3>4. QED
      BY <2>2, <3>2, <3>3, WholeIsReadable
  <2>4. ASSUME segment # NoFile, NEW p \in reader.present
        PROVE  Readable(reader.blocks[p], reader.bh, reader.bw, p[1], p[2])
    <3>1. Complete(reader)
      BY <1>1, <2>4 DEF PictureInv
    <3>2. /\ reader.bh \in Nat \ {0} /\ reader.bw \in Nat \ {0}
          /\ p \in Grid(reader.bh, reader.bw)
          /\ Whole(reader.blocks[p], reader.bh, reader.bw, p[1], p[2])
      BY <3>1 DEF Complete
    <3>3. p[1] \in 0 .. GridRows(reader.bh) - 1 /\ p[2] \in 0 .. GridCols(reader.bw) - 1
      BY <3>2 DEF Grid
    <3>4. QED
      BY <3>2, <3>3, WholeIsReadable
  <2>5. QED
    BY <2>3, <2>4 DEF AnnouncedBlocksReadable
<1>2. Keeps => AnnouncedBlocksReadable
  BY <1>1 DEF Keeps
<1>3. QED
  BY <1>2, PictureInvariant, PTL

Saved == IF segment = NoFile THEN Nothing ELSE Picture(reader, reader.present)

\* What each step is to the archive.
LEMMA StepsOfTheArchive ==
  ASSUME ~MaskedReblock, ~MaskedSequential, Keeps, [Next]_vars
  PROVE  Archive!Next \/ UNCHANGED <<shown, Saved, held>>
<1>1. IInv /\ PictureInv /\ (held = Nothing <=> job = NoJob)
  BY DEF Keeps, IInv, TypeOK
<1>2. ASSUME NEW blocks \in SUBSET Grid(image.bh, image.bw),
             sets < MaxSets, sets' = sets + 1,
             ImageBecomes(Insert(image, blocks, sets + 1)),
             UNCHANGED <<depth, segment, reader, job, writes>>
      PROVE  Archive!Next
  <2>1. \A p \in PixelSet : shown'[p] = IF BlockOf(image.bh, image.bw, p) \in blocks
                                          THEN Stamp(sets + 1, p)
                                          ELSE shown[p]
    BY <1>1, <1>2, SetPicture
  <2>2. held' = IF held = Nothing
                  THEN Nothing
                  ELSE [p \in PixelSet |-> held[p] \cup {shown'[p]}]
    BY <1>2 DEF ImageBecomes
  <2>3. sets + 1 \in 1 .. MaxSets
    BY <1>1, <1>2, SegmentAssumption DEF IInv, TypeOK
  <2>4. Saved' = Saved
    BY <1>2 DEF Saved
  <2>5. Archive!Paint(sets + 1)
    BY <2>1, <2>2, <2>4 DEF Archive!Paint, Archive!Painted, Stamp, Archive!Nothing, Nothing, Saved
  <2>6. QED
    BY <2>3, <2>5 DEF Archive!Next
<1>3. ASSUME NEW p \in Grid(image.bh, image.bw), SetBlock(p[1], p[2]) PROVE Archive!Next
  <2>1. {<<p[1], p[2]>>} \in SUBSET Grid(image.bh, image.bw)
    BY DEF Grid
  <2>2. QED
    BY <1>2, <1>3, <2>1 DEF SetBlock
<1>4. CASE SetFullImage
  BY <1>2, <1>4 DEF SetFullImage
<1>5. ASSUME NEW s \in Shapes, Derive(s[1], s[2]) PROVE Archive!Next
  <2>1. \A p \in PixelSet :
           LET was == Picture(reader, reader.present)[p]
           IN  \/ shown'[p] = was
               \/ was = Absent /\ shown'[p] = Fill
    BY <1>1, <1>5, DerivePicture
  <2>2. held = Nothing /\ held' = Nothing /\ segment # NoFile
        /\ segment' = segment /\ reader' = reader
    BY <1>1, <1>5 DEF Derive, ImageBecomes
  <2>3. Saved = Picture(reader, reader.present) /\ Saved' = Saved
    BY <2>2 DEF Saved
  <2>4. Saved # Nothing
    BY <2>3, NotNothing DEF Picture
  <2>5. Archive!Reopen
    BY <2>1, <2>2, <2>3, <2>4
       DEF Archive!Reopen, Archive!Nothing, Nothing, Archive!Absent, Absent, Archive!Blank, Fill,
           Saved
  <2>6. QED
    BY <2>5 DEF Archive!Next
<1>6. ASSUME NEW ic \in {"NC", "NM"}, NEW imode \in WriteModes, NEW s \in Shapes,
             StartWrite(ic, imode, s)
      PROVE  Archive!Next
  <2>1. /\ held = Nothing /\ held' = [p \in PixelSet |-> {shown[p]}]
        /\ shown' = shown /\ segment' = segment /\ reader' = reader
    BY <1>1, <1>6 DEF StartWrite
  <2>2. Archive!BeginSave
    BY <2>1 DEF Archive!BeginSave, Archive!Nothing, Nothing, Saved
  <2>3. QED
    BY <2>2 DEF Archive!Next
<1>7. ASSUME Abandoned, job # NoJob
      PROVE  Archive!Next
  <2>1. /\ held # Nothing /\ held' = Nothing
        /\ shown' = shown /\ segment' = segment /\ reader' = reader
    BY <1>1, <1>7 DEF Abandoned
  <2>2. Archive!AbandonSave
    BY <2>1 DEF Archive!AbandonSave, Archive!Nothing, Nothing, Saved
  <2>3. QED
    BY <2>2 DEF Archive!Next
<1>8. CASE EncodeNext
  <2>1. CASE Abandoned
    BY <1>7, <1>8, <2>1 DEF EncodeNext
  <2>2. CASE ~Abandoned
    <3>1. UNCHANGED <<shown, segment, reader, held>>
      BY <1>8, <2>2 DEF EncodeNext
    <3>2. QED
      BY <3>1 DEF Saved
  <2>3. QED
    BY <2>1, <2>2
<1>9. CASE SourceFails
  BY <1>7, <1>9 DEF SourceFails
<1>10. CASE FinishWrite
  <2>1. /\ segment' # NoFile
        /\ \A p \in PixelSet : Picture(reader', reader'.present)[p] \in held[p]
    BY <1>1, <1>10, FinishPicture
  <2>2. held # Nothing /\ held' = Nothing /\ shown' = shown
    BY <1>1, <1>10 DEF FinishWrite
  <2>3. Saved' = Picture(reader', reader'.present)
    BY <2>1 DEF Saved
  <2>4. Saved' # Nothing
    BY <2>3, NotNothing DEF Picture
  <2>5. Archive!FinishSave
    BY <2>1, <2>2, <2>3, <2>4 DEF Archive!FinishSave, Archive!Nothing, Nothing, Saved
  <2>6. QED
    BY <2>5 DEF Archive!Next
<1>11. CASE UNCHANGED vars
  BY <1>11 DEF vars, Saved
<1>12. QED
  BY <1>3, <1>4, <1>5, <1>6, <1>8, <1>9, <1>10, <1>11 DEF Next

(* Writing an image and reading it back keeps its picture: every pixel of a *)
(* finished file is one the image showed while it was written, absent only  *)
(* where no block was, whatever is painted between the blocks, on whatever  *)
(* grid, in whatever mode and depth, and a copy shows what the file holds.  *)
THEOREM PictureIsKept ==
  ASSUME ~MaskedReblock, ~MaskedSequential
  PROVE  Spec => KeepsThePicture
<1>1. Init => Archive!Init
  <2> SUFFICES ASSUME Init PROVE Archive!Init
    OBVIOUS
  <2>1. ImageWhole(image) /\ shown = ImagePicture(image) /\ segment = NoFile /\ held = Nothing
    BY InitPicture DEF Init, PictureInv
  <2>2. image.provided = {} /\ image.source = NoFile
    BY DEF Init
  <2>3. \A p \in PixelSet : shown[p] = Absent
    <3>1. ASSUME NEW p \in PixelSet
          PROVE  shown[p] = Absent
      <4> DEFINE q == BlockOf(image.bh, image.bw, p)
      <4>1. ~HasBlock(image, q[1], q[2])
        BY <2>2 DEF HasBlock
      <4>2. ImagePicture(image)[p] = IF HasBlock(image, q[1], q[2])
                                       THEN Copied(ImageSource(image), p[1], p[2], p[3])
                                       ELSE Absent
        BY <2>1, PixelShown
      <4>3. QED
        BY <2>1, <4>1, <4>2
    <3>2. QED
      BY <3>1
  <2>4. shown = [p \in PixelSet |-> Absent]
    <3>1. DOMAIN shown = PixelSet /\ shown = [p \in PixelSet |-> shown[p]]
      BY <2>1 DEF ImagePicture, Picture
    <3>2. QED
      BY <2>3, <3>1
  <2>5. QED
    BY <2>1, <2>4 DEF Archive!Init, Archive!Nothing, Nothing, Archive!Absent, Absent
<1>2. Keeps /\ [Next]_vars => [Archive!Next]_Archive!vars
  BY StepsOfTheArchive DEF Archive!vars, Saved
<1>3. QED
  BY <1>1, <1>2, PictureInvariant, PTL DEF Spec, KeepsThePicture, Archive!Spec

=============================================================================
