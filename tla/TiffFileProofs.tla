--------------------------- MODULE TiffFileProofs ---------------------------
(***************************************************************************)
(* Proofs about TiffReading and TiffFile: get_block gives the block, for   *)
(* directories of every geometry; and the shared handle gives every call   *)
(* the answers of its own page, for any number of threads.                 *)
(***************************************************************************)
EXTENDS TiffFile, BasicLemmas, SequenceTheorems

-----------------------------------------------------------------------------
(* Geometry *)

LEMMA CeilingCovers ==
  ASSUME NEW n \in Nat \ {0}, NEW k \in Nat \ {0}
  PROVE  /\ DivCeil(n, k) \in Nat \ {0}
         /\ DivCeil(n, k) * k >= n
<1>1. n + k - 1 \in Nat
  OBVIOUS
<1> DEFINE g == DivCeil(n, k)
<1>2. g \in Nat /\ (n + k - 1) % k \in 0 .. k - 1
        /\ n + k - 1 = g * k + ((n + k - 1) % k)
  BY <1>1, Division DEF DivCeil
<1>3. PICK s \in 0 .. k - 1 : n + k - 1 = g * k + s
  BY <1>2
<1> HIDE DEF g
<1>4. g * k \in Nat
  BY <1>2, SMTT(10)
<1>5. g * k >= n
  BY <1>3, <1>4
<1>6. g # 0
  BY <1>5, SMTT(10)
<1>7. QED
  BY <1>2, <1>5, <1>6 DEF g

LEMMA PackedRow ==
  ASSUME NEW bits \in Widths, NEW n \in Nat \ {0}
  PROVE  /\ RowCells(bits, n) \in Nat \ {0}
         /\ RowCells(bits, n) >= n
         /\ bits >= 8 => RowCells(bits, n) = n
<1> DEFINE k == SamplesPerByte(bits)
<1>1. k \in Nat \ {0} /\ (bits >= 8 => k = 1)
  <2>1. CASE bits = 1
    BY <2>1 DEF SamplesPerByte
  <2>2. CASE bits = 2
    BY <2>2 DEF SamplesPerByte
  <2>3. CASE bits = 4
    BY <2>3 DEF SamplesPerByte
  <2>4. CASE bits \in 8 .. 64
    BY <2>4 DEF SamplesPerByte
  <2>5. QED
    BY <2>1, <2>2, <2>3, <2>4 DEF Widths
<1>2. RowCells(bits, n) = DivCeil(n, k) * k
  BY DEF RowCells, RoundUp
<1> HIDE DEF k
<1>3. DivCeil(n, k) \in Nat \ {0} /\ DivCeil(n, k) * k >= n
  BY <1>1, CeilingCovers
<1>4. DivCeil(n, k) * k \in Nat
  BY <1>1, <1>3, SMTT(10)
<1>5. k = 1 => DivCeil(n, k) * k = n
  <2> SUFFICES ASSUME k = 1
               PROVE  DivCeil(n, k) * k = n
    OBVIOUS
  <2>1. DivCeil(n, 1) = n
    BY DEF DivCeil
  <2>2. QED
    BY <2>1
<1>6. QED
  BY <1>1, <1>2, <1>3, <1>4, <1>5

LEMMA Geometry ==
  ASSUME NEW d, HasGeometry(d)
  PROVE  /\ Across(d) \in Nat \ {0} /\ Down(d) \in Nat \ {0}
         /\ SamplesPerRow(d) \in Nat \ {0}
         /\ \A r \in 0 .. Down(d) - 1 :
              /\ BlockRows(d, r) \in Int /\ BlockRows(d, r) <= d.bh
              /\ BlockRows(d, r) <= ChunkRows(d, r)
              /\ ChunkRows(d, r) \in Int
         /\ \A c \in 0 .. Across(d) - 1 : BlockCols(d, c) \in Int /\ BlockCols(d, c) <= d.bw
<1>1. /\ d.rows \in Nat \ {0} /\ d.cols \in Nat \ {0} /\ d.spp \in Nat \ {0}
      /\ d.bh \in Nat \ {0} /\ d.bw \in Nat \ {0}
      /\ d.tiled \in BOOLEAN /\ d.planar \in BOOLEAN
  BY DEF HasGeometry
<1>2. Across(d) \in Nat \ {0} /\ Down(d) \in Nat \ {0}
  BY <1>1, CeilingCovers DEF Across, Down
<1>3. SamplesPerRow(d) \in Nat \ {0}
  <2>1. d.bw * d.spp \in Nat \ {0}
    BY <1>1, SMTT(10)
  <2>2. QED
    BY <1>1, <2>1 DEF SamplesPerRow
<1>4. ASSUME NEW r \in 0 .. Down(d) - 1
      PROVE  /\ BlockRows(d, r) \in Int /\ BlockRows(d, r) <= d.bh
             /\ BlockRows(d, r) <= ChunkRows(d, r)
             /\ ChunkRows(d, r) \in Int
  <2>1. r * d.bh \in Int
    BY <1>1, <1>2, SMTT(10)
  <2>2. BlockRows(d, r) \in Int /\ BlockRows(d, r) <= d.bh
    BY <1>1, <2>1 DEF BlockRows, Least
  <2>3. QED
    BY <1>1, <2>2 DEF ChunkRows
<1>5. ASSUME NEW c \in 0 .. Across(d) - 1
      PROVE  BlockCols(d, c) \in Int /\ BlockCols(d, c) <= d.bw
  <2>1. c * d.bw \in Int
    BY <1>1, <1>2, SMTT(10)
  <2>2. QED
    BY <1>1, <2>1 DEF BlockCols, Least
<1>6. QED
  BY <1>2, <1>3, <1>4, <1>5

-----------------------------------------------------------------------------
(* get_block against the layout *)

LEMMA LenOfTable ==
  ASSUME NEW n \in Nat, NEW F
  PROVE  Len([i \in 1 .. n |-> F]) = n
OBVIOUS

\* Cell s of row y of chunk n.
CellOfChunk(d, n, y, s) ==
    LET spatial == Down(d) * Across(d)
        r == (n % spatial) \div Across(d)
        c == n % Across(d)
        x == IF d.planar THEN s ELSE s \div d.spp
        b == IF d.planar THEN n \div spatial ELSE s % d.spp
    IN  IF s < SamplesPerRow(d) /\ y < BlockRows(d, r) /\ x < BlockCols(d, c)
          THEN Stored(d, b, r * d.bh + y, c * d.bw + x)
          ELSE Pad

ChunkWidth(d) == RowCells(d.bits, SamplesPerRow(d))

RowOfChunk(d, n) == (n % (Down(d) * Across(d))) \div Across(d)

LEMMA ChunkShape ==
  ASSUME NEW d, HasGeometry(d), NEW n \in Nat,
         NEW r, r = RowOfChunk(d, n), r \in 0 .. Down(d) - 1, ChunkRows(d, r) \in Nat
  PROVE  /\ ChunkRows(d, r) * ChunkWidth(d) \in Nat
         /\ DOMAIN Chunk(d, n) = 1 .. ChunkRows(d, r) * ChunkWidth(d)
         /\ Len(Chunk(d, n)) = ChunkRows(d, r) * ChunkWidth(d)
         /\ \A y \in 0 .. ChunkRows(d, r) - 1, s \in 0 .. ChunkWidth(d) - 1 :
              /\ y * ChunkWidth(d) + s \in 0 .. Len(Chunk(d, n)) - 1
              /\ Chunk(d, n)[y * ChunkWidth(d) + s + 1] = CellOfChunk(d, n, y, s)
<1> DEFINE W == ChunkWidth(d)
           R == ChunkRows(d, r)
<1>1. W \in Nat \ {0}
  BY Geometry, PackedRow DEF ChunkWidth, HasGeometry
<1>2. R * W \in Nat
  BY <1>1, SMTT(10)
<1>3. Chunk(d, n) =
        [k \in 1 .. R * W |-> CellOfChunk(d, n, (k - 1) \div W, (k - 1) % W)]
  BY Zenon DEF Chunk, CellOfChunk, ChunkWidth, RowOfChunk
<1> HIDE DEF W, R
<1>4. DOMAIN Chunk(d, n) = 1 .. R * W
  BY <1>3
<1>5. Len(Chunk(d, n)) = R * W
  BY <1>2, <1>3
<1>6. ASSUME NEW y \in 0 .. R - 1, NEW s \in 0 .. W - 1
      PROVE  /\ y * W + s \in 0 .. R * W - 1
             /\ Chunk(d, n)[y * W + s + 1] = CellOfChunk(d, n, y, s)
  <2>1. R \in Nat
    BY DEF R
  <2>2. y * W + s \in 0 .. R * W - 1
    BY <1>1, <2>1, RowMajor
  <2>3. (y * W + s) \div W = y /\ (y * W + s) % W = s /\ y * W + s \in Nat
    BY <1>1, <2>1, QuotientAndRemainder
  <2> DEFINE k == y * W + s
  <2> HIDE DEF k
  <2>4. k + 1 \in 1 .. R * W /\ (k + 1) - 1 = k
    BY <1>2, <2>2 DEF k
  <2>5. Chunk(d, n)[k + 1] = CellOfChunk(d, n, k \div W, k % W)
    BY <1>3, <2>4
  <2>6. QED
    BY <2>2, <2>3, <2>5 DEF k
<1>7. QED
  BY <1>2, <1>4, <1>5, <1>6 DEF W, R

\* Sample s of row y of the unpacked chunk is cell s of row y.
LEMMA UnpackedCell ==
  ASSUME NEW d, HasGeometry(d), NEW n \in Nat,
         NEW r, r = RowOfChunk(d, n), r \in 0 .. Down(d) - 1, ChunkRows(d, r) \in Nat,
         NEW y \in 0 .. ChunkRows(d, r) - 1, NEW s \in 0 .. SamplesPerRow(d) - 1
  PROVE  CellAt(Unpack(d.bits, Chunk(d, n), SamplesPerRow(d), ChunkRows(d, r)),
                y * SamplesPerRow(d) + s)
           = CellOfChunk(d, n, y, s)
<1> DEFINE W == ChunkWidth(d)
           R == ChunkRows(d, r)
           S == SamplesPerRow(d)
           raw == Chunk(d, n)
           k == y * S + s
<1>1. /\ S \in Nat \ {0} /\ W \in Nat \ {0} /\ S <= W
      /\ d.bits >= 8 => W = S
      /\ d.bits \in Int
  <2>1. d.bits \in Widths /\ S \in Nat \ {0}
    BY Geometry DEF HasGeometry
  <2>2. d.bits \in Int
    BY <2>1 DEF Widths
  <2> HIDE DEF S
  <2>3. QED
    BY <2>1, <2>2, PackedRow DEF ChunkWidth, S
<1>2. /\ s \in 0 .. W - 1
      /\ y * W + s \in 0 .. Len(raw) - 1
      /\ raw[y * W + s + 1] = CellOfChunk(d, n, y, s)
      /\ Len(raw) \in Nat
  <2>1. s \in 0 .. W - 1
    BY <1>1
  <2>2. QED
    BY <2>1, ChunkShape
<1>3. CASE d.bits >= 8
  <2>1. Unpack(d.bits, raw, S, R) = raw
    BY <1>3 DEF Unpack
  <2>2. k = y * W + s
    BY <1>1, <1>3
  <2>3. k < Len(raw) /\ raw[k + 1] = CellOfChunk(d, n, y, s)
    <3> HIDE DEF k, W, S, R, raw
    <3>1. QED
      BY <1>2, <2>2
  <2>4. QED
    BY <2>1, <2>3 DEF CellAt
<1>4. CASE d.bits < 8
  <2>1. k \in 0 .. S * R - 1 /\ S * R \in Nat
    <3>1. y * S + s \in 0 .. R * S - 1
      BY <1>1, RowMajor
    <3>2. R * S = S * R /\ S * R \in Nat
      BY <1>1, SMTT(10)
    <3>3. QED
      BY <3>1, <3>2
  <2>2. k \div S = y /\ k % S = s /\ k \in Nat
    <3>1. S \in Nat \ {0} /\ y \in Nat /\ s \in 0 .. S - 1
      BY <1>1
    <3>2. QED
      BY <3>1, QuotientAndRemainder
  <2> DEFINE cell(j) == (((j - 1) \div S) * RowCells(d.bits, S)) + ((j - 1) % S)
             plain == [j \in 1 .. S * R |-> IF cell(j) < Len(raw) THEN raw[cell(j) + 1] ELSE Zero]
  <2>3. Unpack(d.bits, raw, S, R) = plain
    <3>1. ~(d.bits >= 8)
      BY <1>1, <1>4
    <3>2. QED
      BY <3>1, Zenon DEF Unpack
  <2>4. cell(k + 1) = y * W + s
    <3> HIDE DEF k
    <3>1. (k + 1) - 1 = k
      BY <2>2
    <3>2. QED
      BY <2>2, <3>1 DEF ChunkWidth
  <2>5. plain[k + 1] = IF cell(k + 1) < Len(raw) THEN raw[cell(k + 1) + 1] ELSE Zero
    <3> HIDE DEF k, raw, cell, S, R
    <3>1. k + 1 \in 1 .. S * R
      BY <2>1
    <3>2. QED
      BY <3>1
  <2>6. plain[k + 1] = CellOfChunk(d, n, y, s)
    <3> HIDE DEF k, raw, cell, S, R, W, plain
    <3>1. QED
      BY <1>2, <2>4, <2>5
  <2>7. Len(plain) = S * R
    <3> HIDE DEF k, raw, cell, S, R, W
    <3>1. QED
      BY <2>1
  <2>8. k < Len(plain)
    <3> HIDE DEF k, plain, S, R
    <3>1. QED
      BY <2>1, <2>7
  <2>9. QED
    BY <2>3, <2>6, <2>8 DEF CellAt
<1>5. QED
  BY <1>1, <1>3, <1>4

\* Cell (r, c) of plane b, in planes of D rows and A columns.
InPlane(A, D, r, c, b) == r * A + c + b * D * A

LEMMA PlanePosition ==
  ASSUME NEW A \in Nat \ {0}, NEW D \in Nat \ {0},
         NEW r \in 0 .. D - 1, NEW c \in 0 .. A - 1, NEW b \in Nat
  PROVE  /\ InPlane(A, D, r, c, b) \in Nat
         /\ InPlane(A, D, r, c, b) \div (D * A) = b
         /\ (InPlane(A, D, r, c, b) % (D * A)) \div A = r
         /\ InPlane(A, D, r, c, b) % A = c
<1> DEFINE n == r * A + c + b * D * A
           u == r * A + c
           m == D * A
<1>1. r \in Nat /\ c \in Nat
  OBVIOUS
<1>2. u \in Nat /\ u \div A = r
  BY <1>1, QuotientAndRemainder
<1>3. u \in 0 .. m - 1
  BY RowMajor
<1>4. m \in Nat \ {0}
  BY SMTT(10)
<1>5. n = b * m + u
  BY <1>1, SMTT(10)
<1>6. n = (b * D + r) * A + c
  BY <1>1, SMTT(10)
<1>7. b * D + r \in Nat
  BY <1>1, SMTT(10)
<1> DEFINE q == b * D + r
<1> HIDE DEF n, u, m, q
<1>8. n \in Nat /\ n \div m = b /\ n % m = u
  BY <1>3, <1>4, <1>5, QuotientAndRemainder
<1>9. n % A = c
  <2>1. n = q * A + c /\ q \in Nat
    BY <1>6, <1>7 DEF q
  <2>2. (q * A + c) % A = c
    BY <2>1, QuotientAndRemainder
  <2>3. QED
    BY <2>1, <2>2
<1>10. QED
  BY <1>2, <1>8, <1>9 DEF InPlane, n, m

\* The chunk of plane b of block p.
PlaneChunk(d, p, b) == InPlane(Across(d), Down(d), p[1], p[2], b)

LEMMA ChunkPosition ==
  ASSUME NEW d, HasGeometry(d), NEW p \in Blocks(d), NEW b \in Nat
  PROVE  /\ PlaneChunk(d, p, b) \in Nat
         /\ RowOfChunk(d, PlaneChunk(d, p, b)) = p[1]
         /\ PlaneChunk(d, p, b) % Across(d) = p[2]
         /\ PlaneChunk(d, p, b) \div (Down(d) * Across(d)) = b
<1>1. /\ Across(d) \in Nat \ {0} /\ Down(d) \in Nat \ {0}
      /\ p[1] \in 0 .. Down(d) - 1 /\ p[2] \in 0 .. Across(d) - 1
  BY Geometry DEF Blocks
<1>2. PICK A \in Nat \ {0}, D \in Nat \ {0} : A = Across(d) /\ D = Down(d)
  BY <1>1
<1>3. PICK r \in 0 .. D - 1, c \in 0 .. A - 1 : r = p[1] /\ c = p[2]
  BY <1>1, <1>2
<1>4. PICK n : n = InPlane(A, D, r, c, b)
  OBVIOUS
<1>5. n \in Nat /\ n \div (D * A) = b /\ (n % (D * A)) \div A = r /\ n % A = c
  BY <1>4, PlanePosition
<1>6. n = PlaneChunk(d, p, b)
  BY <1>2, <1>3, <1>4 DEF PlaneChunk
<1>7. RowOfChunk(d, n) = (n % (D * A)) \div A
  BY <1>2 DEF RowOfChunk
<1>8. QED
  BY <1>2, <1>3, <1>5, <1>6, <1>7

\* What get_block reads and decodes is the block: for every image size, chunk
\* size, number of bands and sample width, for tiles and strips, chunky and
\* planar, and for any selection of bands (get_block_tiled,
\* get_block_stripped).
THEOREM BlockDecodes ==
  ASSUME NEW d, HasGeometry(d), NEW p \in Blocks(d),
         NEW bands \in Seq(0 .. d.spp - 1)
  PROVE  LET chunks == ChunkIndexes(d, p, bands)
         IN  DecodeBlock(d, p, bands, [i \in DOMAIN chunks |-> Chunk(d, chunks[i])])
               = BlockSamples(d, p, bands)
<1> DEFINE chunks == ChunkIndexes(d, p, bands)
           raws == [i \in DOMAIN chunks |-> Chunk(d, chunks[i])]
           R == ChunkRows(d, p[1])
           S == SamplesPerRow(d)
           plain == [i \in DOMAIN raws |-> Unpack(d.bits, raws[i], S, R)]
           cells == (0 .. BlockRows(d, p[1]) - 1) \X (0 .. BlockCols(d, p[2]) - 1)
           decoded(i, q) == IF d.planar
                              THEN CellAt(plain[i], q[1] * d.bw + q[2])
                              ELSE CellAt(plain[1], (q[1] * d.bw + q[2]) * d.spp + bands[i])
           sample(i, q) == Stored(d, bands[i], p[1] * d.bh + q[1], p[2] * d.bw + q[2])
<1>1. ASSUME NEW i \in DOMAIN bands,
             NEW y \in 0 .. BlockRows(d, p[1]) - 1, NEW x \in 0 .. BlockCols(d, p[2]) - 1
      PROVE  decoded(i, <<y, x>>) = sample(i, <<y, x>>)
  <2> DEFINE b == bands[i]
  <2>1. /\ d.spp \in Nat \ {0} /\ d.bw \in Nat \ {0}
        /\ p[1] \in 0 .. Down(d) - 1 /\ p[2] \in 0 .. Across(d) - 1
        /\ b \in 0 .. d.spp - 1
        /\ d.planar \in BOOLEAN
    <3>1. d.spp \in Nat \ {0} /\ d.bw \in Nat \ {0} /\ d.planar \in BOOLEAN
      BY DEF HasGeometry
    <3>2. p[1] \in 0 .. Down(d) - 1 /\ p[2] \in 0 .. Across(d) - 1
      BY DEF Blocks
    <3>3. b \in 0 .. d.spp - 1
      <4>1. bands \in Seq(0 .. d.spp - 1) /\ i \in 1 .. Len(bands)
        BY LenProperties
      <4>2. QED
        BY <4>1, ElementOfSeq
    <3>4. QED
      BY <3>1, <3>2, <3>3
  <2>2. /\ BlockRows(d, p[1]) \in Int /\ BlockCols(d, p[2]) \in Int
        /\ BlockRows(d, p[1]) <= R /\ BlockCols(d, p[2]) <= d.bw
        /\ R \in Int
        /\ S \in Nat \ {0}
    BY <2>1, Geometry
  <2>3. y \in 0 .. R - 1 /\ x \in 0 .. d.bw - 1 /\ R \in Nat
    <3> DEFINE rows == BlockRows(d, p[1])
               cols == BlockCols(d, p[2])
    <3> HIDE DEF rows, cols, R
    <3>1. /\ y \in 0 .. rows - 1 /\ x \in 0 .. cols - 1
          /\ rows \in Int /\ cols \in Int /\ rows <= R /\ cols <= d.bw /\ R \in Int
          /\ d.bw \in Nat
      BY <2>1, <2>2 DEF rows, cols
    <3>2. QED
      BY <3>1
  <2>4. CASE d.planar
    <3> DEFINE n == PlaneChunk(d, p, b)
    <3>1. i \in DOMAIN chunks /\ chunks[i] = n
      BY <2>4 DEF ChunkIndexes, PlaneChunk, InPlane
    <3>2. plain[i] = Unpack(d.bits, Chunk(d, n), S, R)
      BY <3>1
    <3>3. S = d.bw
      BY <2>4 DEF SamplesPerRow
    <3>4. /\ n \in Nat /\ RowOfChunk(d, n) = p[1] /\ n % Across(d) = p[2]
          /\ n \div (Down(d) * Across(d)) = b
      <4>1. b \in Nat
        BY <2>1
      <4>2. QED
        BY <4>1, ChunkPosition
    <3> HIDE DEF n
    <3>5. CellAt(Unpack(d.bits, Chunk(d, n), S, R), y * S + x) = CellOfChunk(d, n, y, x)
      <4>1. x \in 0 .. S - 1
        BY <2>3, <3>3
      <4>2. QED
        BY <2>1, <2>3, <3>4, <4>1, UnpackedCell
    <3>6. CellOfChunk(d, n, y, x) = Stored(d, b, p[1] * d.bh + y, p[2] * d.bw + x)
      <4>1. x < S /\ y < BlockRows(d, p[1]) /\ x < BlockCols(d, p[2])
        BY <2>2, <2>3, <3>3
      <4>2. QED
        BY <2>4, <3>4, <4>1 DEF CellOfChunk, RowOfChunk
    <3>7. QED
      BY <2>4, <3>2, <3>3, <3>5, <3>6
  <2>5. CASE ~d.planar
    <3> DEFINE n == PlaneChunk(d, p, 0)
               s == x * d.spp + b
    <3>1. 1 \in DOMAIN chunks /\ chunks[1] = n
      <4>1. Down(d) \in Nat /\ Across(d) \in Nat
        BY Geometry
      <4>2. 0 * Down(d) * Across(d) = 0 /\ p[1] * Across(d) \in Int
        BY <2>1, <4>1, SMTT(10)
      <4>3. n = p[1] * Across(d) + p[2]
        BY <2>1, <4>2 DEF PlaneChunk, InPlane
      <4>4. chunks = <<p[1] * Across(d) + p[2]>>
        BY <2>5 DEF ChunkIndexes
      <4>5. QED
        BY <4>3, <4>4
    <3>2. plain[1] = Unpack(d.bits, Chunk(d, n), S, R)
      BY <3>1
    <3>3. S = d.bw * d.spp
      BY <2>5 DEF SamplesPerRow
    <3>4. n \in Nat /\ RowOfChunk(d, n) = p[1] /\ n % Across(d) = p[2]
      BY ChunkPosition
    <3>5. /\ s \in 0 .. S - 1 /\ s \in Nat
          /\ s \div d.spp = x /\ s % d.spp = b
      <4>1. x * d.spp + b \in 0 .. d.bw * d.spp - 1
        BY <2>1, <2>3, RowMajor
      <4>2. x \in Nat
        BY <2>3
      <4>3. QED
        BY <2>1, <3>3, <4>1, <4>2, QuotientAndRemainder
    <3>6. (y * d.bw + x) * d.spp + b = y * S + s
      <4> DEFINE h == d.bw
                 m == d.spp
      <4>1. y \in Nat /\ x \in Nat /\ b \in Nat /\ h \in Nat /\ m \in Nat
        BY <2>1, <2>3
      <4>2. S = h * m /\ s = x * m + b
        BY <3>3
      <4> HIDE DEF h, m, b, s, S
      <4>3. (y * h + x) * m + b = y * (h * m) + (x * m + b)
        BY <4>1, SMTT(20)
      <4>4. QED
        BY <4>2, <4>3 DEF h, m
    <3> HIDE DEF n, s
    <3>7. CellAt(Unpack(d.bits, Chunk(d, n), S, R), y * S + s) = CellOfChunk(d, n, y, s)
      <4> HIDE DEF S, R, b, chunks, raws, plain, cells, decoded, sample
      <4>1. n \in Nat /\ p[1] = RowOfChunk(d, n) /\ p[1] \in 0 .. Down(d) - 1
        BY <2>1, <3>4
      <4>2. ChunkRows(d, p[1]) \in Nat /\ y \in 0 .. ChunkRows(d, p[1]) - 1
        BY <2>3 DEF R
      <4>3. s \in 0 .. SamplesPerRow(d) - 1
        BY <3>5 DEF S
      <4>4. CellAt(Unpack(d.bits, Chunk(d, n), SamplesPerRow(d), ChunkRows(d, p[1])),
                   y * SamplesPerRow(d) + s) = CellOfChunk(d, n, y, s)
        BY <4>1, <4>2, <4>3, UnpackedCell
      <4>5. QED
        BY <4>4 DEF R, S
    <3>8. CellOfChunk(d, n, y, s) = Stored(d, b, p[1] * d.bh + y, p[2] * d.bw + x)
      <4>1. s < S /\ y < BlockRows(d, p[1]) /\ x < BlockCols(d, p[2])
        BY <2>2, <2>3, <3>5
      <4>2. QED
        BY <2>5, <3>4, <3>5, <4>1 DEF CellOfChunk, RowOfChunk
    <3>9. QED
      BY <2>5, <3>2, <3>6, <3>7, <3>8
  <2>6. QED
    BY <2>1, <2>4, <2>5
<1>2. DecodeBlock(d, p, bands, raws) = [i \in DOMAIN bands |-> [q \in cells |-> decoded(i, q)]]
  BY Zenon DEF DecodeBlock
<1>3. BlockSamples(d, p, bands) = [i \in DOMAIN bands |-> [q \in cells |-> sample(i, q)]]
  BY Zenon DEF BlockSamples
<1>4. ASSUME NEW i \in DOMAIN bands, NEW q \in cells
      PROVE  decoded(i, q) = sample(i, q)
  <2>1. PICK y \in 0 .. BlockRows(d, p[1]) - 1, x \in 0 .. BlockCols(d, p[2]) - 1 :
          q = <<y, x>>
    OBVIOUS
  <2> HIDE DEF decoded, sample
  <2>2. QED
    BY <1>1, <2>1
<1> HIDE DEF cells, decoded, sample, raws
<1>5. QED
  BY <1>2, <1>3, <1>4 DEF raws

LEMMA RoundUpCovers ==
  ASSUME NEW n \in Nat \ {0}
  PROVE  RoundUp(n, TileMultiple) \in Nat \ {0}
<1>1. DivCeil(n, TileMultiple) \in Nat \ {0} /\ DivCeil(n, TileMultiple) * TileMultiple >= n
  BY TileMultipleAssumption, CeilingCovers
<1>2. DivCeil(n, TileMultiple) * TileMultiple \in Nat
  BY <1>1, TileMultipleAssumption, SMTT(10)
<1>3. QED
  BY <1>1, <1>2 DEF RoundUp

LEMMA WrittenGeometry ==
  ASSUME NEW a, IsAsset(a)
  PROVE  /\ HasGeometry(WrittenDirectory(a))
         /\ AllBands(WrittenDirectory(a)) \in Seq(0 .. WrittenDirectory(a).spp - 1)
<1>1. HasGeometry(WrittenDirectory(a))
  BY RoundUpCovers DEF IsAsset, WrittenDirectory, HasGeometry, Widths
<1>2. WrittenDirectory(a).spp \in Nat
  BY <1>1 DEF HasGeometry
<1>3. QED
  BY <1>1, <1>2 DEF AllBands

\* What close writes of an asset, get_block gives back, the nonzero samples of a
\* mask as 1: whatever size, bands, width and block size the asset has, when its
\* samples fit the directory and the reader knows their format (pad_tile,
\* bsq_to_interleaved, coerce_subbyte and pack_subbyte_msb_first against
\* get_block_tiled).
THEOREM AssetsDecode ==
  ASSUME NEW a, IsAsset(a), Fits(a), Openable(<<WrittenDirectory(a)>>),
         NEW p \in Blocks(WrittenDirectory(a))
  PROVE  ReadBlock(WrittenDirectory(a), p) = AssetBlock(a, WrittenDirectory(a), p)
<1> DEFINE d == WrittenDirectory(a)
           bands == AllBands(d)
           cells == (0 .. BlockRows(d, p[1]) - 1) \X (0 .. BlockCols(d, p[2]) - 1)
           asset(i, q) == LET s == Sample(a.of, i - 1, p[1] * d.bh + q[1], p[2] * d.bw + q[2])
                          IN  IF IsMaskAsset(a) THEN Nonzero(s) ELSE s
           stored(i, q) == Stored(d, bands[i], p[1] * d.bh + q[1], p[2] * d.bw + q[2])
<1>1. d.of = a.of /\ d.holds = IF IsMaskAsset(a) THEN "nonzero" ELSE "samples"
  BY DEF WrittenDirectory
<1>2. \A b, y, x : Stored(d, b, y, x) = IF IsMaskAsset(a)
                                          THEN Nonzero(Sample(a.of, b, y, x))
                                          ELSE Sample(a.of, b, y, x)
  <2> HIDE DEF d
  <2>1. QED
    BY <1>1 DEF Stored
<1>3. ReadBlock(d, p) = BlockSamples(d, p, bands)
  <2>1. HasGeometry(d) /\ bands \in Seq(0 .. d.spp - 1) /\ p \in Blocks(d)
    BY WrittenGeometry
  <2>2. ReadBlock(d, p) = LET chunks == ChunkIndexes(d, p, bands)
                          IN  DecodeBlock(d, p, bands, [i \in DOMAIN chunks |-> Chunk(d, chunks[i])])
    BY Zenon DEF ReadBlock
  <2> HIDE DEF d, bands
  <2>3. QED
    BY <2>1, <2>2, BlockDecodes
<1> HIDE DEF d
<1>4. \A i \in DOMAIN bands : bands[i] = i - 1
  BY DEF AllBands
<1> HIDE DEF bands
<1>5. \A i \in DOMAIN bands : \A q \in cells : stored(i, q) = asset(i, q)
  BY <1>2, <1>4
<1>6. BlockSamples(d, p, bands) = [i \in DOMAIN bands |-> [q \in cells |-> stored(i, q)]]
  BY Zenon DEF BlockSamples
<1>7. AssetBlock(a, d, p) = [i \in DOMAIN bands |-> [q \in cells |-> asset(i, q)]]
  BY Zenon DEF AssetBlock, bands
<1> HIDE DEF cells, stored, asset
<1>8. BlockSamples(d, p, bands) = AssetBlock(a, d, p)
  BY <1>5, <1>6, <1>7
<1>9. QED
  BY <1>3, <1>8 DEF d

-----------------------------------------------------------------------------
(* The shared handle *)

Answers(own, request) ==
    [i \in DOMAIN Items(own, request) |-> Answer(own, Items(own, request)[i])]

LEMMA RequestKinds ==
  ASSUME NEW d, IsDirectory(d), NEW request \in Requests(d)
  PROVE  /\ request.kind \in {"block", "ranges", "codec"}
         /\ request.kind = "block" => /\ request.at \in Blocks(d)
                                      /\ request.bands \in Seq(0 .. d.spp - 1)
<1>1. d.spp \in Nat \ {0}
  BY DEF IsDirectory, HasGeometry
<1>2. AllBands(d) \in Seq(0 .. d.spp - 1)
  BY <1>1 DEF AllBands
<1>3. \A b \in 0 .. d.spp - 1 : <<b>> \in Seq(0 .. d.spp - 1)
  OBVIOUS
<1>4. QED
  BY <1>2, <1>3 DEF Requests

LEMMA ItemCount ==
  ASSUME NEW d, IsDirectory(d), NEW request \in Requests(d)
  PROVE  /\ Len(Items(d, request)) \in Nat
         /\ DOMAIN Items(d, request) = 1 .. Len(Items(d, request))
         /\ (Items(d, request) = << >>) = (Len(Items(d, request)) = 0)
<1>1. CASE request.kind = "block"
  <2> DEFINE chunks == ChunkIndexes(d, request.at, request.bands)
  <2>1. Items(d, request) = [i \in DOMAIN chunks |-> Item("chunk", chunks[i])]
    BY <1>1 DEF Items
  <2>2. \E n \in Nat : DOMAIN chunks = 1 .. n
    <3>1. request.bands \in Seq(0 .. d.spp - 1)
      BY <1>1, RequestKinds
    <3>2. DOMAIN request.bands = 1 .. Len(request.bands) /\ Len(request.bands) \in Nat
      BY <3>1
    <3>3. CASE d.planar
      <4>1. DOMAIN chunks = DOMAIN request.bands
        BY <3>3 DEF ChunkIndexes
      <4>2. QED
        BY <3>2, <4>1
    <3>4. CASE ~d.planar
      <4>1. chunks = <<request.at[1] * Across(d) + request.at[2]>>
        BY <3>4 DEF ChunkIndexes
      <4>2. DOMAIN chunks = 1 .. 1
        BY <4>1
      <4>3. QED
        BY <4>2
    <3>5. QED
      BY <3>3, <3>4
  <2> HIDE DEF chunks
  <2>3. PICK n \in Nat : DOMAIN chunks = 1 .. n
    BY <2>2
  <2>4. Items(d, request) = [i \in 1 .. n |-> Item("chunk", chunks[i])]
    BY <2>1, <2>3
  <2>5. QED
    BY <2>4
<1>2. CASE request.kind = "ranges"
  BY <1>2 DEF Items
<1>3. CASE request.kind = "codec"
  <2>1. CASE ~Configured(d)
    BY <1>3, <2>1 DEF Items
  <2>2. CASE Configured(d) /\ d.compression = "jpeg"
    BY <1>3, <2>2 DEF Items
  <2>3. CASE Configured(d) /\ d.compression # "jpeg"
    BY <1>3, <2>3 DEF Items
  <2>4. QED
    BY <2>1, <2>2, <2>3
<1>4. QED
  BY <1>1, <1>2, <1>3, RequestKinds

\* The calls in progress, one part for each stage: who has the handle set the
\* directory before reading, and what was read so far came from there.
CallInv(t) ==
    LET c == call[t]
        own == file[c.page]
        length == Len(Items(own, c.request))
    IN  /\ (c.pc \in {"set", "read", "release"}) = (handle.owner = t)
        /\ c.pc # "idle" =>
             /\ Len(c.got) \in 0 .. length
             /\ c.got = [i \in 1 .. Len(c.got) |-> Answers(own, c.request)[i]]
             /\ c.pc \in {"lock", "set", "read"} => Len(c.got) < length
             /\ c.pc = "read" => handle.dir = c.page
             /\ c.pc = "done" => Len(c.got) = length

IInv ==
    /\ ReadTypeOK
    /\ \A t \in Threads : CallInv(t)

LEMMA ReadInitInv == ReadInit => IInv
<1> SUFFICES ASSUME ReadInit
             PROVE  IInv
  OBVIOUS
<1>1. ReadTypeOK
  BY DEF ReadInit, ReadTypeOK, NoCall, Calling
<1>2. \A t \in Threads : CallInv(t)
  BY ThreadsAssumption DEF ReadInit, CallInv, NoCall
<1>3. QED
  BY <1>1, <1>2 DEF IInv

\* A call that does not step is as it was, unless the handle is its own.
LEMMA OthersKeep ==
  ASSUME NEW u \in Threads, CallInv(u), file' = file, call'[u] = call[u],
         (handle'.owner = u) = (handle.owner = u),
         handle.owner = u => handle'.dir = handle.dir
  PROVE  CallInv(u)'
BY DEF CallInv, Answers

\* A file that may be opened consists of directories, and a request of a page
\* has a number of items.
LEMMA OwnItems ==
  ASSUME ReadTypeOK, NEW t \in Threads, call[t].pc # "idle"
  PROVE  /\ IsDirectory(file[call[t].page])
         /\ call[t].request \in Requests(file[call[t].page])
         /\ Len(Items(file[call[t].page], call[t].request)) \in Nat
         /\ DOMAIN Items(file[call[t].page], call[t].request)
              = 1 .. Len(Items(file[call[t].page], call[t].request))
<1>1. /\ file \in Foreign /\ call[t].page \in DOMAIN file
      /\ call[t].request \in Requests(file[call[t].page])
  BY DEF ReadTypeOK, Calling
<1>2. IsDirectory(file[call[t].page])
  BY <1>1, ForeignAssumption
<1>3. QED
  BY <1>1, <1>2, ItemCount

LEMMA BeginStep ==
  ASSUME IInv, NEW t \in Threads, NEW n \in DOMAIN file,
         NEW request \in Requests(file[n]), Begin(t, n, request)
  PROVE  IInv'
<1> DEFINE started == IF Items(file[n], request) = << >> THEN "done" ELSE "lock"
<1>1. /\ ReadTypeOK /\ \A u \in Threads : CallInv(u)
      /\ call[t].pc = "idle" /\ file' = file /\ handle' = handle
      /\ call' = [call EXCEPT ![t] = [pc |-> started, page |-> n, request |-> request, got |-> << >>]]
  BY DEF IInv, Begin
<1>2. /\ DOMAIN call = Threads /\ started \in {"done", "lock"}
  BY <1>1 DEF ReadTypeOK
<1> HIDE DEF started
<1>3. /\ DOMAIN call' = Threads
      /\ call'[t] = [pc |-> started, page |-> n, request |-> request, got |-> << >>]
      /\ \A u \in Threads \ {t} : call'[u] = call[u]
  BY <1>1, <1>2
<1>4. ReadTypeOK'
  BY <1>1, <1>2, <1>3 DEF ReadTypeOK, Calling
<1>5. CallInv(t)'
  <2>1. handle.owner # t
    BY <1>1 DEF CallInv
  <2>2. /\ Len(Items(file[n], request)) \in Nat
        /\ (Items(file[n], request) = << >>) = (Len(Items(file[n], request)) = 0)
    <3>1. IsDirectory(file[n])
      BY <1>1, ForeignAssumption DEF ReadTypeOK
    <3>2. QED
      BY <3>1, ItemCount
  <2>3. started = "done" => Len(Items(file[n], request)) = 0
    BY <2>2 DEF started
  <2>4. started = "lock" => Len(Items(file[n], request)) > 0
    BY <2>2 DEF started
  <2>5. Len(<< >>) = 0 /\ << >> = [i \in 1 .. 0 |-> Answers(file[n], request)[i]]
    OBVIOUS
  <2>6. QED
    BY <1>1, <1>2, <1>3, <2>1, <2>2, <2>3, <2>4, <2>5 DEF CallInv
<1>6. \A u \in Threads \ {t} : CallInv(u)'
  BY <1>1, <1>3, OthersKeep
<1>7. QED
  BY <1>4, <1>5, <1>6 DEF IInv

\* A step that only changes the stage of a call and the owner of the handle.
LEMMA StageStep ==
  ASSUME IInv, NEW t \in Threads, NEW stage, file' = file,
         call[t].pc # "idle",
         stage \in {"lock", "set", "read", "release", "done", "failed"},
         call' = [call EXCEPT ![t].pc = stage],
         handle' \in [owner : Threads \cup {NoThread}, dir : {0} \cup DOMAIN file],
         (handle'.owner = t) = (stage \in {"set", "read", "release"}),
         \A u \in Threads \ {t} : (handle'.owner = u) = (handle.owner = u),
         \A u \in Threads \ {t} : handle.owner = u => handle'.dir = handle.dir,
         stage \in {"lock", "set", "read"} =>
            Len(call[t].got) < Len(Items(file[call[t].page], call[t].request)),
         stage = "read" => handle'.dir = call[t].page,
         stage = "done" =>
            Len(call[t].got) = Len(Items(file[call[t].page], call[t].request))
  PROVE  IInv'
<1>1. ReadTypeOK /\ \A u \in Threads : CallInv(u)
  BY DEF IInv
<1>2. /\ DOMAIN call = Threads
      /\ DOMAIN call[t] = {"pc", "page", "request", "got"}
  BY <1>1 DEF ReadTypeOK, Calling
<1>3. /\ DOMAIN call' = Threads
      /\ call'[t].pc = stage /\ call'[t].page = call[t].page
      /\ call'[t].request = call[t].request /\ call'[t].got = call[t].got
      /\ DOMAIN call'[t] = {"pc", "page", "request", "got"}
      /\ \A u \in Threads \ {t} : call'[u] = call[u]
  BY <1>2
<1>4. ReadTypeOK'
  <2>1. call[t].page \in DOMAIN file /\ call[t].request \in Requests(file[call[t].page])
    BY <1>1 DEF ReadTypeOK, Calling
  <2>2. ASSUME NEW u \in Calling'
        PROVE  /\ DOMAIN call'[u] = {"pc", "page", "request", "got"}
               /\ call'[u].pc \in {"lock", "set", "read", "release", "done", "failed"}
               /\ call'[u].page \in DOMAIN file'
               /\ call'[u].request \in Requests(file'[call'[u].page])
    <3>1. CASE u = t
      BY <1>3, <2>1, <3>1
    <3>2. CASE u # t
      <4>1. u \in Calling /\ call'[u] = call[u]
        BY <1>3, <3>2 DEF Calling
      <4>2. QED
        BY <1>1, <4>1 DEF ReadTypeOK
    <3>3. QED
      BY <3>1, <3>2
  <2>3. file' \in Foreign
    BY <1>1 DEF ReadTypeOK
  <2>4. handle' \in [owner : Threads \cup {NoThread}, dir : {0} \cup DOMAIN file']
    OBVIOUS
  <2>5. QED
    BY <1>3, <2>2, <2>3, <2>4 DEF ReadTypeOK
<1>5. CallInv(t)'
  BY <1>1, <1>3 DEF CallInv
<1>6. \A u \in Threads \ {t} : CallInv(u)'
  BY <1>1, <1>3, OthersKeep
<1>7. QED
  BY <1>4, <1>5, <1>6 DEF IInv

LEMMA LockStep ==
  ASSUME IInv, NEW t \in Threads, Lock(t)
  PROVE  IInv'
<1>1. /\ call[t].pc = "lock" /\ handle.owner = NoThread
      /\ handle' = [handle EXCEPT !.owner = t] /\ file' = file
      /\ call' = [call EXCEPT ![t].pc = "set"]
  BY DEF Lock
<1>2. handle \in [owner : Threads \cup {NoThread}, dir : {0} \cup DOMAIN file]
  BY DEF IInv, ReadTypeOK
<1>3. handle'.owner = t /\ handle'.dir = handle.dir
        /\ handle' \in [owner : Threads \cup {NoThread}, dir : {0} \cup DOMAIN file]
  BY <1>1, <1>2
<1>4. Len(call[t].got) < Len(Items(file[call[t].page], call[t].request))
  BY <1>1 DEF IInv, CallInv
<1>5. \A u \in Threads \ {t} : (handle'.owner = u) = (handle.owner = u)
  BY <1>1, <1>3, ThreadsAssumption
<1>6. QED
  BY <1>1, <1>3, <1>4, <1>5, StageStep

LEMMA SetDirectoryStep ==
  ASSUME IInv, NEW t \in Threads, SetDirectory(t)
  PROVE  IInv'
<1>1. /\ call[t].pc = "set" /\ file' = file
      /\ handle' = [handle EXCEPT !.dir = call[t].page]
      /\ call' = [call EXCEPT ![t].pc = "read"]
  BY DEF SetDirectory
<1>2. /\ handle \in [owner : Threads \cup {NoThread}, dir : {0} \cup DOMAIN file]
      /\ call[t].page \in DOMAIN file
  BY <1>1 DEF IInv, ReadTypeOK, Calling
<1>3. handle'.owner = handle.owner /\ handle'.dir = call[t].page
        /\ handle' \in [owner : Threads \cup {NoThread}, dir : {0} \cup DOMAIN file]
  BY <1>1, <1>2
<1>4. /\ Len(call[t].got) < Len(Items(file[call[t].page], call[t].request))
      /\ handle.owner = t
  BY <1>1 DEF IInv, CallInv
<1>5. QED
  BY <1>1, <1>3, <1>4, StageStep

\* Leaving a locked section.
LEMMA UnlockStep ==
  ASSUME IInv, NEW t \in Threads, NEW stage \in {"lock", "done", "failed"},
         call[t].pc \in {"set", "read", "release"},
         handle' = [handle EXCEPT !.owner = NoThread], file' = file,
         call' = [call EXCEPT ![t].pc = stage],
         stage = "lock" =>
            Len(call[t].got) < Len(Items(file[call[t].page], call[t].request)),
         stage = "done" =>
            Len(call[t].got) = Len(Items(file[call[t].page], call[t].request))
  PROVE  IInv'
<1>1. /\ handle \in [owner : Threads \cup {NoThread}, dir : {0} \cup DOMAIN file]
      /\ handle.owner = t
  BY DEF IInv, ReadTypeOK, CallInv
<1>2. handle'.owner = NoThread /\ handle'.dir = handle.dir
        /\ handle' \in [owner : Threads \cup {NoThread}, dir : {0} \cup DOMAIN file]
  BY <1>1
<1>3. \A u \in Threads : (handle'.owner = u) = FALSE
  BY <1>2, ThreadsAssumption
<1>4. \A u \in Threads \ {t} : (handle'.owner = u) = (handle.owner = u)
  BY <1>1, <1>3
<1>5. (handle'.owner = t) = (stage \in {"set", "read", "release"})
  BY <1>3
<1>6. call[t].pc # "idle"
  OBVIOUS
<1>7. QED
  BY <1>1, <1>2, <1>4, <1>5, <1>6, StageStep

LEMMA ReleaseStep ==
  ASSUME IInv, NEW t \in Threads, Release(t)
  PROVE  IInv'
<1> DEFINE length == Len(Items(file[call[t].page], call[t].request))
           stage == IF Len(call[t].got) = length THEN "done" ELSE "lock"
<1>1. /\ call[t].pc = "release" /\ file' = file
      /\ handle' = [handle EXCEPT !.owner = NoThread]
      /\ call' = [call EXCEPT ![t].pc = stage]
  BY DEF Release
<1>2. Len(call[t].got) \in 0 .. length
  BY <1>1 DEF IInv, CallInv
<1>3. length \in Nat
  BY <1>1, OwnItems DEF IInv
<1>4. /\ stage \in {"lock", "done", "failed"}
      /\ stage = "lock" => Len(call[t].got) < length
      /\ stage = "done" => Len(call[t].got) = length
  BY <1>2, <1>3
<1> HIDE DEF stage
<1>5. QED
  BY <1>1, <1>4, UnlockStep

LEMMA FailStep ==
  ASSUME IInv, NEW t \in Threads, Fail(t)
  PROVE  IInv'
BY UnlockStep DEF Fail

LEMMA ReturnStep ==
  ASSUME IInv, NEW t \in Threads, Return(t)
  PROVE  IInv'
<1>1. /\ call[t].pc \in {"done", "failed"} /\ file' = file /\ handle' = handle
      /\ call' = [call EXCEPT ![t] = NoCall]
  BY DEF Return
<1>2. ReadTypeOK /\ \A u \in Threads : CallInv(u)
  BY DEF IInv
<1>3. /\ DOMAIN call' = Threads /\ call'[t] = [pc |-> "idle"]
      /\ \A u \in Threads \ {t} : call'[u] = call[u]
  BY <1>1, <1>2 DEF ReadTypeOK, NoCall
<1>4. ReadTypeOK'
  BY <1>1, <1>2, <1>3 DEF ReadTypeOK, Calling
<1>5. handle.owner # t
  BY <1>1, <1>2 DEF CallInv
<1>6. call'[t].pc = "idle" /\ handle'.owner # t
  BY <1>1, <1>3, <1>5
<1>7. CallInv(t)'
  <2>1. CallInv(t)' =
          LET c == call'[t]
              length == Len(Items(file'[c.page], c.request))
          IN  /\ (c.pc \in {"set", "read", "release"}) = (handle'.owner = t)
              /\ c.pc # "idle" =>
                   /\ Len(c.got) \in 0 .. length
                   /\ c.got = [i \in 1 .. Len(c.got) |-> Answers(file'[c.page], c.request)[i]]
                   /\ c.pc \in {"lock", "set", "read"} => Len(c.got) < length
                   /\ c.pc = "read" => handle'.dir = c.page
                   /\ c.pc = "done" => Len(c.got) = length
    BY Zenon DEF CallInv
  <2>2. QED
    BY <1>6, <2>1
<1>8. \A u \in Threads \ {t} : CallInv(u)'
  BY <1>1, <1>2, <1>3, OthersKeep
<1>9. QED
  BY <1>4, <1>7, <1>8 DEF IInv

LEMMA NextAnswer ==
  ASSUME NEW F, NEW got, NEW k \in Nat, got = [i \in 1 .. k |-> F[i]]
  PROVE  /\ Append(got, F[k + 1]) = [i \in 1 .. k + 1 |-> F[i]]
         /\ Len(Append(got, F[k + 1])) = k + 1
OBVIOUS

LEMMA ReadStep ==
  ASSUME IInv, NEW t \in Threads, Read(t)
  PROVE  IInv'
<1> DEFINE own == file[call[t].page]
           items == Items(own, call[t].request)
           k == Len(call[t].got)
           F == Answers(own, call[t].request)
           stage == IF LastUnderLock(call[t]) THEN "release" ELSE "read"
           got == Append(call[t].got, Answer(file[handle.dir], items[k + 1]))
<1>1. /\ call[t].pc = "read" /\ file' = file /\ handle' = handle
      /\ call' = [call EXCEPT ![t].pc = stage, ![t].got = got]
  BY DEF Read
<1>2. /\ ReadTypeOK /\ \A u \in Threads : CallInv(u)
      /\ call[t].pc # "idle"
  BY <1>1 DEF IInv
<1>3. /\ k \in 0 .. Len(items) /\ k < Len(items)
      /\ handle.dir = call[t].page /\ handle.owner = t
      /\ call[t].got = [i \in 1 .. k |-> F[i]]
  BY <1>1, <1>2 DEF CallInv
<1>4. Len(items) \in Nat /\ DOMAIN items = 1 .. Len(items)
  BY <1>2, OwnItems
<1>5. F[k + 1] = Answer(own, items[k + 1])
  BY <1>3, <1>4 DEF Answers
<1>6. got = Append(call[t].got, F[k + 1])
  BY <1>3, <1>5
<1> HIDE DEF F, k, got, items
<1>7. k \in Nat /\ k + 1 \in 0 .. Len(items)
  BY <1>3, <1>4
<1>8. got = [i \in 1 .. k + 1 |-> F[i]] /\ Len(got) = k + 1
  BY <1>3, <1>6, <1>7, NextAnswer
<1>9. /\ stage \in {"read", "release"}
      /\ stage = "read" => k + 1 < Len(items)
  <2>1. ~LastUnderLock(call[t]) => k + 1 # Len(items)
    BY DEF LastUnderLock, k, items
  <2>2. QED
    BY <1>7, <2>1
<1> HIDE DEF stage
<1>10. /\ DOMAIN call = Threads
       /\ DOMAIN call[t] = {"pc", "page", "request", "got"}
       /\ call[t].page \in DOMAIN file /\ call[t].request \in Requests(file[call[t].page])
  BY <1>2 DEF ReadTypeOK, Calling
<1>11. /\ DOMAIN call' = Threads
       /\ call'[t].pc = stage /\ call'[t].page = call[t].page
       /\ call'[t].request = call[t].request /\ call'[t].got = got
       /\ DOMAIN call'[t] = {"pc", "page", "request", "got"}
       /\ \A u \in Threads \ {t} : call'[u] = call[u]
  BY <1>1, <1>10
<1>12. ReadTypeOK'
  <2>1. ASSUME NEW u \in Calling'
        PROVE  /\ DOMAIN call'[u] = {"pc", "page", "request", "got"}
               /\ call'[u].pc \in {"lock", "set", "read", "release", "done", "failed"}
               /\ call'[u].page \in DOMAIN file'
               /\ call'[u].request \in Requests(file'[call'[u].page])
    <3>1. CASE u = t
      BY <1>1, <1>9, <1>10, <1>11, <3>1
    <3>2. CASE u # t
      <4>1. u \in Calling /\ call'[u] = call[u]
        BY <1>11, <3>2 DEF Calling
      <4>2. QED
        BY <1>1, <1>2, <4>1 DEF ReadTypeOK
    <3>3. QED
      BY <3>1, <3>2
  <2>2. QED
    BY <1>1, <1>2, <1>11, <2>1 DEF ReadTypeOK
<1>13. CallInv(t)'
  <2>1. Items(file'[call'[t].page], call'[t].request) = items
    BY <1>1, <1>11 DEF items
  <2>2. Answers(file'[call'[t].page], call'[t].request) = F
    BY <1>1, <1>11 DEF F
  <2>3. handle'.owner = t /\ handle'.dir = call'[t].page
    BY <1>1, <1>3, <1>11
  <2>4. CallInv(t)' =
          LET c == call'[t]
              length == Len(Items(file'[c.page], c.request))
          IN  /\ (c.pc \in {"set", "read", "release"}) = (handle'.owner = t)
              /\ c.pc # "idle" =>
                   /\ Len(c.got) \in 0 .. length
                   /\ c.got = [i \in 1 .. Len(c.got) |-> Answers(file'[c.page], c.request)[i]]
                   /\ c.pc \in {"lock", "set", "read"} => Len(c.got) < length
                   /\ c.pc = "read" => handle'.dir = c.page
                   /\ c.pc = "done" => Len(c.got) = length
    BY Zenon DEF CallInv
  <2>5. QED
    BY <1>7, <1>8, <1>9, <1>11, <2>1, <2>2, <2>3, <2>4
<1>14. \A u \in Threads \ {t} : CallInv(u)'
  BY <1>1, <1>2, <1>11, OthersKeep
<1>15. QED
  BY <1>12, <1>13, <1>14 DEF IInv

LEMMA NextInv == IInv /\ [Next]_vars => IInv'
<1> SUFFICES ASSUME IInv, [Next]_vars
             PROVE  IInv'
  OBVIOUS
<1>1. ASSUME ReadNext
      PROVE  IInv'
  <2>1. PICK t \in Threads :
          \/ \E n \in DOMAIN file : \E request \in Requests(file[n]) : Begin(t, n, request)
          \/ Lock(t)
          \/ SetDirectory(t)
          \/ Read(t)
          \/ Release(t)
          \/ Fail(t)
          \/ Return(t)
    BY <1>1 DEF ReadNext
  <2>2. QED
    BY <2>1, BeginStep, LockStep, SetDirectoryStep, ReadStep, ReleaseStep, FailStep, ReturnStep
<1>2. ASSUME UNCHANGED readVars
      PROVE  IInv'
  <2>1. file' = file /\ handle' = handle /\ call' = call
    BY <1>2 DEF readVars
  <2>2. ReadTypeOK'
    BY <2>1 DEF IInv, ReadTypeOK, Calling
  <2>3. \A t \in Threads : CallInv(t)'
    BY <2>1, OthersKeep DEF IInv
  <2>4. QED
    BY <2>2, <2>3 DEF IInv
<1>3. ReadNext \/ UNCHANGED readVars
  BY DEF Next, vars
<1>4. QED
  BY <1>1, <1>2, <1>3

LEMMA Invariant == Spec => []IInv
<1>1. Init => IInv
  BY ReadInitInv DEF Init
<1>2. QED
  BY <1>1, NextInv, PTL DEF Spec

\* Every call that ends well has read its own page, however many threads share
\* the libtiff handle and however their calls interleave: the lock around
\* set_directory and the reads is enough, and so is taking it anew for each
\* tag of a codec configuration.
THEOREM CallsReadTheirPage == Spec => []ReadsTheirPage
<1>1. IInv => ReadsTheirPage
  <2> SUFFICES ASSUME IInv, NEW t \in Threads, call[t].pc = "done"
               PROVE  LET own == file[call[t].page]
                          items == Items(own, call[t].request)
                      IN  call[t].got = [i \in DOMAIN items |-> Answer(own, items[i])]
    BY DEF ReadsTheirPage
  <2> DEFINE own == file[call[t].page]
             items == Items(own, call[t].request)
  <2>1. /\ Len(call[t].got) = Len(items)
        /\ call[t].got = [i \in 1 .. Len(call[t].got) |-> Answers(own, call[t].request)[i]]
    BY DEF IInv, CallInv
  <2>2. DOMAIN items = 1 .. Len(items)
    BY OwnItems DEF IInv
  <2>3. QED
    BY <2>1, <2>2 DEF Answers
<1>2. QED
  BY <1>1, Invariant, PTL

\* The state of readers and handle is as declared, and a thread that is
\* between lock and unlock is alone.
THEOREM HandleExclusive ==
  Spec => [](/\ ReadTypeOK
             /\ \A t, u \in Threads :
                  (/\ call[t].pc \in {"set", "read", "release"}
                   /\ call[u].pc \in {"set", "read", "release"}) => t = u)
<1>1. IInv => /\ ReadTypeOK
              /\ \A t, u \in Threads :
                   (/\ call[t].pc \in {"set", "read", "release"}
                    /\ call[u].pc \in {"set", "read", "release"}) => t = u
  BY DEF IInv, CallInv
<1>2. QED
  BY <1>1, Invariant, PTL

\* get_block returns the block the caller asked for: for files of every
\* geometry and any number of threads.
THEOREM BlocksAreRead == Spec => []BlocksReadBack
<1>1. IInv /\ ReadsTheirPage => BlocksReadBack
  <2> SUFFICES ASSUME IInv, ReadsTheirPage,
                      NEW t \in Threads, call[t].pc = "done", call[t].request.kind = "block"
               PROVE  DecodeBlock(file[call[t].page], call[t].request.at,
                                  call[t].request.bands, call[t].got)
                        = BlockSamples(file[call[t].page], call[t].request.at,
                                       call[t].request.bands)
    BY DEF BlocksReadBack
  <2> DEFINE d == file[call[t].page]
             request == call[t].request
             chunks == ChunkIndexes(d, request.at, request.bands)
             items == Items(d, request)
  <2>1. call[t].got = [i \in DOMAIN items |-> Answer(d, items[i])]
    BY DEF ReadsTheirPage
  <2>2. IsDirectory(d) /\ request \in Requests(d)
    BY OwnItems DEF IInv
  <2>3. request.at \in Blocks(d) /\ request.bands \in Seq(0 .. d.spp - 1)
    BY <2>2, RequestKinds
  <2>4. items = [i \in DOMAIN chunks |-> Item("chunk", chunks[i])]
    BY DEF Items
  <2>5. \A i \in DOMAIN chunks : Answer(d, Item("chunk", chunks[i])) = Chunk(d, chunks[i])
    BY DEF Answer, Item
  <2> HIDE DEF chunks, d, request
  <2>6. [i \in DOMAIN items |-> Answer(d, items[i])] = [i \in DOMAIN chunks |-> Chunk(d, chunks[i])]
    BY <2>4, <2>5
  <2>7. DecodeBlock(d, request.at, request.bands, [i \in DOMAIN chunks |-> Chunk(d, chunks[i])])
          = BlockSamples(d, request.at, request.bands)
    BY <2>2, <2>3, BlockDecodes DEF chunks, IsDirectory
  <2>8. QED
    BY <2>1, <2>6, <2>7 DEF d, request
<1>2. QED
  BY <1>1, Invariant, CallsReadTheirPage, PTL

=============================================================================
