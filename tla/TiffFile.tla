------------------------------- MODULE TiffFile -------------------------------
(***************************************************************************)
(* The TIFF writer (src/tiff/writer.rs) beside an open TIFF file: assets   *)
(* are queued, some of them pages of the open file, and close writes them  *)
(* as one directory each, sorted.  What was written is looked at with the  *)
(* definitions of the reader.                                              *)
(*                                                                         *)
(* An asset has the image it stands for (of), its key and roles, its size, *)
(* bands, pixel type (the format and bits of the samples it hands out),    *)
(* significant bits per sample and block size, and the PlanarConfiguration *)
(* and Compression tags of its metadata.                                   *)
(***************************************************************************)
EXTENDS TiffReading

CONSTANTS Assets,     \* the assets a program may add
          MaxQueue    \* bound on the assets of a file

PixelTypes == ({"uint", "int"} \X {8, 16, 32}) \cup ({"float"} \X {32, 64})

\* An asset of a dataset: its samples have a width that can be written.
IsAsset(a) ==
    /\ a.key \in [image : Nat, overview : Nat, mask : BOOLEAN]
    /\ {a.rows, a.cols, a.bands, a.bh, a.bw} \subseteq Nat \ {0}
    /\ a.pixel \in PixelTypes
    /\ a.bits \in Widths
    /\ a.planar \in BOOLEAN

ASSUME AssetsAssumption   == \A a \in Assets : IsAsset(a)
ASSUME MaxQueueAssumption == MaxQueue \in Nat

VARIABLES queue,      \* the assets of the writer
          written,    \* the directories of its output
          closed

writeVars == <<queue, written, closed>>
vars      == <<readVars, writeVars>>

IsMaskAsset(a) == SubfileType(a) \in {4, 5}
QueuedKeys     == {queue[i].key : i \in DOMAIN queue}

\* Page n of the open file, as an asset.
PageAsset(n) ==
    LET d == file[n]
        page == Pages(file)[n]
    IN  [of |-> d.of, key |-> page.key, roles |-> page.roles,
         rows |-> d.rows, cols |-> d.cols, bands |-> d.spp,
         pixel |-> <<d.format, IF d.bits < 8 THEN 8 ELSE d.bits>>, bits |-> d.bits,
         bh |-> d.bh, bw |-> d.bw, planar |-> d.planar, compression |-> d.compression]

\* The samples the asset hands out lie as its directory says they do.  The
\* writer cuts them by the directory's bits but does not repack them: only
\* one byte each can be packed to fewer bits, only whole containers stay what
\* they are, and a mask is cut as one band whatever it has.
Fits(a) ==
    IF IsMaskAsset(a)
      THEN a.bands = 1 /\ a.pixel[2] = 8
      ELSE a.pixel[2] = (IF a.bits < 8 THEN 8 ELSE a.bits)

\* A mask is written as one bit, whatever its asset says, nonzero samples as
\* 1; tiles grow to the multiple TIFF asks for.
WrittenDirectory(a) ==
    [type |-> SubfileType(a), of |-> a.of,
     holds |-> IF Fits(a) THEN (IF IsMaskAsset(a) THEN "nonzero" ELSE "samples") ELSE "misread",
     rows |-> a.rows, cols |-> a.cols,
     spp |-> IF IsMaskAsset(a) THEN 1 ELSE a.bands,
     bits |-> IF IsMaskAsset(a) THEN 1 ELSE a.bits,
     format |-> a.pixel[1],
     tiled |-> TRUE,
     bh |-> RoundUp(a.bh, TileMultiple), bw |-> RoundUp(a.bw, TileMultiple),
     planar |-> a.planar, compression |-> a.compression]

\* from_metadata knows no CCITT, JPEG takes samples of 8 bits, and libtiff
\* has no tile for the second plane of a mask.
Writable(a) ==
    /\ a.compression # "ccitt"
    /\ a.compression = "jpeg" => WrittenDirectory(a).bits = 8
    /\ (IsMaskAsset(a) /\ a.planar) => a.bands = 1

-----------------------------------------------------------------------------

Init ==
    /\ ReadInit
    /\ queue = << >>
    /\ written = << >>
    /\ closed = FALSE

\* Faulty variant: any key is taken.
AddAnyAsset(a) ==
    /\ ~closed
    /\ Len(queue) < MaxQueue
    /\ queue' = Append(queue, a)
    /\ UNCHANGED <<written, closed>>

AddAsset(a) ==
    /\ ~closed
    /\ a.key \notin QueuedKeys
    /\ Len(queue) < MaxQueue
    /\ queue' = Append(queue, a)
    /\ UNCHANGED <<written, closed>>

Close ==
    /\ ~closed
    /\ \A i \in DOMAIN queue : Writable(queue[i])
    /\ queue' \in CogOrders(queue)
    /\ written' = [i \in DOMAIN queue' |-> WrittenDirectory(queue'[i])]
    /\ closed' = TRUE

\* The error returns after the sort; the caller may close again.
CloseFails ==
    /\ ~closed
    /\ \E i \in DOMAIN queue : ~Writable(queue[i])
    /\ queue' \in CogOrders(queue)
    /\ UNCHANGED <<written, closed>>

WriteNext ==
    \/ \E a \in Assets : AddAsset(a)
    \/ \E n \in DOMAIN file : AddAsset(PageAsset(n))
    \/ Close
    \/ CloseFails

\* Writer and readers touch different variables, so their steps commute; the
\* bound keeps only the runs in which one of them is at rest.
WriterAtRest  == queue = << >> /\ ~closed
ReadersAtRest == handle.dir = 0 /\ handle.owner = NoThread /\ Calling = {}

Next ==
    \/ ReadNext /\ WriterAtRest /\ UNCHANGED writeVars
    \/ WriteNext /\ ReadersAtRest /\ UNCHANGED readVars

Spec == Init /\ [][Next]_vars /\ ReadFairness

-----------------------------------------------------------------------------

TypeOK ==
    /\ ReadTypeOK
    /\ Len(queue) \in 0 .. MaxQueue /\ DOMAIN queue = 1 .. Len(queue)
    /\ \A i \in DOMAIN queue : IsAsset(queue[i])
    /\ \A i, j \in DOMAIN queue : queue[i].key = queue[j].key => i = j
    /\ closed \in BOOLEAN
    /\ closed => Len(written) = Len(queue)

PagesWritten == Pages(written)

PageOf(image) == CHOOSE n \in DOMAIN written : written[n].of = image

Distinct(q) == \A i, j \in DOMAIN q : q[i].of = q[j].of => i = j

KeyRoles(key) ==
    (IF key.overview > 0 THEN {"overview"} ELSE {})
      \cup (IF key.mask THEN {"mask"} ELSE {})

\* The queue holds each image once, the roles say what the keys say, and every
\* child has its image.
WellFormed(q) ==
    /\ Distinct(q)
    /\ \A i \in DOMAIN q :
         /\ IF KeyRoles(q[i].key) = {}
              THEN q[i].roles \cap {"overview", "mask"} = {}
              ELSE q[i].roles = KeyRoles(q[i].key)
         /\ \E p \in DOMAIN q : q[p].key = ParentKey(q[i].key)

\* What is read back belongs together as it did in the queue: two pages have
\* the same image number exactly when their assets had, masks are masks,
\* overviews overviews, no key occurs twice, and a later overview of an image
\* is never the larger one (sort_assets_for_cog against from_buffer).
FamiliesKeptTogether ==
    (closed /\ WellFormed(queue)) =>
        LET pages == PagesWritten
            page(i) == pages[PageOf(queue[i].of)]
        IN  \A i, j \in DOMAIN queue :
              /\ (page(i).key.image = page(j).key.image)
                   = (queue[i].key.image = queue[j].key.image)
              /\ page(i).key = page(j).key => i = j
              /\ page(i).key.mask = queue[i].key.mask
              /\ (page(i).key.overview > 0) = (queue[i].key.overview > 0)
              /\ page(i).roles = IF SubfileType(queue[i]) = 0 THEN {"data"} ELSE queue[i].roles

\* Overviews of one image come back numbered by falling area, where the
\* reader takes them for one image again.  (It takes the overviews of two
\* images for those of one when neither image is in the file.)
OverviewsFall ==
    closed =>
        LET pages == PagesWritten
        IN  \A m, n \in DOMAIN written :
              LET k == pages[m].key
                  l == pages[n].key
              IN  (/\ queue[m].key.image = queue[n].key.image
                   /\ k.image = l.image /\ k.mask = l.mask
                   /\ 0 < k.overview /\ k.overview < l.overview)
                    => written[m].rows * written[m].cols >= written[n].rows * written[n].cols

\* Every overview in the queue has one mask of its own size, and sizes differ.
MasksMatch(q) ==
    \A i, j \in DOMAIN q :
        LET area(k) == q[k].rows * q[k].cols
        IN  /\ (/\ q[i].key.overview > 0 /\ ParentKey(q[i].key) = ParentKey(q[j].key)
                /\ q[j].key.overview > 0 /\ q[i].key.mask = q[j].key.mask
                /\ area(i) = area(j)) => i = j
            /\ q[i].key.overview > 0 =>
                 \E k \in DOMAIN q :
                    /\ ParentKey(q[k].key) = ParentKey(q[i].key)
                    /\ q[k].key.overview > 0
                    /\ q[k].key.mask # q[i].key.mask
                    /\ <<q[k].rows, q[k].cols>> = <<q[i].rows, q[i].cols>>

\* A mask of an overview is read back under the key of the overview it
\* covers: the reader only counts (from_buffer), the writer only sorts.
MasksFitOverviews ==
    (closed /\ WellFormed(queue) /\ MasksMatch(queue)) =>
        LET pages == PagesWritten
        IN  \A m, n \in DOMAIN written :
              LET k == pages[m].key
                  l == pages[n].key
              IN  (k.image = l.image /\ k.overview = l.overview /\ k.overview > 0)
                    => /\ written[m].rows = written[n].rows
                       /\ written[m].cols = written[n].cols

\* The directory order of OGC COG Recommendation 3: behind each image its
\* mask, its overviews from the largest, their masks from the largest.
CogFile(f) ==
    /\ Len(f) > 1 => f[1].type = 0
    /\ \A n \in 2 .. Len(f) :
         LET before == f[n - 1]
             larger == before.rows * before.cols > f[n].rows * f[n].cols
         IN  CASE f[n].type = 0 -> TRUE
               [] f[n].type = 4 -> before.type = 0
               [] f[n].type = 1 -> before.type \in {0, 4} \/ (before.type = 1 /\ larger)
               [] f[n].type = 5 -> before.type = 1 \/ (before.type = 5 /\ larger)
               [] f[n].type \notin {0, 1, 4, 5} -> FALSE

\* When all pages of a file in COG order are copied, its images in their order
\* and the rest in any, they are found again under their keys, in their order,
\* with their roles (a copy through new_subfile_type_for_asset,
\* sort_assets_for_cog and from_buffer).
CopyKeepsPages ==
    (/\ closed /\ CogFile(file) /\ Len(queue) = Len(file)
     /\ \A n \in DOMAIN file : \E i \in DOMAIN queue : queue[i] = PageAsset(n)
     /\ \A i, j \in FullRes(queue) : i < j => queue[i].key.image < queue[j].key.image) =>
        /\ PagesWritten = Pages(file)
        /\ \A n \in DOMAIN file : written[n].of = file[n].of

\* A written file can be opened: from_buffer makes a provider of every
\* directory, or fails.
Openable(f) == \A n \in DOMAIN f : <<f[n].format, f[n].bits>> \in ReadableFormats

WrittenFilesOpen == Openable(written)

\* What an asset promises of one of its blocks: its samples, those of a mask
\* as 0 and 1.
AssetBlock(a, d, p) ==
    [i \in DOMAIN AllBands(d) |->
       [q \in (0 .. BlockRows(d, p[1]) - 1) \X (0 .. BlockCols(d, p[2]) - 1) |->
          LET s == Sample(a.of, i - 1, p[1] * d.bh + q[1], p[2] * d.bw + q[2])
          IN  IF IsMaskAsset(a) THEN Nonzero(s) ELSE s]]

ReadBlock(d, p) ==
    LET chunks == ChunkIndexes(d, p, AllBands(d))
    IN  DecodeBlock(d, p, AllBands(d), [i \in DOMAIN chunks |-> Chunk(d, chunks[i])])

\* In a file that opens, get_block gives the samples the asset had, with the
\* nonzero ones of a mask turned into 1, for every asset whose samples fit
\* their directory (pad_tile, bsq_to_interleaved, coerce_subbyte and
\* pack_subbyte_msb_first against src/tiff/image.rs).  Masks of several bands
\* or of wider samples come back scrambled.
PixelsComeBack ==
    Openable(written) =>
        \A n \in DOMAIN written : Fits(queue[n]) =>
            \A p \in Blocks(written[n]) :
                ReadBlock(written[n], p) = AssetBlock(queue[n], written[n], p)

\* A virtual view of a page shows its samples: the chunk that
\* tile_byte_ranges gives for a block and a band holds them where the codec
\* looks for them (virtualizarr_parsers.py, decode_tiff_tile).  The view
\* leaves masks out.
ShownAsStored(d, ranges) ==
    (d.holds = "samples" /\ Indexable(d) /\ WholeStrips(d)) =>
        \A q \in Pixels(d) :
            ViewSample(d, ranges, q[1], q[2], q[3]) = Sample(d.of, q[1], q[2], q[3])

ViewShowsThePage ==
    /\ Openable(written) =>
         \A n \in DOMAIN written :
            ~IsMask(written[n].type) => ShownAsStored(written[n], Ranges(written[n]))
    /\ \A t \in Threads : (call[t].pc = "done" /\ call[t].request.kind = "ranges") =>
         LET d == file[call[t].page]
         IN  ~IsMask(d.type) => ShownAsStored(d, call[t].got[1])
=============================================================================
