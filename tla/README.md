# A verification development for osml-imagery-io

`osml-imagery-io` reads and writes geospatial imagery (NITF/NSIF, TIFF, PNG,
JPEG, DTED, JPEG 2000) from local files and remote objects; a Rust core
(`src/src`) is used through Python bindings and a few Python modules
(`src/python`).  The modules in this directory are TLA+ models of the parts in
which state, order and failure matter, with the TLC instances that check them
and proofs checked by TLAPS.

All paths below are relative to the repository root, `src/`.

## 1. The system

| Component | State it keeps | Operations | What makes it hard | What makes it correct |
|---|---|---|---|---|
| **Remote range reads** `src/remote` | the resident byte ranges of one source (a sorted `Vec` behind a mutex) | `read_range`, `read_ranges`, plan, coalesce, fetch, fill, serve, self-heal | the lock is free while a read fetches, so several threads plan from one state of the cache and fill another; the header-aware plan depends on what is cached | only bytes of the source are cached and returned; what a plan leaves out as cached is still there when it is served; a read ends |
| **Stream adapters** `src/bindings/stream.rs` | a Python handle with one cursor, or an fsspec path | `read_at` (seek, then read), `read_many` (`cat_ranges`, or a loop of `read_at`), writes | the interpreter may switch threads between `seek` and `read` | positioned reads through a cursor are kept apart |
| **Open dispatch** `src/bindings/io.rs` | none once `IO.open` returns | detect the format, route sources by role, open each of them local, remote or as a stream | opening several sources, of which a later one fails or is listed twice | one writer per source; a level has the writer its role names |
| **Dataset writer** `src/bindings/writer.rs` | the inner writer, the handles the library opened | `add_asset`, metadata setter, `close`, context manager | every step of a close may fail; the upload commits when a handle closes | close returns, closes every handle, says Ok only if everything is stored |
| **Composite dataset** `src/composite` | base and per-level writers or readers, claimed keys, metadata | route by `overview:N`, close in the order of levels | partial failure in a pyramid of files | an accepted asset is in one place; the files agree on the metadata |
| **Format writers** `src/{jbp,tiff,png,jpeg,dted,j2k}/writer.rs` | queued assets, metadata, the output, `closed` | `add_asset`, `set_metadata`, `close` | they are closed before or after they encode, depending on the format | what is queued is written under its key |
| **JBP segments and TREs** `src/jbp` | segment offsets, metadata with repeated TREs, subheaders | split TREs between a field and an overflow DES, patch its index, calculate HL, locate segments, collect TREs | indices and lengths that are known only after what they are written into; fixed-width fields; copies of copies | every TRE comes back, in order and in its container; the reader looks where the writer wrote |
| **JBP image blocks** `src/jbp/image` | block masks, decoders | blocks of four interleaves, masked blocks, pyramid levels | offsets of masked and padded blocks | a block is read where it was written |
| **Buffered assets** `src/buffered` | image blocks behind two locks, a metadata map | set and get blocks, metadata of repeated keys | two locks, one after the other | blocks and the flags that they are there agree |
| **Tile assembly** `src/assembly` | none | assemble a tile from source blocks | edge tiles, other grids | every pixel comes from the block that covers it |
| **Structure parser** `src/parser` | definitions, registry, cached offsets | field access, expressions, writing of structures | conditional and repeated fields; cached offsets | a field is found where it is written |
| **Owned buffer** `src/owned_buffer.rs` | a file, a memory map, a fetcher | slices and sub-views | out-of-range views | a view never leaves its parent |
| **TIFF pages** `src/tiff` | directories, one libtiff handle for all images of a file, the writer's queue | classify directories, sort and write them, read tiles and strips, publish chunk tables and codec settings | keys are not stored and have to be counted back from the order of directories; one current directory for all threads | a page comes back under its key with its pixels; a read sees its own page |
| **Readers** of PNG, JPEG, DTED, J2K | parsed headers | list assets, read blocks | mostly inside C libraries | - |
| **Foreign function layers** `*/ffi.rs` | library handles | calls of libtiff, libjpeg, OpenJPEG | outside the repository | - |
| **Python helpers** `python/aws/osml/io` | reference tables, fetchers per source | virtual datasets, multi reference file system | shared fetchers | a reference is resolved against its own source |

### How the components interact

A caller opens a dataset with `IO.open`.  For reading, the open dispatch wraps a
remote source into a `StreamFetcher` (range cache, prefetch policy, stream
adapter) inside an `OwnedBuffer`; the format reader parses the header through
it, and blocks are then read from any number of threads, which share the
fetcher.  For writing, the dispatch opens one output for each source and makes a
format writer for it, a `CompositeDatasetWriter` above them when there are
several, and the Python `DatasetWriter` above all of that, which also owns the
handles of remote outputs.  Nothing is written until `close`: it encodes the
queued assets writer by writer, and afterwards closes the handles, at which
moment the uploads commit.  All images of a TIFF file read through one handle of
libtiff behind a mutex; a virtual Zarr view asks the same images for the byte
ranges of their chunks and for the settings of the codec, and later decodes the
chunks without the file.  A JBP writer takes the metadata of each queued asset,
possibly an asset of a JBP reader, and spreads its TREs over the file that the
reader has to put together again.

## 2. The modules

| Module | Models | Composed with |
|---|---|---|
| `ResidentBytes` | the promise of the cache: a map from offsets to resident bytes | refined by `RangeCache` |
| `RangeCache` | `cache.rs`: the sorted `Vec` of merged ranges; `coalesce` of `fetcher.rs` | `INSTANCE ResidentBytes` |
| `Sorting` | what `sort_by_key` and `filter` do: ranks of positions, the elements at some positions | used by `RangeCache`, `TiffPages`, `JbpFile` and `DatasetWriting` |
| `RangeCacheProofs` | theorems about `RangeCache` | extends it and `BasicLemmas` |
| `BasicLemmas` | quotients and remainders, induction over a set of numbers, loops over a vector, sorting by a key, filtering | used by the proofs about blocks, vectors and files |
| `RangeReads` | the promise of a `RangeReader`: a call returns the bytes of its spans or fails | refined by `StreamFetcher` |
| `StreamFetcher` | `fetcher.rs`, `policy.rs` and the Python stream adapter, with any number of threads | `INSTANCE RangeReads` |
| `StreamFetcherProofs` | theorems about `StreamFetcher` | extends it and `TLAPS` |
| `DatasetPromise` | the promise of a `DatasetWriter` (`traits/writer.rs`) | refined by `DatasetWriting` |
| `DatasetWritingProofs` | theorems about `DatasetWriting` and `CompositeReading` | extends them and `BasicLemmas` |
| `DatasetWriting` | `IO.open` for writing, the Python writer, the composite writer, the six format writers | `INSTANCE DatasetPromise` |
| `CompositeReading` | `IO.open` for reading by roles, the composite reader, the keys of a format reader | extends `DatasetWriting` |
| `JbpFile` | the TREs and segments of JBP files over generations of copies | extends `Sorting` |
| `JbpFileProofs` | theorems about `JbpFile` | extends it and `BasicLemmas` |
| `TileGrid` | block grids, tiles in band-sequential order, the tile assembler | - |
| `BlockLayout` | uncompressed JBP segments: encoder offsets, decoder offsets, data mask, what the provider answers | extends `TileGrid` |
| `PictureArchive` | the promise of writing an image and reading it back, pixel by pixel | refined by `ImageSegment` |
| `ImageSegment` | the in-memory image, the block loop of the JBP writer, the file, the copy-on-write image over it | extends `BlockLayout`, `INSTANCE PictureArchive` |
| `ImageSegmentProofs` | theorems about `TileGrid`, `BlockLayout` and `ImageSegment` | extends them and `TLAPS` |
| `TiffPages` | types of directories: the writer's sort, the reader's keys and roles | - |
| `TiffChunks` | tiles and strips: the writer's layout, `get_block`, byte ranges, the virtual view | - |
| `TiffReading` | the open file: the shared handle, its lock and the calls of the threads | extends `TiffPages`, `TiffChunks` |
| `TiffFile` | the TIFF writer beside an open file, and what is read back of its output | extends `TiffReading` |
| `TiffFileProofs` | theorems about `TiffChunks` and the readers | extends `TiffFile` and `BasicLemmas` |
| `TiffWriterProofs` | theorems about the writer, its sort and what is read back | extends `TiffFileProofs` |
| `MCStreamFetcher`, `MCDatasetWriting`, `MCJbpFile`, `MCImageSegment`, `MCTiffFile` | small instances | extend the above |

### RangeCache

`ranges` is `RangeCache.ranges`.  `CacheInsert` is the loop of `insert`: the new
range absorbs each resident one it touches (`RangesTouch`, `Merge`) while it
grows (`Swept`), and the result is sorted by start (`ByStart`).  Each byte is tagged with the fetch it
came from, so that a merge that prefers old bytes is told from one that prefers
new ones.  `FillCache` inserts the fetched ranges of a plan in order (`Filled`).
Each loop is a function from the number of passes to the loop's state, so that its
invariant can be proved.  `Coalesce`
sorts the planned ranges and merges those that overlap or abut (`Sweep`).  The
`Vec` implements `ResidentBytes`, in which a fill overlays bytes on a map.

### StreamFetcher

A thread's program counter follows the code: `ReadRange` and `ReadRanges` check
the bounds and plan under the lock (`Plan`), `CatRanges` or `Seek`/`Read` fetch
with the lock free, `Fill` inserts under the lock, `Serve` reads from the cache
or goes to `Heal`, which fetches the one request again, `HealInsert` caches that
and `Return` answers.  A failed fetch (`FetchFails`, `ShortRead`) ends the call.
`Plans` lets the policy be the header-aware one or any other that plans
arbitrary ranges inside the source, since `PrefetchPolicy` is a public trait.
The cache is a function from offsets to bytes: that the `Vec` behaves as one is
what `RangeCache` shows.  `cursor` is the position of a handle without fsspec
references; `Contained` says that only one thread reads through such a handle.

### DatasetWriting

A slot is a source that has been opened for a role.  `OpenSource` opens the next
one of the plan: a path (`open_multi_path_with_roles`), through fsspec with a
handle that is kept if it is remote, or a stream of the caller
(`open_multi_stream_with_roles`), which is refused a second role.  `AddAsset`
claims the key and routes the asset to a format writer, under its parent's key
if it is an overview.  `CloseWriter` finalizes the writers one after the other,
`Commit` closes the handles, and `EndClose` returns.  What each format does in
`add_asset` and `close` is in `FormatAdd` and `FormatClose`; an encoding error, a
write error and a failing handle are choices of the model.  Encoded content is
abstracted to the set of keys a file holds and, in the formats of `Describing` (the
NITF header, the text chunks of a PNG, the header fields of a DTED), the dataset's
metadata; TIFF has no use for that metadata, and JPEG and JPEG 2000 only look for
encoding hints there.

Each slot has a stream of its own, as each entry of the list is opened on its own.
Where two slots are one path (the finding `role_reuse`) those streams end in one
object, and `Overwritten` says whose content is lost: what such a slot wrote is not
counted as stored, `FilesAgree` says nothing of it, and the promise of the writer
is stated for datasets whose sources have one writer each (`OneWriterPerSource`),
which over streams the code makes sure of (`StreamsHaveOneWriter`).

`CompositeReading` opens the files such a run has left, as the same sources with
the same roles.  `FileOpens` and `FileKeys` are a format reader, which numbers the
assets of a file by kind; `OverviewKey`, `ListedKeys` and `GetAsset` are
`CompositeDatasetReader`.  Its property asks of the composition what a caller
expects: the pyramid opens, each accepted overview is got under its level as it was
given, the other keys listed lead to the other accepted assets and to nothing else,
and no two of them to one asset.  It is stated for complete pyramids: one file for
each level and one writer for each file, an image in the base, and overviews that
are images, all of one image; a TIFF file has one page, since the keys of several
are those that the reader counts (`TiffFile`), not those of `FileKeys`.
(A JBP pyramid takes a text under an overview key too, and without an image in that
file it does not open.)  Outside of it the two sides differ: of two sources for one level
the writer fills the first and the reader shows the last (`OverviewKey` is a key
of a map there), and the reader shows the overviews of any image as those of
`image:0`.

### JbpFile

A TRE is a tag, a size and an identity.  `Split`, `ImageField`, `HeaderField`,
`Patched`, `OverflowSegments` and `IndexFor` are the passes of
`JBPDatasetWriter::close`; `HeaderFieldLen` is what `calculate_header_length`
counts, `FieldBytes` what is written.  `Readable`, `DataLength` and `FoundAt` are
`SegmentOffsets::from_header` with the all-nines length (`SumTo` adds up lengths).
`NumbersFit` says that every number of the header has a place in its field: the
writer's widths are minimums, so a text of 100,000 bytes is written with six digits
where LT has five, everything behind it is read one place off, and when no DES
follows the file may well open, its segments at wrong places and with wrong
lengths.  That is a loss of the code which `SegmentsLocated` leaves out and
`Reopen` does not go on from; `Limit` gives each field its first number too long.
`Collect` and `Fetch` are the reader's gathering of TREs, `ReaderProvider` and `BufferedProvider` are the
two orders in which a metadata provider lists repeated tags.  `CopySegment` adds
an asset of an open file to the next writer, `Reopen` goes on to the next
generation.  Sizes are scaled down: a field holds four bytes where the code has
99,996, and the limits of LT and the other fields are a few units.  Graphics, which have the
writing of texts with another width, reserved segments, which the writer never
writes, and the UDHD field, which it leaves empty, are left out.

### TileGrid, BlockLayout and ImageSegment

A tile is what `get_block` returns: a shape and samples in band-sequential order.
`OutputTile` is `TileAssembler::get_output_tile`: the source's own block if the
grids match, otherwise every pixel from the source block that covers it, by the
stride of the tile that block returned.  `BlockLayout` keeps the two sides of a
segment apart: `WriteOffset` is translated from the encoder, `ReadOffset` from
the decoder, each with its own branches for band-sequential segments, bit packing
and row padding.  Bytes are units of four bits, and unit `k` of a value is the
pair of the value and `k`, so that a decoder that takes other units, or the same
ones in another order, finds `Garbled`.  The mask is a table of records
(`InitialRecords`, `MaskTable`); masked blocks follow each other in container
size, as they are written.

`ImageSegment` puts the parts in motion.  `SetBlock` and `SetFullImage` paint the
image, `StartWrite` begins the encoding of a close with any interleave, masked
or not, and any block size, `EncodeNext` reads one output tile from the image as
it is at that moment and encodes it, `SourceFails` ends the write with an error,
`FinishWrite` leaves a file, and `Derive` makes the copy-on-write image of
`from_provider` over that file, possibly on another grid, which is painted and
written in turn.  `shown` and `held` are history variables: the picture the image
shows, and what each pixel has shown since the running write began.

`PictureArchive` knows nothing of blocks: painting changes pixels, a save that
finishes holds at each pixel something the picture showed during it, a reopened
picture is the saved one.

### TiffPages, TiffChunks, TiffReading and TiffFile

A directory has its `NewSubfileType`, its size, bands, bits and chunks, and the
image it holds; that is all the reader has to tell pages apart.  `Classify`
goes over the directories as `from_buffer` does, with its four counters and the
flag that a full-resolution image has been seen.  `SortKey` and `CogOrders` are
`sort_assets_for_cog`: images in their order, behind each its children by rank and
falling area, and at the end the groups whose image is missing, which the code
keeps in a hash map and the model therefore orders in every way.

`Chunk` is what the writer puts into a tile (`pad_tile`, `bsq_to_interleaved`, the
packing of `bitpack.rs`) and what libtiff finds in a foreign strip, cell by
cell; `ChunkIndexes` and `DecodeBlock` are `get_block_tiled` and
`get_block_stripped`, `Ranges` is `tile_byte_ranges`, and `ViewSample` follows a
sample through `_build_manifest_array` and `decode_tiff_tile`.  Compression is
left out, since libtiff undoes it (JPEG up to its loss), but for its influence on
which settings a codec gets and which assets can be written.

`Stored` says what became of a sample: a mask is written as one bit a sample, and
`coerce_subbyte` makes every nonzero value 1 (`Nonzero`).  `write_image_ifd` cuts
samples by the bits its directory names but never repacks them, so the samples of
an asset have to fit: `Fits` holds of masks of one band in bytes, of packed
samples in bytes, and of samples that fill their container.  What does not fit
(a mask of several bands or of wider samples, twelve bits in two bytes) is stored
as `Misread`, of which no property says anything.  `ReadableFormats` is
`map_pixel_type`; a file with any other directory does not open, a mask whose
provider hands out signed or floating-point samples among them.

In `TiffReading` a call goes through `Lock`, `SetDirectory`, `Read` and `Release`,
and `Fail` drops the guard from wherever an error returns.  What is read depends
on `handle.dir`, the one current directory, and not on the page of the caller.
A block or a chunk table is read under one lock, a codec configuration under two.
In `TiffFile`, `AddAsset` queues an asset of the program or a page of the open
file under its key, `Close` sorts and writes, and `CloseFails` returns an
error after it has sorted.  The writer's steps and the readers' touch different
variables and commute, so the specification lets the one move only while the
other is at rest (`WriterAtRest`, `ReadersAtRest`).

## 3. What is checked

| Run | Instance | Result |
|---|---|---|
| `range_cache` | five bytes, any number of fills of up to two planned ranges each, two byte values | `Separated`: sorted, non-empty, never touching. `ServesWhatIsResident`: a request is served exactly when all its bytes are resident, also across a seam. `CoalesceExact`: the fetched ranges are the planned bytes, as few ranges as possible. `RefinesResidentBytes` |
| `remote_reads` | two threads, three bytes, header region of one byte, both kinds of handle, both kinds of policy, failures | `TypeOK`, `CacheCoherent`, `FetcherInv` (the inductive invariant), `HeaderAwareNeverHeals`, `ReadsTheSource` (the refinement of `RangeReads`), `FairReadsEnd` |
| `cursor_race` | the same with a cursor handle | **violated**: see findings |
| `dataset_writing` | up to three sources, five assets, six formats | `TypeOK`, `WritingInv` (the inductive invariant). `FilesAgree`: a file holds what its writer accepted, and the files of a format that carries the dataset's metadata (JBP, PNG, DTED) carry the same. `AcceptedHaveAPlace`, `NoHandleDangles`, `NothingWrittenAfterCommit`, `KeepsThePromise` (the refinement; no source of this instance has two writers), `CloseReturns`. `PyramidReadsBack`: what a composite writer has written, a composite reader shows |
| `role_reuse`, `duplicate_key` | parts of it | **violated**: see findings |
| `jbp_file` | files of up to three assets, of which two new; one copy of a file the library wrote or of a foreign one | `TypeOK`, `OverflowOwned`, `TresComeBack`, `CopyKeepsRepeats`. `SegmentsLocated`: when every number fits its field of the header, a reader that opens the file finds each segment at its place and with its length |
| `jbp_lone_tre` | the same | **violated**: see findings |
| `image_segment` | 2x3 pixels, two bands, 8 and 12 bits, blocks of 2x2 and 1x4, four interleaves, two paintings, two writes | `TypeOK`. `AnnouncedBlocksReadable`: a block that is announced has its full shape and no garbled sample, in memory, in a copy and in the file. `RangesHoldTheBlock`: a published byte range is the block's, whole; segments of IMODE=S with several bands, which keep a block in pieces and whose ranges are wrong, are left out. `MaskTellsProvided`: the mask says of each block what the provided set said; masked writes of IMODE=S with several bands are left out. `KeepsThePicture`: the refinement of `PictureArchive` |
| `masked_reblock` | the same, masked writes may change the grid | **violated**: see findings |
| `tiff_file` | two threads; a file in COG order with two images, overview and masks, one with its mask and overview in front of the image and planar strips, one with a single page; seven assets of the program, up to five in a file; tiles in multiples of two | `TypeOK`. `FamiliesKeptTogether`: children come back with their own image, masks as masks, overviews as overviews. `OverviewsFall`: overviews of an image are numbered from the largest (where their image is missing, the reader takes them for overviews of the image before, and counts on). `MasksFitOverviews`: a mask of an overview has the size of the overview whose key it gets. `CopyKeepsPages`: a file in COG order is copied page for page, in whichever order children are added. `PixelsComeBack`: in a file that opens, `get_block` shows the samples of each asset that fits its directory, those of a mask as 0 and 1. `ViewShowsThePage`: the virtual view shows the samples of every page but masks. `ReadsTheirPage`, `BlocksReadBack`: no call sees the directory of another. `HandleFreed`: the handle is always freed again |
| `tiff_twelve_bit` | one asset of twelve bits | **violated**: see findings |

**Bounds.**  In `range_cache` five bytes hold two separate ranges with a gap, a
range that bridges them and one that abuts either, even three ranges that one new
range meets; the number of fills is not bounded, and two byte values tell a byte
that was kept from one that was overwritten.  In `remote_reads` two threads are enough because a
read is disturbed by others only through the cache and the cursor, and both are
changed in any way by one other thread making any calls; three bytes tell header
from body, and a request that is half cached from one that is cached.  In
`dataset_writing` three sources allow two levels in and out of order, and one
level twice; the assets contain an overview under two texts of its level and one
of another level, which has its own file in some openings and none in others.  In `jbp_file` three assets allow a copied image and
its copied overflow segment next to a new image that overflows, in every order;
one copy suffices because a copy starts from an arbitrary file of the first
generation, and the foreign file adds what the library never writes (both
fields, interleaved repeats, an index without a segment).  In `image_segment` 2x3 pixels leave a narrow
edge block with 2x2 blocks and blocks wider than the image with 1x4 (which the
writer clamps), 12 bits are packed across byte boundaries, and two writes make a
file, a copy of it and a file written from the copy; two paintings tell what was
there before a write began from what was painted while it ran.  `MaskedReblock`
and `MaskedSequential` are FALSE there: masked writes keep the image's grid (the
finding) and have no band-sequential order (the comment at
`jbp/image/mask.rs:376` says that its lookup is simplified).  In `tiff_file` two
threads suffice to change the directory between any two steps of a call, the
pages of the three files cover tiles and strips, chunky and planar, packed and
whole samples, short strips and narrow edge tiles, and five assets hold an image
with two overviews and their masks, one mask in bytes, one in two-byte samples; `TileMultiple` is two where the code has
sixteen, so that tiles are larger than small blocks and larger than the image.
Deadlock is not
checked in the runs whose system really stops: a closed dataset, a written file,
fills used up.

**Fairness.**  `FairReadsEnd` assumes weak fairness for the steps of one thread:
the operating system schedules it, a fetch ends with bytes or an error, and the
cache mutex is held only for steps that cannot block.  Nothing is assumed of the
other threads.  `CloseReturns` assumes that a close which has begun is
executed by its thread; no call inside it waits for another actor.
`HandleFreed` assumes weak fairness of the steps of a call that has begun.  It
says no more than that an owner lets go of the handle: `std::sync::Mutex` does not
promise that a waiting thread is ever the next, and nor does the model.

**Mutants.**  Each property of a passing run has a faulty variant of one
definition (`PROJECT.json`, "mutants"), kept in the module next to the definition
it replaces: a touch test that forgets abutting ranges, a plan that forgets what
is cached, an index counted from zero, and so on.  The property fails with it.

### Findings

* `cursor_race`: a handle without `.fs` and `.path` is read by `seek` and `read`
  from any number of threads with no lock, although `bindings/stream.rs:127`
  requires that this path is never entered by two threads.
* `role_reuse`: by path, a source listed with two roles is opened for writing
  twice; over streams the same call is refused (`bindings/io.rs:1720`).
* `duplicate_key`: the composite writer claims a key before it knows that the
  asset can be routed, so a refused asset is a "duplicate" when it is added again.
* `jbp_lone_tre`: an image whose first TRE alone does not fit its field (99,986
  bytes of data or more) is written without an overflow index, so its TREs are
  lost; the file header handles the same case.
* `masked_reblock`: a masked write on another grid looks up positions of the
  output grid among the provided positions of the image's own, so blocks that
  are there are left out of the file.
* `tiff_twelve_bit`: the TIFF writer records the significant bits of an image as
  its `BitsPerSample`.  An image of a JBP file with ABPP 12 in two-byte samples
  becomes a file that says 12, and `map_pixel_type` refuses it, while the user
  guide says that such data round-trips.

## 4. What is proved

`StreamFetcherProofs` proves, for any number of threads, any source, any set of
requests, the header-aware policy and any other:

* `FetcherInvariant`: `Contained => (Spec => []FetcherInv)`, in three steps:
  `Init => FetcherInv`, `FetcherInv /\ [Next]_vars => FetcherInv'` with one lemma
  for each action, and the temporal conclusion.
* `TypeCorrect`, `CacheCoherence` and `NoSecondFetch`, which are consequences of
  it.
* `ReadsSeeTheSource`: the fetcher implements `RangeReads`.  Its initial states
  map to initial states, and every step to a step of a call or to a stutter
  (`NextRefines`); that an answer is the requested bytes follows from the parts
  `ServedExactly` and `NothingForgotten` of the invariant.

The assumption `Contained` is a constant of the model: a handle that is read
through its one cursor is used by one thread.  It says nothing of handles with
fsspec references, the ordinary remote ones, which any number of threads share.
Without it the cursor race of the findings makes `CacheCoherent` false, so it
cannot be dropped.

`FetcherInv` is `TypeOK` together with facts that tie a thread's place in its
call to the cache: the plan of a read under the header-aware policy covers
every byte of its requests that was not resident when it planned; residency
only grows, so a byte left out as resident stays so; what has been fetched for a
thread and not filled yet are bytes of the source; after the fill every
request is resident.  `HeaderAwareNeverHeals` and `ReadsTheSource` are not
inductive alone: each speaks of a state (`Serve`) whose reason was established
three steps earlier (`Plan`), in between which the other threads have moved.

`RangeCacheProofs` proves, for any source, any bytes, plans of any length and any
sequence of fills:

* `RangesSeparated`, `ResidentBytesServed` and `CoalesceCovers`: the three
  invariants of the run.
* `VectorImplementsMap`: the vector implements `ResidentBytes`; planning is a stutter
  of it, a fill is `Fill`.

The inductive invariant `CacheInv` is short: the vector is in order with gaps, inside
the source, and the plan consists of ranges of it.  The work is in the three loops,
each with an invariant of its own.  That of `insert` is `PassInv`: the ranges kept are
resident ones, in order, each with a gap to the growing new one, and together they
hold the bytes of the ranges seen and, where those have none, the new bytes.  A kept
range could only meet the new one after it has grown by absorbing a later one; but a
kept range that lies behind the new one lies before every later one, so nothing later
touches the new one any more (`AbsorbKeepsPassInv`).  That is why one pass is enough,
and it needs the vector to be sorted.  `SweepInv` (the merged spans cover what the
spans seen cover and start no later than those to come) and `FillInv` are those of
`coalesce` and `fill_cache`.

Induction over data is done in `BasicLemmas` for sets in place of predicates
(`SetInduction`: the passes after which an invariant holds are a set that contains 0
and, with each number, the next).  `LoopExists` gives the sequence of states of a loop,
and `ArrangedInOrder` says that sorting yields a bijection that follows the order: an
element's rank is the number of those before it, and ranks that differ are all ranks.

`DatasetWritingProofs` proves, for any list of sources and roles, any set of
assets and metadata and each of the six formats:

* `WritingInvariant`: `Spec => []WritingInv`, again with one lemma for each action.
* `WritingTypeCorrect`, `EveryAssetHasItsPlace`, `WrittenFilesAgree`,
  `EveryHandleIsClosed` and, as an action property, `WritesPrecedeCommit`.
* `PromiseIsKept`: `Spec /\ []OneWriterPerSource => KeepsThePromise`: the writers,
  files and handles together implement `DatasetPromise`, when no source has two
  writers.  The hypothesis cannot be dropped: by path the code opens a source for
  each of its roles, two writers then write over each other, and close still says
  Ok (`role_reuse`).  Opening and setting metadata are stutters of it, an accepted
  asset is `Accept`, closing a writer or a handle is `Store`, and the return of
  close is `Settle`.

* `PyramidsAreReadBack`: a complete pyramid (`PyramidComplete`, which asks for one
  writer per source too) is read back by the composite reader.

`WritingInv` ties the stages of a dataset to its parts.  `StagesInOrder` says
what has not happened yet in a phase, `HandlesInOrder` that a handle is closed
only after the writers and that a lost one is remembered as an error,
`StreamsInOrder` that a writer whose turn has come has written its queue unless
an error is on record.  It needs `AcceptedHaveAPlace`: from the accepted keys being
the queues of the writers, and from the two orders, it follows that success
means every accepted key is in a committed file (`AllIsStored`).  That the place
of a key is free before it is taken rests on the duplicate test of each format
(`AcceptedIsNew`), since the composite writer compares keys before, not after, it
replaces them by their parents.  The close of every format is used through one
lemma only (`FormatCloseKeeps`).  The assumptions are those on the constants of
the module, which TLC evaluates: roles are lists of numbers, the streams of a caller
are not remote, an asset is a key and a type, the formats are the six.

For pyramids `WritingInv` is too coarse, since it speaks of the keys in a queue only.
`QueuesHold`, which is inductive relative to it, speaks of the assets: no queue has a key
twice, each element of a queue is an accepted asset of that type under the key of
its place, and no overview is accepted for a level without a slot.  The first
slot of every plan has level 0 (`PlanStarts`: the list of overview entries is a
sequence, whatever the roles), so an overview is never in the base.  A file of a
level then holds one element only (`PyramidEntries`): all its elements are
overviews of one image, stored under one parent key.  That the reader's numbering
of a file by kind is one to one is a fact about filtering (`PickedElements`).

`JbpFileProofs` proves, for any TREs, tags, sizes and capacity of a field, any
assets and metadata, any foreign file and any number of generations:

* `JbpInvariant`: `Spec => []JbpInv`.
* `JbpTypeCorrect`, `OverflowIsOwned`, `TresAreKept`, `CopiesKeepRepeats` and
  `SegmentsAreFound`: the five invariants of the run, the last for files whose numbers
  fit the fields of the header (`NumbersFit`).

`JbpInv` says three things.  A file that has been written is `WrittenFile` of the queue
and the metadata, which do not change after a close.  What is queued of an image, and
the metadata, are `Grouped`: the instances of a tag stand together, since they come
from a provider, and leaving out unknown tags keeps them so.  And the TREs of a
copied image are what the library can write of those its original hands out
(`AsAdded`).  `TresComeBack` needs the second: a reader groups what it collects, and
only on a grouped list is that the identity (`GroupedStays`); without it, a file with
the instances of a tag apart is read back in another order.  `CopyKeepsRepeats` needs
the third.  The rest is about close:

* a split loses nothing and is in order (`SplitParts`), and field, then overflow, put
  together give the list that was split (`SplitComesBack`), but for an image that
  `LosesTres`, for which the property claims nothing;
* the segments of overflow stand behind the copied ones, one for each container that
  spills, so that the position found for a container is that of its own segment
  (`OverflowParts`, `IndexParts`, `SpilledParts`).  It holds although copied segments
  name containers of the earlier file: they are counted, not searched;
* the header length that is calculated ahead is the length written
  (`HeaderFieldParts`, `FileParts`: queued assets are of three types, so their number is
  that of the segments), and the offsets of both sides are sums of the same terms
  (`SameSums`).  At most one term is unknown, and the rest of the file size is that
  term (`OneTerm`).

Sums are recursive functions (`SumTo`), of which `SumStep` proves the recursion.  The
assumptions are the types of the constants (`LengthAssumption`, `BoundAssumption`,
`InputAssumption`) and that the sort order of the tags lists each once
(`TagAssumption`).  A foreign file may be any file of the model's type: its
fields may refer to segments that do not exist, and its header length may be wrong.

`ImageSegmentProofs` proves, for any image size, number of bands, block size,
interleave and bit depth of `SegmentAssumption`:

* `TilesPartitionTheImage`: every pixel is in exactly one block of a grid, inside
  what that block has at the edge.
* `OffsetsAgree`: the decoder takes each sample from where the encoder put it;
  `SamplesApart`: different samples have no unit in common; `RoundTrip`: from these
  two, an encoded block is found by the decoder and the rest of the segment is
  untouched.  The formulas differ in form (the encoder splits a converted block
  into equal slices, the decoder walks it by rows), and what makes them agree is
  that the position of a sample in a block, divided by the samples of a band,
  gives back slice and place (lemmas on `ModePosition`).
* `TypeInvariant`, `MaskIsTold` and `RangesAreWhole` from one inductive invariant
  `IInv`: `TypeOK`, the image is `Sound` (its blocks are tiles of its grid), the
  running job follows the hints it started with (`JobSound`: the records before
  its place say what the provided set says, the others are as they were made),
  and the file is the one such a job leaves (`SegmentSound`).  `MaskTellsProvided`
  is not inductive alone, since it speaks of the end of the block loop only.
  `MaskIsTold` assumes `~MaskedSequential`, without which it is false for several
  bands.
* `BlocksAreReadable`, and `PictureIsKept`: the segment implements `PictureArchive`.
  Setting a block or a whole image is `Paint`, `StartWrite` is `BeginSave`, the end
  of the block loop `FinishSave`, a rejected or failed write `AbandonSave`, `Derive` is
  `Reopen`, and encoding a block is a stutter.

The last two rest on the inductive invariant `PictureInv`, which TLC found to hold of
all reachable states of `image_segment` before it was proved.  Its parts:

* every block of the image is `Whole` (the shape its place in the grid gives it, each
  sample a value or fill), and `shown` is the picture of the image;
* a finished file is `Complete`: each of its blocks is read in full shape with no sample
  garbled, and the samples of blocks it does not have are fill;
* `JobKeeps`, about a write in progress: the blocks promised at its start are still
  provided, what a pixel shows now is among what was seen since (`held`), and the blocks
  encoded so far decode to samples that were seen.  Pixels outside the promised blocks
  were absent when the write began.

That blocks encoded earlier stay as they are is `RoundTrip` for segments without a mask
(`PlainKept`).  With a mask, blocks are appended and the table is put in front
at the end, so that a block moves: `PieceMoves` says that its units decode
to the same samples wherever they stand (`PieceKept`, `MaskedKept`).  That absent
blocks were absent pixels needs the grid of the file to be that of the image, which
`ClampedBlock` gives unless another block size was asked for.  Both theorems
therefore assume `~MaskedReblock` and `~MaskedSequential`.  These are the settings of
the passing run, and what happens without the first is shown by `masked_reblock`.

`TiffFileProofs` proves:

* `BlockDecodes`: `get_block` decodes the block it was asked for, for any image and
  chunk size, number of bands, width of samples and selection of bands.  The
  index of a chunk is turned back into plane, row and column (`PlanePosition`),
  and so is the cell into row and sample (`ChunkPosition`); packed rows have the
  same number of cells on both sides (`PackedRow`, `UnpackedCell`).  `AssetsDecode`
  follows for the directories the writer makes: with the assumption `Fits`, and of a
  format the reader knows, `get_block` gives the asset's own samples, the nonzero
  ones of a mask as 1.
* `CallsReadTheirPage` and `HandleExclusive`, for any number of threads, from one
  inductive invariant: a thread owns the handle exactly while it is between lock and
  release, the current directory is its page once it has set it, and what it has
  read so far are the answers of its own page.  `ReadsTheirPage` alone is not
  inductive, as it speaks of finished calls only.
* `BlocksAreRead`, from these two: what any thread gets for a block of any page is
  that block.

They assume that a file consists of directories libtiff can hold and
`map_pixel_type` accepts (`ForeignAssumption`), and that the value for "no owner"
is not a thread.

`TiffWriterProofs` proves, for queues and files of every length:

* `TiffTypeCorrect`, from the invariant `WriterInv`: the keys in the queue differ, and
  once the writer is closed the queue is `Sorted` and there is one directory for each
  asset.  `Sorted` says what sorting by `SortKey` comes to: nothing of another image
  stands between two assets of one image, the image itself is first, and its children
  follow by rank and falling area.  That the sort yields every asset once is
  `ArrangedInOrder`; that a hash map may order the groups without an image in any way
  makes no difference, as two assets are in one group exactly when they belong to one
  image (`GroupIsImage`).
* `WrittenPixels` and `ViewIsFaithful`: in a file that opens, every sample of every page
  whose asset fits its directory comes back through `get_block` (of a mask, whether it
  is zero), and, but for masks, is in the chunk, and at the cell, at which the virtual
  view looks for it.  The latter also holds for pages of opened files.
* `OverviewsComeBackFalling`, `FamiliesStayTogether`, `MasksComeBackFitting` and
  `CopiesComeBack`: the order that the writer chooses and the counting of the reader
  fit together.

The last four need what the reader has counted after each directory, which the model
defines by a recursive function: `CountersExist` turns it into a sequence of counters
and `Counts` says what one directory does to them.  From these, `SegmentsRise` and
`CountersKeep` follow by induction: numbers of images rise, and between two images the
numbers of overviews and of masks rise and what they belong to stays.  So pages have one
number exactly when they had one image (`SameImage`).  `NumbersAreDense` says that
overviews and masks are numbered without gaps.  With it, a mask that came back under
the number of an overview of another size leads to one with a smaller number, in
whichever of the two orders the mask of the right size comes (`PairsFit`).  For
copies, `CopyRises` shows that the place of a page in the sorted queue rises with its
place in the file, so that it is its place in the file (`RisingIsIdentity`).

The hypotheses of the four are those of the properties: `FamiliesKeptTogether` speaks of
queues in which each child has its image, `MasksFitOverviews` of those where each
overview has one mask of its size, `CopyKeepsPages` of files in COG order.  Assets are
assumed to have sizes and bands of at least one and a width of samples that can be
written (`AssetsAssumption`: `pack_subbyte_msb_first` asserts 1, 2 or 4 bits below a
byte, so the writer panics on 3, 5, 6 and 7).

**Model-checked only.**  `FairReadsEnd`, `CloseReturns` and `HandleFreed` are liveness
properties under fairness, which the provers cannot reach.  All invariants and action
properties of the passing runs and the four refinements are proved, where it is said
so under the assumption named.

## 5. What is not modelled

Encoding and decoding of pixels, fields and codestreams; the C libraries and
their wrappers; mutex poisoning after a panic; eviction (the cache has none);
the digits of fixed-width fields and what a reader makes of a header shifted by a
number too long for its field; the file name convention of R-sets; of the
Python helpers everything but the chunks of a TIFF page.  Of TIFF: tags that carry
metadata, JPEG colour conversion and loss, byte order, BigTIFF, what the scrambled
samples of masks of several bands or of wide samples are, the
output that is gone after a write error, and views of pages whose last strip is
short (what Zarr does with a short chunk is not in this repository).  Of images: band selection, sources smaller than the image they
are wrapped in, compressed blocks, depths of one and two bits, the parallel
read path of pixel-interleaved blocks.  Of reading composites: role
filters, the cache and the forwarding methods of the wrapper.  The structure parser
is the next part of the plan.

## 6. Plan

In the order of their weight:

1. `RangeCache`, `StreamFetcher`, `DatasetWriting`, `JbpFile` with their abstract
   specifications (done).
2. `TileGrid`, `BlockLayout`, `ImageSegment`, `PictureArchive` (done).
3. `TiffPages`, `TiffChunks`, `TiffReading`, `TiffFile`: the writer's order of
   directories, the reader's classification of them, and the shared libtiff handle
   (done).
4. `CompositeReading` (`composite/{reader,wrapper}.rs`, `bindings/io.rs` for
   reading): what a composite writes a composite reads (done for pyramids of
   separate files; left: levels that exist in the base file too).
5. `StructureAccess` (`parser/accessor`, `parser/writer.rs`, `registry.rs`):
   offsets of conditional and repeated fields; the registry's lazy loading
   under threads.
6. `MultiReference` (`python/aws/osml/io/multi_reference_fs.py`) and the segment
   cache of `jbp/reader.rs`.
7. Proofs: all safety properties that the runs check (done, section 4).

Runs are kept to a minute or two, with one passing run for each module and one
violation run for each disagreement with the documentation.
