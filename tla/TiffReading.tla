----------------------------- MODULE TiffReading -----------------------------
(***************************************************************************)
(* The open TIFF dataset of src/tiff/reader.rs and its images              *)
(* (src/tiff/image.rs).  All images of a file share one libtiff handle     *)
(* behind a mutex, and the handle has one current directory: every read is *)
(* lock, set directory, read, unlock.  codec_configuration of a JPEG page  *)
(* does so twice, first for the tables, then for the predictor.            *)
(***************************************************************************)
EXTENDS TiffPages, TiffChunks

CONSTANTS Foreign,   \* the files a program may open
          Threads    \* the threads that read from them

ASSUME ForeignAssumption ==
    \A f \in Foreign :
        /\ Len(f) \in Nat /\ DOMAIN f = 1 .. Len(f)
        /\ \A n \in DOMAIN f : IsDirectory(f[n])

NoThread == "none"

ASSUME ThreadsAssumption == NoThread \notin Threads

VARIABLES file,      \* the directories of the open file
          handle,    \* who holds its mutex, and the current directory
          call       \* for each thread, the call it makes

readVars == <<file, handle, call>>

DirectoryTypes(f) == [n \in DOMAIN f |-> f[n].type]
Pages(f)          == Classify(DirectoryTypes(f))

\* The requests a page takes: all bands of a block or one, the chunk table,
\* the configuration of the codec.
Requests(d) ==
    [kind : {"block"}, at : Blocks(d),
     bands : {AllBands(d)} \cup {<<b>> : b \in 0 .. d.spp - 1}]
      \cup [kind : {"ranges", "codec"}]

Item(what, index) == [what |-> what, index |-> index]

\* What the request reads, worked out from the tags of its page.
Items(d, request) ==
    CASE request.kind = "block" ->
            LET chunks == ChunkIndexes(d, request.at, request.bands)
            IN  [i \in DOMAIN chunks |-> Item("chunk", chunks[i])]
      [] request.kind = "ranges" -> <<Item("offsets", 0)>>
      [] request.kind = "codec" /\ ~Configured(d) -> << >>
      [] request.kind = "codec" /\ Configured(d) ->
            IF d.compression = "jpeg"
              THEN <<Item("tables", 0), Item("predictor", 0)>>
              ELSE <<Item("predictor", 0)>>

\* What libtiff answers while d is the current directory.
Answer(d, item) ==
    CASE item.what = "chunk"   -> Chunk(d, item.index)
      [] item.what = "offsets" -> Ranges(d)
      [] item.what \notin {"chunk", "offsets"} -> <<d.of, item.what>>

\* The items of a block or a chunk table are read under one lock, those of a
\* codec configuration under one each.
LastUnderLock(c) ==
    c.request.kind = "codec" \/ Len(c.got) + 1 = Len(Items(file[c.page], c.request))

NoCall == [pc |-> "idle"]

-----------------------------------------------------------------------------

ReadInit ==
    /\ file \in Foreign
    /\ handle = [owner |-> NoThread, dir |-> 0]
    /\ call = [t \in Threads |-> NoCall]

Begin(t, n, request) ==
    /\ call[t].pc = "idle"
    /\ call' = [call EXCEPT ![t] =
                 [pc |-> IF Items(file[n], request) = << >> THEN "done" ELSE "lock",
                  page |-> n, request |-> request, got |-> << >>]]
    /\ UNCHANGED <<file, handle>>

Lock(t) ==
    /\ call[t].pc = "lock"
    /\ handle.owner = NoThread
    /\ handle' = [handle EXCEPT !.owner = t]
    /\ call' = [call EXCEPT ![t].pc = "set"]
    /\ UNCHANGED file

\* Faulty variant: the directory is set only if none is.
SetDirectoryOnce(t) ==
    /\ call[t].pc = "set"
    /\ handle' = [handle EXCEPT !.dir = IF @ = 0 THEN call[t].page ELSE @]
    /\ call' = [call EXCEPT ![t].pc = "read"]
    /\ UNCHANGED file

SetDirectory(t) ==
    /\ call[t].pc = "set"
    /\ handle' = [handle EXCEPT !.dir = call[t].page]
    /\ call' = [call EXCEPT ![t].pc = "read"]
    /\ UNCHANGED file

Read(t) ==
    /\ call[t].pc = "read"
    /\ LET c == call[t]
           item == Items(file[c.page], c.request)[Len(c.got) + 1]
       IN  call' = [call EXCEPT ![t].pc = IF LastUnderLock(c) THEN "release" ELSE "read",
                                ![t].got = Append(@, Answer(file[handle.dir], item))]
    /\ UNCHANGED <<file, handle>>

\* Faulty variant: the guard of the first section lives through the second.
ReleaseAtEnd(t) ==
    /\ call[t].pc = "release"
    /\ LET complete == Len(call[t].got) = Len(Items(file[call[t].page], call[t].request))
       IN  /\ handle' = IF complete THEN [handle EXCEPT !.owner = NoThread] ELSE handle
           /\ call' = [call EXCEPT ![t].pc = IF complete THEN "done" ELSE "lock"]
    /\ UNCHANGED file

Release(t) ==
    /\ call[t].pc = "release"
    /\ LET complete == Len(call[t].got) = Len(Items(file[call[t].page], call[t].request))
       IN  call' = [call EXCEPT ![t].pc = IF complete THEN "done" ELSE "lock"]
    /\ handle' = [handle EXCEPT !.owner = NoThread]
    /\ UNCHANGED file

\* libtiff refuses the directory, the tag or the chunk: the error returns and
\* drops the guard.
Fail(t) ==
    /\ call[t].pc \in {"set", "read"}
    /\ call' = [call EXCEPT ![t].pc = "failed"]
    /\ handle' = [handle EXCEPT !.owner = NoThread]
    /\ UNCHANGED file

Return(t) ==
    /\ call[t].pc \in {"done", "failed"}
    /\ call' = [call EXCEPT ![t] = NoCall]
    /\ UNCHANGED <<file, handle>>

ReadNext ==
    \E t \in Threads :
        \/ \E n \in DOMAIN file : \E request \in Requests(file[n]) : Begin(t, n, request)
        \/ Lock(t)
        \/ SetDirectory(t)
        \/ Read(t)
        \/ Release(t)
        \/ Fail(t)
        \/ Return(t)

\* A thread that has begun a call goes on with it.
ReadFairness ==
    \A t \in Threads :
        /\ WF_readVars(Lock(t))
        /\ WF_readVars(SetDirectory(t))
        /\ WF_readVars(Read(t))
        /\ WF_readVars(Release(t))

ReadSpec == ReadInit /\ [][ReadNext]_readVars /\ ReadFairness

-----------------------------------------------------------------------------

Calling == {t \in Threads : call[t].pc # "idle"}

ReadTypeOK ==
    /\ file \in Foreign
    /\ handle \in [owner : Threads \cup {NoThread}, dir : {0} \cup DOMAIN file]
    /\ DOMAIN call = Threads
    /\ \A t \in Calling :
         /\ DOMAIN call[t] = {"pc", "page", "request", "got"}
         /\ call[t].pc \in {"lock", "set", "read", "release", "done", "failed"}
         /\ call[t].page \in DOMAIN file
         /\ call[t].request \in Requests(file[call[t].page])

\* Whatever other threads do with the handle in between, a call that ends
\* well has read every item from the directory of its own page, also when it
\* took the lock more than once (get_block, tile_byte_ranges and
\* codec_configuration).
ReadsTheirPage ==
    \A t \in Threads : call[t].pc = "done" =>
        LET own == file[call[t].page]
            items == Items(own, call[t].request)
        IN  call[t].got = [i \in DOMAIN items |-> Answer(own, items[i])]

\* What get_block returns is the block, whichever calls went on meanwhile:
\* tiles and strips, chunky and planar, packed samples, blocks cut by the
\* edge (get_block_tiled, get_block_stripped).
BlocksReadBack ==
    \A t \in Threads : (call[t].pc = "done" /\ call[t].request.kind = "block") =>
        LET d == file[call[t].page]
            request == call[t].request
        IN  DecodeBlock(d, request.at, request.bands, call[t].got)
              = BlockSamples(d, request.at, request.bands)

\* The handle never stays locked: no call waits for a lock it holds itself,
\* and no error leaves it behind (the guards of src/tiff/image.rs).
HandleFreed ==
    handle.owner # NoThread ~> handle.owner = NoThread
=============================================================================
