-------------------------- MODULE CompositeReading ---------------------------
(***************************************************************************)
(* Reading a pyramid of files (src/composite/reader.rs and wrapper.rs, and *)
(* the reading side of src/bindings/io.rs): the files a dataset was        *)
(* written to, opened again as the same sources with the same roles.       *)
(*                                                                         *)
(* A reader numbers the assets of a file by kind, whatever their keys were *)
(* when they were added.  The composite reader shows the base as it is and *)
(* the first image of every other file as an overview of image:0.          *)
(***************************************************************************)
EXTENDS DatasetWriting

AssetKey(kind, n, level) == [kind |-> kind, number |-> n, level |-> level]

\* The DTED reader calls its one image "elevation", the others "image:0".
ImageKind == IF format = "dted" THEN "elevation" ELSE "image"

Kind(a) == IF a.type \in Images THEN ImageKind ELSE a.type

-----------------------------------------------------------------------------
(* The reader of one file. *)

\* The assets of one kind in the file of slot i, in their order.
FileAssets(i, kind) ==
  LET queue == writers[i].queue
  IN  IF streams[i].state = "whole"
        THEN Picked(queue, {j \in DOMAIN queue : Kind(queue[j]) = kind})
        ELSE <<>>

\* An empty file has no header, and only JBP knows files without images.
FileOpens(i) ==
  /\ streams[i].state = "whole"
  /\ format = "jbp" \/ FileAssets(i, ImageKind) # <<>>

FileKeys(i, kind) == {AssetKey(kind, n - 1, 0) : n \in DOMAIN FileAssets(i, kind)}

-----------------------------------------------------------------------------
(* The composite reader: its sources are routed as the writer's are. *)

Entries == Slots \ {1}

\* IO.open: every entry needs a primary image.
PyramidOpens ==
  /\ FileOpens(1)
  /\ \A i \in Entries : FileOpens(i) /\ FileAssets(i, ImageKind) # <<>>

\* Faulty variant: the overviews are numbered in the order of the sources.
OverviewKeyByPosition(i) == AssetKey("image", 0, i - 1)

OverviewKey(i) == AssetKey("image", 0, slots[i].level)

OverviewKeys == {OverviewKey(i) : i \in Entries}

\* get_asset_keys for one kind: the base, and an overview for each entry.
ListedKeys(kind) == FileKeys(1, kind) \cup (IF kind = ImageKind THEN OverviewKeys ELSE {})

\* All of them.
Listed == UNION {ListedKeys(kind) : kind \in {Kind(a) : a \in Assets}}

\* get_asset asks the overviews first; of two with one key the later stays.
GetAsset(key) ==
  IF key \in OverviewKeys
    THEN LET entries == {i \in Entries : OverviewKey(i) = key}
             last == CHOOSE i \in entries : \A j \in entries : j <= i
         IN  FileAssets(last, ImageKind)[1]
    ELSE FileAssets(1, key.kind)[key.number + 1]

-----------------------------------------------------------------------------
(* Properties *)

\* A key the caller uses, as the reader has it.
AsOverview(k) == AssetKey("image", 0, k.level)

\* The assets behind the accepted keys.
AcceptedAssets ==
  {a \in Assets : a.key \in accepted /\
     [a EXCEPT !.key = Place(@).key] \in Range(writers[Place(a.key).slot].queue)}

\* The pyramid is complete: close said Ok, every level has one file and every file
\* one writer, the base and every other file have an image, and all overviews are of
\* one image, which R-sets are for.  A TIFF file has one page: the reader classifies
\* the pages of a longer one (TiffReading), which FileKeys does not.
PyramidComplete ==
  /\ phase = "closed" /\ error = "none" /\ IsComposite /\ OneWriterPerSource
  /\ format = "tiff" => \A i \in Slots : Len(writers[i].queue) = 1
  /\ \A i, j \in Slots : slots[i].level = slots[j].level => i = j
  /\ \A i \in Entries : \E k \in accepted : IsOverviewKey(k) /\ k.level = slots[i].level
  /\ \A k, l \in accepted : IsOverviewKey(k) /\ IsOverviewKey(l) => k.name = l.name
  /\ \A a \in AcceptedAssets : IsOverviewKey(a.key) => a.type \in Images
  /\ \E j \in DOMAIN writers[1].queue : writers[1].queue[j].type \in Images

\* A complete pyramid opens with the roles it was written with, and each asset
\* that was accepted is got back: overviews under the level they were added for,
\* whatever the order of the files and of the calls, and everything else from the
\* base; and nothing more is listed (CompositeDatasetWriter against
\* CompositeDatasetReader).
PyramidReadsBack ==
  PyramidComplete =>
    LET overviews == {a \in AcceptedAssets : IsOverviewKey(a.key)}
        base == Listed \ OverviewKeys
    IN  /\ PyramidOpens
        /\ {a.key : a \in AcceptedAssets} = accepted
        /\ Listed \cap OverviewKeys = {AsOverview(a.key) : a \in overviews}
        /\ \A a \in overviews : GetAsset(AsOverview(a.key)) = [a EXCEPT !.key = ParentKey(@)]
        /\ {GetAsset(key) : key \in base} = AcceptedAssets \ overviews
        /\ \A k, l \in base : GetAsset(k) = GetAsset(l) => k = l
=============================================================================
