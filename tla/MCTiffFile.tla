------------------------------ MODULE MCTiffFile ------------------------------
(* Instance of TiffFile.                                                     *)
EXTENDS TiffFile

Directory(of, type, rows, cols, spp, bits, tiled, bh, bw, planar, compression) ==
    [of |-> of, holds |-> "samples", type |-> type, rows |-> rows, cols |-> cols,
     spp |-> spp, bits |-> bits, format |-> "uint",
     tiled |-> tiled, bh |-> bh, bw |-> bw, planar |-> planar, compression |-> compression]

\* image, its mask in strips, an overview, the mask of the overview, an image.
CogPages ==
    << Directory("a",  0, 2, 3, 2,  4, TRUE,  2, 2, TRUE,  "lzw"),
       Directory("am", 4, 2, 3, 1,  1, FALSE, 1, 3, FALSE, "none"),
       Directory("ao", 1, 1, 2, 2,  8, TRUE,  2, 2, FALSE, "jpeg"),
       Directory("aw", 5, 1, 2, 1,  1, TRUE,  2, 2, FALSE, "packbits"),
       Directory("b",  0, 2, 2, 1, 16, FALSE, 2, 2, FALSE, "none") >>

\* Masks and overviews before the image, strips of separate planes, the last
\* one short.
LoosePages ==
    << Directory("c", 4, 3, 2, 1,  1, FALSE, 3, 2, FALSE, "ccitt"),
       Directory("d", 1, 3, 2, 2,  2, FALSE, 2, 2, TRUE,  "none"),
       Directory("e", 0, 3, 2, 2,  8, TRUE,  2, 2, FALSE, "none") >>

\* One directory, of whatever type.
LonePage == << Directory("f", 1, 3, 2, 1, 4, FALSE, 2, 2, FALSE, "none") >>

MCForeign == {CogPages, LoosePages, LonePage}

Asset(of, key, rows, cols, bands, container, bits, bh, bw, planar, compression) ==
    [of |-> of, key |-> key, rows |-> rows, cols |-> cols, bands |-> bands,
     pixel |-> <<"uint", container>>, bits |-> bits, bh |-> bh, bw |-> bw,
     planar |-> planar, compression |-> compression,
     roles |-> IF SubfileType([key |-> key, roles |-> {}]) = 0
                 THEN {"data"}
                 ELSE {r \in {"overview", "mask"} :
                         \/ r = "overview" /\ key.overview > 0
                         \/ r = "mask" /\ key.mask}]

MCAssets ==
    { Asset("p",  Key(0, 0, FALSE), 3, 3, 2,  8,  8, 2, 2, FALSE, "none"),
      Asset("po", Key(0, 1, FALSE), 2, 2, 2,  8,  8, 2, 2, TRUE,  "jpeg"),
      Asset("pq", Key(0, 2, FALSE), 1, 2, 1, 16, 16, 1, 2, FALSE, "none"),
      Asset("pw", Key(0, 1, TRUE),  2, 2, 1,  8,  8, 2, 2, FALSE, "none"),
      Asset("px", Key(0, 2, TRUE),  1, 2, 1, 16, 16, 1, 2, FALSE, "packbits"),
      Asset("q",  Key(1, 0, FALSE), 2, 3, 3,  8,  4, 1, 3, FALSE, "lzw"),
      Asset("qm", Key(1, 0, TRUE),  2, 3, 1,  8,  1, 2, 3, TRUE,  "none") }

\* An image of 12 significant bits, as the JBP reader hands it over.
TwelveBitAssets ==
    { Asset("n", Key(0, 0, FALSE), 2, 2, 1, 16, 12, 2, 2, FALSE, "none") }
=============================================================================
