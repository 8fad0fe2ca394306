--------------------------- MODULE MCImageSegment ---------------------------
(* Two rows of three pixels in two bands: blocks of 2x2 leave a narrow edge *)
(* block, blocks of 1x4 are wider than the image.                           *)
EXTENDS ImageSegment

const_Shapes == {<<2, 2>>, <<1, 4>>}
=============================================================================
