--------------------------- MODULE MCStreamFetcher ---------------------------
(***************************************************************************)
(* Bounded instance of StreamFetcher: two threads, a source of three bytes *)
(* whose first is the header.                                              *)
(***************************************************************************)
EXTENDS StreamFetcher

CONSTANTS t1, t2

R(offset, len) == [offset |-> offset, len |-> len]

\* The header byte, across the header's end, behind it, nothing, and past the
\* end of the source.
MCRanges == {R(0, 1), R(0, 2), R(1, 2), R(2, 0), R(2, 2)}

\* Out of order, with an empty request; two distant requests; no request; one
\* request out of bounds.
MCBatches ==
  {<<R(1, 2), R(1, 0), R(0, 1)>>, <<R(0, 1), R(2, 1)>>, <<>>, <<R(0, 1), R(4, 1)>>}
=============================================================================
