---------------------------- MODULE ResidentBytes ----------------------------
(***************************************************************************)
(* What the range cache of src/remote/cache.rs promises to the fetcher: it *)
(* is a partial map from file offsets to bytes.  A fill never replaces a   *)
(* byte that is already resident, nothing is evicted, and a span can be    *)
(* served exactly when each of its offsets is resident.                    *)
(*                                                                         *)
(* RangeCache models the Vec of merged ranges that implements this map and *)
(* is checked to refine Spec; StreamFetcher is built on the map itself.    *)
(***************************************************************************)
CONSTANTS
  Offsets,   \* the offsets of the source's bytes
  Byte,      \* the values a byte can have
  Absent     \* marks an offset that is not resident, not a Byte

VARIABLE resident

Cells == [Offsets -> Byte \cup {Absent}]

NothingResident == [p \in Offsets |-> Absent]

\* The offsets for which a map holds a byte.
Held(m) == {p \in Offsets : m[p] # Absent}

\* A span, a set of offsets, is servable when all of it is resident; an empty
\* span always is.
Holds(m, span) == span \subseteq Held(m)

\* The bytes of a span.
Bytes(m, span) == [p \in span |-> m[p]]

\* Lay the bytes of data under those of m: m wins where both hold a byte.
Overlay(m, data) == [p \in Offsets |-> IF m[p] # Absent THEN m[p] ELSE data[p]]

Init == resident = NothingResident

\* A fill makes more offsets resident and leaves the resident ones alone.
Fill ==
  /\ resident' \in Cells
  /\ \A p \in Held(resident) : resident'[p] = resident[p]

Spec == Init /\ [][Fill]_resident
=============================================================================
