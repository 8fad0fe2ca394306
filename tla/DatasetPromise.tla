--------------------------- MODULE DatasetPromise ----------------------------
(***************************************************************************)
(* What the caller of a DatasetWriter is promised (src/traits/writer.rs):  *)
(* assets are accepted under distinct keys until the dataset is closed,    *)
(* nothing is stored before, and close reports success only when every     *)
(* accepted asset is stored for good.  How many files there are, and which *)
(* of them an asset goes to, is not visible.                               *)
(***************************************************************************)
CONSTANT Keys

VARIABLES
  accepted,   \* the keys add_asset has accepted
  stored,     \* the accepted keys whose file is complete and committed
  verdict     \* "open" until close returns, then "ok" or "error"

pvars == <<accepted, stored, verdict>>

Init == accepted = {} /\ stored = {} /\ verdict = "open"

Accept ==
  /\ verdict = "open" /\ stored = {}
  /\ \E k \in Keys \ accepted : accepted' = accepted \cup {k}
  /\ UNCHANGED <<stored, verdict>>

Store ==
  /\ verdict = "open"
  /\ stored' \in SUBSET accepted /\ stored \subseteq stored'
  /\ UNCHANGED <<accepted, verdict>>

Settle ==
  /\ verdict = "open"
  /\ \/ verdict' = "ok" /\ stored = accepted
     \/ verdict' = "error"
  /\ UNCHANGED <<accepted, stored>>

Next == Accept \/ Store \/ Settle

Spec == Init /\ [][Next]_pvars
=============================================================================
