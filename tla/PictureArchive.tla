--------------------------- MODULE PictureArchive ---------------------------
(***************************************************************************)
(* What writing an image and reading it back promises, pixel by pixel and  *)
(* without blocks, orders or offsets: a saved picture shows, at every      *)
(* pixel, something the picture showed while it was being saved, and       *)
(* reopening it shows what was saved.                                      *)
(***************************************************************************)
CONSTANTS Pixels,   \* the samples of the picture
          Stamps    \* one for each time somebody paints

VARIABLES picture,  \* what the image shows at each pixel
          saved,    \* what the last finished file shows, or Nothing
          held      \* what each pixel has shown since the save began, or Nothing

vars == <<picture, saved, held>>

Nothing == <<>>
Absent  == <<"absent">>    \* no block holds the pixel
Blank   == <<"fill">>      \* a pixel of a block read as fill

Painted(stamp, p) == <<stamp, p>>

Init ==
    /\ picture = [p \in Pixels |-> Absent]
    /\ saved = Nothing
    /\ held = Nothing

\* Painting changes some pixels, each to its own share of what is painted.
Paint(stamp) ==
    /\ \A p \in Pixels : picture'[p] \in {picture[p], Painted(stamp, p)}
    /\ held' = IF held = Nothing
                 THEN Nothing
                 ELSE [p \in Pixels |-> held[p] \cup {picture'[p]}]
    /\ UNCHANGED saved

BeginSave ==
    /\ held = Nothing
    /\ held' = [p \in Pixels |-> {picture[p]}]
    /\ UNCHANGED <<picture, saved>>

FinishSave ==
    /\ held # Nothing
    /\ saved' # Nothing
    /\ \A p \in Pixels : saved'[p] \in held[p]
    /\ held' = Nothing
    /\ UNCHANGED picture

AbandonSave ==
    /\ held # Nothing
    /\ held' = Nothing
    /\ UNCHANGED <<picture, saved>>

\* A pixel that no block held may come back blank, never as anything else.
Reopen ==
    /\ held = Nothing
    /\ saved # Nothing
    /\ \A p \in Pixels :
          \/ picture'[p] = saved[p]
          \/ saved[p] = Absent /\ picture'[p] = Blank
    /\ UNCHANGED <<saved, held>>

Next ==
    \/ \E stamp \in Stamps : Paint(stamp)
    \/ BeginSave
    \/ FinishSave
    \/ AbandonSave
    \/ Reopen

Spec == Init /\ [][Next]_vars
=============================================================================
