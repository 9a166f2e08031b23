----------------------------- MODULE PublicWall -----------------------------
(***************************************************************************)
(* What a visitor can see of the Gallery: how many postcards there are and *)
(* which of them are visible.  The Gallery implements it (GalleryProofs);   *)
(* WallClient reads it page by page.                                       *)
(***************************************************************************)
EXTENDS Naturals

VARIABLES newest,   \* the newest postcard's id, 0 if there is none
          visible   \* ids of the visible postcards

vars == <<newest, visible>>

Init == newest = 0 /\ visible = {}

Publish == newest' = newest + 1 /\ visible' = visible \cup {newest'}

Hide(id) == id \in visible /\ visible' = visible \ {id} /\ UNCHANGED newest

Restore(id) == /\ id \in (1 .. newest) \ visible
               /\ visible' = visible \cup {id}
               /\ UNCHANGED newest

Next == Publish \/ \E id \in 1 .. newest : Hide(id) \/ Restore(id)

Spec == Init /\ [][Next]_vars
=============================================================================
