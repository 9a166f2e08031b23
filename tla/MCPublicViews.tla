--------------------------- MODULE MCPublicViews ---------------------------
(* Small instances of PublicViews for TLC. *)
EXTENDS PublicViews, TLC

CONSTANTS h1, h2, pal1, pal2

(* Two handlers are alike, and so are two palettes. *)
Alike == Permutations({h1, h2}) \cup Permutations({pal1, pal2})
=============================================================================
