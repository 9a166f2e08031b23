-------------------------- MODULE MCPostcardStore --------------------------
(* Small instances of PostcardStore for TLC. *)
EXTENDS PostcardStore, TLC

CONSTANTS s1, s2, a1, a2, px1, px2, pal1, pal2, r1, r2

(* Two servers are alike, and so are two admins, drawings, palettes or     *)
(* reasons.                                                                *)
Alike == Permutations({s1, s2}) \cup Permutations({a1, a2})
            \cup Permutations({px1, px2})
            \cup Permutations({pal1, pal2}) \cup Permutations({r1, r2})
=============================================================================
