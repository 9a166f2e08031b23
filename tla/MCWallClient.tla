---------------------------- MODULE MCWallClient ----------------------------
(* A small instance of WallClient for TLC. *)
EXTENDS WallClient

CONSTANTS c1, c2

(* Calls are alike. *)
Alike == Permutations({c1, c2})
=============================================================================
