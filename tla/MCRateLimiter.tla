--------------------------- MODULE MCRateLimiter ---------------------------
(* Small instances of RateLimiter for TLC. *)
EXTENDS RateLimiter, TLC

CONSTANTS c1, c2, c3

Alike == Permutations({c1, c2, c3})
=============================================================================
