--------------------------- MODULE MCPublishFlow ---------------------------
(* A small instance of PublishFlow for TLC. *)
EXTENDS PublishFlow

CONSTANTS px1, px2, pal1, pal2, r1
=============================================================================
