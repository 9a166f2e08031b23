----------------------------- MODULE MCCommands -----------------------------
(* A small instance of Commands for TLC. *)
EXTENDS Commands

CONSTANTS p1, p2, r1
=============================================================================
