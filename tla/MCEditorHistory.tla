-------------------------- MODULE MCEditorHistory --------------------------
(* A small instance of EditorHistory for TLC: a strip of two cells. *)
EXTENDS EditorHistory
=============================================================================
