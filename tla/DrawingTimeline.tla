-------------------------- MODULE DrawingTimeline --------------------------
(***************************************************************************)
(* What undo and redo promise: the drawings of a session lie on a line, the *)
(* visitor stands on one of them, steps back and forth, and an edit cuts    *)
(* off what lay ahead.  Of the past only the newest drawings are kept.      *)
(***************************************************************************)
EXTENDS SequencesExt

CONSTANTS Drawings, HistoryLimit

VARIABLES past,    \* drawings behind, the nearest last
          present, \* the drawing the visitor stands on
          future   \* drawings ahead, the nearest last

vars == <<past, present, future>>

Init == past = <<>> /\ present \in Drawings /\ future = <<>>

(* The newest HistoryLimit drawings of a past that has grown by one. *)
Remembered(drawings) ==
    IF Len(drawings) > HistoryLimit THEN Tail(drawings) ELSE drawings

Edit(drawing) == /\ drawing # present
                 /\ past' = Remembered(Append(past, present))
                 /\ present' = drawing
                 /\ future' = <<>>

Back == /\ past # <<>>
        /\ past' = Front(past)
        /\ present' = Last(past)
        /\ future' = Append(future, present)

Forth == /\ future # <<>>
         /\ past' = Append(past, present)
         /\ present' = Last(future)
         /\ future' = Front(future)

(* Another drawing is opened: a reload, or a postcard to remix. *)
Open(drawing) == past' = <<>> /\ present' = drawing /\ future' = <<>>

Next == Back \/ Forth \/ \E drawing \in Drawings : Edit(drawing) \/ Open(drawing)

Spec == Init /\ [][Next]_vars
=============================================================================
