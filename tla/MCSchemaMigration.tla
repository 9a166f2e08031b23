------------------------- MODULE MCSchemaMigration -------------------------
(* Small instances of SchemaMigration for TLC. *)
EXTENDS SchemaMigration

CONSTANTS p1, p2

(* SpecAfter(p1), fairly. *)
SpecFirstAlone ==
    /\ Init /\ [][NextAfter(p1)]_vars
    /\ \A p \in Processes : WF_vars(MayRun(p1, p) /\ Step(p))
=============================================================================
