--------------------------- MODULE EditorGeometry ---------------------------
(***************************************************************************)
(* Drawings and what the editor's tools do to them (web/editor.js): a line *)
(* of the pencil, a flood fill and the two flips.  A cell is its pair of   *)
(* coordinates; the code's index y * WIDTH + x is one number for the pair. *)
(***************************************************************************)
EXTENDS Integers, FiniteSets

CONSTANTS Width, Height, \* 16 and 16 in the code
          Colors         \* palette indices, 0 among them

Blank == 0               \* what the eraser and clear leave

ASSUME GeometryAssumption == /\ Width \in Nat \ {0}
                             /\ Height \in Nat \ {0}
                             /\ Blank \in Colors

Cells == (0 .. Width - 1) \X (0 .. Height - 1)

Drawings == [Cells -> Colors]

BlankDrawing == [cell \in Cells |-> Blank]

Distance(a, b) == IF a < b THEN b - a ELSE a - b

-----------------------------------------------------------------------------
Painted(drawing, cells, color) ==
    [cell \in Cells |-> IF cell \in cells THEN color ELSE drawing[cell]]

(* Bresenham's line from one cell to another, both included. *)
LinePoints(from, to) ==
    LET deltaX == Distance(from[1], to[1])
        deltaY == -Distance(from[2], to[2])
        stepX == IF from[1] < to[1] THEN 1 ELSE -1
        stepY == IF from[2] < to[2] THEN 1 ELSE -1
        points[at \in Int \X Int \X Int] == \* x, y and error
            LET moveX == 2 * at[3] >= deltaY
                moveY == 2 * at[3] <= deltaX
            IN  {<<at[1], at[2]>>} \cup
                IF <<at[1], at[2]>> = to THEN {}
                ELSE points[<<IF moveX THEN at[1] + stepX ELSE at[1],
                              IF moveY THEN at[2] + stepY ELSE at[2],
                              at[3] + (IF moveX THEN deltaY ELSE 0)
                                    + (IF moveY THEN deltaX ELSE 0)>>]
    IN  points[<<from[1], from[2], deltaX + deltaY>>]

Adjacent(a, b) == Distance(a[1], b[1]) + Distance(a[2], b[2]) = 1

(* The cells a flood fill reaches from one cell: those of its colour that   *)
(* are connected to it.                                                     *)
Region(drawing, start) ==
    LET reached[n \in Nat] ==
            IF n = 0 THEN {start}
            ELSE LET before == reached[n - 1]
                 IN  before \cup {cell \in Cells :
                                     /\ drawing[cell] = drawing[start]
                                     /\ \E other \in before : Adjacent(cell, other)}
    IN  reached[Cardinality(Cells)]

FloodFill(drawing, start, color) ==
    Painted(drawing, Region(drawing, start), color)

FlippedHorizontally(drawing) ==
    [cell \in Cells |-> drawing[<<Width - 1 - cell[1], cell[2]>>]]

FlippedVertically(drawing) ==
    [cell \in Cells |-> drawing[<<cell[1], Height - 1 - cell[2]>>]]
=============================================================================
