--------------------------- MODULE EditorHistory ---------------------------
(***************************************************************************)
(* The editor of the page: class EditorModel (web/editor.js) with its undo *)
(* and redo stacks and the stroke in progress, and the handlers of         *)
(* web/app.js that drive it and save the draft.                            *)
(*                                                                         *)
(* A handler runs to its end, so it is one action.  Handlers interleave as *)
(* the visitor's devices do: a key, a button or a second finger may come   *)
(* while a pointer draws (Concurrent).  The keyboard cursor may be on any  *)
(* cell, so ApplyAt takes any.  Local storage is available.  Alias, palette *)
(* and remix parent of the draft are left out: undo and redo do not touch  *)
(* them, and choosing them saves as SetTool(tool) does.                    *)
(***************************************************************************)
EXTENDS EditorGeometry, SequencesExt

CONSTANTS HistoryLimit,  \* 64 in the code
          DefaultColor,  \* 15 in the code
          NoDrawing,     \* null in strokeBefore
          NoCell,        \* null in lastPoint
          NoDraft,       \* no item under the draft's key
          Concurrent     \* whether other input may come during a stroke

ASSUME EditorAssumption == /\ HistoryLimit \in Nat \ {0}
                           /\ DefaultColor \in Colors
                           /\ NoDrawing \notin Drawings
                           /\ NoCell \notin Cells
                           /\ Concurrent \in BOOLEAN

Brushes == {"pencil", "eraser"}
Tools == Brushes \cup {"fill", "eyedropper"}

Draft == [pixels : Drawings, selected : Colors, tool : Tools]

ASSUME DraftAssumption == NoDraft \notin Draft

VARIABLES pixels, selected, tool,   \* the drawing, the colour, the tool
          undoStack, redoStack,     \* drawings, the newest last
          strokeBefore, lastPoint,  \* of the stroke in progress
          drawing,                  \* the page's flag that a pointer draws
          draft,                    \* localStorage
          remix                     \* loadRemix waits for its postcard

history == <<undoStack, redoStack>>
stroke  == <<strokeBefore, lastPoint>>
vars == <<pixels, selected, tool, history, stroke, drawing, draft, remix>>

(* new EditorModel({}) *)
FreshDraft == [pixels |-> BlankDrawing, selected |-> DefaultColor,
               tool |-> "pencil"]

Init == /\ pixels = FreshDraft.pixels
        /\ selected = FreshDraft.selected
        /\ tool = FreshDraft.tool
        /\ undoStack = <<>> /\ redoStack = <<>>
        /\ strokeBefore = NoDrawing /\ lastPoint = NoCell
        /\ drawing = FALSE
        /\ draft = NoDraft
        /\ remix \in BOOLEAN

-----------------------------------------------------------------------------
(* persistDraft, at the end of a handler. *)
Save == draft' = [pixels |-> pixels', selected |-> selected', tool |-> tool']

(* Mutant of Pushed: the limit is passed before the oldest goes. *)
PushedPast(stack, before) ==
    IF Len(stack) > HistoryLimit THEN Tail(Append(stack, before))
                                 ELSE Append(stack, before)

(* undoStack.push(before), and the oldest goes at the limit. *)
Pushed(stack, before) ==
    IF Len(stack) + 1 > HistoryLimit THEN Tail(Append(stack, before))
                                     ELSE Append(stack, before)

(* Mutant of Commit: what was undone can still be redone. *)
CommitKeepingRedo(before, after) ==
    /\ pixels' = after
    /\ undoStack' = IF before = after THEN undoStack ELSE Pushed(undoStack, before)
    /\ UNCHANGED redoStack

(* An edit that turned one drawing into another becomes an entry of the     *)
(* history, unless it changed nothing.                                      *)
Commit(before, after) ==
    /\ pixels' = after
    /\ IF before = after
       THEN UNCHANGED history
       ELSE /\ undoStack' = Pushed(undoStack, before)
            /\ redoStack' = <<>>

StrokeColor == IF tool = "eraser" THEN Blank ELSE selected

PaintLine(from, to) ==
    pixels' = Painted(pixels, LinePoints(from, to), StrokeColor)

Free == Concurrent \/ ~drawing

(* Mutant of StrokeClosed: lastPoint is not reset. *)
StrokeForgotten == strokeBefore' = NoDrawing /\ UNCHANGED lastPoint

StrokeClosed == strokeBefore' = NoDrawing /\ lastPoint' = NoCell

PickColor(cell) == /\ tool = "eyedropper"
                   /\ selected' = pixels[cell]
                   /\ UNCHANGED <<pixels, history>>

Fill(cell) == /\ tool = "fill"
              /\ Commit(pixels, FloodFill(pixels, cell, selected))
              /\ UNCHANGED selected

-----------------------------------------------------------------------------
(* pointerdown: beginStroke, and the page saves unless a brush draws. *)
BeginStroke(cell) == /\ tool \in Brushes
                     /\ strokeBefore' = pixels
                     /\ lastPoint' = cell
                     /\ PaintLine(cell, cell)
                     /\ UNCHANGED <<selected, history>>

PointerDown(cell) ==
    /\ Free
    /\ drawing' = (tool \in Brushes)
    /\ UNCHANGED <<tool, remix>>
    /\ \/ BeginStroke(cell) /\ UNCHANGED draft
       \/ (PickColor(cell) \/ Fill(cell)) /\ UNCHANGED stroke /\ Save

(* pointermove: continueStroke does nothing once the stroke is closed. *)
PointerMove(cell) ==
    /\ drawing
    /\ strokeBefore # NoDrawing
    /\ PaintLine(lastPoint, cell)
    /\ lastPoint' = cell
    /\ UNCHANGED <<selected, tool, history, strokeBefore, drawing, draft, remix>>

(* pointerup, pointercancel: endStroke. *)
PointerUp ==
    /\ drawing
    /\ drawing' = FALSE
    /\ IF strokeBefore = NoDrawing
       THEN UNCHANGED <<pixels, history>>
       ELSE Commit(strokeBefore, pixels)
    /\ StrokeClosed
    /\ UNCHANGED <<selected, tool, remix>>
    /\ Save

(* Space or Enter: the tool on the cell under the cursor. *)
ApplyAt(cell) ==
    /\ Free
    /\ \/ PickColor(cell)
       \/ Fill(cell)
       \/ /\ tool \in Brushes
          /\ Commit(pixels, Painted(pixels, {cell}, StrokeColor))
          /\ UNCHANGED selected
    /\ UNCHANGED <<tool, stroke, drawing, remix>>
    /\ Save

Rework(after) == /\ Free
                 /\ Commit(pixels, after)
                 /\ UNCHANGED <<selected, tool, stroke, drawing, remix>>
                 /\ Save

Clear == Rework(BlankDrawing)
FlipHorizontal == Rework(FlippedHorizontally(pixels))
FlipVertical == Rework(FlippedVertically(pixels))

(* Undo and redo close the stroke in progress; Ctrl+Z saves even when there *)
(* is nothing to undo.                                                      *)
Undo ==
    /\ Free
    /\ IF undoStack = <<>>
       THEN UNCHANGED <<pixels, history, stroke>>
       ELSE /\ redoStack' = Append(redoStack, pixels)
            /\ pixels' = Last(undoStack)
            /\ undoStack' = Front(undoStack)
            /\ StrokeClosed
    /\ UNCHANGED <<selected, tool, drawing, remix>>
    /\ Save

Redo ==
    /\ Free
    /\ IF redoStack = <<>>
       THEN UNCHANGED <<pixels, history, stroke>>
       ELSE /\ undoStack' = Append(undoStack, pixels)
            /\ pixels' = Last(redoStack)
            /\ redoStack' = Front(redoStack)
            /\ StrokeClosed
    /\ UNCHANGED <<selected, tool, drawing, remix>>
    /\ Save

SetTool(value) == /\ Free
                  /\ tool' = value
                  /\ UNCHANGED <<pixels, selected, history, stroke, drawing, remix>>
                  /\ Save

(* Mutant of SetSelected: the palette button does not save. *)
SetSelectedUnsaved(color) == /\ Free
                             /\ selected' = color
                             /\ UNCHANGED <<pixels, tool, history, stroke, drawing, remix>>
                             /\ UNCHANGED draft

SetSelected(color) == /\ Free
                      /\ selected' = color
                      /\ UNCHANGED <<pixels, tool, history, stroke, drawing, remix>>
                      /\ Save

-----------------------------------------------------------------------------
(* A new EditorModel: another drawing, an empty history, no stroke. *)
Opened(value) == /\ pixels' = value.pixels
                 /\ selected' = value.selected
                 /\ tool' = value.tool
                 /\ undoStack' = <<>> /\ redoStack' = <<>>
                 /\ StrokeClosed

(* The page is loaded again, with or without a postcard to remix. *)
Reload == /\ Opened(IF draft = NoDraft THEN FreshDraft ELSE draft)
          /\ drawing' = FALSE
          /\ remix' \in BOOLEAN
          /\ UNCHANGED draft

(* The postcard to remix arrives, whatever the visitor is doing. *)
RemixArrives(postcard) ==
    /\ remix
    /\ remix' = FALSE
    /\ Opened([pixels |-> postcard, selected |-> selected, tool |-> "pencil"])
    /\ Save
    /\ UNCHANGED drawing

RemixFails == /\ remix
              /\ remix' = FALSE
              /\ UNCHANGED <<pixels, selected, tool, history, stroke, drawing, draft>>

(* The drawing was published: the draft goes, the editor stays. *)
Published == /\ draft' = NoDraft
             /\ UNCHANGED <<pixels, selected, tool, history, stroke, drawing, remix>>

Edits == \/ \E cell \in Cells : PointerDown(cell) \/ ApplyAt(cell)
         \/ Clear \/ FlipHorizontal \/ FlipVertical \/ Undo \/ Redo

Next == \/ Edits
        \/ \E cell \in Cells : PointerMove(cell)
        \/ PointerUp
        \/ \E value \in Tools : SetTool(value)
        \/ \E color \in Colors : SetSelected(color)
        \/ Reload
        \/ \E postcard \in Drawings : RemixArrives(postcard)
        \/ RemixFails
        \/ Published

Spec == Init /\ [][Next]_vars

-----------------------------------------------------------------------------
(* Types; and lastPoint, which continueStroke dereferences, is there        *)
(* exactly while a stroke is open.                                          *)
TypeOK == /\ pixels \in Drawings
          /\ selected \in Colors
          /\ tool \in Tools
          /\ undoStack \in Seq(Drawings)
          /\ redoStack \in Seq(Drawings)
          /\ \/ strokeBefore \in Drawings /\ lastPoint \in Cells
             \/ strokeBefore = NoDrawing /\ lastPoint = NoCell
          /\ drawing \in BOOLEAN
          /\ draft \in Draft \cup {NoDraft}
          /\ remix \in BOOLEAN

(* Undo and redo together hold at most historyLimit drawings: only commit   *)
(* looks at the limit, undo and redo move entries without looking, also in  *)
(* the middle of a stroke that is not an entry yet.                         *)
HistoryBounded == Len(undoStack) + Len(redoStack) <= HistoryLimit

(* Unless a pointer is drawing, the saved draft, if there is one, is what   *)
(* the editor shows: a reload loses nothing but a stroke in progress.       *)
DraftCurrent ==
    \/ drawing
    \/ draft = NoDraft
    \/ draft = [pixels |-> pixels, selected |-> selected, tool |-> tool]

(* The history is a line of drawings on which a stroke in progress stands   *)
(* where it began.                                                          *)
Timeline == INSTANCE DrawingTimeline
    WITH past <- undoStack, future <- redoStack,
         present <- IF strokeBefore = NoDrawing THEN pixels ELSE strokeBefore

(* The same line, on which a stroke in progress stands where it has got to. *)
Shown == INSTANCE DrawingTimeline
    WITH past <- undoStack, future <- redoStack, present <- pixels

(* Another pointer or Enter, a button or a key while a stroke is open. *)
Interrupts == strokeBefore # NoDrawing /\ Edits

(* Every step is a step on that line, a stroke being one edit at its end;   *)
(* and what interrupts a stroke is one of its own, from the drawing that is *)
(* shown, so that undo and redo lead back to it.  The exception is another  *)
(* stroke that begins over the open one.                                    *)
HistoryIsTimeline ==
    [][IF Interrupts
       THEN \/ Shown!Next
            \/ UNCHANGED Shown!vars
            \/ UNCHANGED history /\ \E cell \in Cells : BeginStroke(cell)
       ELSE Timeline!Next \/ UNCHANGED Timeline!vars]_vars
=============================================================================
