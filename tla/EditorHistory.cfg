\* A strip of two cells in two colours and a history of two drawings, with
\* keys, buttons and a second pointer during strokes.
SPECIFICATION Spec
CONSTANTS
    Width = 2
    Height = 1
    Colors = {0, 1}
    DefaultColor = 1
    HistoryLimit = 2
    NoDrawing = NoDrawing
    NoCell = NoCell
    NoDraft = NoDraft
    Concurrent = TRUE
INVARIANTS TypeOK HistoryBounded DraftCurrent
PROPERTIES HistoryIsTimeline
