\* Two calls of loadWall at once, pages of one postcard, four postcards.
SPECIFICATION ClientSpec
CONSTANTS
    c1 = c1
    c2 = c2
    Calls = {c1, c2}
    PageSize = 1
    NoCursor = NoCursor
    NoPage = NoPage
    MaxOnWall = 4
    MaxVerdicts = 2
SYMMETRY Alike
INVARIANTS ClientTypeOK CursorRendered NewestFirst NoGap
