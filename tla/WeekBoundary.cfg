\* The instance of PublicViews.cfg, for the README's word on the current week.
SPECIFICATION Spec
CONSTANTS
    h1 = h1
    h2 = h2
    pal1 = pal1
    pal2 = pal2
    Handlers = {h1, h2}
    Palettes = {pal1, pal2}
    TicksPerSecond = 2
    SecondsPerWeek = 2
    MosaicSize = 2
    StartTime = 3
    MaxTime = 5
    Named = {1}
    MaxPostcards = 3
    MaxChanges = 3
SYMMETRY Alike
INVARIANTS MosaicOmitsNone
