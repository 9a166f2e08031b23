\* Three clients for two entries, two calls per window of three time units, and
\* a clock long enough for three windows in a row.
SPECIFICATION Spec
CONSTANTS
    c1 = c1
    c2 = c2
    c3 = c3
    Clients = {c1, c2, c3}
    Limit = 2
    Window = 3
    MaxEntries = 2
    MaxTime = 7
SYMMETRY Alike
INVARIANTS TypeOK BoundedMemory RetryAfterSuffices BurstBound
PROPERTIES EvictsTheSilent
