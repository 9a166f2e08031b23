\* Two web servers publish while two admin commands moderate, statement by
\* statement, with two palettes; every transaction ends.  No symmetry (liveness).
\* No deadlock check: with every transaction over and the bounds reached, the
\* processes are idle.
SPECIFICATION FairSpec
CONSTANTS
    s1 = s1
    s2 = s2
    a1 = a1
    a2 = a2
    px1 = px1
    px2 = px2
    pal1 = pal1
    pal2 = pal2
    r1 = r1
    r2 = r2
    NoProcess = NoProcess
    NoRequest = NoRequest
    NoReason = NoReason
    Servers = {s1, s2}
    Admins = {a1, a2}
    Pixels = {px1}
    Palettes = {pal1, pal2}
    Reasons = {r1}
    RequestIds = {1, 2}
    MaxPostcards = 2
    MaxEvents = 2
INVARIANTS TypeOK TransactionsSound StatusMatchesLog
PROPERTIES NoConsecutiveRepeat RemixOfVisible ImplementsGallery TransactionsEnd
CHECK_DEADLOCK FALSE
