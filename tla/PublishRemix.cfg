\* The same instance.
SPECIFICATION Spec
CONSTANTS
    px1 = px1
    px2 = px2
    pal1 = pal1
    pal2 = pal2
    r1 = r1
    NoReason = NoReason
    NoDraft = NoDraft
    Pixels = {px1, px2}
    Palettes = {pal1}
    Reasons = {r1}
    RequestIds = {1, 2}
    FreshPixels = px1
    FreshPalette = pal1
    MaxPostcards = 2
    MaxEvents = 1
    MaxRequests = 2
INVARIANTS RemixKeepsParent
