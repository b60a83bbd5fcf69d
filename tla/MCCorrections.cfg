\* A review without a crash.
CONSTANTS
    NoId = NoId
    NoBand = NoBand
    r1 = r1
    r2 = r2
    r3 = r3
    p1 = p1
    p2 = p2
    Rows = {r1, r2, r3}
    Ids = {p1, p2}
    Bands = {}
    MaxExtracted = 1
    MaxRead = 2
    MaxCrashes = 0
SPECIFICATION Spec
SYMMETRY Symmetry
INVARIANTS
    EveryCorrectionApplied
