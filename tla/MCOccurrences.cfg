\* A position the parser read twice.
CONSTANTS
    NoId = NoId
    NoBand = NoBand
    r1 = r1
    r2 = r2
    r3 = r3
    p1 = p1
    Rows = {r1, r2, r3}
    Ids = {p1}
    Bands = {}
    MaxExtracted = 1
    MaxRead = 2
    MaxCrashes = 0
SPECIFICATION Spec
SYMMETRY Symmetry
INVARIANTS
    EveryOccurrenceVisible
