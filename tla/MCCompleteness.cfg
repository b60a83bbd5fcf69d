\* Positions and bands, three rows, one crash during the review.
CONSTANTS
    NoId = NoId
    NoBand = NoBand
    r1 = r1
    r2 = r2
    r3 = r3
    p1 = p1
    p2 = p2
    b1 = b1
    b2 = b2
    Rows = {r1, r2, r3}
    Ids = {p1, p2}
    Bands = {b1, b2}
    MaxExtracted = 1
    MaxRead = 2
    MaxCrashes = 1
SPECIFICATION Spec
SYMMETRY Symmetry
INVARIANTS
    TypeOK
    PipelineNeverRefused
    ExclusionNeverRefused
    NothingLostSilently
    WorkbookMatchesAudit
    Carried
