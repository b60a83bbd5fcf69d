\* A reviewer who goes on while a save or an exclusion is under way.
CONSTANTS
    r1 = r1
    r2 = r2
    f1 = f1
    f2 = f2
    v1 = v1
    v2 = v2
    Rows = {r1, r2}
    Fields = {f1}
    Values = {v1, v2}
    NoEdit = NoEdit
    QueueRows = {1, 2}
    QueueFields = {f1, f2}
    Templates <- MCTemplates
    Place <- MCPlace
    Required = {f2}
    NoCell = NoCell
    GridRows = {1, 2}
    GridColumns = {1, 2}
    NoDrag = NoDrag
    NoRow = NoRow
    MaxRequests = 3
SPECIFICATION ReviewSpec
CHECK_DEADLOCK FALSE
INVARIANTS
    EditsKept
