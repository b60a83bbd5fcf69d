\* Two jobs, two workers, one restart, one retry, one failing store statement.
CONSTANTS
    j1 = j1
    j2 = j2
    w1 = w1
    w2 = w2
    Jobs = {j1, j2}
    Workers = {w1, w2}
    NoJob = NoJob
    MaxRestarts = 1
    MaxRetries = 1
    MaxStoreErrors = 1
SPECIFICATION Spec
SYMMETRY Symmetry
CHECK_DEADLOCK FALSE
INVARIANTS
    TypeOK
    PositionMatchesQueue
    NeverRunTwice
    InFlightIsOwned
    OwnedIsInFlight
    ResultIsComplete
    SourceOutlivesRow
PROPERTIES
    UserCustomerKept
    ProgressNeverFalls
    ImplementsContract
