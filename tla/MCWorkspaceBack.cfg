\* The user may go back while a request is out.
CONSTANTS
    j1 = j1
    j2 = j2
    Jobs = {j1, j2}
    KnownJobs = {j1}
    Purgeable = {j1}
    NoJob = NoJob
    NoResult = NoResult
    BackWhileBusy = TRUE
    MaxEdits = 1
    MaxRequests = 2
    MaxFailures = 0
SPECIFICATION Spec
CHECK_DEADLOCK FALSE

INVARIANTS
    ChangesReachTheirJob
