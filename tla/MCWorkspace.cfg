\* Two jobs, two requests of a user who waits for answers, a purge; requests that fail
\* are in the workspace part of MCPages.
CONSTANTS
    j1 = j1
    j2 = j2
    Jobs = {j1, j2}
    KnownJobs = {j1}
    Purgeable = {j2}
    NoJob = NoJob
    NoResult = NoResult
    BackWhileBusy = FALSE
    MaxEdits = 1
    MaxRequests = 2
    MaxFailures = 0
SPECIFICATION Spec
CHECK_DEADLOCK FALSE
INVARIANTS
    TypeOK
    ViewIsOfOpenJob
    CompletedIsFinal
    ShownIsStored
