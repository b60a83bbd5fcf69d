\* One job, one worker, no crash, no failing statement: purge while it runs.
CONSTANTS
    j1 = j1
    w1 = w1
    Jobs = {j1}
    Workers = {w1}
    NoJob = NoJob
    MaxRestarts = 0
    MaxRetries = 0
    MaxStoreErrors = 0
SPECIFICATION Spec
CHECK_DEADLOCK FALSE
INVARIANTS
    PurgeRemovesExport
