\* Fair workers and restarts; no symmetry, so that liveness is checked soundly.
CONSTANTS
    j1 = j1
    j2 = j2
    w1 = w1
    Jobs = {j1, j2}
    Workers = {w1}
    NoJob = NoJob
    MaxRestarts = 1
    MaxRetries = 1
    MaxStoreErrors = 1
SPECIFICATION FairSpec
CHECK_DEADLOCK FALSE
PROPERTIES
    EveryJobSettles
