SPECIFICATION FairSpec
CONSTANTS
    Jobs = {j1}
    Runs = {r1, r2}
    NoJob = NoJob
    MaxRetries = 1
    MaxRedeliveries = 1
    MaxFaults = 2
    CoreWorkers = TRUE
INVARIANTS
    AtMostOneSet
PROPERTIES
    JobsSettle
CHECK_DEADLOCK FALSE
