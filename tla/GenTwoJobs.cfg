SPECIFICATION Spec
CONSTANTS
    Jobs = {j1, j2}
    Runs = {r1, r2}
    NoJob = NoJob
    MaxRetries = 0
    MaxRedeliveries = 2
    MaxFaults = 1
    CoreWorkers = FALSE
SYMMETRY Symmetry
INVARIANTS
    SuccessMeansSaved
    RetriedJobStaysEmpty
PROPERTIES
    ImplementsLifecycle
CHECK_DEADLOCK FALSE
