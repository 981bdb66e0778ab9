SPECIFICATION FairSpec
CONSTANTS
    j1 = j1
    j2 = j2
    a1 = a1
    a2 = a2
    a3 = a3
    s1 = s1
    s2 = s2
    Jobs = {j1, j2}
    Attempts = {a1, a2, a3}
    Students = {s1, s2}
    Owner <- OwnerOfAttempt
    File <- FileOfJob
    Malformed = {a2}
    NoJob = NoJob
    MaxRetries = 1
    MaxFaults = 1
    MaxDeletes = 1
INVARIANTS
    AttemptsGradedOrFlagged
PROPERTIES
    ReportsWhatItStored
    JobConverges
CHECK_DEADLOCK FALSE
