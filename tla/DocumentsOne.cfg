SPECIFICATION FairSpec
CONSTANTS
    r1 = r1
    r2 = r2
    r3 = r3
    Runs = {r1, r2, r3}
    OcrAvailable = TRUE
    MaxRetries = 1
    MaxOcrRetries = 1
    MaxRequests = 1
    MaxFaults = 1
INVARIANTS ProcessedIsSearchable
PROPERTIES DocumentSettles
CHECK_DEADLOCK FALSE
