SPECIFICATION FairSpec
CONSTANTS
    Users = {u1, u2}
    Nobody = Nobody
    Files = {f1}
    Sessions = {s1, s2}
    Processes = {p1, p2}
    Tasks = {d1}
    Reapers = {k1, k2}
    MaxRetries = 1
    MaxCalls = 3
    MaxFaults = 1
INVARIANTS
    FilesGone
    EndReportedOnce
PROPERTIES
    CancelHonoured
    AccountsSettle
CHECK_DEADLOCK FALSE
