SPECIFICATION FairSpec
CONSTANTS
    s1 = s1
    s2 = s2
    s3 = s3
    Jobs = {j1}
    Runs = {r1, r2}
    NoJob = NoJob
    Students = {s1, s2, s3}
    Slotless = {s3}
    MaxMark = 1
    MaxReviews = 2
    MaxFaults = 2
INVARIANTS
    SentAtMostOnce
    PushIsTrue
PROPERTIES
    JobConverges
CHECK_DEADLOCK FALSE
