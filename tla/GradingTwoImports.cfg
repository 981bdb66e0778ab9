SPECIFICATION GradingSpec
CONSTANTS
    q1 = q1
    q2 = q2
    AllAttempts = {1, 2}
    Date <- DateOfAttempt
    Questions = {q1, q2}
    OpenEnded = {q1, q2}
    MaxPoints = 1
    Strategy = "latest"
    Processes = {p1}
    Workers = {w1, w2}
    MaxImports = 2
INVARIANTS
    SubmissionFollowsGrades
PROPERTIES
    OverrideKept
CHECK_DEADLOCK FALSE
