SPECIFICATION Spec
CONSTANTS
    Workers = {w1}
    Questions = {q1, q2}
    Points = {1, 2}
    Suggested = 1
    MaxPosition = 3
    Sent = {"add", "points", "remove", "reorder", "finalize", "unfinalize", "export", "archive", "restore", "deleteExam", "deleteQuestion"}
    None = None
SYMMETRY Symmetry
INVARIANTS TotalIsSum
PROPERTIES ExamKept
CHECK_DEADLOCK FALSE
