SPECIFICATION Spec
CONSTANTS
    Workers = {w1, w2}
    Questions = {q1, q2}
    Points = {}
    Suggested = 0
    MaxPosition = 2
    Sent = {"add", "remove", "reorder", "deleteQuestion"}
    None = None
SYMMETRY Symmetry
INVARIANTS PositionsDistinct PlacedQuestionsExist
CHECK_DEADLOCK FALSE
