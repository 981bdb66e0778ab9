SPECIFICATION Spec
CONSTANTS
    Workers = {w1}
    Questions = {q1, q2, q3}
    Points = {1}
    Suggested = 1
    MaxPosition = 3
    Sent = {"add", "remove"}
    None = None
SYMMETRY Symmetry
PROPERTIES RemovalRenumbers
CHECK_DEADLOCK FALSE
