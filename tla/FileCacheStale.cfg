SPECIFICATION Spec
CONSTANTS
    Paths = {p1}
    Requests = {r1}
    Sizes = {1, 2}
    MaxBytes = 4
    Small = 5
    Share = 2
    MaxEdits = 1
    None = None
CHECK_DEADLOCK FALSE
INVARIANTS HitsAreCurrent
