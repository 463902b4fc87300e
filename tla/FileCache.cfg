SPECIFICATION Spec
CONSTANTS
    Paths = {p1, p2, p3}
    Requests = {r1, r2}
    Sizes = {1, 2, 3}
    MaxBytes = 5
    Small = 4
    Share = 2
    MaxEdits = 1
    None = None
CHECK_DEADLOCK FALSE
SYMMETRY Symmetry
INVARIANTS WithinBudget Accounted EntriesBounded NotUnderOlderStamp OrderIsRecency
