SPECIFICATION ReturningSpec
CONSTANTS
    Reqs = {r1, r2}
    None = None
    Epochs = 2
    Chunks = 1
    Resets = TRUE
CHECK_DEADLOCK FALSE
INVARIANTS NobodyStranded TableIsCurrent OwnIdBodiesComplete
PROPERTIES Reconnects StopsWhenCancelled
