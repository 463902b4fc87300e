SPECIFICATION SmallFairSpec
CONSTANTS
    c1 = c1
    c2 = c2
    r1 = r1
    r2 = r2
    Reqs = {r1, r2}
    Uploads = {}
    Conns = {c1, c2}
    None = None
    Chunks = 1
CHECK_DEADLOCK FALSE
PROPERTIES OrphansAnswered DeadConnReleasesAll ReadLoopReleased
