SPECIFICATION FairSpec
CONSTANTS
    Keys = {k1}
    Labels = {l1}
    Reserved = {}
    Ids = {i1}
    Conns = {c1, c2}
    None = None
    DiskFaults = TRUE
INVARIANTS AttachedIsWatched NoLeakedConn
PROPERTIES StaleDetachHarmless DeadConnDetached
