SPECIFICATION Spec
CONSTANTS
    u1 = u1
    Uploaders = {u1, u2}
    Downloads = {d1}
    Lists = {x1}
    Names = {a, b}
    None = None
    MaxParts <- MCMaxParts
    Chunks = 1
    MaxRestarts = 1
SYMMETRY Symmetry
CHECK_DEADLOCK FALSE
INVARIANTS FilesAreWhole DownloadIsOneVersion SavedMeansAll NoTempLeft ListingIsFair
