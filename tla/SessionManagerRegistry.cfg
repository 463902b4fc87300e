SPECIFICATION Spec
CONSTANTS
    Keys = {k1, k2}
    Labels = {l1, l2, www}
    Reserved = {www}
    Ids = {i1, i2, i3}
    Conns = {c1}
    None = None
    DiskFaults = FALSE
SYMMETRY Symmetry
INVARIANTS IndexesAgree
PROPERTIES LabelKeepsKey NoResurrection ImplementsDirectory
