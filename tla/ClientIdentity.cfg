SPECIFICATION FairSpec
CONSTANTS
    c1 = c1
    c2 = c2
    k1 = k1
    l1 = l1
    i0 = i0
    Clients = {c1, c2}
    Keys = {k1}
    Labels = {l1, l2, l3, l4, l5}
    Ids = {i0, i1, i2, i3, i4}
    Shared = i0
    None = None
    Dead = Dead
    KeyOf <- MCKeyOf
    Wish <- MCWish
    InPlace = {c2}
    MaxFaults = 2
CHECK_DEADLOCK FALSE
INVARIANTS WishSticks
PROPERTIES UrlSurvives StaysReachable
