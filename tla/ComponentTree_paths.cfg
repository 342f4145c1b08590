SPECIFICATION Spec
CONSTANTS
    s1 = s1
    s2 = s2
    bad = bad
    NoSlug = NoSlug
    Shape <- MCShape
    Names = {"net", "NET"}
    Fold <- MCFold
    Rank <- MCRank
    Slugs = {s1, s2, bad}
    MaxDepth = 2
    Ids = {1, 2, 3}
    MaxRequests = 4
    MaxAtOnce = 2
    MaxFaults = 1
SYMMETRY MCSymmetry
CHECK_DEADLOCK FALSE
INVARIANTS
    TypeOK
    StaleOnlyByCrossing
    SlugsFollowPaths
PROPERTIES
    MutationsKeepPaths
