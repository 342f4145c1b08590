SPECIFICATION Spec
CONSTANTS
    s1 = s1
    s2 = s2
    bad = bad
    NoSlug = NoSlug
    Shape <- MCShape
    Names = {"net", "NET"}
    Fold <- MCFold
    Rank <- MCRank
    Slugs = {s1}
    MaxDepth = 2
    Ids = {1, 2}
    MaxRequests = 4
    MaxAtOnce = 2
    MaxFaults = 0
SYMMETRY MCSymmetry
CHECK_DEADLOCK FALSE
INVARIANTS
    NoCycles
