SPECIFICATION Spec
CONSTANTS
    s1 = s1
    s2 = s2
    bad = bad
    NoSlug = NoSlug
    Shape <- MCShape
    Names = {"net"}
    Fold <- MCFold
    Rank <- MCRank
    Slugs = {s1, s2}
    MaxDepth = 2
    Ids = {1}
    MaxRequests = 3
    MaxAtOnce = 2
    MaxFaults = 0
SYMMETRY MCSymmetry
CHECK_DEADLOCK FALSE
INVARIANTS
    SlugsTakeEffect
