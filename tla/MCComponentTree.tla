-------------------------- MODULE MCComponentTree --------------------------
\* Values for ComponentTree: three names, two of which differ only in case.
EXTENDS ComponentTree, TLC

CONSTANTS s1, s2, bad     \* bad: one letter

MCFold == [n \in Names |-> IF n = "NET" THEN "net" ELSE n]
MCRank == [n \in Names |-> IF n = "NET" THEN 1 ELSE 2]
MCShape == [s \in Slugs |-> IF s = bad THEN <<"upper">> ELSE <<"upper", "digit">>]
MCSymmetry == Permutations({s1, s2})
=============================================================================
