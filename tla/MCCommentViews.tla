--------------------------- MODULE MCCommentViews ---------------------------
\* Model values for CommentViews: two users, one of them an admin, and two tickets.
EXTENDS CommentViews, TLC

CONSTANTS u1, u2, t1, t2

MCSymmetry == Permutations(Tickets)
=============================================================================
