----------------------------- MODULE MCComments -----------------------------
\* Model values for Comments: two users, one of them an admin, and two tickets.
EXTENDS Comments, TLC

CONSTANTS u1, u2, t1, t2

MCSymmetry == Permutations(Tickets)
=============================================================================
