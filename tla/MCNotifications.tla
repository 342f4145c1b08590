--------------------------- MODULE MCNotifications ---------------------------
(* Small instances of Notifications for TLC.                                 *)
EXTENDS Notifications, TLC

CONSTANTS u1, u2, u3, t1, t2

MCSymmetry == Permutations(Users) \cup Permutations(Tickets)
=============================================================================
