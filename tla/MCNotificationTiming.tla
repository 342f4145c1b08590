--------------------------- MODULE MCNotificationTiming ---------------------------
(* Small instances of NotificationTiming for TLC.                                 *)
EXTENDS NotificationTiming, TLC

CONSTANTS u1, u2, u3, t1, t2

MCSymmetry == Permutations(Users) \cup Permutations(Tickets)
=============================================================================
