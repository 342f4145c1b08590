------------------------- MODULE NotificationOutbox -------------------------
(***************************************************************************)
(* What the pending_notifications queue promises, whatever the interleaving*)
(* of emissions, passes of the worker and crashes: a notification is queued*)
(* at most once; a mail carries notifications still queued, all for one    *)
(* user; and a notification is closed only when it was mailed, when its    *)
(* recipient was given up on, or by expiry. It is delivery at least once:  *)
(* a queued notification may be mailed again after a fault.                *)
(***************************************************************************)
CONSTANT Notices        \* pairs of an event and a recipient

VARIABLES
    queued,     \* waiting in the table
    mailed,     \* a mail with it was acknowledged at least once
    forsaken,   \* not deliverable, in the worker's judgement
    closed,     \* out of the table, handled
    expired     \* out of the table, too old

vars == <<queued, mailed, forsaken, closed, expired>>

Init == queued = {} /\ mailed = {} /\ forsaken = {} /\ closed = {} /\ expired = {}

Queue(n) ==
    /\ n \notin queued \cup closed \cup expired
    /\ queued' = queued \cup {n}
    /\ UNCHANGED <<mailed, forsaken, closed, expired>>

OneRecipient(batch) == \A m, n \in batch : m[2] = n[2]

Mail(batch) ==
    /\ batch \subseteq queued /\ OneRecipient(batch)
    /\ mailed' = mailed \cup batch
    /\ UNCHANGED <<queued, forsaken, closed, expired>>

Forsake(batch) ==
    /\ batch \subseteq queued /\ OneRecipient(batch)
    /\ forsaken' = forsaken \cup batch
    /\ UNCHANGED <<queued, mailed, closed, expired>>

Close(batch) ==
    /\ batch \subseteq queued \cap (mailed \cup forsaken)
    /\ queued' = queued \ batch
    /\ closed' = closed \cup batch
    /\ UNCHANGED <<mailed, forsaken, expired>>

\* Only expiry takes out what has not been handled.
Expire(batch) ==
    /\ batch \subseteq queued
    /\ queued' = queued \ batch
    /\ expired' = expired \cup batch
    /\ UNCHANGED <<mailed, forsaken, closed>>

Next ==
    \/ \E n \in Notices : Queue(n)
    \/ \E batch \in SUBSET Notices : Mail(batch) \/ Forsake(batch) \/ Close(batch) \/ Expire(batch)

Spec == Init /\ [][Next]_vars
=============================================================================
