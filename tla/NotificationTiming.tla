------------------------- MODULE NotificationTiming -------------------------
(***************************************************************************)
(* Notifications on a server that keeps up: an emission takes no time to   *)
(* speak of, and while the process is up a pass of the worker ends within  *)
(* each clock unit. The unit is then the worker's tick interval (email.rs, *)
(* 30 seconds), and what the worker does can be bounded in time.           *)
(***************************************************************************)
EXTENDS Notifications

VARIABLE rested     \* a pass has ended since the last clock unit

PassEnds == wpc' = "sleep" /\ wpc \notin {"sleep", "down"}

PunctualInit == Init /\ rested = TRUE

PunctualNext ==
    /\ Next
    /\ Tick => emissions = {} /\ (rested \/ ~Up)
    /\ rested' = (PassEnds \/ (rested /\ ~Tick))

PunctualSpec == PunctualInit /\ [][PunctualNext]_<<vars, rested>>

-----------------------------------------------------------------------------
\* A row that is due at once may miss the pass that is under way.
Window == IF Delay = 0 THEN 1 ELSE Delay

\* A row waits one clock unit past its window at most, unless something failed: no kind
\* of recipient, and no order of mutes and profile changes, makes process_pending put a
\* row off to a later pass.
HandledPromptly == \A r \in pending : r.age > Window + 1 => faults > 0

\* What makes it inductive: what is past its window, or comes to its end before the clock
\* moves again, is in the hands of the pass under way.
Held(r) == r.id \in mail.ids \/ \E g \in todo : r.id \in g.ids
InTime(r) ==
    /\ r.age <= Window + 1
    /\ rested => r.age <= Window
    /\ wpc \in {"lookup", "send", "delete"} /\ (r.age > Window \/ (rested /\ r.age = Window)) => Held(r)
TimelyInv ==
    /\ \A e \in emissions : e.age = 0
    /\ faults = 0 => Up /\ smtp /\ \A r \in pending : InTime(r)

\* notifications.md 11.3: the cleanup runs on every tick "after the send pass", so with
\* SMTP a row expires only after a pass has tried it. (notification_worker purges first:
\* after a long outage it drops rows that no pass has seen.)
ExpiryFollowsASendPass ==
    [][\A n \in Notices :
          smtp /\ gone[n] # "expired" /\ gone'[n] = "expired" => verdicts[n] # {}]_vars
=============================================================================
