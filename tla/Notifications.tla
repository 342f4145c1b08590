--------------------------- MODULE Notifications ---------------------------
(***************************************************************************)
(* E-mail notifications: the producer that API handlers call after a       *)
(* mutation (src/src/notifications.rs), the pending_notifications table,   *)
(* the per-ticket mutes (src/src/api/mute.rs) and the background worker    *)
(* that groups, sends and deletes (src/src/email.rs).                      *)
(*                                                                         *)
(* Every SQL statement is an action of its own: nothing in this part of    *)
(* the program runs in a transaction, so any two statements of two         *)
(* emissions, of the worker and of other requests interleave.              *)
(*                                                                         *)
(* Time is kept as the age of each row: created_at is age 0, send_after is *)
(* age Delay, and a row past age Ttl is purged.                            *)
(***************************************************************************)
EXTENDS Naturals, Sqlite

CONSTANTS
    Users,          \* user ids
    Tickets,        \* ticket ids
    Kinds,          \* the event types emitted, out of EventTypes
    CcLists,        \* bound: the CC lists a ticket may be given
    Delay,          \* S9_NOTIFICATION_DELAY, in clock units
    Ttl,            \* the 24 hours after which a row is purged, in clock units
    MaxEvents,      \* bound: emissions in a behaviour
    MaxRowId,       \* bound: rowids of pending_notifications
    MaxFaults,      \* bound: statement errors and crashes in a behaviour
    MaxChanges      \* bound: changes to users, mutes, owners and CC lists

EventTypes == {"ticket_created", "comment_added", "status_changed",
               "priority_changed", "owner_changed", "milestone_added"}

ASSUME ConstantsAssumption ==
    /\ Kinds \subseteq EventTypes
    /\ CcLists \subseteq SUBSET Users
    /\ Delay \in Nat /\ Ttl \in Nat
    /\ MaxEvents \in Nat /\ MaxRowId \in Nat
    /\ MaxFaults \in Nat /\ MaxChanges \in Nat

VARIABLES
    active,       \* users with is_active = 1
    mailable,     \* users whose email column is not empty
    muted,        \* notification_mutes: the users who muted each ticket
    owner,        \* tickets.owner_id
    compOwner,    \* owner_id of each ticket's component
    cc,           \* ticket_cc: the users on each ticket's CC list
    emissions,    \* the calls of emit_with_mentions in progress
    pending,      \* the rows of pending_notifications
    smtp,         \* S9_SMTP_HOST is set for the running process
    wpc,          \* where the worker is; "down" when the process is not running
    todo,         \* the batched groups the worker has still to handle
    mail,         \* the group it is handling: row ids, and what they notify
    verdict,      \* what it decided about that group
    events,       \* emissions started so far
    faults,       \* faults so far
    changes,      \* environment changes so far
    verdicts,     \* history: the verdicts the worker reached on each notification
    mails,        \* history: e-mails accepted for each notification
    gone          \* history: why the notification's row left the table

social == <<active, mailable, muted, owner, compOwner, cc, changes>>
work   == <<smtp, wpc, todo, mail, verdict>>
past   == <<verdicts, mails, gone>>
vars   == <<social, emissions, pending, work, events, faults, past>>

Events == 1 .. MaxEvents
RowIds == 1 .. MaxRowId

\* A notification is one event for one recipient.
Notices == Events \X Users

\* Ages saturate once they cannot change any comparison.
MaxAge == IF Delay > Ttl THEN Delay ELSE Ttl + 1
Older(age) == IF age < MaxAge THEN age + 1 ELSE age

Row == [id : RowIds, user : Users, ticket : Tickets, ev : Events, age : 0 .. MaxAge]

Emission ==
    [ev : Events, pc : {"owner", "cc", "mutes", "active", "insert"},
     kind : EventTypes, ticket : Tickets, actor : Users, extra : SUBSET Users,
     to : SUBSET Users, age : 0 .. MaxAge,
     quiet : SUBSET Users,     \* history: muted at every moment since the start
     dormant : SUBSET Users]   \* history: inactive at every moment since the start

Verdicts == {"sent", "refused", "unreachable", "discarded"}

Group == [user : Users, ticket : Tickets, ids : SUBSET RowIds,
          notices : SUBSET Notices, ages : SUBSET (0 .. MaxAge)]

NoMail == [ids |-> {}, notices |-> {}]

NoticeOf(r) == <<r.ev, r.user>>
Queued == {NoticeOf(r) : r \in pending}

-----------------------------------------------------------------------------
Init ==
    /\ active = Users
    /\ mailable \in SUBSET Users
    /\ muted = [t \in Tickets |-> {}]
    /\ owner \in [Tickets -> Users]
    /\ compOwner = owner
    /\ cc \in [Tickets -> CcLists]
    /\ emissions = {}
    /\ pending = {}
    /\ smtp = TRUE
    /\ wpc = "sleep" /\ todo = {} /\ mail = NoMail /\ verdict = "none"
    /\ events = 0 /\ faults = 0 /\ changes = 0
    /\ verdicts = [n \in Notices |-> {}]
    /\ mails = [n \in Notices |-> 0]
    /\ gone = [n \in Notices |-> "no"]

-----------------------------------------------------------------------------
Up == wpc # "down"

(* The producer: emit_with_mentions, one action per statement.             *)

Replace(e, f) == emissions' = (emissions \ {e}) \cup {f}

\* "if recipients.is_empty() return Ok(())", else on to the next statement.
Continue(e, next, to) ==
    IF to = {} THEN emissions' = emissions \ {e}
               ELSE Replace(e, [e EXCEPT !.pc = next, !.to = to])

\* A handler calls emit after its mutation; a no-op without SMTP. Only a new
\* comment passes extra recipients, the users it mentions.
BeginEmit ==
    /\ Up /\ smtp
    /\ events < MaxEvents
    /\ events' = events + 1
    /\ \E k \in Kinds, t \in Tickets, a \in Users :
       \E extra \in IF k = "comment_added" THEN SUBSET Users ELSE {{}} :
          emissions' = emissions \cup
              {[ev |-> events + 1, pc |-> "owner", kind |-> k, ticket |-> t,
                actor |-> a, extra |-> extra, to |-> {}, age |-> 0,
                quiet |-> muted[t], dormant |-> Users \ active]}
    /\ UNCHANGED <<social, pending, work, faults, past>>

OwnerAndCc == {"comment_added", "status_changed", "priority_changed", "owner_changed"}

\* The raw recipients and the extra ones, deduplicated, less the actor.
Recipients(e, raw) == (raw \cup e.extra) \ {e.actor}

\* The component owner of a new ticket, else the ticket's current owner.
ReadOwner(e) ==
    LET who == IF e.kind = "ticket_created" THEN compOwner[e.ticket] ELSE owner[e.ticket]
    IN  /\ e.pc = "owner"
        /\ IF e.kind \in OwnerAndCc
             THEN Replace(e, [e EXCEPT !.pc = "cc", !.to = {who}])
             ELSE Continue(e, "mutes", Recipients(e, {who}))
        /\ UNCHANGED <<social, pending, work, events, faults, past>>

ReadCc(e) ==
    /\ e.pc = "cc"
    /\ Continue(e, "mutes", Recipients(e, e.to \cup cc[e.ticket]))
    /\ UNCHANGED <<social, pending, work, events, faults, past>>

MutedUsers(t) == muted[t]

\* Mutant: the mentioned users are added after the mute check.
ReadMutes_MentionsLate(e) ==
    /\ e.pc = "mutes"
    /\ Continue(e, "active", (e.to \ MutedUsers(e.ticket)) \cup (e.extra \ {e.actor}))
    /\ UNCHANGED <<social, pending, work, events, faults, past>>

ReadMutes(e) ==
    /\ e.pc = "mutes"
    /\ Continue(e, "active", e.to \ MutedUsers(e.ticket))
    /\ UNCHANGED <<social, pending, work, events, faults, past>>

InactiveUsers(to) == to \ active

ReadInactive(e) ==
    /\ e.pc = "active"
    /\ Continue(e, "insert", e.to \ InactiveUsers(e.to))
    /\ UNCHANGED <<social, pending, work, events, faults, past>>

\* Mutant: the values of user_id and ticket_id are bound in the wrong order.
InsertRow_BindsSwapped(e) ==
    /\ e.pc = "insert"
    /\ \E u \in e.to, id \in RowIds :
          /\ IsNextRowid(pending, id)
          /\ pending' = pending \cup
                {[id |-> id, user |-> e.ticket, ticket |-> u, ev |-> e.ev, age |-> e.age]}
          /\ Continue(e, "insert", e.to \ {u})
    /\ UNCHANGED <<social, work, events, faults, past>>

\* One INSERT per recipient, in no particular order (a HashSet is iterated).
InsertRow(e) ==
    /\ e.pc = "insert"
    /\ \E u \in e.to, id \in RowIds :
          /\ IsNextRowid(pending, id)
          /\ pending' = pending \cup
                {[id |-> id, user |-> u, ticket |-> e.ticket, ev |-> e.ev, age |-> e.age]}
          /\ Continue(e, "insert", e.to \ {u})
    /\ UNCHANGED <<social, work, events, faults, past>>

\* A statement of the emission fails: "?" returns, and the handler logs the error.
EmitFails(e) ==
    /\ faults < MaxFaults
    /\ faults' = faults + 1
    /\ emissions' = emissions \ {e}
    /\ UNCHANGED <<social, pending, work, events, past>>

Emit(e) == ReadOwner(e) \/ ReadCc(e) \/ ReadMutes(e) \/ ReadInactive(e) \/ InsertRow(e)

-----------------------------------------------------------------------------
(* The worker: notification_worker and process_pending.                    *)

Expired(r) == r.age > Ttl
Due(r) == r.age >= Delay

\* Mutant: without SMTP the worker does nothing at all.
Wake_OnlyWithSmtp ==
    /\ wpc = "sleep"
    /\ wpc' = IF smtp THEN "purge" ELSE "sleep"
    /\ UNCHANGED <<social, emissions, pending, smtp, todo, mail, verdict, events, faults, past>>

Wake ==
    /\ wpc = "sleep"
    /\ wpc' = "purge"
    /\ UNCHANGED <<social, emissions, pending, smtp, todo, mail, verdict, events, faults, past>>

\* Without SMTP the worker only cleans up.
AfterPurge == IF smtp THEN "select" ELSE "sleep"

\* The row of notice n leaves the table in this step, for the reason given.
Leave(removed, why) ==
    gone' = [n \in Notices |-> IF \E r \in removed : NoticeOf(r) = n THEN why ELSE gone[n]]

\* Mutant: the cleanup is a task of its own, running beside the send pass.
PurgeExpired_OwnTask ==
    LET old == {r \in pending : Expired(r)}
    IN  /\ pending' = pending \ old
        /\ Leave(old, "expired")
        /\ wpc' = IF wpc = "purge" THEN AfterPurge ELSE wpc
        /\ UNCHANGED <<social, emissions, smtp, todo, mail, verdict, events, faults, verdicts, mails>>

PurgeExpired ==
    LET old == {r \in pending : Expired(r)}
    IN  /\ wpc = "purge"
        /\ pending' = pending \ old
        /\ Leave(old, "expired")
        /\ wpc' = AfterPurge
        /\ UNCHANGED <<social, emissions, smtp, todo, mail, verdict, events, faults, verdicts, mails>>

\* A failed purge is logged, and the pass goes on.
PurgeFails ==
    /\ wpc = "purge"
    /\ faults < MaxFaults
    /\ faults' = faults + 1
    /\ wpc' = AfterPurge
    /\ UNCHANGED <<social, emissions, pending, smtp, todo, mail, verdict, events, past>>

\* The batch of user u and ticket t: GROUP BY user_id, ticket_id over the due rows.
BatchedGroup(u, t) ==
    LET rows == {r \in pending : Due(r) /\ r.user = u /\ r.ticket = t}
    IN  [user |-> u, ticket |-> t,
         ids |-> {r.id : r \in rows},
         notices |-> {NoticeOf(r) : r \in rows},
         ages |-> {r.age : r \in rows}]

SelectGroups ==
    LET groups == {BatchedGroup(r.user, r.ticket) : r \in {q \in pending : Due(q)}}
    IN  /\ wpc = "select"
        /\ todo' = groups
        /\ wpc' = IF groups = {} THEN "sleep" ELSE "lookup"
        /\ UNCHANGED <<social, emissions, pending, smtp, mail, verdict, events, faults, past>>

Reach(notices, v) ==
    verdicts' = [n \in Notices |-> IF n \in notices THEN verdicts[n] \cup {v} ELSE verdicts[n]]

\* ORDER BY min(created_at): the group with the oldest row comes first.
Oldest(g, groups) == \E a \in g.ages : \A h \in groups : \A b \in h.ages : b <= a

\* Mutant: the rows of an unreachable user are skipped, not deleted.
LookupRecipient_Skips ==
    /\ wpc = "lookup"
    /\ \E g \in todo :
          /\ Oldest(g, todo)
          /\ todo' = todo \ {g}
          /\ IF g.user \in active \cap mailable
               THEN wpc' = "send" /\ mail' = [ids |-> g.ids, notices |-> g.notices]
               ELSE wpc' = (IF todo' = {} THEN "sleep" ELSE "lookup") /\ mail' = NoMail
    /\ UNCHANGED <<social, emissions, pending, smtp, verdict, events, faults, past>>

\* A user who is inactive or has no address has the group's rows deleted unsent.
LookupRecipient ==
    /\ wpc = "lookup"
    /\ \E g \in todo :
          /\ Oldest(g, todo)
          /\ todo' = todo \ {g}
          /\ mail' = [ids |-> g.ids, notices |-> g.notices]
          /\ IF g.user \in active \cap mailable
               THEN wpc' = "send" /\ UNCHANGED <<verdict, verdicts>>
               ELSE wpc' = "delete" /\ verdict' = "discarded" /\ Reach(g.notices, "discarded")
    /\ UNCHANGED <<social, emissions, pending, smtp, events, faults, mails, gone>>

\* The SMTP exchange. An error is a refusal of this message or a server that cannot be
\* reached; it may come after the server took the message (a lost reply).
SendNotification ==
    /\ wpc = "send"
    /\ \E v \in {"sent", "refused", "unreachable"}, taken \in BOOLEAN :
          /\ v = "sent" => taken
          /\ v = "refused" => ~taken
          /\ verdict' = v
          /\ Reach(mail.notices, v)
          /\ mails' = IF taken THEN [n \in Notices |-> IF n \in mail.notices THEN mails[n] + 1
                                                                            ELSE mails[n]]
                               ELSE mails
    /\ wpc' = "delete"
    /\ UNCHANGED <<social, emissions, pending, smtp, todo, mail, events, faults, gone>>

\* Mutant: DELETE ... WHERE user_id = ?.
DeleteNotificationIds_ByUser ==
    LET rows == {r \in pending : \E n \in mail.notices : r.user = n[2]}
    IN  /\ wpc = "delete"
        /\ pending' = pending \ rows
        /\ Leave(rows, verdict)
        /\ wpc' = IF todo = {} THEN "sleep" ELSE "lookup"
        /\ mail' = NoMail
        /\ verdict' = "none"
        /\ UNCHANGED <<social, emissions, smtp, todo, events, faults, verdicts, mails>>

\* Mutant: only the error arm deletes.
DeleteNotificationIds_OnlyOnError ==
    LET rows == {r \in pending : r.id \in mail.ids /\ verdict # "sent"}
    IN  /\ wpc = "delete"
        /\ pending' = pending \ rows
        /\ Leave(rows, verdict)
        /\ wpc' = IF todo = {} THEN "sleep" ELSE "lookup"
        /\ mail' = NoMail
        /\ verdict' = "none"
        /\ UNCHANGED <<social, emissions, smtp, todo, events, faults, verdicts, mails>>

\* Both arms of "match sender.send_notification" delete the rows.
DeleteNotificationIds ==
    LET rows == {r \in pending : r.id \in mail.ids}
    IN  /\ wpc = "delete"
        /\ pending' = pending \ rows
        /\ Leave(rows, verdict)
        /\ wpc' = IF todo = {} THEN "sleep" ELSE "lookup"
        /\ mail' = NoMail
        /\ verdict' = "none"
        /\ UNCHANGED <<social, emissions, smtp, todo, events, faults, verdicts, mails>>

Forget == todo' = {} /\ mail' = NoMail /\ verdict' = "none"

\* A statement of process_pending fails (at "send": the ticket's title cannot be read):
\* the rest of the pass is skipped.
PassFails ==
    /\ wpc \in {"select", "lookup", "send", "delete"}
    /\ faults < MaxFaults
    /\ faults' = faults + 1
    /\ wpc' = "sleep"
    /\ Forget
    /\ UNCHANGED <<social, emissions, pending, smtp, events, past>>

-----------------------------------------------------------------------------
(* What surrounds them.                                                    *)

\* A clock unit passes. An emission has read its clock once it is inserting.
Tick ==
    /\ \/ \E r \in pending : r.age < MaxAge
       \/ \E e \in emissions : e.pc = "insert" /\ e.age < MaxAge
    /\ pending' = {[r EXCEPT !.age = Older(@)] : r \in pending}
    /\ emissions' = {IF e.pc = "insert" THEN [e EXCEPT !.age = Older(@)] ELSE e : e \in emissions}
    /\ UNCHANGED <<social, work, events, faults, past>>

\* The process dies: the database stays, the calls in progress and the worker's memory
\* do not.
Crash ==
    /\ Up
    /\ faults < MaxFaults
    /\ faults' = faults + 1
    /\ emissions' = {}
    /\ wpc' = "down"
    /\ Forget
    /\ UNCHANGED <<social, pending, smtp, events, past>>

\* It is started again, perhaps with SMTP newly configured or no longer so.
Restart ==
    /\ wpc = "down"
    /\ wpc' = "sleep"
    /\ smtp' \in BOOLEAN
    /\ UNCHANGED <<social, emissions, pending, todo, mail, verdict, events, faults, past>>

Worker ==
    Wake \/ PurgeExpired \/ SelectGroups \/ LookupRecipient \/ SendNotification
         \/ DeleteNotificationIds

MayChange == Up /\ changes < MaxChanges /\ changes' = changes + 1

\* INSERT OR IGNORE INTO notification_mutes.
Mute(t, u) ==
    /\ MayChange
    /\ muted' = [muted EXCEPT ![t] = @ \cup {u}]
    /\ UNCHANGED <<active, mailable, owner, compOwner, cc, emissions, pending, work, events, faults, past>>

\* DELETE FROM notification_mutes.
Unmute(t, u) ==
    /\ MayChange
    /\ muted' = [muted EXCEPT ![t] = @ \ {u}]
    /\ emissions' = {IF e.ticket = t THEN [e EXCEPT !.quiet = @ \ {u}] ELSE e : e \in emissions}
    /\ UNCHANGED <<active, mailable, owner, compOwner, cc, pending, work, events, faults, past>>

\* PATCH /api/users/:id writes is_active and email.
UpdateUser(u, isActive, hasEmail) ==
    /\ MayChange
    /\ active' = IF isActive THEN active \cup {u} ELSE active \ {u}
    /\ mailable' = IF hasEmail THEN mailable \cup {u} ELSE mailable \ {u}
    /\ emissions' = IF isActive THEN {[e EXCEPT !.dormant = @ \ {u}] : e \in emissions}
                                ELSE emissions
    /\ UNCHANGED <<muted, owner, compOwner, cc, pending, work, events, faults, past>>

\* PATCH /api/tickets/:id writes owner_id and replaces the CC list in one transaction.
UpdateTicket(t, o, list) ==
    /\ MayChange
    /\ owner' = [owner EXCEPT ![t] = o]
    /\ cc' = [cc EXCEPT ![t] = list]
    /\ UNCHANGED <<active, mailable, muted, compOwner, emissions, pending, work, events, faults, past>>

\* PATCH /api/components/:id writes owner_id, or the ticket moves to another component.
ChangeComponentOwner(t, o) ==
    /\ MayChange
    /\ compOwner' = [compOwner EXCEPT ![t] = o]
    /\ UNCHANGED <<active, mailable, muted, owner, cc, emissions, pending, work, events, faults, past>>

Next ==
    \/ BeginEmit
    \/ \E e \in emissions : Emit(e) \/ EmitFails(e)
    \/ Worker \/ PurgeFails \/ PassFails
    \/ Tick
    \/ Crash \/ Restart
    \/ \E t \in Tickets, u \in Users : Mute(t, u) \/ Unmute(t, u) \/ ChangeComponentOwner(t, u)
    \/ \E u \in Users, a, m \in BOOLEAN : UpdateUser(u, a, m)
    \/ \E t \in Tickets, u \in Users, list \in CcLists : UpdateTicket(t, u, list)

Spec == Init /\ [][Next]_vars

\* The runtime keeps polling the worker, whose sends time out, and the clock runs. A dead
\* process need not be started again.
Fairness == WF_vars(Worker) /\ WF_vars(Tick)

FairSpec == Spec /\ Fairness

-----------------------------------------------------------------------------
(* Correctness.                                                            *)

\* The variables have their types.
TypeOK ==
    /\ active \subseteq Users /\ mailable \subseteq Users
    /\ muted \in [Tickets -> SUBSET Users]
    /\ owner \in [Tickets -> Users]
    /\ compOwner \in [Tickets -> Users]
    /\ cc \in [Tickets -> SUBSET Users]
    /\ emissions \subseteq Emission
    /\ pending \subseteq Row
    /\ smtp \in BOOLEAN
    /\ wpc \in {"down", "sleep", "purge", "select", "lookup", "send", "delete"}
    /\ todo \subseteq Group
    /\ mail \in [ids : SUBSET RowIds, notices : SUBSET Notices]
    /\ verdict \in Verdicts \cup {"none"} /\ (wpc = "delete" => verdict # "none")
    /\ events \in 0 .. MaxEvents /\ faults \in 0 .. MaxFaults /\ changes \in 0 .. MaxChanges
    /\ verdicts \in [Notices -> SUBSET Verdicts]
    /\ mails \in [Notices -> Nat]
    /\ gone \in [Notices -> Verdicts \cup {"no", "expired"}]

\* The ids the worker holds still name the rows it read, although SQLite gives the id
\* of a deleted last row out again (process_pending reads, sends for seconds, and only
\* then deletes by id).
GroupRowsLive ==
    \A g \in todo : \A i \in g.ids :
        \E r \in pending : r.id = i /\ NoticeOf(r) \in g.notices /\ r.user = g.user /\ r.ticket = g.ticket
MailRowsLive == \A i \in mail.ids : \E r \in pending : r.id = i /\ NoticeOf(r) \in mail.notices
HeldRowsLive == GroupRowsLive /\ MailRowsLive

\* What makes HeldRowsLive inductive: ids are unique, the groups share no row, and the
\* worker holds nothing outside a pass.
GroupsApart ==
    /\ \A g, h \in todo : g.user = h.user /\ g.ticket = h.ticket => g = h
    /\ \A g \in todo : g.ids \cap mail.ids = {}
HoldsNothing == wpc \in {"down", "sleep", "purge", "select"} => todo = {} /\ mail = NoMail
NoMailBetweenGroups == wpc = "lookup" => mail = NoMail
VerdictReached ==
    wpc = "delete" => verdict \in Verdicts /\ \A n \in mail.notices : verdict \in verdicts[n]

RowsInv == /\ HeldRowsLive /\ UniqueIds(pending) /\ GroupsApart /\ HoldsNothing /\ NoMailBetweenGroups
           /\ VerdictReached

\* No notification is lost silently: a row that left the table with a verdict is one
\* that verdict was reached on, not one that arrived while a mail was being sent.
GoneForItsOwnVerdict == \A n \in Notices : gone[n] \in Verdicts => gone[n] \in verdicts[n]

\* Nobody is mailed twice about one event, except that each fault (a crash or a failed
\* statement between the send and the delete) may repeat a mail once.
RepeatedOnlyByFaults == \A n \in Notices : mails[n] <= 1 + faults

\* The users an emission is about to notify: never the actor, nobody who had the ticket
\* muted, or whose account was inactive, all the time the emission was running.
ConsentAtEmission ==
    \A e \in emissions : e.pc = "insert" => e.to \cap (e.quiet \cup e.dormant \cup {e.actor}) = {}

\* The table and the worker implement the abstract queue of NotificationOutbox.
Outbox == INSTANCE NotificationOutbox WITH
    queued   <- Queued,
    mailed   <- {n \in Notices : "sent" \in verdicts[n]},
    forsaken <- {n \in Notices : verdicts[n] \ {"sent"} # {}},
    closed   <- {n \in Notices : gone[n] \in Verdicts},
    expired  <- {n \in Notices : gone[n] = "expired"}

OutboxSpec == Outbox!Spec

\* While the process stays up, every row leaves the table: mailed, given up, or expired,
\* with SMTP configured or not, and whatever passes failed before.
EveryRowLeaves == \A n \in Notices : (n \in Queued) ~> (n \notin Queued \/ ~Up)

\* notifications.md 11.1: when the SMTP server cannot be reached the rows remain for
\* the next tick. (The code deletes them.)
UnreachableServerLosesNothing == \A n \in Notices : gone[n] # "unreachable"
=============================================================================
