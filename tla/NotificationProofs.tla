------------------------- MODULE NotificationProofs -------------------------
(***************************************************************************)
(* Theorems about Notifications, NotificationTiming and the refinement of  *)
(* NotificationOutbox, for every set of users and tickets, every delay and *)
(* every number of events and faults.                                      *)
(***************************************************************************)
EXTENDS NotificationTiming, TLAPS

LEMMA AgeBound == MaxAge \in Nat /\ \A a \in 0 .. MaxAge : Older(a) \in 0 .. MaxAge
BY ConstantsAssumption DEF MaxAge, Older

\* Moving an emission on keeps the emissions in their type.
LEMMA ContinueType ==
    ASSUME emissions \subseteq Emission, NEW e \in emissions, NEW to \in SUBSET Users,
           NEW next \in {"owner", "cc", "mutes", "active", "insert"}
    PROVE  /\ Continue(e, next, to) => emissions' \subseteq Emission
           /\ Replace(e, [e EXCEPT !.pc = next, !.to = to]) => emissions' \subseteq Emission
<1>1. [e EXCEPT !.pc = next, !.to = to] \in Emission
  BY DEF Emission
<1> QED
  BY <1>1 DEF Continue, Replace

\* Every action keeps every variable in its type.
LEMMA TypeStep == TypeOK /\ [Next]_vars => TypeOK'
<1> SUFFICES ASSUME TypeOK, [Next]_vars PROVE TypeOK'
  OBVIOUS
<1> USE ConstantsAssumption, AgeBound
<1>1. CASE BeginEmit
  BY <1>1 DEF TypeOK, BeginEmit, social, work, past, Emission, Events
<1>2. ASSUME NEW e \in emissions, ReadOwner(e) PROVE TypeOK'
  <2>1. e \in Emission /\ emissions \subseteq Emission
    BY DEF TypeOK
  <2>2. owner[e.ticket] \in Users /\ compOwner[e.ticket] \in Users /\ e.extra \subseteq Users
    BY <2>1 DEF TypeOK, Emission
  <2>3. emissions' \subseteq Emission
    BY <1>2, <2>1, <2>2, ContinueType DEF ReadOwner, Recipients
  <2> QED
    BY <1>2, <2>3 DEF TypeOK, ReadOwner, social, work, past
<1>3. ASSUME NEW e \in emissions, ReadCc(e) PROVE TypeOK'
  <2>1. e \in Emission /\ emissions \subseteq Emission
    BY DEF TypeOK
  <2>2. Recipients(e, e.to \cup cc[e.ticket]) \in SUBSET Users
    BY <2>1 DEF TypeOK, Emission, Recipients
  <2>3. emissions' \subseteq Emission
    BY <1>3, <2>1, <2>2, ContinueType DEF ReadCc
  <2> QED
    BY <1>3, <2>3 DEF TypeOK, ReadCc, social, work, past
<1>4. ASSUME NEW e \in emissions, ReadMutes(e) PROVE TypeOK'
  <2>1. e \in Emission /\ emissions \subseteq Emission /\ e.to \ MutedUsers(e.ticket) \in SUBSET Users
    BY DEF TypeOK, Emission
  <2>2. emissions' \subseteq Emission
    BY <1>4, <2>1, ContinueType DEF ReadMutes
  <2> QED
    BY <1>4, <2>2 DEF TypeOK, ReadMutes, social, work, past
<1>5. ASSUME NEW e \in emissions, ReadInactive(e) PROVE TypeOK'
  <2>1. e \in Emission /\ emissions \subseteq Emission /\ e.to \ InactiveUsers(e.to) \in SUBSET Users
    BY DEF TypeOK, Emission
  <2>2. emissions' \subseteq Emission
    BY <1>5, <2>1, ContinueType DEF ReadInactive
  <2> QED
    BY <1>5, <2>2 DEF TypeOK, ReadInactive, social, work, past
<1>6. ASSUME NEW e \in emissions, InsertRow(e) PROVE TypeOK'
  <2>1. e \in Emission /\ emissions \subseteq Emission
    BY DEF TypeOK
  <2> PICK u \in e.to, id \in RowIds :
         /\ pending' = pending \cup
               {[id |-> id, user |-> u, ticket |-> e.ticket, ev |-> e.ev, age |-> e.age]}
         /\ Continue(e, "insert", e.to \ {u})
    BY <1>6 DEF InsertRow
  <2>2. pending' \subseteq Row
    BY <2>1 DEF TypeOK, Emission, Row
  <2>3. e.to \ {u} \in SUBSET Users
    BY <2>1 DEF Emission
  <2>4. emissions' \subseteq Emission
    BY <2>1, <2>3, ContinueType
  <2> QED
    BY <1>6, <2>2, <2>4 DEF TypeOK, InsertRow, social, work, past
<1>7. ASSUME NEW e \in emissions, EmitFails(e) PROVE TypeOK'
  BY <1>7 DEF TypeOK, EmitFails, social, work, past
<1>8. CASE Wake
  BY <1>8 DEF TypeOK, Wake, social, past
<1>9. CASE PurgeExpired
  BY <1>9 DEF TypeOK, PurgeExpired, Leave, AfterPurge, social
<1>10. CASE PurgeFails
  BY <1>10 DEF TypeOK, PurgeFails, AfterPurge, social, past
<1>11. CASE SelectGroups
  BY <1>11 DEF TypeOK, SelectGroups, BatchedGroup, Group, Row, Notices, NoticeOf, social, past
<1>12. CASE LookupRecipient
  BY <1>12 DEF TypeOK, LookupRecipient, Reach, Verdicts, Group, social
<1>13. CASE SendNotification
  BY <1>13 DEF TypeOK, SendNotification, Reach, Verdicts, social
<1>14. CASE DeleteNotificationIds
  BY <1>14 DEF TypeOK, DeleteNotificationIds, Leave, NoMail, social
<1>15. CASE PassFails
  BY <1>15 DEF TypeOK, PassFails, Forget, NoMail, social, past
<1>16. CASE Tick
  BY <1>16 DEF TypeOK, Tick, Row, Emission, social, work, past
<1>17. CASE Crash
  BY <1>17 DEF TypeOK, Crash, Forget, NoMail, social, past
<1>18. CASE Restart
  BY <1>18 DEF TypeOK, Restart, social, past
<1>19. ASSUME NEW t \in Tickets, NEW u \in Users, Mute(t, u) PROVE TypeOK'
  BY <1>19 DEF TypeOK, Mute, MayChange, work, past
<1>20. ASSUME NEW t \in Tickets, NEW u \in Users, Unmute(t, u) PROVE TypeOK'
  BY <1>20 DEF TypeOK, Unmute, MayChange, Emission, work, past
<1>21. ASSUME NEW u \in Users, NEW a \in BOOLEAN, NEW m \in BOOLEAN, UpdateUser(u, a, m) PROVE TypeOK'
  BY <1>21 DEF TypeOK, UpdateUser, MayChange, Emission, work, past
<1>22. ASSUME NEW t \in Tickets, NEW u \in Users, NEW list \in CcLists, UpdateTicket(t, u, list) PROVE TypeOK'
  BY <1>22 DEF TypeOK, UpdateTicket, MayChange, work, past
<1>23. ASSUME NEW t \in Tickets, NEW u \in Users, ChangeComponentOwner(t, u) PROVE TypeOK'
  BY <1>23 DEF TypeOK, ChangeComponentOwner, MayChange, work, past
<1>24. CASE UNCHANGED vars
  BY <1>24 DEF TypeOK, vars, social, work, past
<1> QED
  BY <1>1, <1>2, <1>3, <1>4, <1>5, <1>6, <1>7, <1>8, <1>9, <1>10, <1>11, <1>12, <1>13, <1>14,
     <1>15, <1>16, <1>17, <1>18, <1>19, <1>20, <1>21, <1>22, <1>23, <1>24
     DEF Next, Emit, Worker

\* The types of the queue, of the worker and of the histories, in every behaviour.
THEOREM TypeCorrect == Spec => []TypeOK
<1>1. Init => TypeOK
  BY ConstantsAssumption DEF Init, TypeOK, NoMail
<1>2. QED
  BY <1>1, TypeStep, PTL DEF Spec

-----------------------------------------------------------------------------
(* The rows the worker holds.                                              *)

\* The row part of the state: what RowsInv is about.
rowState == <<pending, work, verdicts>>

\* A step that touches neither the table nor the worker keeps the invariant.
LEMMA RowsElsewhere == RowsInv /\ UNCHANGED rowState => RowsInv'
BY DEF rowState, work, RowsInv, HeldRowsLive, GroupRowsLive, MailRowsLive, UniqueIds,
       GroupsApart, HoldsNothing, NoMailBetweenGroups, VerdictReached, NoticeOf

\* A pass that ends early, or with the process, leaves nothing in the worker's hands.
LEMMA RowsForget ==
    ASSUME RowsInv, Forget, wpc' \in {"sleep", "down"}, UNCHANGED pending
    PROVE  RowsInv'
BY DEF Forget, NoMail, RowsInv, HeldRowsLive, GroupRowsLive, MailRowsLive, UniqueIds,
       GroupsApart, HoldsNothing, NoMailBetweenGroups, VerdictReached

\* A new row takes an id that no row has, so it cannot be one the worker holds.
LEMMA RowsInsert ==
    ASSUME TypeOK, RowsInv, NEW e \in emissions, InsertRow(e)
    PROVE  RowsInv'
<1> PICK u \in e.to, id \in RowIds :
       /\ IsNextRowid(pending, id)
       /\ pending' = pending \cup
             {[id |-> id, user |-> u, ticket |-> e.ticket, ev |-> e.ev, age |-> e.age]}
  BY DEF InsertRow
<1> DEFINE new == [id |-> id, user |-> u, ticket |-> e.ticket, ev |-> e.ev, age |-> e.age]
<1>1. \A r \in pending : r.id # id
  <2>1. \A r \in pending : r.id \in Nat
    BY ConstantsAssumption DEF TypeOK, Row, RowIds
  <2> QED
    BY <2>1 DEF IsNextRowid, RowIds
<1>2. UNCHANGED <<work, verdicts>> /\ pending' = pending \cup {new} /\ new.id = id
  BY DEF InsertRow, past
<1>3. UniqueIds(pending)'
  BY <1>1, <1>2 DEF RowsInv, UniqueIds
<1>4. \A r \in pending : r \in pending'
  BY <1>2
<1>5. UNCHANGED <<todo, mail>>
  BY <1>2 DEF work
<1>6. GroupRowsLive'
  BY <1>4, <1>5 DEF RowsInv, HeldRowsLive, GroupRowsLive, NoticeOf
<1>7. MailRowsLive'
  BY <1>4, <1>5 DEF RowsInv, HeldRowsLive, MailRowsLive, NoticeOf
<1> QED
  BY <1>2, <1>3, <1>6, <1>7
     DEF work, RowsInv, HeldRowsLive, GroupsApart, HoldsNothing, NoMailBetweenGroups, VerdictReached

\* The groups of one query share no row, and their rows are in the table.
LEMMA RowsSelect == ASSUME TypeOK, RowsInv, SelectGroups PROVE RowsInv'
<1>1. \A g \in todo' : \E r \in pending : g = BatchedGroup(r.user, r.ticket)
  BY DEF SelectGroups
<1>2. UNCHANGED <<pending, mail, verdict>> /\ mail = NoMail
      /\ (wpc' = "lookup" \/ (wpc' = "sleep" /\ todo' = {}))
  BY DEF SelectGroups, RowsInv, HoldsNothing
<1>3. GroupRowsLive'
  BY <1>1, <1>2 DEF GroupRowsLive, BatchedGroup, NoticeOf
<1>4. GroupsApart'
  <2>1. \A g \in todo' : g = BatchedGroup(g.user, g.ticket)
    BY <1>1 DEF BatchedGroup
  <2>2. \A g, h \in todo' : g.user = h.user /\ g.ticket = h.ticket => g = h
    BY <2>1
  <2>3. mail'.ids = {}
    BY <1>2 DEF NoMail
  <2> QED
    BY <2>2, <2>3 DEF GroupsApart
<1>5. MailRowsLive' /\ UniqueIds(pending)'
  BY <1>2 DEF RowsInv, HeldRowsLive, MailRowsLive, UniqueIds, NoMail
<1> QED
  BY <1>2, <1>3, <1>4, <1>5
     DEF RowsInv, HeldRowsLive, HoldsNothing, NoMailBetweenGroups, VerdictReached

\* Taking a group up: its rows are not those of the groups left.
LEMMA RowsLookup == ASSUME TypeOK, RowsInv, LookupRecipient PROVE RowsInv'
<1> PICK g \in todo :
       /\ todo' = todo \ {g}
       /\ mail' = [ids |-> g.ids, notices |-> g.notices]
       /\ \/ wpc' = "send" /\ UNCHANGED <<verdict, verdicts>>
          \/ wpc' = "delete" /\ verdict' = "discarded" /\ Reach(g.notices, "discarded")
  BY DEF LookupRecipient
<1>1. UNCHANGED pending
  BY DEF LookupRecipient
<1>2. HeldRowsLive' /\ UniqueIds(pending)'
  <2>1. GroupRowsLive'
    BY <1>1 DEF RowsInv, HeldRowsLive, GroupRowsLive, NoticeOf
  <2>2. MailRowsLive'
    BY <1>1 DEF RowsInv, HeldRowsLive, GroupRowsLive, MailRowsLive, NoticeOf
  <2>3. UniqueIds(pending)'
    BY <1>1 DEF RowsInv, UniqueIds
  <2> QED
    BY <2>1, <2>2, <2>3 DEF HeldRowsLive
<1>3. \A h \in todo : h # g => h.ids \cap g.ids = {}
  <2> SUFFICES ASSUME NEW h \in todo, h # g, NEW i \in h.ids \cap g.ids PROVE FALSE
    OBVIOUS
  <2>1. PICK r \in pending : r.id = i /\ r.user = h.user /\ r.ticket = h.ticket
    BY DEF RowsInv, HeldRowsLive, GroupRowsLive
  <2>2. PICK q \in pending : q.id = i /\ q.user = g.user /\ q.ticket = g.ticket
    BY DEF RowsInv, HeldRowsLive, GroupRowsLive
  <2> QED
    BY <2>1, <2>2 DEF RowsInv, UniqueIds, GroupsApart
<1>4. GroupsApart'
  BY <1>3 DEF RowsInv, GroupsApart
<1>5. VerdictReached'
  BY DEF TypeOK, Group, Verdicts, Reach, VerdictReached
<1> QED
  BY <1>2, <1>4, <1>5 DEF RowsInv, HoldsNothing, NoMailBetweenGroups

\* What is deleted is exactly the rows of the group in hand; those of the other groups
\* stay.
LEMMA RowsDelete == ASSUME RowsInv, DeleteNotificationIds PROVE RowsInv'
<1>1. /\ pending' = {r \in pending : r.id \notin mail.ids}
      /\ todo' = todo /\ mail' = NoMail
      /\ (wpc' = "lookup" \/ (wpc' = "sleep" /\ todo' = {}))
  BY DEF DeleteNotificationIds
<1>2. GroupRowsLive'
  <2> SUFFICES ASSUME NEW g \in todo, NEW i \in g.ids
               PROVE  \E r \in pending' : /\ r.id = i /\ NoticeOf(r) \in g.notices
                                         /\ r.user = g.user /\ r.ticket = g.ticket
    BY <1>1 DEF GroupRowsLive, NoticeOf
  <2>1. PICK r \in pending : /\ r.id = i /\ NoticeOf(r) \in g.notices
                             /\ r.user = g.user /\ r.ticket = g.ticket
    BY DEF RowsInv, HeldRowsLive, GroupRowsLive
  <2>2. i \notin mail.ids
    BY DEF RowsInv, GroupsApart
  <2> QED
    BY <1>1, <2>1, <2>2
<1>3. MailRowsLive' /\ UniqueIds(pending)' /\ GroupsApart'
  BY <1>1 DEF RowsInv, MailRowsLive, UniqueIds, GroupsApart, NoMail
<1> QED
  BY <1>1, <1>2, <1>3
     DEF RowsInv, HeldRowsLive, HoldsNothing, NoMailBetweenGroups, VerdictReached

\* Growing older changes neither the id, the user, the ticket nor the event of a row.
LEMMA RowsTick == ASSUME TypeOK, RowsInv, Tick PROVE RowsInv'
<1>1. pending' = {[r EXCEPT !.age = Older(@)] : r \in pending} /\ UNCHANGED <<work, verdicts>>
  BY DEF Tick, past
<1> DEFINE aged(r) == [r EXCEPT !.age = Older(@)]
<1>2. \A r \in pending : /\ aged(r).id = r.id /\ aged(r).user = r.user
                         /\ aged(r).ticket = r.ticket /\ NoticeOf(aged(r)) = NoticeOf(r)
                         /\ aged(r) \in pending'
  BY <1>1 DEF TypeOK, Row, NoticeOf
<1>3. \A r \in pending' : \E q \in pending : r = aged(q)
  BY <1>1
<1>4. UniqueIds(pending)'
  <2> SUFFICES ASSUME NEW r \in pending', NEW q \in pending', r.id = q.id PROVE r = q
    BY DEF UniqueIds
  <2>1. PICK r0 \in pending, q0 \in pending : r = aged(r0) /\ q = aged(q0)
    BY <1>3
  <2>2. r0.id = q0.id
    BY <1>2, <2>1
  <2> QED
    BY <2>1, <2>2 DEF RowsInv, UniqueIds
<1>5. GroupRowsLive'
  <2> SUFFICES ASSUME NEW g \in todo, NEW i \in g.ids
               PROVE  \E r \in pending' : /\ r.id = i /\ NoticeOf(r) \in g.notices
                                         /\ r.user = g.user /\ r.ticket = g.ticket
    BY <1>1 DEF GroupRowsLive, NoticeOf, work
  <2>1. PICK r \in pending : /\ r.id = i /\ NoticeOf(r) \in g.notices
                             /\ r.user = g.user /\ r.ticket = g.ticket
    BY DEF RowsInv, HeldRowsLive, GroupRowsLive
  <2> QED
    BY <1>2, <2>1
<1>6. MailRowsLive'
  <2> SUFFICES ASSUME NEW i \in mail.ids
               PROVE  \E r \in pending' : r.id = i /\ NoticeOf(r) \in mail.notices
    BY <1>1 DEF MailRowsLive, NoticeOf, work
  <2>1. PICK r \in pending : r.id = i /\ NoticeOf(r) \in mail.notices
    BY DEF RowsInv, HeldRowsLive, MailRowsLive
  <2> QED
    BY <1>2, <2>1
<1> QED
  BY <1>1, <1>4, <1>5, <1>6
     DEF work, RowsInv, HeldRowsLive, GroupsApart, HoldsNothing, NoMailBetweenGroups, VerdictReached

\* Every action keeps the invariant.
LEMMA RowsStep == TypeOK /\ RowsInv /\ [Next]_vars => RowsInv'
<1> SUFFICES ASSUME TypeOK, RowsInv, [Next]_vars PROVE RowsInv'
  OBVIOUS
<1>1. CASE BeginEmit \/ UNCHANGED vars
  BY <1>1, RowsElsewhere DEF BeginEmit, vars, rowState, past
<1>2. ASSUME NEW e \in emissions,
             ReadOwner(e) \/ ReadCc(e) \/ ReadMutes(e) \/ ReadInactive(e) \/ EmitFails(e)
      PROVE  RowsInv'
  BY <1>2, RowsElsewhere DEF ReadOwner, ReadCc, ReadMutes, ReadInactive, EmitFails, rowState, past
<1>3. ASSUME NEW e \in emissions, InsertRow(e) PROVE RowsInv'
  BY <1>3, RowsInsert
<1>4. CASE Wake
  BY <1>4 DEF Wake, past, NoMail, RowsInv, HeldRowsLive, GroupRowsLive, MailRowsLive, UniqueIds,
       GroupsApart, HoldsNothing, NoMailBetweenGroups, VerdictReached
<1>5. CASE PurgeExpired \/ PurgeFails
  <2>1. pending' \subseteq pending /\ todo' = {} /\ mail' = NoMail /\ wpc' \in {"select", "sleep"}
    BY <1>5 DEF PurgeExpired, PurgeFails, AfterPurge, RowsInv, HoldsNothing
  <2> QED
    BY <2>1 DEF NoMail, RowsInv, HeldRowsLive, GroupRowsLive, MailRowsLive, UniqueIds,
       GroupsApart, HoldsNothing, NoMailBetweenGroups, VerdictReached
<1>6. CASE SelectGroups
  BY <1>6, RowsSelect
<1>7. CASE LookupRecipient
  BY <1>7, RowsLookup
<1>8. CASE SendNotification
  <2>1. PICK v \in {"sent", "refused", "unreachable"} : verdict' = v /\ Reach(mail.notices, v)
    BY <1>8 DEF SendNotification
  <2>2. VerdictReached'
    BY <1>8, <2>1 DEF SendNotification, TypeOK, Reach, Verdicts, VerdictReached
  <2> QED
    BY <1>8, <2>2 DEF SendNotification, RowsInv, HeldRowsLive, GroupRowsLive, MailRowsLive, UniqueIds,
       GroupsApart, HoldsNothing, NoMailBetweenGroups
<1>9. CASE DeleteNotificationIds
  BY <1>9, RowsDelete
<1>10. CASE PassFails \/ Crash
  BY <1>10, RowsForget DEF PassFails, Crash
<1>11. CASE Restart
  BY <1>11 DEF Restart, past, NoMail, RowsInv, HeldRowsLive, GroupRowsLive, MailRowsLive, UniqueIds,
       GroupsApart, HoldsNothing, NoMailBetweenGroups, VerdictReached
<1>12. CASE Tick
  BY <1>12, RowsTick
<1>13. ASSUME NEW t \in Tickets, NEW u \in Users, Mute(t, u) \/ Unmute(t, u) \/ ChangeComponentOwner(t, u)
       PROVE  RowsInv'
  BY <1>13, RowsElsewhere DEF Mute, Unmute, ChangeComponentOwner, rowState, past
<1>14. ASSUME NEW u \in Users, NEW a \in BOOLEAN, NEW m \in BOOLEAN, UpdateUser(u, a, m) PROVE RowsInv'
  BY <1>14, RowsElsewhere DEF UpdateUser, rowState, past
<1>15. ASSUME NEW t \in Tickets, NEW u \in Users, NEW list \in CcLists, UpdateTicket(t, u, list)
       PROVE  RowsInv'
  BY <1>15, RowsElsewhere DEF UpdateTicket, rowState, past
<1> QED
  BY <1>1, <1>2, <1>3, <1>4, <1>5, <1>6, <1>7, <1>8, <1>9, <1>10, <1>11, <1>12, <1>13, <1>14, <1>15
     DEF Next, Emit, Worker

LEMMA RowsInit == Init => RowsInv
BY DEF Init, NoMail, RowsInv, HeldRowsLive, GroupRowsLive, MailRowsLive, UniqueIds,
       GroupsApart, HoldsNothing, NoMailBetweenGroups, VerdictReached

\* The ids the worker holds across its sends name the rows it read.
THEOREM WorkerHoldsLiveRows == Spec => []HeldRowsLive
<1>1. RowsInv => HeldRowsLive
  BY DEF RowsInv
<1>2. Init => TypeOK
  BY ConstantsAssumption DEF Init, TypeOK, NoMail
<1> QED
  BY <1>1, <1>2, RowsInit, RowsStep, TypeStep, PTL DEF Spec

\* A step that marks a notification with a verdict is a deletion, of a row the verdict
\* was reached on; verdicts are never taken back.
LEMMA VerdictStep ==
    TypeOK /\ RowsInv /\ GoneForItsOwnVerdict /\ [Next]_vars => GoneForItsOwnVerdict'
<1> SUFFICES ASSUME TypeOK, RowsInv, GoneForItsOwnVerdict, [Next]_vars PROVE GoneForItsOwnVerdict'
  OBVIOUS
<1>1. CASE UNCHANGED <<gone, verdicts>>
  BY <1>1 DEF GoneForItsOwnVerdict
<1>2. CASE PurgeExpired
  BY <1>2 DEF PurgeExpired, Leave, GoneForItsOwnVerdict, Verdicts
<1>3. CASE LookupRecipient \/ SendNotification
  <2>1. UNCHANGED gone
    BY <1>3 DEF LookupRecipient, SendNotification
  <2>2. \A n \in Notices : verdicts[n] \subseteq verdicts'[n]
    BY <1>3 DEF LookupRecipient, SendNotification, Reach
  <2> QED
    BY <2>1, <2>2 DEF GoneForItsOwnVerdict
<1>4. CASE DeleteNotificationIds
  <2> DEFINE rows == {r \in pending : r.id \in mail.ids}
  <2>1. UNCHANGED verdicts /\ Leave(rows, verdict) /\ wpc = "delete"
    BY <1>4 DEF DeleteNotificationIds
  <2>2. \A r \in rows : NoticeOf(r) \in mail.notices
    BY DEF RowsInv, HeldRowsLive, MailRowsLive, UniqueIds
  <2>3. \A n \in mail.notices : verdict \in verdicts[n]
    BY <2>1 DEF RowsInv, VerdictReached
  <2> QED
    BY <2>1, <2>2, <2>3 DEF Leave, GoneForItsOwnVerdict
<1> QED
  BY <1>1, <1>2, <1>3, <1>4
     DEF Next, Emit, Worker, vars, past, BeginEmit, ReadOwner, ReadCc, ReadMutes, ReadInactive,
         InsertRow, EmitFails, Wake, PurgeFails, SelectGroups, PassFails, Tick, Crash, Restart,
         Mute, Unmute, UpdateUser, UpdateTicket, ChangeComponentOwner

\* No row is deleted with a mail it was not part of.
THEOREM NothingLostSilently == Spec => []GoneForItsOwnVerdict
<1>1. Init => TypeOK /\ GoneForItsOwnVerdict
  BY ConstantsAssumption DEF Init, TypeOK, NoMail, GoneForItsOwnVerdict, Verdicts
<1> QED
  BY <1>1, RowsInit, RowsStep, TypeStep, VerdictStep, PTL DEF Spec

-----------------------------------------------------------------------------
(* A server that keeps up.                                                 *)

LEMMA WindowType == Window \in Nat /\ Window >= 1 /\ Window >= Delay /\ Delay \in Nat
BY ConstantsAssumption DEF Window

LEMMA EmissionsKeepAge ==
    ASSUME TypeOK, \A e \in emissions : e.age = 0, [Next]_vars
    PROVE  emissions = {} \/ ~ Tick => \A e \in emissions' : e.age = 0
<1> SUFFICES ASSUME emissions = {} \/ ~ Tick PROVE \A e \in emissions' : e.age = 0
  OBVIOUS
<1>1. CASE emissions' \subseteq emissions
  BY <1>1
<1>2. CASE BeginEmit
  BY <1>2 DEF BeginEmit
<1>3. ASSUME NEW e \in emissions, NEW next, NEW to,
             emissions' \subseteq emissions \cup {[e EXCEPT !.pc = next, !.to = to]}
      PROVE  \A f \in emissions' : f.age = 0
  <2>1. e \in Emission
    BY DEF TypeOK
  <2>2. [e EXCEPT !.pc = next, !.to = to].age = e.age
    BY <2>1 DEF Emission
  <2> QED
    BY <1>3, <2>2
<1>4. ASSUME NEW e \in emissions, Emit(e) PROVE \A f \in emissions' : f.age = 0
  <2>1. \E next, to : emissions' \subseteq emissions \cup {[e EXCEPT !.pc = next, !.to = to]}
    BY <1>4 DEF Emit, ReadOwner, ReadCc, ReadMutes, ReadInactive, InsertRow, Continue, Replace
  <2> QED
    BY <1>3, <2>1
<1>5. CASE Tick
  BY <1>5 DEF Tick
<1>6. ASSUME NEW t \in Tickets, NEW u \in Users, Unmute(t, u) PROVE \A f \in emissions' : f.age = 0
  BY <1>6 DEF Unmute, TypeOK, Emission
<1>7. ASSUME NEW u \in Users, NEW a \in BOOLEAN, NEW m \in BOOLEAN, UpdateUser(u, a, m)
      PROVE  \A f \in emissions' : f.age = 0
  BY <1>7 DEF UpdateUser, TypeOK, Emission
<1> QED
  BY <1>1, <1>2, <1>4, <1>5, <1>6, <1>7
     DEF Next, Worker, EmitFails, Wake, PurgeExpired, PurgeFails, SelectGroups, LookupRecipient,
         SendNotification, DeleteNotificationIds, PassFails, Crash, Restart, Mute,
         UpdateTicket, ChangeComponentOwner, vars

LEMMA AgesAreNumbers == TypeOK => \A r \in pending : r.age \in Nat
BY AgeBound DEF TypeOK, Row

\* The clock moves only when every row that comes to the end of its window is in the
\* hands of the pass under way.
LEMMA TimelyTick ==
    ASSUME TypeOK, TimelyInv, faults = 0, Tick, rested, ~ rested'
    PROVE  Up' /\ smtp' /\ \A r \in pending' : InTime(r)'
<1>1. pending' = {[r EXCEPT !.age = Older(@)] : r \in pending} /\ UNCHANGED <<smtp, wpc, todo, mail>>
  BY DEF Tick, work
<1>2. ASSUME NEW r \in pending' PROVE InTime(r)'
  <2> PICK q \in pending : r = [q EXCEPT !.age = Older(@)]
    BY <1>1
  <2>1. r.id = q.id /\ r.age = Older(q.age) /\ q.age \in Nat
    BY AgesAreNumbers DEF TypeOK, Row
  <2>2. r.age \in Nat /\ r.age <= q.age + 1
    BY <2>1 DEF Older
  <2>3. q.age <= Window /\ (wpc \in {"lookup", "send", "delete"} /\ q.age = Window => Held(q))
    BY DEF TimelyInv, InTime
  <2>4. r.age <= Window + 1 /\ (r.age > Window => q.age = Window)
    BY <2>1, <2>2, <2>3, WindowType
  <2>5. Held(q) => Held(r)'
    BY <1>1, <2>1 DEF Held
  <2> QED
    BY <1>1, <2>3, <2>4, <2>5 DEF InTime
<1> QED
  BY <1>1, <1>2 DEF TimelyInv, Up

\* A step of the pass, that keeps what is held in hand.
LEMMA TimelyStay ==
    ASSUME TypeOK, NEW r \in pending, InTime(r), rested' => rested \/ r.age <= Window,
           wpc' \in {"lookup", "send", "delete"} =>
              \/ wpc \in {"lookup", "send", "delete"} /\ (Held(r) => Held(r)') /\ (rested' => rested)
              \/ r.age >= Window => Held(r)'
    PROVE  InTime(r)'
<1>1. r.age \in Nat
  BY AgesAreNumbers
<1> QED
  BY <1>1, WindowType DEF InTime

LEMMA TimelyRows ==
    ASSUME TypeOK, RowsInv, TimelyInv, [Next]_vars, ~ Tick, rested' = (PassEnds \/ rested),
           faults = 0, faults' = 0
    PROVE  Up' /\ smtp' /\ \A r \in pending' : InTime(r)'
<1>1. Up /\ smtp /\ \A r \in pending : InTime(r) /\ r.age \in Nat
  BY AgesAreNumbers DEF TimelyInv
<1>2. ASSUME UNCHANGED <<pending, smtp, wpc, todo, mail>>
      PROVE  Up' /\ smtp' /\ \A r \in pending' : InTime(r)'
  <2>1. ~ PassEnds /\ (rested' => rested)
    BY <1>2 DEF PassEnds
  <2>2. \A r \in pending : Held(r) => Held(r)'
    BY <1>2 DEF Held
  <2> QED
    BY <1>1, <1>2, <2>1, <2>2, TimelyStay DEF Up
<1>3. ASSUME NEW e \in emissions, InsertRow(e)
      PROVE  Up' /\ smtp' /\ \A r \in pending' : InTime(r)'
  <2>1. e.age = 0 /\ UNCHANGED <<smtp, wpc, todo, mail>>
    BY <1>3 DEF TimelyInv, InsertRow, work
  <2> PICK u \in e.to, id \in RowIds :
         pending' = pending \cup
            {[id |-> id, user |-> u, ticket |-> e.ticket, ev |-> e.ev, age |-> e.age]}
    BY <1>3 DEF InsertRow
  <2> PICK new : new = [id |-> id, user |-> u, ticket |-> e.ticket, ev |-> e.ev, age |-> e.age]
    OBVIOUS
  <2>2. pending' = pending \cup {new} /\ new.age = 0
    BY <2>1
  <2>3. InTime(new)'
    BY <2>2, WindowType DEF InTime
  <2>4. ~ PassEnds /\ (rested' => rested)
    BY <2>1 DEF PassEnds
  <2>5. \A r \in pending : Held(r) => Held(r)'
    BY <2>1 DEF Held
  <2>6. \A r \in pending : InTime(r)'
    BY <1>1, <2>1, <2>4, <2>5, TimelyStay
  <2> QED
    BY <1>1, <2>1, <2>2, <2>3, <2>6 DEF Up
<1>4. CASE Wake \/ PurgeExpired
  <2>1. /\ pending' \subseteq pending /\ wpc' \in {"purge", "select"} /\ smtp' = smtp
        /\ ~ PassEnds /\ (rested' => rested)
    BY <1>1, <1>4 DEF Wake, PurgeExpired, AfterPurge, PassEnds
  <2>2. \A r \in pending : InTime(r)'
    BY <1>1, <2>1, TimelyStay
  <2> QED
    BY <1>1, <2>1, <2>2 DEF Up
<1>5. CASE SelectGroups
  <2>1. /\ UNCHANGED <<pending, smtp>>
        /\ todo' = {BatchedGroup(r.user, r.ticket) : r \in {q \in pending : Due(q)}}
        /\ wpc' = IF todo' = {} THEN "sleep" ELSE "lookup"
    BY <1>5 DEF SelectGroups
  <2>2. ASSUME NEW r \in pending, r.age >= Window PROVE Held(r)' /\ todo' # {}
    <3>1. Due(r)
      BY <1>1, <2>2, WindowType DEF Due
    <3>2. BatchedGroup(r.user, r.ticket) \in todo'
      BY <2>1, <3>1
    <3>3. r.id \in BatchedGroup(r.user, r.ticket).ids
      BY <3>1 DEF BatchedGroup
    <3> QED
      BY <3>2, <3>3 DEF Held
  <2>3. ASSUME NEW r \in pending PROVE InTime(r)'
    <3>1. CASE r.age >= Window
      <4>1. wpc' = "lookup" /\ Held(r)' /\ ~ PassEnds
        BY <2>1, <2>2, <3>1 DEF PassEnds
      <4> QED
        BY <1>1, <4>1, TimelyStay
    <3>2. CASE ~ (r.age >= Window)
      BY <1>1, <3>2, WindowType, TimelyStay
    <3> QED
      BY <3>1, <3>2
  <2> QED
    BY <1>1, <2>1, <2>3 DEF Up
<1>6. CASE LookupRecipient \/ SendNotification
  <2>1. /\ UNCHANGED <<pending, smtp>> /\ wpc \in {"lookup", "send"} /\ wpc' \in {"send", "delete"}
        /\ ~ PassEnds /\ (rested' => rested)
    BY <1>6 DEF LookupRecipient, SendNotification, PassEnds
  <2>2. ASSUME NEW r \in pending, Held(r) PROVE Held(r)'
    <3>1. CASE LookupRecipient
      <4>1. mail.ids = {}
        BY <3>1 DEF LookupRecipient, RowsInv, NoMailBetweenGroups, NoMail
      <4>2. PICK g \in todo : todo' = todo \ {g} /\ mail'.ids = g.ids
        BY <3>1 DEF LookupRecipient
      <4> QED
        BY <2>2, <4>1, <4>2 DEF Held
    <3>2. CASE SendNotification
      BY <2>2, <3>2 DEF SendNotification, Held
    <3> QED
      BY <1>6, <3>1, <3>2
  <2> QED
    BY <1>1, <2>1, <2>2, TimelyStay DEF Up
<1>7. CASE DeleteNotificationIds
  <2>1. /\ pending' = {r \in pending : r.id \notin mail.ids} /\ todo' = todo /\ wpc = "delete"
        /\ wpc' = (IF todo = {} THEN "sleep" ELSE "lookup") /\ smtp' = smtp
    BY <1>7 DEF DeleteNotificationIds
  <2>2. ASSUME NEW r \in pending' PROVE InTime(r)'
    <3>1. r \in pending /\ (Held(r) => Held(r)' /\ todo # {})
      BY <2>1, <2>2 DEF Held
    <3>2. CASE todo = {}
      <4>1. r.age <= Window
        BY <1>1, <2>1, <3>1, <3>2, WindowType DEF InTime
      <4> QED
        BY <1>1, <2>1, <3>1, <3>2, <4>1, TimelyStay
    <3>3. CASE todo # {}
      <4>1. ~ PassEnds /\ (rested' => rested)
        BY <2>1, <3>3 DEF PassEnds
      <4> QED
        BY <1>1, <2>1, <3>1, <4>1, TimelyStay
    <3> QED
      BY <3>2, <3>3
  <2> QED
    BY <1>1, <2>1, <2>2 DEF Up
<1>8. ~ PurgeFails /\ ~ PassFails /\ ~ Crash /\ ~ Restart /\ \A e \in emissions : ~ EmitFails(e)
  BY <1>1 DEF PurgeFails, PassFails, Crash, Restart, EmitFails, Up
<1> QED
  BY <1>2, <1>3, <1>4, <1>5, <1>6, <1>7, <1>8
     DEF Next, Worker, Emit, BeginEmit, ReadOwner, ReadCc, ReadMutes, ReadInactive, Mute, Unmute, UpdateUser,
         UpdateTicket, ChangeComponentOwner, vars, work

LEMMA TimelyStep ==
    ASSUME TypeOK, RowsInv, TimelyInv, [PunctualNext]_<<vars, rested>>
    PROVE  TimelyInv'
<1>1. CASE UNCHANGED <<vars, rested>>
  BY <1>1 DEF TimelyInv, InTime, Held, Up, vars, work
<1>2. CASE PunctualNext
  <2>1. [Next]_vars /\ (Tick => emissions = {} /\ (rested \/ ~ Up))
    BY <1>2 DEF PunctualNext
  <2>2. rested' = (PassEnds \/ (rested /\ ~ Tick))
    BY <1>2 DEF PunctualNext
  <2>3. \A e \in emissions' : e.age = 0
    BY <2>1, EmissionsKeepAge DEF TimelyInv
  <2>4. ASSUME faults' = 0 PROVE Up' /\ smtp' /\ \A r \in pending' : InTime(r)'
    <3>1. faults = 0
      <4>1. faults \in Nat
        BY DEF TypeOK
      <4>2. faults' = faults \/ faults' = faults + 1
        BY <2>1 DEF Next, Worker, Emit, BeginEmit, ReadOwner, ReadCc, ReadMutes, ReadInactive,
             InsertRow, EmitFails, Wake, PurgeExpired, PurgeFails, SelectGroups, LookupRecipient,
             SendNotification, DeleteNotificationIds, PassFails, Tick, Crash, Restart, Mute, Unmute,
             UpdateUser, UpdateTicket, ChangeComponentOwner, vars
      <4> QED
        BY <2>4, <4>1, <4>2
    <3>2. CASE Tick
      <4>1. Up /\ rested
        BY <2>1, <3>1, <3>2 DEF TimelyInv
      <4>2. wpc' = wpc
        BY <3>2 DEF Tick, work
      <4>3. ~ PassEnds
        BY <4>2 DEF PassEnds
      <4>4. ~ rested'
        BY <2>2, <3>2, <4>3
      <4> QED
        BY <3>1, <3>2, <4>1, <4>4, TimelyTick
    <3>3. CASE ~ Tick
      <4>1. rested' = (PassEnds \/ rested)
        BY <2>2, <3>3
      <4> QED
        BY <2>1, <2>4, <3>1, <3>3, <4>1, TimelyRows
    <3> QED
      BY <3>2, <3>3
  <2> QED
    BY <2>3, <2>4 DEF TimelyInv
<1> QED
  BY <1>1, <1>2

\* Nothing that a pass can do is put off to a later one: on a server that keeps up a row
\* waits one clock unit past its window at most.
THEOREM RowsHandledPromptly == PunctualSpec => []HandledPromptly
<1>1. PunctualInit => TypeOK /\ RowsInv /\ TimelyInv
  <2>1. Init => TypeOK
    BY ConstantsAssumption DEF Init, TypeOK, NoMail
  <2> QED
    BY <2>1, RowsInit DEF PunctualInit, Init, TimelyInv, Up
<1>2. TypeOK /\ RowsInv /\ TimelyInv /\ [PunctualNext]_<<vars, rested>> => TypeOK' /\ RowsInv' /\ TimelyInv'
  <2>1. [PunctualNext]_<<vars, rested>> => [Next]_vars
    BY DEF PunctualNext
  <2> QED
    BY <2>1, TypeStep, RowsStep, TimelyStep
<1>3. TypeOK /\ TimelyInv => HandledPromptly
  <2> SUFFICES ASSUME TypeOK, TimelyInv, NEW r \in pending, r.age > Window + 1 PROVE faults > 0
    BY DEF HandledPromptly
  <2>1. r.age \in Nat /\ faults \in Nat
    BY AgesAreNumbers DEF TypeOK
  <2>2. faults = 0 => r.age <= Window + 1
    BY DEF TimelyInv, InTime
  <2> QED
    BY <2>1, <2>2, WindowType
<1> QED
  BY <1>1, <1>2, <1>3, PTL DEF PunctualSpec

-----------------------------------------------------------------------------
(* Consent.                                                                *)

\* What an emission has established by the time of each statement.
Consents(e) ==
    /\ e.pc \in {"mutes", "active", "insert"} => e.actor \notin e.to
    /\ e.pc \in {"active", "insert"} => e.to \cap e.quiet = {}
    /\ e.pc = "insert" => e.to \cap e.dormant = {}
    /\ e.quiet \subseteq muted[e.ticket] /\ e.dormant \cap active = {}

ConsentInv == \A e \in emissions : Consents(e)

\* An emission that moves on must have established what its next statement relies on.
LEMMA ConsentContinue ==
    ASSUME TypeOK, ConsentInv, NEW e \in emissions, NEW next, NEW to,
           UNCHANGED <<muted, active>>, Consents([e EXCEPT !.pc = next, !.to = to]),
           \/ Continue(e, next, to)
           \/ Replace(e, [e EXCEPT !.pc = next, !.to = to])
    PROVE  ConsentInv'
<1>1. \A f \in emissions' : f \in emissions \/ f = [e EXCEPT !.pc = next, !.to = to]
  BY DEF Continue, Replace
<1> QED
  BY <1>1 DEF ConsentInv, Consents

LEMMA ConsentStep == TypeOK /\ ConsentInv /\ [Next]_vars => ConsentInv'
<1> SUFFICES ASSUME TypeOK, ConsentInv, [Next]_vars PROVE ConsentInv'
  OBVIOUS
<1>1. CASE UNCHANGED <<emissions, muted, active>>
  BY <1>1 DEF ConsentInv, Consents
<1>2. CASE BeginEmit
  BY <1>2 DEF BeginEmit, social, ConsentInv, Consents
<1>3. ASSUME NEW e \in emissions, ReadOwner(e) PROVE ConsentInv'
  <2> DEFINE who == IF e.kind = "ticket_created" THEN compOwner[e.ticket] ELSE owner[e.ticket]
  <2>1. e \in Emission /\ Consents(e)
    BY DEF TypeOK, ConsentInv
  <2>2. Consents([e EXCEPT !.pc = "cc", !.to = {who}])
    BY <2>1 DEF Emission, Consents
  <2>3. Consents([e EXCEPT !.pc = "mutes", !.to = Recipients(e, {who})])
    BY <2>1 DEF Emission, Consents, Recipients
  <2>4. UNCHANGED <<muted, active>>
    BY <1>3 DEF ReadOwner, social
  <2>5. CASE e.kind \in OwnerAndCc
    BY <1>3, <2>2, <2>4, <2>5, ConsentContinue DEF ReadOwner
  <2>6. CASE e.kind \notin OwnerAndCc
    BY <1>3, <2>3, <2>4, <2>6, ConsentContinue DEF ReadOwner
  <2> QED
    BY <2>5, <2>6
<1>4. ASSUME NEW e \in emissions, ReadCc(e) PROVE ConsentInv'
  <2> DEFINE to == Recipients(e, e.to \cup cc[e.ticket])
  <2>1. e \in Emission /\ Consents(e)
    BY DEF TypeOK, ConsentInv
  <2>2. Consents([e EXCEPT !.pc = "mutes", !.to = to])
    BY <2>1 DEF Emission, Consents, Recipients
  <2> QED
    BY <1>4, <2>2, ConsentContinue DEF ReadCc, social
<1>5. ASSUME NEW e \in emissions, ReadMutes(e) PROVE ConsentInv'
  <2> DEFINE to == e.to \ MutedUsers(e.ticket)
  <2>1. e \in Emission /\ Consents(e) /\ e.pc = "mutes"
    BY <1>5 DEF TypeOK, ConsentInv, ReadMutes
  <2>2. Consents([e EXCEPT !.pc = "active", !.to = to])
    BY <2>1 DEF Emission, Consents, MutedUsers
  <2> QED
    BY <1>5, <2>2, ConsentContinue DEF ReadMutes, social
<1>6. ASSUME NEW e \in emissions, ReadInactive(e) PROVE ConsentInv'
  <2> DEFINE to == e.to \ InactiveUsers(e.to)
  <2>1. e \in Emission /\ Consents(e) /\ e.pc = "active"
    BY <1>6 DEF TypeOK, ConsentInv, ReadInactive
  <2>2. Consents([e EXCEPT !.pc = "insert", !.to = to])
    BY <2>1 DEF Emission, Consents, InactiveUsers
  <2> QED
    BY <1>6, <2>2, ConsentContinue DEF ReadInactive, social
<1>7. ASSUME NEW e \in emissions, InsertRow(e) PROVE ConsentInv'
  <2> PICK u \in e.to : Continue(e, "insert", e.to \ {u})
    BY <1>7 DEF InsertRow
  <2>1. e \in Emission /\ Consents(e) /\ e.pc = "insert"
    BY <1>7 DEF TypeOK, ConsentInv, InsertRow
  <2>2. Consents([e EXCEPT !.pc = "insert", !.to = e.to \ {u}])
    BY <2>1 DEF Emission, Consents
  <2>3. UNCHANGED <<muted, active>>
    BY <1>7 DEF InsertRow, social
  <2> QED
    BY <2>2, <2>3, ConsentContinue
<1>8. ASSUME NEW e \in emissions, EmitFails(e) PROVE ConsentInv'
  BY <1>8 DEF EmitFails, social, ConsentInv, Consents
<1>9. CASE Tick
  BY <1>9 DEF TypeOK, Emission, Tick, social, ConsentInv, Consents
<1>10. CASE Crash
  BY <1>10 DEF Crash, ConsentInv
<1>11. ASSUME NEW t \in Tickets, NEW u \in Users, Mute(t, u) PROVE ConsentInv'
  BY <1>11 DEF TypeOK, Emission, Mute, ConsentInv, Consents
<1>12. ASSUME NEW t \in Tickets, NEW u \in Users, Unmute(t, u) PROVE ConsentInv'
  BY <1>12 DEF TypeOK, Emission, Unmute, ConsentInv, Consents
<1>13. ASSUME NEW u \in Users, NEW a \in BOOLEAN, NEW m \in BOOLEAN, UpdateUser(u, a, m)
       PROVE  ConsentInv'
  BY <1>13 DEF TypeOK, Emission, UpdateUser, ConsentInv, Consents
<1> QED
  BY <1>1, <1>2, <1>3, <1>4, <1>5, <1>6, <1>7, <1>8, <1>9, <1>10, <1>11, <1>12, <1>13
     DEF Next, Emit, Worker, vars, social, Wake, PurgeExpired, PurgeFails, SelectGroups,
         LookupRecipient, SendNotification, DeleteNotificationIds, PassFails, Restart,
         UpdateTicket, ChangeComponentOwner

\* Whoever had declined all the while is not notified, by way of a mention either.
THEOREM NobodyUnwilling == Spec => []ConsentAtEmission
<1>1. Init => TypeOK /\ ConsentInv
  BY ConstantsAssumption DEF Init, TypeOK, NoMail, ConsentInv
<1>2. TypeOK /\ ConsentInv => ConsentAtEmission
  BY DEF ConsentInv, Consents, ConsentAtEmission
<1> QED
  BY <1>1, <1>2, TypeStep, ConsentStep, PTL DEF Spec

-----------------------------------------------------------------------------
(* What happens to one notification.                                       *)

\* An event still to come, or a recipient still to be written.
Future(n) ==
    \/ n[1] > events
    \/ \E e \in emissions : e.ev = n[1] /\ (e.pc = "insert" => n[2] \in e.to)

Numbered ==
    /\ \A e \in emissions : e.ev <= events
    /\ \A e, f \in emissions : e.ev = f.ev => e = f

\* What has not been written was neither queued nor mailed nor closed.
FutureUntouched == \A n \in Notices : Future(n) => n \notin Queued /\ mails[n] = 0 /\ gone[n] = "no"

QueuedOnce ==
    /\ \A r, q \in pending : NoticeOf(r) = NoticeOf(q) => r = q
    /\ \A r \in pending : gone[NoticeOf(r)] = "no"

\* What the worker is about to mail is queued, under an id it will delete, and for one user.
HeldQueued ==
    /\ \A g \in todo : \A n \in g.notices :
          n[2] = g.user /\ \E r \in pending : NoticeOf(r) = n /\ r.id \in g.ids
    /\ \A n \in mail.notices : \E r \in pending : NoticeOf(r) = n /\ r.id \in mail.ids
    /\ \A m, n \in mail.notices : m[2] = n[2]

\* The mail that a deletion is about to answer for has been sent already.
Answering(n) == wpc = "delete" /\ n \in mail.notices

MailsBounded ==
    \A n \in Notices :
        /\ mails[n] <= 1 + faults
        /\ n \in Queued /\ ~ Answering(n) => mails[n] <= faults

NoticeInv == Numbered /\ FutureUntouched /\ QueuedOnce /\ HeldQueued /\ MailsBounded

FutureShrinks == \A n \in Notices : Future(n)' => Future(n)

\* An emission that moves on has no recipients it had not before.
LEMMA ContinueShrinks ==
    ASSUME TypeOK, Numbered, NEW e \in emissions, NEW next, NEW to, UNCHANGED events,
           e.pc = "insert" => next = "insert" /\ to \subseteq e.to,
           \/ Continue(e, next, to)
           \/ Replace(e, [e EXCEPT !.pc = next, !.to = to])
    PROVE  Numbered' /\ FutureShrinks
<1> DEFINE f == [e EXCEPT !.pc = next, !.to = to]
<1>1. e \in Emission
  BY DEF TypeOK
<1>2. f.ev = e.ev /\ f.pc = next /\ f.to = to
  BY <1>1 DEF Emission
<1>3. \A g \in emissions' : (g \in emissions /\ g # e) \/ g = f
  BY DEF Continue, Replace
<1>4. Numbered'
  BY <1>2, <1>3 DEF Numbered
<1>5. FutureShrinks
  BY <1>2, <1>3 DEF FutureShrinks, Future
<1> QED
  BY <1>4, <1>5

\* A step of the emissions alone, or of what surrounds them.
LEMMA NoticesApart ==
    ASSUME TypeOK, NoticeInv, UNCHANGED <<pending, todo, mail, wpc, mails, gone>>,
           faults' \in Nat, faults <= faults', Numbered', FutureShrinks
    PROVE  NoticeInv'
<1>1. FutureUntouched'
  BY DEF NoticeInv, FutureUntouched, FutureShrinks, Queued, NoticeOf
<1>2. QueuedOnce' /\ HeldQueued'
  BY DEF NoticeInv, QueuedOnce, HeldQueued, NoticeOf
<1>3. MailsBounded'
  BY DEF TypeOK, NoticeInv, MailsBounded, Queued, NoticeOf, Answering
<1> QED
  BY <1>1, <1>2, <1>3 DEF NoticeInv

\* A row is inserted for a notification that was still to come, and is no longer.
LEMMA NoticesInsert ==
    ASSUME TypeOK, NoticeInv, NEW e \in emissions, InsertRow(e)
    PROVE  NoticeInv' /\ \E n \in Notices : Future(n) /\ Queued' = Queued \cup {n}
<1> PICK u \in e.to, id \in RowIds :
       /\ pending' = pending \cup
             {[id |-> id, user |-> u, ticket |-> e.ticket, ev |-> e.ev, age |-> e.age]}
       /\ Continue(e, "insert", e.to \ {u})
  BY DEF InsertRow
<1> DEFINE new == [id |-> id, user |-> u, ticket |-> e.ticket, ev |-> e.ev, age |-> e.age]
           n == <<e.ev, u>>
<1>1. e \in Emission /\ e.pc = "insert" /\ n \in Notices /\ NoticeOf(new) = n
  BY DEF TypeOK, InsertRow, Emission, Notices, NoticeOf
<1>2. UNCHANGED <<todo, mail, wpc, mails, gone, faults, events>>
  BY DEF InsertRow, work, past
<1>3. Numbered' /\ FutureShrinks
  BY <1>1, <1>2, ContinueShrinks DEF NoticeInv
<1>4. n \notin Queued /\ mails[n] = 0 /\ gone[n] = "no"
  BY <1>1 DEF NoticeInv, FutureUntouched, Future
<1>5. ~ Future(n)'
  <2>1. \A f \in emissions' : f.ev = e.ev => f = [e EXCEPT !.pc = "insert", !.to = e.to \ {u}]
    BY DEF Continue, Replace, NoticeInv, Numbered
  <2>2. [e EXCEPT !.pc = "insert", !.to = e.to \ {u}].to = e.to \ {u}
        /\ [e EXCEPT !.pc = "insert", !.to = e.to \ {u}].pc = "insert"
    BY <1>1 DEF Emission
  <2>3. ~ e.ev > events
    BY <1>1 DEF NoticeInv, Numbered, TypeOK, Emission, Events
  <2> QED
    BY <1>2, <2>1, <2>2, <2>3 DEF Future
<1>6. Queued' = Queued \cup {n}
  BY <1>1 DEF Queued, NoticeOf
<1>7. FutureUntouched'
  <2> SUFFICES ASSUME NEW m \in Notices, Future(m)'
               PROVE  m \notin Queued' /\ mails[m] = 0 /\ gone[m] = "no"
    BY <1>2 DEF FutureUntouched
  <2>1. m # n /\ Future(m)
    BY <1>3, <1>5 DEF FutureShrinks
  <2> QED
    BY <1>6, <2>1 DEF NoticeInv, FutureUntouched
<1>8. QueuedOnce'
  <2>1. \A r \in pending : NoticeOf(r) # n
    BY <1>4 DEF Queued
  <2> QED
    BY <1>1, <1>2, <1>4, <2>1 DEF NoticeInv, QueuedOnce, NoticeOf
<1>9. HeldQueued'
  BY <1>2 DEF NoticeInv, HeldQueued, NoticeOf
<1>10. MailsBounded'
  BY <1>2, <1>4, <1>6 DEF TypeOK, NoticeInv, MailsBounded, Answering
<1> QED
  BY <1>1, <1>3, <1>7, <1>8, <1>9, <1>10, <1>6 DEF NoticeInv, Future

\* Rows leave the table: each notification has one, so that it is queued no longer, and
\* the others keep their rows.
LEMMA NoticesLeave ==
    ASSUME TypeOK, NoticeInv, NEW removed \in SUBSET pending, NEW why,
           pending' = pending \ removed, Leave(removed, why),
           UNCHANGED <<emissions, events, faults, mails>>
    PROVE  /\ Numbered' /\ FutureUntouched' /\ QueuedOnce'
           /\ Queued' = Queued \ {NoticeOf(r) : r \in removed}
<1>1. Numbered' /\ Queued' = Queued \ {NoticeOf(r) : r \in removed}
  BY DEF NoticeInv, Numbered, QueuedOnce, Queued, NoticeOf
<1>2. \A n \in Notices : n \notin {NoticeOf(r) : r \in removed} => gone'[n] = gone[n]
  BY DEF Leave
<1>3. FutureUntouched'
  <2> SUFFICES ASSUME NEW n \in Notices, Future(n)
               PROVE  n \notin Queued' /\ mails[n] = 0 /\ gone'[n] = "no"
    BY DEF FutureUntouched, Future
  <2>1. n \notin Queued /\ mails[n] = 0 /\ gone[n] = "no"
    BY DEF NoticeInv, FutureUntouched
  <2>2. n \notin {NoticeOf(r) : r \in removed}
    BY <2>1 DEF Queued
  <2> QED
    BY <1>1, <1>2, <2>1, <2>2
<1>4. QueuedOnce'
  <2>1. \A r \in pending' : r \in pending /\ NoticeOf(r) \in Notices
                           /\ NoticeOf(r) \notin {NoticeOf(q) : q \in removed}
    BY DEF NoticeInv, QueuedOnce, TypeOK, Row, Notices, NoticeOf
  <2> QED
    BY <1>2, <2>1 DEF NoticeInv, QueuedOnce, NoticeOf
<1> QED
  BY <1>1, <1>3, <1>4

LEMMA NoticesPurge == ASSUME TypeOK, RowsInv, NoticeInv, PurgeExpired PROVE NoticeInv'
<1>1. todo' = {} /\ mail' = NoMail /\ UNCHANGED <<emissions, events, faults, mails>> /\ wpc = "purge"
  BY DEF PurgeExpired, RowsInv, HoldsNothing
<1>2. Numbered' /\ FutureUntouched' /\ QueuedOnce' /\ Queued' \subseteq Queued
  <2> DEFINE old == {r \in pending : Expired(r)}
  <2>1. pending' = pending \ old /\ Leave(old, "expired") /\ old \in SUBSET pending
    BY DEF PurgeExpired
  <2> HIDE DEF old
  <2> QED
    BY <1>1, <2>1, NoticesLeave
<1>3. HeldQueued'
  BY <1>1 DEF HeldQueued, NoMail
<1>4. MailsBounded'
  BY <1>1, <1>2 DEF NoticeInv, MailsBounded, Answering
<1> QED
  BY <1>2, <1>3, <1>4 DEF NoticeInv

\* A deletion takes the very rows of the mail, and with them its notifications.
LEMMA NoticesDelete ==
    ASSUME TypeOK, RowsInv, NoticeInv, DeleteNotificationIds
    PROVE  NoticeInv' /\ Queued' = Queued \ mail.notices
<1> DEFINE rows == {r \in pending : r.id \in mail.ids}
<1>1. /\ pending' = pending \ rows /\ Leave(rows, verdict) /\ rows \in SUBSET pending
      /\ UNCHANGED <<emissions, todo, events, faults, mails>>
      /\ wpc = "delete" /\ mail' = NoMail
  BY DEF DeleteNotificationIds
<1>2. Numbered' /\ FutureUntouched' /\ QueuedOnce'
  <2> HIDE DEF rows
  <2> QED
    BY <1>1, NoticesLeave
<1>3. Queued' = Queued \ mail.notices
  <2>1. \A r \in pending : r \in rows <=> NoticeOf(r) \in mail.notices
    BY DEF NoticeInv, HeldQueued, QueuedOnce, RowsInv, HeldRowsLive, MailRowsLive, UniqueIds
  <2> QED
    BY <1>1, <2>1 DEF Queued, NoticeOf
<1>4. HeldQueued'
  <2>1. \A g \in todo : \A n \in g.notices :
           n[2] = g.user /\ \E r \in pending' : NoticeOf(r) = n /\ r.id \in g.ids
    BY <1>1 DEF NoticeInv, HeldQueued, RowsInv, GroupsApart
  <2> QED
    BY <1>1, <2>1 DEF HeldQueued, NoMail, NoticeOf
<1>5. MailsBounded'
  BY <1>1, <1>3 DEF NoticeInv, MailsBounded, Answering
<1> QED
  BY <1>2, <1>3, <1>4, <1>5 DEF NoticeInv

\* The groups of a query are of rows in the table.
LEMMA NoticesSelect == ASSUME TypeOK, RowsInv, NoticeInv, SelectGroups PROVE NoticeInv'
<1>1. \A g \in todo' : \E r \in pending : g = BatchedGroup(r.user, r.ticket)
  BY DEF SelectGroups
<1>2. /\ UNCHANGED <<emissions, pending, mail, events, faults, mails, gone>> /\ mail = NoMail
      /\ wpc = "select"
  BY DEF SelectGroups, RowsInv, HoldsNothing, past
<1>3. HeldQueued'
  <2>1. \A g \in todo' : \A n \in g.notices :
           n[2] = g.user /\ \E r \in pending : NoticeOf(r) = n /\ r.id \in g.ids
    BY <1>1 DEF BatchedGroup, NoticeOf
  <2> QED
    BY <1>2, <2>1 DEF HeldQueued, NoMail, NoticeOf
<1>4. MailsBounded'
  BY <1>2 DEF NoticeInv, MailsBounded, Answering, Queued, NoticeOf
<1> QED
  BY <1>2, <1>3, <1>4
     DEF NoticeInv, Numbered, FutureUntouched, Future, QueuedOnce, Queued, NoticeOf

LEMMA NoticesLookup == ASSUME TypeOK, RowsInv, NoticeInv, LookupRecipient PROVE NoticeInv'
<1> PICK g \in todo : todo' = todo \ {g} /\ mail' = [ids |-> g.ids, notices |-> g.notices]
  BY DEF LookupRecipient
<1>1. UNCHANGED <<emissions, pending, events, faults, mails, gone>> /\ wpc = "lookup"
  BY DEF LookupRecipient
<1>2. HeldQueued'
  BY <1>1 DEF NoticeInv, HeldQueued, NoticeOf
<1>3. MailsBounded'
  BY <1>1 DEF NoticeInv, MailsBounded, Answering, Queued, NoticeOf
<1> QED
  BY <1>1, <1>2, <1>3
     DEF NoticeInv, Numbered, FutureUntouched, Future, QueuedOnce, Queued, NoticeOf

\* What is mailed is queued, so that it is none of the notifications to come.
LEMMA NoticesSend == ASSUME TypeOK, NoticeInv, SendNotification PROVE NoticeInv'
<1>1. /\ UNCHANGED <<emissions, pending, todo, mail, events, faults, gone>>
      /\ wpc = "send" /\ wpc' = "delete"
      /\ \A n \in Notices : \/ mails'[n] = mails[n]
                            \/ n \in mail.notices /\ mails'[n] = mails[n] + 1
  BY DEF SendNotification, TypeOK
<1>2. mail.notices \subseteq Queued
  BY DEF NoticeInv, HeldQueued, Queued
<1>3. FutureUntouched'
  BY <1>1, <1>2 DEF NoticeInv, FutureUntouched, Future, Queued, NoticeOf
<1>4. MailsBounded'
  <2> SUFFICES ASSUME NEW n \in Notices
               PROVE  mails'[n] <= 1 + faults /\ (n \in Queued /\ n \notin mail.notices => mails'[n] <= faults)
    BY <1>1 DEF MailsBounded, Answering, Queued, NoticeOf
  <2>1. mails[n] \in Nat /\ faults \in Nat
    BY DEF TypeOK
  <2>2. ~ Answering(n)
    BY <1>1 DEF Answering
  <2>3. mails[n] <= 1 + faults /\ (n \in Queued => mails[n] <= faults)
    BY <2>2 DEF NoticeInv, MailsBounded
  <2> QED
    BY <1>1, <1>2, <2>1, <2>3
<1> QED
  BY <1>1, <1>3, <1>4 DEF NoticeInv, Numbered, QueuedOnce, HeldQueued, NoticeOf

\* A pass that is given up, or lost with the process: the mail it was answering for may be
\* sent once more, which the fault accounts for.
LEMMA NoticesForget == ASSUME TypeOK, NoticeInv, PassFails \/ Crash PROVE NoticeInv'
<1>1. /\ UNCHANGED <<pending, events, mails, gone>> /\ todo' = {} /\ mail' = NoMail
      /\ faults' = faults + 1 /\ emissions' \subseteq emissions
  BY DEF PassFails, Crash, Forget, past
<1>2. Numbered' /\ FutureUntouched' /\ QueuedOnce'
  BY <1>1 DEF NoticeInv, Numbered, FutureUntouched, Future, QueuedOnce, Queued, NoticeOf
<1>3. HeldQueued'
  BY <1>1 DEF HeldQueued, NoMail
<1>4. MailsBounded'
  BY <1>1 DEF TypeOK, NoticeInv, MailsBounded
<1> QED
  BY <1>2, <1>3, <1>4 DEF NoticeInv

\* Growing older changes no id, no notification and nobody's recipients.
LEMMA NoticesTick == ASSUME TypeOK, NoticeInv, Tick PROVE NoticeInv'
<1> DEFINE aged(r) == [r EXCEPT !.age = Older(@)]
           moved(e) == IF e.pc = "insert" THEN [e EXCEPT !.age = Older(@)] ELSE e
<1>1. /\ pending' = {aged(r) : r \in pending} /\ emissions' = {moved(e) : e \in emissions}
      /\ UNCHANGED <<todo, mail, wpc, events, faults, mails, gone>>
  BY DEF Tick, work, past
<1>2. \A r \in pending : aged(r) \in pending' /\ aged(r).id = r.id /\ NoticeOf(aged(r)) = NoticeOf(r)
  BY <1>1 DEF TypeOK, Row, NoticeOf
<1>3. \A e \in emissions : moved(e).ev = e.ev /\ moved(e).pc = e.pc /\ moved(e).to = e.to
  BY DEF TypeOK, Emission
<1>4. (\A r \in pending' : \E q \in pending : r = aged(q))
      /\ \A e \in emissions' : \E f \in emissions : e = moved(f)
  BY <1>1
<1> HIDE DEF aged, moved
<1>5. Queued' = Queued
  BY <1>2, <1>4 DEF Queued
<1>6. Numbered' /\ FutureShrinks
  BY <1>1, <1>3, <1>4 DEF NoticeInv, Numbered, FutureShrinks, Future
<1>7. FutureUntouched'
  BY <1>1, <1>5, <1>6 DEF NoticeInv, FutureUntouched, FutureShrinks
<1>8. QueuedOnce'
  BY <1>1, <1>2, <1>4 DEF NoticeInv, QueuedOnce
<1>9. HeldQueued'
  BY <1>1, <1>2, <1>4 DEF NoticeInv, HeldQueued
<1>10. MailsBounded'
  BY <1>1, <1>5 DEF NoticeInv, MailsBounded, Answering
<1> QED
  BY <1>6, <1>7, <1>8, <1>9, <1>10 DEF NoticeInv
\* A step of the worker that touches no row: it answers for no mail before or after.
LEMMA NoticesIdle ==
    ASSUME TypeOK, NoticeInv, UNCHANGED <<emissions, pending, todo, mail, events, mails, gone>>,
           wpc # "delete", wpc' # "delete", faults' \in Nat, faults <= faults'
    PROVE  NoticeInv'
<1>1. MailsBounded'
  <2> SUFFICES ASSUME NEW n \in Notices
               PROVE  mails[n] <= 1 + faults' /\ (n \in Queued => mails[n] <= faults')
    BY DEF MailsBounded, Queued, NoticeOf
  <2>1. mails[n] <= 1 + faults /\ (n \in Queued => mails[n] <= faults)
    BY DEF NoticeInv, MailsBounded, Answering
  <2>2. mails[n] \in Nat /\ faults \in Nat
    BY DEF TypeOK
  <2> QED
    BY <2>1, <2>2
<1> QED
  BY <1>1 DEF NoticeInv, Numbered, FutureUntouched, Future, QueuedOnce, HeldQueued, Queued, NoticeOf

\* A new emission takes a number that no notification has.
LEMMA NoticesBegin == ASSUME TypeOK, NoticeInv, BeginEmit PROVE NoticeInv'
<1> PICK k \in Kinds, t \in Tickets, a \in Users, extra \in SUBSET Users :
       emissions' = emissions \cup
           {[ev |-> events + 1, pc |-> "owner", kind |-> k, ticket |-> t, actor |-> a,
             extra |-> extra, to |-> {}, age |-> 0, quiet |-> muted[t], dormant |-> Users \ active]}
  BY DEF BeginEmit
<1> DEFINE new ==
       [ev |-> events + 1, pc |-> "owner", kind |-> k, ticket |-> t, actor |-> a,
        extra |-> extra, to |-> {}, age |-> 0, quiet |-> muted[t], dormant |-> Users \ active]
<1>1. emissions' = emissions \cup {new} /\ new.ev = events + 1
  OBVIOUS
<1> HIDE DEF new
<1>2. /\ events' = events + 1 /\ events \in Nat
      /\ UNCHANGED <<pending, todo, mail, wpc, faults, mails, gone>>
  BY DEF BeginEmit, work, past, TypeOK
<1>3. \A e \in emissions : e.ev \in Nat /\ e.ev <= events
  BY DEF TypeOK, Emission, Events, NoticeInv, Numbered
<1>4. Numbered'
  <2>1. \A e \in emissions' : e \in emissions \/ e.ev = events + 1
    BY <1>1
  <2>2. \A e \in emissions : e.ev # events + 1
    BY <1>2, <1>3
  <2>3. \A e, f \in emissions' : e.ev = f.ev => e = f
    BY <1>1, <2>2 DEF NoticeInv, Numbered
  <2> QED
    BY <1>2, <1>3, <2>1, <2>3 DEF Numbered
<1>5. FutureShrinks
  <2> SUFFICES ASSUME NEW n \in Notices, Future(n)' PROVE Future(n)
    BY DEF FutureShrinks
  <2>1. n[1] \in Nat
    BY DEF Notices, Events
  <2>2. CASE n[1] > events
    BY <2>2 DEF Future
  <2>3. CASE ~ n[1] > events
    BY <1>1, <1>2, <2>1, <2>3 DEF Future
  <2> QED
    BY <2>2, <2>3
<1> QED
  BY <1>2, <1>4, <1>5, NoticesApart DEF TypeOK

\* The statements of an emission before its inserts.
LEMMA NoticesRead ==
    ASSUME TypeOK, NoticeInv, NEW e \in emissions,
           ReadOwner(e) \/ ReadCc(e) \/ ReadMutes(e) \/ ReadInactive(e)
    PROVE  NoticeInv'
<1>1. UNCHANGED <<pending, todo, mail, wpc, mails, gone, faults, events>> /\ e.pc # "insert"
  BY DEF ReadOwner, ReadCc, ReadMutes, ReadInactive, work, past
<1>2. PICK next, to : Continue(e, next, to) \/ Replace(e, [e EXCEPT !.pc = next, !.to = to])
  BY DEF ReadOwner, ReadCc, ReadMutes, ReadInactive
<1>3. Numbered' /\ FutureShrinks
  BY <1>1, <1>2, ContinueShrinks DEF NoticeInv
<1> QED
  BY <1>1, <1>3, NoticesApart DEF TypeOK

\* Emissions that end, or of which only the history is adjusted, add no recipient.
LEMMA NoticesElsewhere ==
    ASSUME TypeOK, NoticeInv, UNCHANGED <<pending, todo, mail, wpc, mails, gone, events>>,
           faults' \in Nat, faults <= faults',
           \A f \in emissions' : \E e \in emissions : f.ev = e.ev /\ f.pc = e.pc /\ f.to = e.to,
           \A f, g \in emissions' : f.ev = g.ev => f = g
    PROVE  NoticeInv'
<1>1. Numbered' /\ FutureShrinks
  BY DEF NoticeInv, Numbered, FutureShrinks, Future
<1> QED
  BY <1>1, NoticesApart

\* Every action keeps the invariant.
LEMMA NoticeStep == TypeOK /\ RowsInv /\ NoticeInv /\ [Next]_vars => NoticeInv'
<1> SUFFICES ASSUME TypeOK, RowsInv, NoticeInv, [Next]_vars PROVE NoticeInv'
  OBVIOUS
<1>1. CASE UNCHANGED <<emissions, pending, work, events, faults, past>>
  BY <1>1, NoticesElsewhere DEF work, past, TypeOK, NoticeInv, Numbered
<1>2. CASE BeginEmit
  BY <1>2, NoticesBegin
<1>3. ASSUME NEW e \in emissions,
             ReadOwner(e) \/ ReadCc(e) \/ ReadMutes(e) \/ ReadInactive(e)
      PROVE  NoticeInv'
  BY <1>3, NoticesRead
<1>4. ASSUME NEW e \in emissions, InsertRow(e) PROVE NoticeInv'
  BY <1>4, NoticesInsert
<1>5. ASSUME NEW e \in emissions, EmitFails(e) PROVE NoticeInv'
  <2>1. /\ UNCHANGED <<pending, todo, mail, wpc, mails, gone, events>>
        /\ faults' = faults + 1 /\ emissions' \subseteq emissions
    BY <1>5 DEF EmitFails, work, past
  <2> QED
    BY <2>1, NoticesElsewhere DEF TypeOK, NoticeInv, Numbered
<1>6. CASE Wake \/ PurgeFails \/ Restart
  <2>1. /\ UNCHANGED <<emissions, pending, todo, mail, events, mails, gone>>
        /\ wpc # "delete" /\ wpc' # "delete" /\ faults' \in {faults, faults + 1}
    BY <1>6 DEF Wake, PurgeFails, AfterPurge, Restart, past
  <2> QED
    BY <2>1, NoticesIdle DEF TypeOK
<1>7. CASE PurgeExpired
  BY <1>7, NoticesPurge
<1>8. CASE SelectGroups
  BY <1>8, NoticesSelect
<1>9. CASE LookupRecipient
  BY <1>9, NoticesLookup
<1>10. CASE SendNotification
  BY <1>10, NoticesSend
<1>11. CASE DeleteNotificationIds
  BY <1>11, NoticesDelete
<1>12. CASE PassFails \/ Crash
  BY <1>12, NoticesForget
<1>13. CASE Tick
  BY <1>13, NoticesTick
<1>14. ASSUME NEW t \in Tickets, NEW u \in Users, Unmute(t, u) PROVE NoticeInv'
  <2> DEFINE moved(e) == IF e.ticket = t THEN [e EXCEPT !.quiet = @ \ {u}] ELSE e
  <2>1. /\ UNCHANGED <<pending, todo, mail, wpc, mails, gone, events, faults>>
        /\ emissions' = {moved(e) : e \in emissions}
    BY <1>14 DEF Unmute, work, past
  <2>2. \A e \in emissions : moved(e).ev = e.ev /\ moved(e).pc = e.pc /\ moved(e).to = e.to
    BY DEF TypeOK, Emission
  <2>3. \A f \in emissions' : \E e \in emissions : f = moved(e)
    BY <2>1
  <2> HIDE DEF moved
  <2> QED
    BY <2>1, <2>2, <2>3, NoticesElsewhere DEF TypeOK, NoticeInv, Numbered
<1>15. ASSUME NEW u \in Users, NEW a \in BOOLEAN, NEW m \in BOOLEAN, UpdateUser(u, a, m)
       PROVE  NoticeInv'
  <2> DEFINE moved(e) == IF a THEN [e EXCEPT !.dormant = @ \ {u}] ELSE e
  <2>1. /\ UNCHANGED <<pending, todo, mail, wpc, mails, gone, events, faults>>
        /\ emissions' = {moved(e) : e \in emissions}
    BY <1>15 DEF UpdateUser, work, past
  <2>2. \A e \in emissions : moved(e).ev = e.ev /\ moved(e).pc = e.pc /\ moved(e).to = e.to
    BY DEF TypeOK, Emission
  <2>3. \A f \in emissions' : \E e \in emissions : f = moved(e)
    BY <2>1
  <2> HIDE DEF moved
  <2> QED
    BY <2>1, <2>2, <2>3, NoticesElsewhere DEF TypeOK, NoticeInv, Numbered
<1> QED
  BY <1>1, <1>2, <1>3, <1>4, <1>5, <1>6, <1>7, <1>8, <1>9, <1>10, <1>11, <1>12, <1>13, <1>14, <1>15
     DEF Next, Emit, Worker, vars, Mute, UpdateTicket, ChangeComponentOwner

LEMMA NoticeInit == Init => NoticeInv
BY ConstantsAssumption
   DEF Init, NoMail, NoticeInv, Numbered, FutureUntouched, Queued, QueuedOnce, HeldQueued, MailsBounded

\* A notification is mailed again only after a fault, and once for each.
THEOREM RepeatsAreFaults == Spec => []RepeatedOnlyByFaults
<1>1. Init => TypeOK
  BY ConstantsAssumption DEF Init, TypeOK, NoMail
<1>2. NoticeInv => RepeatedOnlyByFaults
  BY DEF NoticeInv, MailsBounded, RepeatedOnlyByFaults
<1> QED
  BY <1>1, <1>2, NoticeInit, RowsInit, NoticeStep, RowsStep, TypeStep, PTL DEF Spec
-----------------------------------------------------------------------------
(* The table and the worker implement the queue of NotificationOutbox.     *)

\* A step that leaves these alone is none of the queue's.
LEMMA OutboxStutter == UNCHANGED <<Queued, verdicts, gone>> => UNCHANGED Outbox!vars
BY DEF Outbox!vars

\* What a deletion or the purge does to the closed and the expired.
LEMMA OutboxLeave ==
    ASSUME TypeOK, NoticeInv, NEW removed \in SUBSET pending, NEW why \in Verdicts \cup {"expired"},
           NEW batch, batch = {NoticeOf(r) : r \in removed}, Leave(removed, why)
    PROVE  /\ {n \in Notices : gone'[n] \in Verdicts}
                = {n \in Notices : gone[n] \in Verdicts} \cup (IF why = "expired" THEN {} ELSE batch)
           /\ {n \in Notices : gone'[n] = "expired"}
                = {n \in Notices : gone[n] = "expired"} \cup (IF why = "expired" THEN batch ELSE {})
<1>1. batch \in SUBSET Notices
  BY DEF TypeOK, Row, Notices, NoticeOf
<1>2. \A n \in batch : gone[n] = "no"
  BY DEF NoticeInv, QueuedOnce
<1>3. \A n \in Notices : gone'[n] = IF n \in batch THEN why ELSE gone[n]
  BY DEF Leave
<1> QED
  BY <1>1, <1>2, <1>3 DEF Verdicts

\* Inserting a row queues a notification that was never queued.
LEMMA OutboxInsert ==
    ASSUME TypeOK, NoticeInv, NEW e \in emissions, InsertRow(e) PROVE Outbox!Next
<1> PICK n \in Notices : Future(n) /\ Queued' = Queued \cup {n}
  BY NoticesInsert
<1>1. n \notin Queued /\ gone[n] = "no"
  BY DEF NoticeInv, FutureUntouched
<1>2. UNCHANGED <<verdicts, gone>>
  BY DEF InsertRow, past
<1>3. Outbox!Queue(n)
  BY <1>1, <1>2 DEF Outbox!Queue, Verdicts
<1> QED
  BY <1>3 DEF Outbox!Next

\* A verdict is reached on notifications that are queued, all for one user.
LEMMA OutboxVerdict ==
    ASSUME TypeOK, NEW batch \in SUBSET Notices, NEW v \in Verdicts, Reach(batch, v),
           batch \subseteq Queued, \A m, n \in batch : m[2] = n[2],
           UNCHANGED <<Queued, gone>>
    PROVE  Outbox!Next
<1>1. \A n \in Notices : verdicts'[n] = IF n \in batch THEN verdicts[n] \cup {v} ELSE verdicts[n]
  BY DEF Reach
<1>2. CASE v = "sent"
  <2>1. {n \in Notices : "sent" \in verdicts'[n]} = {n \in Notices : "sent" \in verdicts[n]} \cup batch
    BY <1>1, <1>2
  <2>2. {n \in Notices : verdicts'[n] \ {"sent"} # {}} = {n \in Notices : verdicts[n] \ {"sent"} # {}}
    BY <1>1, <1>2
  <2>3. Outbox!Mail(batch)
    BY <2>1, <2>2 DEF Outbox!Mail, Outbox!OneRecipient
  <2> QED
    BY <2>3 DEF Outbox!Next
<1>3. CASE v # "sent"
  <2>1. {n \in Notices : "sent" \in verdicts'[n]} = {n \in Notices : "sent" \in verdicts[n]}
    BY <1>1, <1>3
  <2>2. {n \in Notices : verdicts'[n] \ {"sent"} # {}}
          = {n \in Notices : verdicts[n] \ {"sent"} # {}} \cup batch
    <3>1. \A n \in batch : v \in verdicts'[n] \ {"sent"}
      BY <1>1, <1>3
    <3>2. \A n \in Notices \ batch : verdicts'[n] = verdicts[n]
      BY <1>1
    <3> QED
      BY <3>1, <3>2
  <2>3. Outbox!Forsake(batch)
    BY <2>1, <2>2 DEF Outbox!Forsake, Outbox!OneRecipient
  <2> QED
    BY <2>3 DEF Outbox!Next
<1> QED
  BY <1>2, <1>3

LEMMA OutboxDelete ==
    ASSUME TypeOK, RowsInv, NoticeInv, DeleteNotificationIds PROVE Outbox!Next
<1> DEFINE rows == {r \in pending : r.id \in mail.ids}
<1>1. /\ Leave(rows, verdict) /\ pending' = pending \ rows /\ rows \in SUBSET pending
      /\ UNCHANGED <<emissions, events, faults, mails, verdicts>> /\ wpc = "delete"
  BY DEF DeleteNotificationIds
<1>2. {NoticeOf(r) : r \in rows} \in SUBSET Notices
  BY <1>1 DEF TypeOK, Row, Notices, NoticeOf
<1> PICK batch \in SUBSET Notices : batch = {NoticeOf(r) : r \in rows}
  BY <1>2
<1>3. batch \subseteq mail.notices /\ batch \subseteq Queued
  BY DEF RowsInv, HeldRowsLive, MailRowsLive, UniqueIds, Queued
<1>4. verdict \in Verdicts /\ verdict # "expired" /\ \A n \in batch : verdict \in verdicts[n]
  BY <1>1, <1>3 DEF RowsInv, VerdictReached, Verdicts
<1> HIDE DEF rows
<1>5. /\ {n \in Notices : gone'[n] \in Verdicts} = {n \in Notices : gone[n] \in Verdicts} \cup batch
      /\ {n \in Notices : gone'[n] = "expired"} = {n \in Notices : gone[n] = "expired"}
  BY <1>1, <1>4, OutboxLeave
<1>6. Queued' = Queued \ batch
  BY <1>1, NoticesLeave
<1>7. batch \subseteq {n \in Notices : "sent" \in verdicts[n]}
                        \cup {n \in Notices : verdicts[n] \ {"sent"} # {}}
  BY <1>4
<1>8. Outbox!Close(batch)
  BY <1>1, <1>3, <1>5, <1>6, <1>7 DEF Outbox!Close
<1> QED
  BY <1>8 DEF Outbox!Next

LEMMA OutboxPurge ==
    ASSUME TypeOK, RowsInv, NoticeInv, PurgeExpired PROVE Outbox!Next
<1> DEFINE old == {r \in pending : Expired(r)}
<1>1. /\ Leave(old, "expired") /\ pending' = pending \ old /\ old \in SUBSET pending
      /\ UNCHANGED <<emissions, events, faults, mails, verdicts>>
  BY DEF PurgeExpired
<1> HIDE DEF old
<1>2. {NoticeOf(r) : r \in old} \in SUBSET Notices
  BY <1>1 DEF TypeOK, Row, Notices, NoticeOf
<1> PICK batch \in SUBSET Notices : batch = {NoticeOf(r) : r \in old}
  BY <1>2
<1>3. batch \subseteq Queued
  BY <1>1 DEF Queued
<1>4. /\ {n \in Notices : gone'[n] \in Verdicts} = {n \in Notices : gone[n] \in Verdicts}
      /\ {n \in Notices : gone'[n] = "expired"} = {n \in Notices : gone[n] = "expired"} \cup batch
  BY <1>1, OutboxLeave
<1>5. Queued' = Queued \ batch
  BY <1>1, NoticesLeave
<1>6. Outbox!Expire(batch)
  BY <1>1, <1>3, <1>4, <1>5 DEF Outbox!Expire
<1> QED
  BY <1>6 DEF Outbox!Next

\* Every step of the program is a step of the queue, or none.
LEMMA OutboxStep ==
    TypeOK /\ RowsInv /\ NoticeInv /\ [Next]_vars => [Outbox!Next]_(Outbox!vars)
<1> SUFFICES ASSUME TypeOK, RowsInv, NoticeInv, [Next]_vars
             PROVE  Outbox!Next \/ UNCHANGED Outbox!vars
  OBVIOUS
<1>1. CASE UNCHANGED <<pending, past>>
  BY <1>1, OutboxStutter DEF past, Queued, NoticeOf
<1>2. ASSUME NEW e \in emissions, InsertRow(e) PROVE Outbox!Next
  BY <1>2, OutboxInsert
<1>3. CASE PurgeExpired
  BY <1>3, OutboxPurge
<1>4. CASE LookupRecipient
  <2> PICK g \in todo :
         \/ wpc' = "send" /\ UNCHANGED verdicts
         \/ Reach(g.notices, "discarded")
    BY <1>4 DEF LookupRecipient
  <2>1. UNCHANGED <<Queued, gone>>
    BY <1>4 DEF LookupRecipient, Queued, NoticeOf
  <2>2. g.notices \in SUBSET Notices /\ g.notices \subseteq Queued
        /\ \A m, n \in g.notices : m[2] = n[2]
    BY DEF TypeOK, Group, NoticeInv, HeldQueued, Queued
  <2>3. CASE UNCHANGED verdicts
    BY <2>1, <2>3, OutboxStutter
  <2>4. CASE Reach(g.notices, "discarded")
    BY <2>1, <2>2, <2>4, OutboxVerdict DEF Verdicts
  <2> QED
    BY <2>3, <2>4
<1>5. CASE SendNotification
  <2>1. PICK v \in {"sent", "refused", "unreachable"} : Reach(mail.notices, v)
    BY <1>5 DEF SendNotification
  <2>2. UNCHANGED <<Queued, gone>>
    BY <1>5 DEF SendNotification, Queued, NoticeOf
  <2>3. mail.notices \in SUBSET Notices /\ mail.notices \subseteq Queued
        /\ \A m, n \in mail.notices : m[2] = n[2]
    BY DEF TypeOK, NoticeInv, HeldQueued, Queued
  <2> QED
    BY <2>1, <2>2, <2>3, OutboxVerdict DEF Verdicts
<1>6. CASE DeleteNotificationIds
  BY <1>6, OutboxDelete
<1>7. CASE Tick
  <2> DEFINE aged(r) == [r EXCEPT !.age = Older(@)]
  <2>1. pending' = {aged(r) : r \in pending} /\ UNCHANGED past
    BY <1>7 DEF Tick
  <2>2. \A r \in pending : aged(r) \in pending' /\ NoticeOf(aged(r)) = NoticeOf(r)
    BY <2>1 DEF TypeOK, Row, NoticeOf
  <2>3. \A r \in pending' : \E q \in pending : r = aged(q)
    BY <2>1
  <2> HIDE DEF aged
  <2>4. Queued' = Queued
    BY <2>2, <2>3 DEF Queued
  <2> QED
    BY <2>1, <2>4, OutboxStutter DEF past
<1> QED
  BY <1>1, <1>2, <1>3, <1>4, <1>5, <1>6, <1>7
     DEF Next, Emit, Worker, vars, BeginEmit, ReadOwner, ReadCc, ReadMutes, ReadInactive, EmitFails,
         Wake, PurgeFails, SelectGroups, PassFails, Crash, Restart,
         Mute, Unmute, UpdateUser, UpdateTicket, ChangeComponentOwner

\* The pending_notifications table and the worker keep the promises of NotificationOutbox.
THEOREM OutboxImplemented == Spec => OutboxSpec
<1>1. Init => TypeOK
  BY ConstantsAssumption DEF Init, TypeOK, NoMail
<1>2. Init => Outbox!Init
  BY DEF Init, Outbox!Init, Queued, Verdicts
<1> QED
  BY <1>1, <1>2, NoticeInit, RowsInit, NoticeStep, RowsStep, TypeStep, OutboxStep, PTL
     DEF Spec, OutboxSpec, Outbox!Spec
=============================================================================
