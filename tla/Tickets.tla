------------------------------- MODULE Tickets -------------------------------
(***************************************************************************)
(* Tickets with their CC lists and milestones, and the milestones'         *)
(* statistics (src/src/repos/ticket.rs, src/src/api/ticket.rs,             *)
(* src/src/repos/milestone.rs, src/src/api/milestone.rs).                  *)
(*                                                                         *)
(* A ticket is written by one transaction, but its handler reads the row   *)
(* before it and again after it, to find out what to announce, and reads   *)
(* the answer's relations by further statements. Milestones are read,      *)
(* merged and written, and checked and deleted, without a transaction.     *)
(* Tickets are never deleted; ids of deleted milestones are given out      *)
(* again. A transaction is one step: SQLite refuses it when another writer *)
(* came in between.                                                        *)
(***************************************************************************)
EXTENDS Mail, Estimation, FiniteSetsExt, Sqlite, TLC

CONSTANTS
    Users,            \* user ids
    Admins,           \* the users whose role is admin
    Components,       \* the components that exist at first
    SeedTickets,      \* the rows of tickets at first, a sequence
    SeedMilestones,   \* the rows of milestones at first
    SeedLinks,        \* the rows of ticket_milestones at first
    CreateBodies,     \* bodies of POST /api/tickets
    UpdateBodies,     \* bodies of PATCH /api/tickets/{id}
    MilestoneBodies,  \* bodies of POST and PATCH for milestones; names and dates are
                      \* numbers in their order, and 0 is the empty name
    BadTitles,        \* the titles that are empty or longer than 256 bytes
    MaxTickets,       \* bound: tickets
    MaxMilestones,    \* bound: milestone ids
    MaxRequests,      \* bound: requests in a behaviour
    MaxFaults         \* bound: failed statements and crashes

TicketIds == 1 .. MaxTickets
MilestoneIds == 1 .. MaxMilestones

IsSequence(s) == s \in Seq({s[i] : i \in DOMAIN s})

\* A row of tickets, with its foreign keys.
TicketRow(row, known) ==
    /\ TicketFields \cup {"created_by"} \subseteq DOMAIN row
    /\ row.type \in TicketType /\ row.status \in TicketStatus /\ row.priority \in Priority
    /\ row.owner \in Users /\ row.created_by \in Users /\ row.component \in known
    /\ row.estimation \in Nat \cup {NULL}

UniqueNames(rows) == \A r, q \in rows : r.name = q.name => r = q

\* What the types of the requests admit: an absent column is not in the body, and of the
\* columns of a ticket only the estimation may be null.
TicketBody(body) ==
    /\ "type" \in DOMAIN body => body.type \in TicketType
    /\ "status" \in DOMAIN body => body.status \in TicketStatus
    /\ "priority" \in DOMAIN body => body.priority \in Priority
    /\ \A f \in {"owner", "component"} \cap DOMAIN body : body[f] # NULL
    /\ "estimation" \in DOMAIN body => body.estimation = NULL \/ IsText(body.estimation)
    /\ \A f \in {"cc", "milestones"} \cap DOMAIN body : IsSequence(body[f])

MilestoneBody(body) ==
    /\ "id" \notin DOMAIN body
    /\ "name" \in DOMAIN body => body.name \in Nat
    /\ "status" \in DOMAIN body => body.status \in MilestoneStatus

ASSUME TicketsAssumption ==
    /\ Admins \subseteq Users
    /\ IsSequence(SeedTickets) /\ Len(SeedTickets) <= MaxTickets
    /\ \A t \in DOMAIN SeedTickets : TicketRow(SeedTickets[t], Components)
    /\ \A row \in SeedMilestones :
          /\ MilestoneFields \cup {"id"} \subseteq DOMAIN row
          /\ row.id \in MilestoneIds /\ row.name \in Nat /\ row.status \in MilestoneStatus
    /\ UniqueIds(SeedMilestones) /\ UniqueNames(SeedMilestones)
    /\ SeedLinks \subseteq (DOMAIN SeedTickets) \X {row.id : row \in SeedMilestones}
    /\ \A body \in CreateBodies :
          TicketBody(body) /\ {"type", "title", "owner", "component"} \subseteq DOMAIN body
    /\ \A body \in UpdateBodies : TicketBody(body)
    /\ \A body \in MilestoneBodies : MilestoneBody(body)
    /\ MaxTickets \in Nat /\ MaxMilestones \in Nat /\ MaxRequests \in Nat /\ MaxFaults \in Nat

\* NULL is told from the ids a handler has read and from the payloads it announces.
ASSUME NullAssumption ==
    /\ \A ids \in SUBSET MilestoneIds : ids # NULL
    /\ NULL \notin [actor : Users, old_status : TicketStatus, new_status : TicketStatus]
    /\ NULL \notin [actor : Users, old_priority : Priority, new_priority : Priority]
    /\ NULL \notin [actor : Users, old_owner : Users, new_owner : Users]
    /\ NULL \notin [actor : Users, milestone_name : Nat]

VARIABLES
    tickets,      \* the rows of tickets, by id
    ticket_cc,    \* the rows of ticket_cc, <<ticket, user>>
    ticket_milestones,  \* the rows of ticket_milestones, <<ticket, milestone>>
    milestones,   \* the rows of milestones
    components,   \* the ids of the components table
    requests,     \* every request so far, with what its handler holds
    faults        \* faults so far

vars == <<tickets, ticket_cc, ticket_milestones, milestones, components, requests, faults>>

Of(table, t) == {x[2] : x \in {y \in table : y[1] = t}}
Cc(t) == Of(ticket_cc, t)
Links(t) == Of(ticket_milestones, t)
MilestoneRow(m) == CHOOSE row \in milestones : row.id = m
MilestoneExists(m) == \E row \in milestones : row.id = m

\* What a handler holds between its statements. raced, faulted, kept, committed and
\* released are history: another request wrote the same ticket or milestone meanwhile; a
\* statement of it failed; which unnamed fields its write changed; the ticket as its
\* transaction left it; and the links its DELETE took along.
Blank(u, kind, id, body) ==
    [user |-> u, kind |-> kind, id |-> id, body |-> body, pc |-> "done", code |-> 0,
     existing |-> NULL, old_milestones |-> NULL, row |-> NULL, cc |-> NULL, links |-> NULL,
     shown |-> NULL, said |-> <<>>, raced |-> FALSE, faulted |-> FALSE, changed |-> {},
     before |-> NULL, committed |-> NULL, released |-> {}]

Init ==
    /\ tickets = SeedTickets /\ ticket_cc = {}
    /\ milestones = SeedMilestones /\ ticket_milestones = SeedLinks
    /\ components = Components /\ requests = <<>> /\ faults = 0

-----------------------------------------------------------------------------
(* Requests.                                                               *)

Arrive(r) == Len(requests) < MaxRequests /\ requests' = Append(requests, r)

Answered(r, error) == [r EXCEPT !.pc = "done", !.code = HttpStatus[error]]

Step(k, r) == requests' = [requests EXCEPT ![k] = r]

\* A write to what other requests hold: they have raced with it.
StepRacing(k, r, racing) ==
    requests' = [j \in DOMAIN requests |->
                    IF j = k THEN r
                    ELSE IF j \in racing THEN [requests[j] EXCEPT !.raced = TRUE]
                    ELSE requests[j]]

InFlight(kinds, ids) ==
    {j \in DOMAIN requests : /\ requests[j].pc # "done"
                             /\ requests[j].kind \in kinds /\ requests[j].id \in ids}

OnTickets(ids) == InFlight({"create", "update", "get"}, ids)
OnDeletions(ids) == InFlight({"delete_milestone"}, ids)
OnMilestones(ids) == InFlight({"create_milestone", "update_milestone", "delete_milestone"}, ids)

Ticket(row, cc, links) ==
    [row |-> row, cc |-> cc, links |-> links,
     names |-> [m \in links |-> MilestoneRow(m).name]]
Snapshot(t) == Ticket(tickets[t], Cc(t), Links(t))

(* The tables a ticket's transaction writes.                               *)

Hours(text) == IF text = NULL THEN NULL ELSE ParseEstimation(text)

\* Rows inserted one after the other: the first that fails decides the error, and the
\* transaction is rolled back.
InsertAll(ids, known) ==
    LET failing == {i \in DOMAIN ids : ids[i] \notin known \/ \E j \in 1 .. i - 1 : ids[j] = ids[i]}
    IN IF failing = {} THEN "ok"
       ELSE FromSqlite(IF ids[Min(failing)] \in known THEN "PRIMARY KEY" ELSE "FOREIGN KEY")

\* The first error of the transaction: the estimation, the foreign keys of the row, the
\* CC list, the milestones.
Outcome(body) ==
    LET cc == InsertAll(Given(body, "cc", <<>>), Users)
        links == InsertAll(Given(body, "milestones", <<>>), {m.id : m \in milestones})
    IN IF "estimation" \in DOMAIN body /\ Hours(body["estimation"]) = Invalid THEN "Conflict"
       ELSE IF \/ Given(body, "owner", NULL) \notin Users \cup {NULL}
               \/ Given(body, "component", NULL) \notin components \cup {NULL} THEN "Database"
       ELSE IF cc # "ok" THEN cc ELSE links

Columns(body) ==
    [f \in DOMAIN body \cap TicketFields |->
        IF f = "estimation" THEN Hours(body[f]) ELSE body[f]]

\* Mutant: the priority of the body is bound without its default.
NewTicket_NoDefault(u, body) ==
    Merge([type |-> NULL, title |-> NULL, status |-> "new", priority |-> NULL, owner |-> NULL,
           component |-> NULL, estimation |-> NULL, created_by |-> u], Columns(body))

\* The INSERT of create.
NewTicket(u, body) ==
    Merge([type |-> NULL, title |-> NULL, status |-> "new", priority |-> "P3", owner |-> NULL,
           component |-> NULL, estimation |-> NULL, created_by |-> u], Columns(body))

\* DELETE and INSERT of the join rows, when the body names them.
Replaced(table, t, body, f) ==
    IF f \in DOMAIN body
      THEN {x \in table : x[1] # t} \cup {<<t, body[f][i]>> : i \in DOMAIN body[f]}
      ELSE table

-----------------------------------------------------------------------------
(* create_ticket.                                                          *)

CreateTicket(u, body) ==
    /\ Arrive(IF body["title"] \in BadTitles
                THEN Answered(Blank(u, "create", 0, body), "Validation")
                ELSE [Blank(u, "create", 0, body) EXCEPT !.pc = "insert"])
    /\ UNCHANGED <<tickets, ticket_cc, ticket_milestones, milestones, components, faults>>

InsertTicket(k) ==
    LET r == requests[k]
        t == Len(tickets) + 1
        new == NewTicket(r.user, r.body)
        cc == Replaced(ticket_cc, t, r.body, "cc")
        links == Replaced(ticket_milestones, t, r.body, "milestones")
    IN /\ r.pc = "insert"
       /\ t \in TicketIds
       /\ IF Outcome(r.body) = "ok"
            THEN /\ tickets' = Append(tickets, new)
                 /\ ticket_cc' = cc
                 /\ ticket_milestones' = links
                 /\ StepRacing(k, [r EXCEPT !.pc = "reread", !.id = t,
                                            !.committed = Ticket(new, Of(cc, t), Of(links, t))],
                               OnDeletions(Of(links, t)))
            ELSE /\ Step(k, Answered(r, IF Outcome(r.body) = "Conflict"
                                          THEN "ValidationMsg" ELSE "Internal"))
                 /\ UNCHANGED <<tickets, ticket_cc, ticket_milestones>>
       /\ UNCHANGED <<milestones, components, faults>>

(* update_ticket.                                                          *)

\* The early returns, in their order; "" if there is none.
Refusal(u, t, body) ==
    IF t > Len(tickets) THEN "NotFound"
    ELSE IF "title" \notin DOMAIN body THEN ""
    ELSE IF tickets[t].created_by # u /\ u \notin Admins THEN "Forbidden"
    ELSE IF body["title"] \in BadTitles THEN "Validation" ELSE ""

UpdateTicket(u, t, body) ==
    LET r == Blank(u, "update", t, body)
    IN /\ Arrive(IF Refusal(u, t, body) # "" THEN Answered(r, Refusal(u, t, body))
                 ELSE [r EXCEPT !.existing = tickets[t], !.before = Snapshot(t),
                                !.pc = IF "milestones" \in DOMAIN body
                                         THEN "milestones" ELSE "update"])
       /\ UNCHANGED <<tickets, ticket_cc, ticket_milestones, milestones, components, faults>>

\* get_milestone_ids, before the update replaces them.
CaptureMilestones(k) ==
    /\ requests[k].pc = "milestones"
    /\ Step(k, [requests[k] EXCEPT !.pc = "update",
                                   !.old_milestones = Links(requests[k].id)])
    /\ UNCHANGED <<tickets, ticket_cc, ticket_milestones, milestones, components, faults>>

Commit(k, new) ==
    LET r == requests[k]
        cc == Replaced(ticket_cc, r.id, r.body, "cc")
        links == Replaced(ticket_milestones, r.id, r.body, "milestones")
    IN /\ tickets' = [tickets EXCEPT ![r.id] = new]
       /\ ticket_cc' = cc
       /\ ticket_milestones' = links
       /\ StepRacing(k, [r EXCEPT !.pc = "reread",
                            !.changed = {f \in TicketFields \ DOMAIN r.body :
                                            new[f] # tickets[r.id][f]},
                            !.committed = Ticket(new, Of(cc, r.id), Of(links, r.id))],
                     OnTickets({r.id}) \cup OnDeletions(Of(links, r.id)))

\* Mutant: the merge starts from the row the handler has read.
Update_MergesExisting(k) ==
    LET r == requests[k]
    IN /\ r.pc = "update"
       /\ Outcome(r.body) = "ok"
       /\ Commit(k, Merge(r.existing, Columns(r.body)))
       /\ UNCHANGED <<milestones, components, faults>>

\* repos::ticket::update reads the row again, in its transaction.
Update(k) ==
    LET r == requests[k]
    IN /\ r.pc = "update"
       /\ IF Outcome(r.body) = "ok"
            THEN Commit(k, Merge(tickets[r.id], Columns(r.body)))
            ELSE /\ Step(k, Answered(r, IF Outcome(r.body) = "Conflict"
                                          THEN "ValidationMsg" ELSE "Internal"))
                 /\ UNCHANGED <<tickets, ticket_cc, ticket_milestones>>
       /\ UNCHANGED <<milestones, components, faults>>

\* get_by_id(..).unwrap(), after the commit.
Reread(k) ==
    /\ requests[k].pc = "reread" /\ requests[k].kind \in {"create", "update"}
    /\ Step(k, [requests[k] EXCEPT !.pc = "cc", !.row = tickets[requests[k].id]])
    /\ UNCHANGED <<tickets, ticket_cc, ticket_milestones, milestones, components, faults>>

(* get_ticket.                                                             *)

GetTicket(t) ==
    LET r == Blank(NULL, "get", t, <<>>)
    IN /\ Arrive(IF t > Len(tickets) THEN Answered(r, "NotFound")
                 ELSE [r EXCEPT !.pc = "cc", !.row = tickets[t], !.before = Snapshot(t)])
       /\ UNCHANGED <<tickets, ticket_cc, ticket_milestones, milestones, components, faults>>

(* enrich_many, for the one ticket of each of these handlers.              *)

EnrichCc(k) ==
    /\ requests[k].pc = "cc"
    /\ Step(k, [requests[k] EXCEPT !.pc = "component", !.cc = Cc(requests[k].id)])
    /\ UNCHANGED <<tickets, ticket_cc, ticket_milestones, milestones, components, faults>>

\* A component that is gone leaves the ticket without an answer: 500.
EnrichComponent(k) ==
    /\ requests[k].pc = "component"
    /\ Step(k, IF requests[k].row.component \in components
                 THEN [requests[k] EXCEPT !.pc = "links"]
                 ELSE Answered(requests[k], "Internal"))
    /\ UNCHANGED <<tickets, ticket_cc, ticket_milestones, milestones, components, faults>>

EnrichLinks(k) ==
    /\ requests[k].pc = "links"
    /\ Step(k, [requests[k] EXCEPT !.pc = "names", !.links = Links(requests[k].id)])
    /\ UNCHANGED <<tickets, ticket_cc, ticket_milestones, milestones, components, faults>>

\* resolve_milestone_name; NULL is "unknown". (Users are never deleted: resolve_user_login finds the owner.)
NameOf(m) == IF MilestoneExists(m) THEN MilestoneRow(m).name ELSE NULL

\* An emission: its type, and what json! puts into its payload.
Event(event_type, payload) == [event_type |-> event_type, payload |-> payload]

StatusChanged(r) ==
    Event("status_changed",
          [actor |-> r.user, old_status |-> r.existing.status, new_status |-> r.row.status])
PriorityChanged(r) ==
    Event("priority_changed",
          [actor |-> r.user, old_priority |-> r.existing.priority, new_priority |-> r.row.priority])
OwnerChanged(r) ==
    Event("owner_changed",
          [actor |-> r.user, old_owner |-> r.existing.owner, new_owner |-> r.row.owner])
MilestoneAdded(r, name) ==
    Event("milestone_added", [actor |-> r.user, milestone_name |-> name])

\* Mutant: a field the body names is announced although it has kept its value.
Changed_Named(r, f, event) == IF f \in DOMAIN r.body THEN <<event>> ELSE <<>>

Changed(r, f, event) ==
    IF f \in DOMAIN r.body /\ r.existing[f] # r.row[f] THEN <<event>> ELSE <<>>

\* Those of the ids in the body that are not in the old set, in the body's order.
NotIn(ids, old) ==
    LET found[i \in 0 .. Len(ids)] ==
            IF i = 0 THEN <<>>
            ELSE IF ids[i] \in old THEN found[i - 1] ELSE Append(found[i - 1], ids[i])
    IN found[Len(ids)]

\* A milestone is announced by the name it has when its turn comes.
Added(r) ==
    IF r.old_milestones = NULL THEN <<>>
    ELSE LET new == NotIn(r.body["milestones"], r.old_milestones)
         IN [i \in DOMAIN new |-> MilestoneAdded(r, NameOf(new[i]))]

\* The events of a handler, in their order.
Events(r) ==
    IF r.kind = "update"
      THEN Changed(r, "status", StatusChanged(r)) \o Changed(r, "priority", PriorityChanged(r))
              \o Changed(r, "owner", OwnerChanged(r)) \o Added(r)
    ELSE IF r.kind = "create" THEN <<Event("ticket_created", [actor |-> r.user])>>
    ELSE <<>>

\* The answer, put together from what the statements have found. (The comment count is
\* left out, and the slug is added later.)
Response(row, cc, names) ==
    [row |-> row, cc |-> cc, milestones |-> names,
     estimation_display |-> IF row.estimation = NULL THEN NULL ELSE FormatEstimation(row.estimation)]

\* Of the milestones, those that still exist. The events are announced, one by one, before
\* the answer is sent.
EnrichNames(k) ==
    LET r == requests[k]
        names == [m \in {l \in r.links : MilestoneExists(l)} |-> NameOf(m)]
    IN /\ r.pc = "names"
       /\ Step(k, [r EXCEPT !.pc = "announce", !.shown = Response(r.row, r.cc, names)])
       /\ UNCHANGED <<tickets, ticket_cc, ticket_milestones, milestones, components, faults>>

Announce(k) ==
    LET r == requests[k]
        next == Len(r.said) + 1
    IN /\ r.pc = "announce"
       /\ Step(k, IF next > Len(Events(r))
                    THEN [r EXCEPT !.pc = "done", !.code = IF r.kind = "create" THEN 201 ELSE 200]
                  ELSE [r EXCEPT !.said = Append(@, Events(r)[next])])
       /\ UNCHANGED <<tickets, ticket_cc, ticket_milestones, milestones, components, faults>>

-----------------------------------------------------------------------------
(* Statistics of milestones.                                               *)

Assigned(m) == {t \in DOMAIN tickets : <<t, m>> \in ticket_milestones}

InStatus(ts, status) == Cardinality({t \in ts : tickets[t].status = status})

\* SUM skips what is NULL; COALESCE makes the sum of nothing 0.
SumHours(ts) ==
    SumOf([t \in DOMAIN tickets |->
              IF t \in ts /\ tickets[t].estimation # NULL THEN tickets[t].estimation ELSE 0])

\* The columns of the query, over the tickets of one milestone.
StatsOf(ts) ==
    [total |-> Cardinality(ts),
     new |-> InStatus(ts, "new"), in_progress |-> InStatus(ts, "in_progress"),
     verify |-> InStatus(ts, "verify"), done |-> InStatus(ts, "done"),
     estimated_hours |-> SumHours(ts),
     remaining_hours |-> SumHours({t \in ts : tickets[t].status # "done"})]

NoStats == [total |-> 0, new |-> 0, in_progress |-> 0, verify |-> 0, done |-> 0,
            estimated_hours |-> 0, remaining_hours |-> 0]

\* Grouped by milestone: one without tickets has no group.
StatsBatch(ids) == [m \in {n \in ids : Assigned(n) # {}} |-> StatsOf(Assigned(m))]

MilestoneResponse(row, stats) == [row |-> row, stats |-> stats]

EnrichMilestones(rows) ==
    LET stats == StatsBatch({rows[i].id : i \in DOMAIN rows})
    IN [i \in DOMAIN rows |->
           MilestoneResponse(rows[i], Given(stats, rows[i].id, NoStats))]

-----------------------------------------------------------------------------
(* Milestones. An administrator's requests, but for the list.              *)

CreateMilestone(u, body) ==
    LET r == Blank(u, "create_milestone", 0, body)
    IN /\ u \in Admins
       /\ "name" \in DOMAIN body
       /\ Arrive(IF body["name"] = 0 THEN Answered(r, "Validation") ELSE [r EXCEPT !.pc = "insert_ms"])
       /\ UNCHANGED <<tickets, ticket_cc, ticket_milestones, milestones, components, faults>>

NameTaken(name, m) == \E row \in milestones : row.name = name /\ row.id # m

InsertMilestone(k) ==
    LET r == requests[k]
    IN /\ r.pc = "insert_ms"
       /\ IF NameTaken(r.body["name"], 0)
            THEN Step(k, Answered(r, "Conflict")) /\ UNCHANGED milestones
            ELSE \E m \in MilestoneIds :
                    /\ IsNextRowid(milestones, m)
                    /\ milestones' = milestones \cup
                          {Merge([id |-> m, name |-> 0, description |-> NULL, due_date |-> NULL,
                                  status |-> "open"], r.body)}
                    /\ Step(k, [r EXCEPT !.id = m, !.pc = "reread_ms"])
       /\ UNCHANGED <<tickets, ticket_cc, ticket_milestones, components, faults>>

UpdateMilestone(u, m, body) ==
    LET r == Blank(u, "update_milestone", m, body)
    IN /\ u \in Admins
       /\ Arrive(IF MilestoneExists(m)
                   THEN [r EXCEPT !.pc = "write_ms", !.existing = MilestoneRow(m)]
                   ELSE Answered(r, "NotFound"))
       /\ UNCHANGED <<tickets, ticket_cc, ticket_milestones, milestones, components, faults>>

\* UPDATE ... WHERE id = ?, with every column of the merged row; no row, no effect.
WriteMilestone(k) ==
    LET r == requests[k]
        new == Merge(r.existing, r.body)
    IN /\ r.pc = "write_ms"
       /\ IF MilestoneExists(r.id) /\ NameTaken(new.name, r.id)
            THEN Step(k, Answered(r, "Conflict")) /\ UNCHANGED milestones
            ELSE /\ milestones' = {IF row.id = r.id THEN new ELSE row : row \in milestones}
                 /\ StepRacing(k, [r EXCEPT !.pc = "reread_ms",
                                      !.changed = {f \in MilestoneFields \ DOMAIN r.body :
                                                     \E row \in milestones :
                                                        row.id = r.id /\ row[f] # new[f]}],
                               OnMilestones({r.id}) \cup OnTickets(Assigned(r.id)))
       /\ UNCHANGED <<tickets, ticket_cc, ticket_milestones, components, faults>>

\* get_by_id(..).unwrap(): a milestone deleted meanwhile is a panic, and no answer.
RereadMilestone(k) ==
    LET r == requests[k]
    IN /\ r.pc = "reread_ms"
       /\ Step(k, IF MilestoneExists(r.id)
                    THEN [r EXCEPT !.pc = "stats", !.row = <<MilestoneRow(r.id)>>]
                    ELSE [r EXCEPT !.pc = "done"])
       /\ UNCHANGED <<tickets, ticket_cc, ticket_milestones, milestones, components, faults>>

DeleteMilestone(u, m) ==
    LET r == Blank(u, "delete_milestone", m, <<>>)
    IN /\ u \in Admins
       /\ Arrive(IF MilestoneExists(m) THEN [r EXCEPT !.pc = "count"] ELSE Answered(r, "NotFound"))
       /\ UNCHANGED <<tickets, ticket_cc, ticket_milestones, milestones, components, faults>>

\* Mutant: the tickets are not counted again, as they were not counted at all.
CountAssigned_Unchecked(k) ==
    /\ requests[k].pc = "count"
    /\ Step(k, [requests[k] EXCEPT !.pc = "delete", !.raced = FALSE])
    /\ UNCHANGED <<tickets, ticket_cc, ticket_milestones, milestones, components, faults>>

CountAssigned(k) ==
    LET r == requests[k]
    IN /\ r.pc = "count"
       /\ Step(k, IF Assigned(r.id) # {} THEN Answered(r, "Conflict")
                  ELSE [r EXCEPT !.pc = "delete", !.raced = FALSE])
       /\ UNCHANGED <<tickets, ticket_cc, ticket_milestones, milestones, components, faults>>

\* By id, without another look: the links that are there by now go with the row (ON
\* DELETE CASCADE).
RemoveMilestone(k) ==
    LET r == requests[k]
    IN /\ r.pc = "delete"
       /\ milestones' = {row \in milestones : row.id # r.id}
       /\ ticket_milestones' = {x \in ticket_milestones : x[2] # r.id}
       /\ StepRacing(k, [r EXCEPT !.pc = "done", !.code = 204,
                            !.released = {x \in ticket_milestones : x[2] = r.id}],
                     OnMilestones({r.id}) \cup OnTickets(Assigned(r.id)))
       /\ UNCHANGED <<tickets, ticket_cc, components, faults>>

\* ORDER BY due_date IS NULL, due_date ASC, name ASC.
Sooner(x, y) ==
    IF x.due_date = y.due_date THEN x.name < y.name
    ELSE y.due_date = NULL \/ (x.due_date # NULL /\ x.due_date < y.due_date)

ListMilestones(status) ==
    /\ Arrive([Blank(NULL, "list_milestones", 0, <<>>) EXCEPT
                  !.pc = "stats",
                  !.row = SetToSortSeq({row \in milestones : status \in {NULL, row.status}}, Sooner)])
    /\ UNCHANGED <<tickets, ticket_cc, ticket_milestones, milestones, components, faults>>

\* enrich_many: the rows were read by an earlier statement.
Stats(k) ==
    LET r == requests[k]
    IN /\ r.pc = "stats"
       /\ Step(k, [r EXCEPT !.pc = "done", !.shown = EnrichMilestones(r.row),
                            !.code = IF r.kind = "create_milestone" THEN 201 ELSE 200])
       /\ UNCHANGED <<tickets, ticket_cc, ticket_milestones, milestones, components, faults>>

-----------------------------------------------------------------------------
(* The environment.                                                        *)

\* A component is deleted: the foreign key of tickets refuses it while a ticket is there.
DeleteComponent(c) ==
    /\ c \in components
    /\ \A t \in DOMAIN tickets : tickets[t].component # c
    /\ components' = components \ {c}
    /\ UNCHANGED <<tickets, ticket_cc, ticket_milestones, milestones, requests, faults>>

\* A statement fails: its transaction is rolled back, and the handler answers 500, but for
\* the milestones before the update (.ok()) and an announcement (let _ =), which it does
\* without.
StatementFails(k) ==
    LET r == [requests[k] EXCEPT !.faulted = TRUE]
    IN /\ r.pc # "done"
       /\ faults < MaxFaults
       /\ faults' = faults + 1
       /\ Step(k, IF r.pc = "milestones" THEN [r EXCEPT !.pc = "update"]
                  ELSE IF r.pc = "announce" /\ Len(r.said) < Len(Events(r))
                    THEN [r EXCEPT !.said = Append(@, NULL)]
                  ELSE Answered(r, "Internal"))
       /\ UNCHANGED <<tickets, ticket_cc, ticket_milestones, milestones, components>>

\* The process dies and is started again: no request in flight is answered.
Crash ==
    /\ \E k \in DOMAIN requests : requests[k].pc # "done"
    /\ faults < MaxFaults
    /\ faults' = faults + 1
    /\ requests' = [k \in DOMAIN requests |->
                       IF requests[k].pc = "done" THEN requests[k]
                       ELSE [requests[k] EXCEPT !.pc = "done", !.faulted = TRUE]]
    /\ UNCHANGED <<tickets, ticket_cc, ticket_milestones, milestones, components>>

Request(u) ==
    \/ \E body \in CreateBodies : CreateTicket(u, body)
    \/ \E t \in TicketIds, body \in UpdateBodies : UpdateTicket(u, t, body)
    \/ \E body \in MilestoneBodies :
          CreateMilestone(u, body) \/ \E m \in MilestoneIds : UpdateMilestone(u, m, body)
    \/ \E m \in MilestoneIds : DeleteMilestone(u, m)

Read == (\E t \in TicketIds : GetTicket(t))
        \/ (\E status \in MilestoneStatus \cup {NULL} : ListMilestones(status))

Proceed(k) ==
    \/ InsertTicket(k) \/ CaptureMilestones(k) \/ Update(k) \/ Reread(k)
    \/ EnrichCc(k) \/ EnrichComponent(k) \/ EnrichLinks(k) \/ EnrichNames(k) \/ Announce(k)
    \/ InsertMilestone(k) \/ WriteMilestone(k) \/ RereadMilestone(k)
    \/ CountAssigned(k) \/ RemoveMilestone(k) \/ Stats(k)

Next ==
    \/ (\E u \in Users : Request(u)) \/ Read
    \/ \E k \in DOMAIN requests : Proceed(k) \/ StatementFails(k)
    \/ \E c \in Components : DeleteComponent(c)
    \/ Crash

Spec == Init /\ [][Next]_vars

-----------------------------------------------------------------------------
(* Correctness.                                                            *)

AddsUp(stats) == /\ stats.total = stats.new + stats.in_progress + stats.verify + stats.done
                 /\ stats.remaining_hours <= stats.estimated_hours

\* The rows have their types, the join tables refer to rows, and the statistics a milestone
\* is answered with add up.
TypeOK ==
    /\ \A t \in DOMAIN tickets : t \in TicketIds /\ TicketRow(tickets[t], components)
    /\ ticket_cc \subseteq (DOMAIN tickets) \X Users
    /\ ticket_milestones \subseteq (DOMAIN tickets) \X {row.id : row \in milestones}
    /\ \A row \in milestones : row.id \in MilestoneIds /\ row.status \in MilestoneStatus
    /\ UniqueIds(milestones)
    /\ components \subseteq Components
    /\ \A k \in DOMAIN requests :
          /\ requests[k].kind \in {"create_milestone", "update_milestone", "list_milestones"}
          /\ requests[k].shown # NULL
          => \A i \in DOMAIN requests[k].shown : AddsUp(requests[k].shown[i].stats)
    /\ Len(requests) <= MaxRequests /\ faults \in 0 .. MaxFaults

\* What an update did to the ticket, as the lines that tell of it.
ToldOf == [status |-> "status_changed", priority |-> "priority_changed", owner |-> "owner_changed"]
Difference(r) ==
    {<<ToldOf[f], r.before.row[f], r.committed.row[f], r.user>> :
        f \in {g \in DOMAIN ToldOf : r.before.row[g] # r.committed.row[g]}}
    \cup {<<"milestone_added", r.committed.names[m], r.user>> :
             m \in r.committed.links \ r.before.links}

\* The mail about what a request announced, if the worker finds all its rows at once.
MailOf(r) ==
    SendNotification(r.user, r.id, r.row.title,
       NotificationEvents([i \in DOMAIN r.said |-> r.said[i].event_type],
                          [i \in DOMAIN r.said |-> r.said[i].payload]))

Undisturbed(r) == r.pc = "done" /\ ~ r.raced /\ ~ r.faulted

\* An update that no other request raced with, and no failure hit, is answered with the
\* ticket as its transaction left it, and the mail about it has a line for exactly what the
\* transaction changed, with the values before and after, each change once: although the
\* handler compares a row read before the transaction with one read after it
\* (update_ticket, emit_update_notifications, format_event_line).
UpdatesToldExactly ==
    \A k \in DOMAIN requests :
       LET r == requests[k]
           lines == MailOf(r).body.items
       IN r.kind = "update" /\ r.committed # NULL /\ Undisturbed(r)
             => /\ r.code = 200
                /\ r.shown = Response(r.committed.row, r.committed.cc, r.committed.names)
                /\ Range(lines) = Difference(r) /\ Len(lines) = Cardinality(Difference(r))

\* A write changes no field its body does not name: never a ticket's, and a milestone's only
\* if another write came between the read and the write (repos::ticket::update,
\* repos::milestone::update).
UnnamedFieldsKept ==
    \A k \in DOMAIN requests :
       /\ requests[k].kind = "update" => requests[k].changed = {}
       /\ requests[k].changed # {} => requests[k].raced

\* Tickets lose a milestone to its deletion only if they were assigned to it after the
\* deletion had counted none (repos::milestone::delete).
LinksLostOnlyToRaces ==
    \A k \in DOMAIN requests : requests[k].released # {} => requests[k].raced

\* api/milestone.rs, delete_milestone: "Rejects if the milestone has assigned tickets."
DeleteRejectsAssigned == \A k \in DOMAIN requests : requests[k].released = {}
=============================================================================
