------------------------------ MODULE MCTickets ------------------------------
\* Request bodies for Tickets: what the handlers treat differently.
EXTENDS Tickets

CONSTANTS u1, u2

Text(n, unit) == <<[number |-> 10 * n, unit |-> unit]>>

OneTicket == [type |-> "bug", title |-> "t", owner |-> u1, component |-> 1]

MCCreateBodies ==
    {[OneTicket EXCEPT !.title = ""],
     [milestones |-> <<2>>, estimation |-> Text(1, "d"), cc |-> <<u2>>] @@ OneTicket}

MCUpdateBodies ==
    {[status |-> "done"], [status |-> "new", priority |-> "P0"], [component |-> 2, owner |-> u2],
     [milestones |-> <<1, 2>>], [milestones |-> <<>>, estimation |-> NULL],
     [title |-> "x", cc |-> <<u2>>], [cc |-> <<u2, u2>>], [estimation |-> Text(1, "?")]}

MCSeedTickets ==
    <<[type |-> "bug", title |-> "t", status |-> "new", priority |-> "P3", owner |-> u1,
       component |-> 1, estimation |-> 8, created_by |-> u1]>>

MCSeedMilestones ==
    {[id |-> 1, name |-> 3, description |-> NULL, due_date |-> 1, status |-> "open"],
     [id |-> 2, name |-> 1, description |-> 5, due_date |-> NULL, status |-> "open"]}

MCSeedLinks == {<<1, 1>>}

MCMilestoneBodies ==
    {[name |-> 0], [name |-> 2, due_date |-> NULL], [status |-> "closed"], [name |-> 1]}
=============================================================================
