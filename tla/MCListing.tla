------------------------------ MODULE MCListing ------------------------------
\* What is typed, and five tickets, for Listing: 1 is alone in its millisecond, 2 and 3
\* share one, and 4 is in the first microsecond of its own, with nanoseconds. One of the
\* queries that are sent selects all of them, another neither 2 nor 3.
EXTENDS Listing

Status == <<"status", ":", "new", " ">>
NotStatus == <<"-", "status", ":", "new", " ">>
Component == <<"component", ":", "UI", "/", "web", " ">>
Or == <<"OR", " ">>

MCSearchInput == {
    Status, Or, Or \o NotStatus, <<"-">>, <<"\"">>, <<"free", " ">>, <<"is", ":", "free", " ">>,
    <<"estimation", ":", ">=", "1d", " ">>, <<"estimation", ":", ">", "soon", " ">>,
    <<"updated", ":", "<", "day2", " ">> }

MCCommentInput == {
    <<"#">>, <<"1">>, <<"0">>, <<"big">>, <<"A", "B">>, <<"-">>, <<"/comment#">>, <<"comment#", "2">>,
    <<" ">>, <<",", "#", "1">>, <<"@", "a">>, <<"@", "A">> }

Amount(number, unit) == [number |-> number, unit |-> unit]

MCHoursInput == {<<Amount(n, u)>> : n \in {4, 75, 120}, u \in {"w", "d", "h"}}
                   \cup {<<Amount(10, "")>>, <<Amount(NaN, "h")>>, <<Amount(10, "?")>>}

MCMaxTyped == [search |-> 4, comment |-> 4, hours |-> 3]

MCSubmitted == {
    <<>>, Status \o Or \o <<"estimation", ":", ">=", "1d", " ">>,
    <<"updated", ":", "<", "day2", " ">>, <<"free", " ">>, <<"slug", ":", "UI", " ">>,
    <<"slug", ":", "UI", " ", "free", " ">> }

MCDays == [w \in {"day1", "day2"} |-> IF w = "day1" THEN 0 ELSE 1]
MCDurations == [w \in {"1d", "soon"} |-> IF w = "1d" THEN <<Amount(10, "d")>> ELSE <<Amount(NaN, "s")>>]
MCLower == [w \in {"UI", "ui", "web"} |-> IF w = "UI" THEN "ui" ELSE w]

MCTicket(status, estimation, t) ==
    [status |-> status, type |-> "bug", priority |-> "P3", owner |-> "ann", cc |-> {"bob"},
     component |-> <<"ui", "web">>, milestones |-> {}, estimation |-> estimation,
     created |-> 1, updated_at |-> t]

MCSeed == <<MCTicket("new", NULL, 2), MCTicket("done", NULL, 5), MCTicket("done", 40, 5),
            MCTicket("done", 80, 7), MCTicket("new", 80, 11)>>
=============================================================================
