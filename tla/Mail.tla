-------------------------------- MODULE Mail --------------------------------
(***************************************************************************)
(* What an e-mail says (src/src/email.rs): the payload the producer stored *)
(* with a row, as the worker finds it again, and the line it becomes.      *)
(*                                                                         *)
(* A line is a sequence: what happened, then the values it names in their  *)
(* order. A key the payload lacks is shown as "?", an actor as "unknown".  *)
(***************************************************************************)
EXTENDS Models, Sequences

\* The keys format_event_line looks for, of each event type; the actor's is in all.
KeysOf ==
    [ticket_created |-> <<>>, comment_added |-> <<>>,
     status_changed |-> <<"old_status", "new_status">>,
     priority_changed |-> <<"old_priority", "new_priority">>,
     owner_changed |-> <<"old_owner", "new_owner">>,
     milestone_added |-> <<"milestone_name">>]

FormatEventLine(event_type, payload) ==
    LET keys == Given(KeysOf, event_type, <<>>)
    IN <<event_type>> \o [i \in DOMAIN keys |-> Given(payload, keys[i], "?")]
                      \o <<Given(payload, "actor", "unknown")>>

\* The batch's columns, split and zipped; a payload that is not JSON (NULL here) is empty.
NotificationEvents(event_types, payloads) ==
    [i \in 1 .. (IF Len(event_types) < Len(payloads) THEN Len(event_types) ELSE Len(payloads)) |->
        [event_type |-> event_types[i],
         payload |-> IF payloads[i] = NULL THEN <<>> ELSE payloads[i]]]

\* The HTML and the text part say the same: the ticket with its link, and the lines.
BuildNotificationEmail(ticket, title, events) ==
    [link |-> ticket, heading |-> <<ticket, title>>,
     items |-> [i \in DOMAIN events |->
                   FormatEventLine(events[i].event_type, events[i].payload)]]

\* The message of one group. An address that does not parse is an error, as a refusal is.
SendNotification(address, ticket, title, events) ==
    [to |-> address, subject |-> <<ticket, title>>,
     body |-> BuildNotificationEmail(ticket, title, events)]
=============================================================================
