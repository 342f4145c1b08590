------------------------------ MODULE Comments ------------------------------
(***************************************************************************)
(* The comments of a ticket: their numbering, the description kept as      *)
(* comment #0, edits with their history, and deletion                      *)
(* (src/src/repos/comment.rs, src/src/api/comment.rs, and create_ticket of *)
(* src/src/api/ticket.rs).                                                 *)
(*                                                                         *)
(* A handler looks a comment up by ticket and number, decides, and then    *)
(* writes by the comment's id, in a second statement or transaction.       *)
(* Between the two any other request may run; and the id of a deleted last *)
(* row is given out again. A transaction that reads and then writes is one *)
(* step: SQLite refuses it when another writer came in between.            *)
(***************************************************************************)
EXTENDS Naturals, Sqlite

CONSTANTS
    Users,          \* user ids
    Admins,         \* the users whose role is admin
    Tickets,        \* ticket ids, once they are created
    MaxRequests,    \* bound: requests in a behaviour
    MaxFaults       \* bound: statement errors and crashes in a behaviour

ASSUME CommentsAssumption ==
    Admins \subseteq Users /\ MaxRequests \in Nat /\ MaxFaults \in Nat

VARIABLES
    tickets,        \* the ids of the tickets table
    comments,       \* the rows of comments
    edits,          \* the rows of comment_edits
    requests,       \* the handlers between two statements
    began,          \* requests so far
    faults,         \* faults so far
    said            \* history: every body each comment had, <<created_at, body>>

vars == <<tickets, comments, edits, requests, began, faults, said>>

\* Requests are numbered as they come. The number stands for the body a request writes,
\* and for the moment it writes.
Stamps == 1 .. MaxRequests

Comment == [id : Stamps, ticket : Tickets, number : Nat, author : Users,
            body : Stamps, created_at : Stamps]

CommentEdit == [comment_id : Stamps, old_body : Stamps, edited_at : Stamps]

\* "describe" is create_ticket with its description still to insert; "answer" is a
\* handler that has committed and reads the row back.
Request ==
    [stamp : Stamps, user : Users, pc : {"describe", "update", "delete", "answer"},
     ticket : Tickets, id : Stamps, seen : Stamps]

Init ==
    /\ tickets = {} /\ comments = {} /\ edits = {} /\ requests = {}
    /\ began = 0 /\ faults = 0 /\ said = {}

-----------------------------------------------------------------------------
Begin == began < MaxRequests /\ began' = began + 1

Finish(r) == requests' = requests \ {r}

Numbers(t) == {c.number : c \in {d \in comments : d.ticket = t}}

\* Mutant: the new comment fills the first gap a deletion left.
IsNextNumber_FillsGap(t, n) ==
    n \notin Numbers(t) /\ \A m \in 0 .. MaxRequests : m < n => m \in Numbers(t)

\* COALESCE(MAX(number), -1) + 1 over the ticket's comments.
IsNextNumber(t, n) ==
    IF Numbers(t) = {} THEN n = 0
    ELSE (\A m \in Numbers(t) : m < n) /\ \E m \in Numbers(t) : n = m + 1

\* Mutant: the values of ticket_id and author_id are bound in the wrong order.
NewRow_BindsSwapped(id, t, n, u, stamp) ==
    [id |-> id, ticket |-> u, number |-> n, author |-> t, body |-> stamp, created_at |-> stamp]

NewRow(id, t, n, u, stamp) ==
    [id |-> id, ticket |-> t, number |-> n, author |-> u, body |-> stamp, created_at |-> stamp]

Insert(c) ==
    /\ comments' = comments \cup {c}
    /\ said' = said \cup {<<c.created_at, c.body>>}

(* create_ticket: the ticket's own transaction, then the description.      *)

\* Without a description there is no comment #0.
CreateTicket(u, t, withDescription) ==
    /\ Begin
    /\ t \notin tickets
    /\ tickets' = tickets \cup {t}
    /\ requests' = IF withDescription
                     THEN requests \cup {[stamp |-> began', user |-> u, pc |-> "describe",
                                          ticket |-> t, id |-> began', seen |-> began']}
                     ELSE requests
    /\ UNCHANGED <<comments, edits, faults, said>>

\* The INSERT fails on UNIQUE(ticket_id, number) when a comment has already taken #0:
\* the handler answers 500, and the ticket stays.
CreateDescriptionComment(r) ==
    /\ r.pc = "describe"
    /\ IF 0 \in Numbers(r.ticket)
         THEN UNCHANGED <<comments, said>>
         ELSE \E id \in Stamps :
                 /\ IsNextRowid(comments, id)
                 /\ Insert(NewRow(id, r.ticket, 0, r.user, r.stamp))
    /\ Finish(r)
    /\ UNCHANGED <<tickets, edits, began, faults>>

(* create_comment: one transaction, then the row is read back.             *)

CreateComment(u, t) ==
    /\ Begin
    /\ t \in tickets
    /\ \E id \in Stamps, n \in 0 .. MaxRequests :
          /\ IsNextRowid(comments, id)
          /\ IsNextNumber(t, n)
          /\ Insert(NewRow(id, t, n, u, began'))
          /\ requests' = requests \cup {[stamp |-> began', user |-> u, pc |-> "answer",
                                         ticket |-> t, id |-> id, seen |-> began']}
    /\ UNCHANGED <<tickets, edits, faults>>

\* get_by_id(..).unwrap(): a row that is gone by then is a panic; the connection ends.
Answer(r) ==
    /\ r.pc = "answer"
    /\ Finish(r)
    /\ UNCHANGED <<tickets, comments, edits, began, faults, said>>

(* edit_comment: look up, authorize, and update by id in a transaction.    *)

MayEdit(u, c) == c.author = u \/ u \in Admins

LookUpToEdit(u, c) ==
    /\ Begin
    /\ MayEdit(u, c)
    /\ requests' = requests \cup {[stamp |-> began', user |-> u, pc |-> "update",
                                   ticket |-> c.ticket, id |-> c.id, seen |-> c.body]}
    /\ UNCHANGED <<tickets, comments, edits, faults, said>>

\* Mutant: the history keeps the body the handler looked up.
Update_SavesSeen(r) ==
    /\ r.pc = "update"
    /\ \/ /\ \A c \in comments : c.id # r.id
          /\ Finish(r)
          /\ UNCHANGED <<comments, edits, said>>
       \/ \E c \in comments :
             /\ c.id = r.id
             /\ edits' = edits \cup
                   {[comment_id |-> c.id, old_body |-> r.seen, edited_at |-> r.stamp]}
             /\ comments' = (comments \ {c}) \cup {[c EXCEPT !.body = r.stamp]}
             /\ said' = said \cup {<<c.created_at, r.stamp>>}
             /\ requests' = (requests \ {r}) \cup {[r EXCEPT !.pc = "answer"]}
    /\ UNCHANGED <<tickets, began, faults>>

\* The transaction reads the row again: the old body it saves is the one it replaces.
Update(r) ==
    /\ r.pc = "update"
    /\ \/ /\ \A c \in comments : c.id # r.id
          /\ Finish(r)
          /\ UNCHANGED <<comments, edits, said>>
       \/ \E c \in comments :
             /\ c.id = r.id
             /\ edits' = edits \cup
                   {[comment_id |-> c.id, old_body |-> c.body, edited_at |-> r.stamp]}
             /\ comments' = (comments \ {c}) \cup {[c EXCEPT !.body = r.stamp]}
             /\ said' = said \cup {<<c.created_at, r.stamp>>}
             /\ requests' = (requests \ {r}) \cup {[r EXCEPT !.pc = "answer"]}
    /\ UNCHANGED <<tickets, began, faults>>

(* delete_comment: look up, and delete by id.                              *)

\* An admin, and never comment #0.
LookUpToDelete(u, c) ==
    /\ Begin
    /\ u \in Admins
    /\ c.number # 0
    /\ requests' = requests \cup {[stamp |-> began', user |-> u, pc |-> "delete",
                                   ticket |-> c.ticket, id |-> c.id, seen |-> c.body]}
    /\ UNCHANGED <<tickets, comments, edits, faults, said>>

\* The edits go with the comment (ON DELETE CASCADE). No row: 500.
Delete(r) ==
    /\ r.pc = "delete"
    /\ comments' = {c \in comments : c.id # r.id}
    /\ edits' = {e \in edits : e.comment_id # r.id}
    /\ Finish(r)
    /\ UNCHANGED <<tickets, began, faults, said>>

(* Failures.                                                               *)

\* A statement fails (a busy or full database): the transaction is rolled back, 500.
StatementFails(r) ==
    /\ faults < MaxFaults
    /\ faults' = faults + 1
    /\ Finish(r)
    /\ UNCHANGED <<tickets, comments, edits, began, said>>

\* The process dies and is started again.
Crash ==
    /\ requests # {}
    /\ faults < MaxFaults
    /\ faults' = faults + 1
    /\ requests' = {}
    /\ UNCHANGED <<tickets, comments, edits, began, said>>

Arrive ==
    \E u \in Users :
       \/ \E t \in Tickets : CreateTicket(u, t, TRUE) \/ CreateTicket(u, t, FALSE)
                             \/ CreateComment(u, t)
       \/ \E c \in comments : LookUpToEdit(u, c) \/ LookUpToDelete(u, c)

Proceed(r) == CreateDescriptionComment(r) \/ Update(r) \/ Delete(r) \/ Answer(r)

Next == Arrive \/ (\E r \in requests : Proceed(r) \/ StatementFails(r)) \/ Crash

Spec == Init /\ [][Next]_vars

-----------------------------------------------------------------------------
(* Correctness.                                                            *)

\* The variables have their types.
TypeOK ==
    /\ tickets \subseteq Tickets
    /\ comments \subseteq Comment
    /\ edits \subseteq CommentEdit
    /\ requests \subseteq Request
    /\ began \in 0 .. MaxRequests /\ faults \in 0 .. MaxFaults
    /\ said \subseteq Stamps \X Stamps

\* A ticket's comments, read in the order of their numbers, are in the order they were
\* written, whatever was deleted in between; #0 aside, whose number is not computed
\* (repos::comment::create takes the maximum, in the inserting transaction).
RepliesInOrder ==
    \A c, d \in comments :
       c.ticket = d.ticket /\ 0 < c.number /\ c.number < d.number => c.created_at < d.created_at

\* A comment's body and its edit history are together every body that comment ever had:
\* no edit is lost to a concurrent one, and none is inherited from a deleted comment
\* whose id was given out again.
EditHistoryComplete ==
    \A c \in comments : \A b \in Stamps :
       <<c.created_at, b>> \in said
          <=> b = c.body \/ \E e \in edits : e.comment_id = c.id /\ e.old_body = b

\* What makes the two inductive: rows are told apart by id and by created_at, edits
\* belong to live rows, and what is still to be written has a stamp of its own.
OwnStamps ==
    /\ \A c, d \in comments : c.created_at = d.created_at => c = d
    /\ \A r, q \in requests : r.stamp = q.stamp => r = q
    /\ \A r \in requests : r.stamp <= began
    /\ \A x \in said : x[1] <= began
    /\ \A c \in comments : <<c.created_at, c.body>> \in said
    /\ \A r \in requests : r.pc = "describe" => \A x \in said : x[1] # r.stamp
EditsOfLiveRows == \A e \in edits : \E c \in comments : c.id = e.comment_id

CommentsInv ==
    RepliesInOrder /\ EditHistoryComplete /\ UniqueIds(comments) /\ OwnStamps /\ EditsOfLiveRows

\* comment.rs, delete_comment: "Comment #0 (ticket description) cannot be deleted." (Two
\* deletions of one comment, and a ticket created between them, delete a description.)
DescriptionCannotBeDeleted ==
    [][\A c \in comments : c.number = 0 => \E d \in comments' : d.created_at = c.created_at]_vars
=============================================================================
