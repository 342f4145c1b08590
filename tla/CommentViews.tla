---------------------------- MODULE CommentViews ----------------------------
(***************************************************************************)
(* What a reader is shown of a ticket's comments (list_comments of         *)
(* src/src/api/comment.rs, and enrich_many of src/src/repos/comment.rs,    *)
(* which the answers to a creation and to an edit go through as well).     *)
(*                                                                         *)
(* The rows, the counts of their edits and the edits are read by separate  *)
(* statements, while the requests of Comments go on. One reader is         *)
(* followed, begun at any moment.                                          *)
(***************************************************************************)
EXTENDS Comments, FiniteSets, Functions, Sequences

VARIABLES
    view,           \* the reader
    heard,          \* history: what the comments of the view had said when it read them
    gone            \* history: the comments of the view deleted since, by created_at

readVars == <<view, heard, gone>>
viewVars == <<vars, readVars>>

\* include_edits is the query's; the answers to a creation and to an edit have none.
NoView == [pc |-> "none", include_edits |-> FALSE, rows |-> << >>, counts |-> {}, items |-> << >>]

ViewsInit == Init /\ view = NoView /\ heard = {} /\ gone = {}

-----------------------------------------------------------------------------
EditsOf(id) == {e \in edits : e.comment_id = id}

\* The sequences in which a statement can return these rows.
Orders(rows) == {s \in [1 .. Cardinality(rows) -> rows] : Range(s) = rows}

\* ORDER BY number ASC, ORDER BY edited_at ASC.
ByNumber(rows) ==
    {s \in Orders(rows) : \A i, j \in DOMAIN s : i < j => s[i].number < s[j].number}
ByTime(rows) ==
    {s \in Orders(rows) : \A i, j \in DOMAIN s : i < j => s[i].edited_at < s[j].edited_at}

\* No comment: an empty answer without further statements.
Read(include, rows) ==
    /\ view' = [NoView EXCEPT !.include_edits = include, !.rows = rows,
                              !.pc = IF rows = << >> THEN "shown" ELSE "counts"]
    /\ heard' = {x \in said : \E i \in DOMAIN rows : rows[i].created_at = x[1]}
    /\ gone' = {}

\* An unknown ticket is a 404; a ticket is never deleted, so that the check and the
\* reading of the rows are one step.
ListComments(t, include) ==
    /\ view.pc = "none"
    /\ Begin
    /\ t \in tickets
    /\ \E rows \in ByNumber({c \in comments : c.ticket = t}) : Read(include, rows)
    /\ UNCHANGED <<tickets, comments, edits, requests, faults, said>>

\* create and update read their row back by its id, and enrich it without its edits.
\* Bound: an answer is followed while more requests may come.
AnswerWithRow(r) ==
    /\ view.pc = "none" /\ began < MaxRequests
    /\ Answer(r)
    /\ \E c \in comments :
          /\ c.id = r.id
          /\ Read(FALSE, <<c>>)

CommentResponse(c, edit_count, history) ==
    [comment |-> c, edit_count |-> edit_count, edits |-> history]

\* GROUP BY comment_id: a comment without edits has no group.
CountEdits ==
    /\ view.pc = "counts"
    /\ LET counted == {view.rows[i].id : i \in DOMAIN view.rows} \cap {e.comment_id : e \in edits}
       IN view' = [view EXCEPT !.pc = "edits",
                               !.counts = {<<id, Cardinality(EditsOf(id))>> : id \in counted}]
    /\ UNCHANGED <<vars, heard, gone>>

\* unwrap_or(0): the count of a comment that is in no group.
CountOf(id) == IF \E n \in view.counts : n[1] = id
                 THEN (CHOOSE n \in view.counts : n[1] = id)[2] ELSE 0

\* Mutant: each edit replaces the one before it in the map of the comment's edits.
History_KeepsLast(id) ==
    ByTime({e \in EditsOf(id) : \A d \in EditsOf(id) : d.edited_at <= e.edited_at})

History(id) == ByTime(EditsOf(id))

Responses(c) ==
    {CommentResponse(c, CountOf(c.id), history) :
        history \in IF view.include_edits THEN History(c.id) ELSE {<< >>}}

\* One response for each row, in the order of the rows.
ReadEdits ==
    /\ view.pc = "edits"
    /\ \E items \in [DOMAIN view.rows -> UNION {Responses(view.rows[i]) : i \in DOMAIN view.rows}] :
          /\ \A i \in DOMAIN view.rows : items[i] \in Responses(view.rows[i])
          /\ view' = [view EXCEPT !.pc = "shown", !.rows = << >>, !.counts = {}, !.items = items]
    /\ UNCHANGED <<vars, heard, gone>>

\* A statement of the reader fails: 500, and nothing is shown.
ReadFails ==
    /\ view.pc \in {"counts", "edits"}
    /\ faults < MaxFaults
    /\ faults' = faults + 1
    /\ view' = NoView /\ heard' = {} /\ gone' = {}
    /\ UNCHANGED <<tickets, comments, edits, requests, began, said>>

\* A request goes on beside the reader, which a crash ends as well. Bound: a behaviour is
\* followed until the reader has its answer.
Meanwhile ==
    /\ view.pc # "shown"
    /\ (Arrive \/ \E r \in requests : Proceed(r) \/ StatementFails(r))
    /\ gone' = gone \cup ({c.created_at : c \in comments} \ {c.created_at : c \in comments'})
    /\ UNCHANGED <<view, heard>>

CrashWithView == Crash /\ view' = NoView /\ heard' = {} /\ gone' = {}

ViewsNext ==
    \/ Meanwhile \/ CrashWithView \/ CountEdits \/ ReadEdits \/ ReadFails
    \/ \E t \in Tickets, include \in BOOLEAN : ListComments(t, include)
    \/ \E r \in requests : AnswerWithRow(r)

ViewsSpec == ViewsInit /\ [][ViewsNext]_viewVars

-----------------------------------------------------------------------------
(* Correctness.                                                            *)

BodiesHeard(c) == {x[2] : x \in {y \in heard : y[1] = c.created_at}}
BodiesSaid(c) == {x[2] : x \in {y \in said : y[1] = c.created_at}}
OldBodies(item) == {item.edits[i].old_body : i \in DOMAIN item.edits}

\* A listing with its edits shows of each comment every body it had when the rows were
\* read, as the body or among its edits, and no body that was not this comment's; the
\* count is not below the edits there were, nor above the edits shown. A comment deleted
\* while the listing was being read is exempt: its edits are gone.
ViewsLoseNothing ==
    view.pc = "shown" => \A i \in DOMAIN view.items :
       LET item == view.items[i]
           c == item.comment
       IN c.created_at \notin gone =>
          /\ item.edit_count >= Cardinality(BodiesHeard(c)) - 1
          /\ view.include_edits =>
                /\ BodiesHeard(c) \subseteq OldBodies(item) \cup {c.body}
                /\ OldBodies(item) \subseteq BodiesSaid(c)
                /\ item.edit_count <= Len(item.edits)
=============================================================================
