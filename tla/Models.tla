------------------------------- MODULE Models -------------------------------
(***************************************************************************)
(* What the rows, request bodies and answers of several components have in *)
(* common (src/src/models, src/src/repos/mod.rs, src/src/api/error.rs).    *)
(*                                                                         *)
(* A body of a PATCH request is a function on the fields it names: a field *)
(* that is absent is left alone, a field that is NULL is cleared.          *)
(***************************************************************************)
EXTENDS Integers

CONSTANT NULL   \* NULL of a column, null of a body, None of an option

TicketType == {"bug", "feature"}
TicketStatus == {"new", "in_progress", "verify", "done"}
Priority == {"P0", "P1", "P2", "P3", "P4", "P5"}
MilestoneStatus == {"open", "closed"}

TicketFields == {"type", "title", "status", "priority", "owner", "component", "estimation"}
MilestoneFields == {"name", "description", "due_date", "status"}

\* The merge of every read-merge-write update.
Merge(row, body) == [f \in DOMAIN row |-> IF f \in DOMAIN body THEN body[f] ELSE row[f]]

\* An optional field of a body that creates a row.
Given(body, f, default) == IF f \in DOMAIN body THEN body[f] ELSE default

-----------------------------------------------------------------------------
(* Errors. A violated UNIQUE or PRIMARY KEY constraint is a Conflict; a    *)
(* violated foreign key is a Database error, like any other.               *)

RepoError == {"NotFound", "Conflict", "Database"}

FromSqlite(violated) == IF violated \in {"UNIQUE", "PRIMARY KEY"} THEN "Conflict" ELSE "Database"

AppError ==
    {"NotFound", "Forbidden", "Conflict", "Validation", "ValidationMsg", "BadRequest",
     "PayloadTooLarge", "Unauthorized", "Internal"}

\* AppError::into_response.
HttpStatus ==
    [e \in AppError |->
        CASE e = "BadRequest" -> 400 [] e = "Unauthorized" -> 401 [] e = "Forbidden" -> 403
          [] e = "NotFound" -> 404 [] e = "Conflict" -> 409 [] e = "PayloadTooLarge" -> 413
          [] e \in {"Validation", "ValidationMsg"} -> 422 [] e = "Internal" -> 500]
=============================================================================
