------------------------------- MODULE Sqlite -------------------------------
(***************************************************************************)
(* What every component relies on of SQLite. The tables of this schema are *)
(* declared "id INTEGER PRIMARY KEY", without AUTOINCREMENT.               *)
(***************************************************************************)
EXTENDS Naturals

\* The rowid of a new row is one more than the largest in the table: the id of a deleted
\* last row is given out again.
IsNextRowid(rows, id) ==
    IF rows = {} THEN id = 1
    ELSE /\ \A r \in rows : r.id < id
         /\ \E r \in rows : id = r.id + 1

UniqueIds(rows) == \A r, q \in rows : r.id = q.id => r = q
=============================================================================
