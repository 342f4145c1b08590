------------------------------- MODULE Listing -------------------------------
(***************************************************************************)
(* Listing and searching tickets page by page, while they are written      *)
(* (list_tickets of src/src/api/ticket.rs, src/src/repos/cursor.rs,        *)
(* src/src/models/pagination.rs), and what a user types into a field: a    *)
(* query, a comment, an estimation.                                        *)
(*                                                                         *)
(* A query with free text is paged by offset, any other by a cursor, the   *)
(* updated_at and id of the last row. Times are counted in Parts of a      *)
(* millisecond, the first MicroParts of them in its first microsecond: a   *)
(* cursor keeps the millisecond, and a time in the first microsecond is    *)
(* written without the microseconds' digits, or with three zeros.          *)
(***************************************************************************)
EXTENDS Search, Scanners, FiniteSetsExt

CONSTANTS
    SearchInput,    \* what is typed at a time into the search field, texts of Search
    CommentInput,   \* and into a comment, texts of Scanners
    HoursInput,     \* and into an estimation, texts of Estimation
    MaxTyped,       \* bound: how often something is typed, per field
    Submitted,      \* bound: the queries that are sent
    Seed,           \* the rows of tickets at first, by id, the last updated last
    Parts,          \* parts of a millisecond
    MicroParts,     \* and of its first microsecond
    SecondLength,   \* bound: parts in a second, for the dates of queries
    PageSize,       \* page_size
    MaxNow,         \* bound: time
    MaxTickets,     \* bound: tickets
    MaxPages        \* bound: pages a client asks for

Input == [search |-> SearchInput, comment |-> CommentInput, hours |-> HoursInput]

IsSequence(s) == s \in Seq({s[i] : i \in DOMAIN s})

ASSUME ListingAssumption ==
    /\ Parts \in Nat \ {0} /\ SecondLength \in Nat \ {0} /\ PageSize \in Nat \ {0}
    /\ MicroParts \in 1 .. Parts
    /\ MaxTyped \in [DOMAIN Input -> Nat] /\ MaxNow \in Nat /\ MaxTickets \in Nat /\ MaxPages \in Nat
    /\ \A field \in DOMAIN Input : \A piece \in Input[field] : IsSequence(piece)
    /\ \A piece \in HoursInput : IsText(piece)
    /\ IsSequence(Seed) /\ Seed # <<>>
    /\ \A t \in DOMAIN Seed : /\ {"status", "updated_at"} \subseteq DOMAIN Seed[t]
                             /\ Seed[t].status \in TicketStatus
                             /\ Seed[t].updated_at \in 0 .. MaxNow

\* NULL is no cursor and no name of a table.
ASSUME NullAssumption == NULL \notin [ms : Nat, id : Nat] /\ NULL # "fts"

VARIABLES
    typed,          \* what has been typed: into which field, the text, how often
    tickets,        \* the rows of tickets, by id
    now,            \* time
    client,         \* the client that lists: its query, the cursor it got last
    pages,          \* history: the ids on each page it got
    touched,        \* history: tickets written since it asked for the first page
    crowded         \* history: tickets that shared a millisecond with another since then,
                    \* or were written in the first microsecond of one

history == <<touched, crowded>>
vars == <<typed, tickets, now, client, pages, history>>

Idle == [pc |-> "typing", query |-> NULL, cursor |-> NULL, code |-> 0]

Init ==
    /\ \E field \in DOMAIN Input : typed = [field |-> field, text |-> <<>>, count |-> 0]
    /\ tickets = Seed
    /\ now = Max({0} \cup {Seed[t].updated_at : t \in DOMAIN Seed})
    /\ client = Idle /\ pages = <<>> /\ touched = {} /\ crowded = {}

\* Typing comes first: it touches nothing that is shared.
Type(piece) ==
    /\ client = Idle /\ tickets = Seed
    /\ typed.count < MaxTyped[typed.field]
    /\ typed' = [typed EXCEPT !.text = @ \o piece, !.count = @ + 1]
    /\ UNCHANGED <<tickets, now, client, pages, history>>

-----------------------------------------------------------------------------
(* Writers, while the client is between two pages: what is written before *)
(* or after changes no page.                                               *)

Millisecond(t) == t \div Parts

InFirstMicrosecond(t) == t % Parts < MicroParts

Crowded(table) ==
    {id \in DOMAIN table :
        \/ InFirstMicrosecond(table[id].updated_at)
        \/ \E other \in DOMAIN table \ {id} :
              Millisecond(table[other].updated_at) = Millisecond(table[id].updated_at)}

\* The clock may stand still between two writes, and run on within a millisecond.
Later(t) == now <= t /\ t <= now + Parts /\ t <= MaxNow

CreateTicket(t) ==
    /\ client.pc = "more"
    /\ Len(tickets) < MaxTickets
    /\ Later(t)
    /\ now' = t
    /\ tickets' = Append(tickets, [Seed[1] EXCEPT !.status = "new", !.updated_at = t])
    /\ touched' = touched \cup {Len(tickets) + 1}
    /\ crowded' = crowded \cup Crowded(tickets')
    /\ UNCHANGED <<typed, client, pages>>

UpdateTicket(id, status, t) ==
    /\ client.pc = "more"
    /\ Later(t)
    /\ now' = t
    /\ tickets' = [tickets EXCEPT ![id].status = status, ![id].updated_at = t]
    /\ touched' = touched \cup {id}
    /\ crowded' = crowded \cup Crowded(tickets')
    /\ UNCHANGED <<typed, client, pages>>

-----------------------------------------------------------------------------
(* list_tickets.                                                           *)

EncodeCursor(id) == [ms |-> Millisecond(tickets[id].updated_at), id |-> id]

\* (updated_at, id) < (?, ?) compares texts. The cursor's is written with microseconds,
\* ".123000Z", the stored one with as many digits as it needs, ".123+00:00" or
\* ".123456789+00:00": within one millisecond only what begins with ".123+" or ".123000"
\* is less, its first microsecond, and since the texts are never equal, the id is never
\* compared.
BeyondCursor(cursor, id) ==
    \/ cursor = NULL
    \/ Millisecond(tickets[id].updated_at) < cursor.ms
    \/ /\ Millisecond(tickets[id].updated_at) = cursor.ms
       /\ InFirstMicrosecond(tickets[id].updated_at)

\* ORDER BY updated_at DESC, id DESC.
Precedes(a, b) ==
    \/ tickets[a].updated_at > tickets[b].updated_at
    \/ tickets[a].updated_at = tickets[b].updated_at /\ a > b

\* The columns a query sees.
Columns(id) ==
    [f \in {"updated"} \cup DOMAIN tickets[id] |->
        IF f = "updated" THEN tickets[id].updated_at \div SecondLength ELSE tickets[id][f]]

Selected(built) ==
    {id \in DOMAIN tickets : Selects(built.clauses, Columns(id)) /\ BeyondCursor(built.cursor, id)}

\* The place of a row is one more than the rows that precede it.
Rows(built) ==
    LET place(id) == 1 + Cardinality({other \in Selected(built) : Precedes(other, id)})
    IN [i \in 1 .. Cardinality(Selected(built)) |-> CHOOSE id \in Selected(built) : place(id) = i]

FirstOf(rows, limit) == SubSeq(rows, 1, IF Len(rows) > limit THEN limit ELSE Len(rows))

\* What a MATCH may name: a column of the index, or the index by the name of its table.
FtsColumns == {"title", "body", "rank", "tickets_fts"}

\* NULL when SQLite does not prepare the statement. The index is empty: nothing writes it.
ExecSearchQuery(built) ==
    IF built.matched = NULL THEN FirstOf(Rows(built), built.limit)
    ELSE IF built.matched \in FtsColumns THEN <<>> ELSE NULL

ExecCountQuery(built) == IF built.matched \in FtsColumns THEN 0 ELSE NULL

CursorPage(items, next) == [items |-> items, next_cursor |-> next]

\* Mutant: the cursor is taken of the row that only shows that there are more.
Page_CursorOfExtra(rows) ==
    IF Len(rows) > PageSize
      THEN CursorPage(FirstOf(rows, PageSize), EncodeCursor(rows[PageSize + 1]))
      ELSE CursorPage(rows, NULL)

\* Mutant: the extra row is not taken off.
Page_KeepsExtra(rows) ==
    IF Len(rows) > PageSize THEN CursorPage(rows, EncodeCursor(rows[PageSize]))
    ELSE CursorPage(rows, NULL)

\* The extra row is taken off, and the last that is left is the cursor.
Page(rows) ==
    IF Len(rows) > PageSize
      THEN CursorPage(FirstOf(rows, PageSize), EncodeCursor(rows[PageSize]))
      ELSE CursorPage(rows, NULL)

\* An answer without a page, or, by text, with the only page of an empty index.
Ends(query, code) == client' = [Idle EXCEPT !.pc = "end", !.query = query, !.code = code]

ListByText(query, number) ==
    LET built == BuildSearchQuery(query, PageSize, (number - 1) * PageSize, NULL)
    IN /\ Ends(query, IF built = NULL THEN HttpStatus["Validation"]
                      ELSE IF NULL \in {ExecSearchQuery(built), ExecCountQuery(built)}
                        THEN HttpStatus["Internal"] ELSE 200)
       /\ UNCHANGED pages

\* The statement, or those that add the slugs to its rows, may fail.
ListByCursor(query, cursor) ==
    LET built == BuildSearchQuery(query, PageSize, NULL, cursor)
        page == Page(ExecSearchQuery(built))
    IN \/ built = NULL /\ Ends(query, HttpStatus["Validation"]) /\ UNCHANGED pages
       \/ built # NULL /\ Ends(query, HttpStatus["Internal"]) /\ UNCHANGED pages
       \/ /\ built # NULL
          /\ pages' = Append(pages, page.items)
          /\ client' = [pc |-> IF page.next_cursor = NULL THEN "end" ELSE "more", query |-> query,
                        cursor |-> page.next_cursor, code |-> 200]

\* The first page: a cursor that does not decode is refused, unless text makes the
\* handler ignore it. Text makes it ask for a page by its number.
ListTickets(cursorDecodes, number) ==
    /\ client = Idle
    /\ typed.field = "search" /\ typed.text \in Submitted
    /\ LET query == Parse(typed.text)
       IN \/ HasTextSearch(query) /\ ListByText(query, number)
          \/ /\ ~ HasTextSearch(query) /\ ~ cursorDecodes
             /\ Ends(query, HttpStatus["Validation"]) /\ UNCHANGED pages
          \/ ~ HasTextSearch(query) /\ cursorDecodes /\ ListByCursor(query, NULL)
    /\ touched' = {} /\ crowded' = Crowded(tickets)
    /\ UNCHANGED <<typed, tickets, now>>

NextPage ==
    /\ client.pc = "more" /\ Len(pages) < MaxPages
    /\ ListByCursor(client.query, client.cursor)
    /\ UNCHANGED <<typed, tickets, now, history>>

Next ==
    \/ \E piece \in Input[typed.field] : Type(piece)
    \/ \E t \in 0 .. MaxNow : \/ CreateTicket(t)
                              \/ \E id \in DOMAIN tickets, status \in {"new", "done"} :
                                    UpdateTicket(id, status, t)
    \/ \E decodes \in BOOLEAN, number \in 1 .. 2 : ListTickets(decodes, number)
    \/ NextPage

Spec == Init /\ [][Next]_vars

-----------------------------------------------------------------------------
(* Correctness.                                                            *)

\* The variables have their types; a page has no more than PageSize rows, and all but
\* the last have as many.
TypeOK ==
    /\ typed.field \in DOMAIN Input /\ typed.count \in 0 .. MaxTyped[typed.field]
    /\ now \in 0 .. MaxNow
    /\ \A t \in DOMAIN tickets : /\ tickets[t].status \in TicketStatus
                                 /\ tickets[t].updated_at \in 0 .. now
    /\ client.pc \in {"typing", "more", "end"} /\ client.code \in {0, 200, 422, 500}
    /\ \A p \in DOMAIN pages : /\ Len(pages[p]) <= PageSize
                               /\ p < Len(pages) => Len(pages[p]) = PageSize
    /\ touched \subseteq DOMAIN tickets

\* Where a ticket is on the pages.
Places(id) == {at \in (DOMAIN pages) \X (1 .. PageSize) :
                  at[2] <= Len(pages[at[1]]) /\ pages[at[1]][at[2]] = id}

Occurrences(id) == Cardinality(Places(id))

Listed == client.pc = "end" /\ client.code = 200

\* A client that has read all pages has seen every ticket that its query selects, and
\* that nobody wrote meanwhile, once, whatever was written around it, provided no other
\* ticket shared its millisecond and it was not last written in the first microsecond of
\* one: what the cursor's format and its comparison as text skip and repeat.
ListedOnce ==
    Listed => \A id \in DOMAIN tickets \ (touched \cup crowded) :
                 Occurrences(id) = IF Selects(client.query.clauses, Columns(id)) THEN 1 ELSE 0

Filters(items) ==
    FlattenSeq([i \in DOMAIN items |-> IF items[i].item = "filter" THEN <<items[i]>> ELSE <<>>])

\* Every token of a query has its effect, and in its place.
NothingLost ==
    typed.field = "search" =>
       LET items == Items(typed.text)
           query == Parse(typed.text)
           joins == {i \in DOMAIN items : /\ IsA(items, i, "or") /\ IsA(items, i - 1, "filter")
                                          /\ IsA(items, i + 1, "filter")}
       IN /\ FlattenSeq(query.clauses) = Filters(items)
          /\ Len(query.clauses) = Len(Filters(items)) - Cardinality(joins)
          /\ Len(query.terms) = Len(items) - Len(Filters(items)) - Cardinality(joins)
          /\ \A j \in joins : \E c \in DOMAIN query.clauses :
                \E k \in DOMAIN query.clauses[c] :
                   query.clauses[c][k] = items[j - 1] /\ k + 1 \in DOMAIN query.clauses[c]
                   /\ query.clauses[c][k + 1] = items[j + 1]

\* A ticket is in exactly one of the days, from created:>=day to created:<next.
DaysTile ==
    \A id \in DOMAIN tickets : \A word \in DOMAIN Days :
       LET Compares(op, w) == Holds(Filter(FALSE, Condition("updated", op, <<w>>)), Columns(id))
       IN /\ Compares(">=", word) <=> ~ Compares("<", word)
          /\ \A next \in DOMAIN Days :
                Days[next] = Days[word] + 1 =>
                   (Compares(">=", word) /\ Compares("<", next)
                      <=> (tickets[id].updated_at \div SecondLength - 1) \div DayLength = Days[word])

\* A query selects what it says: the filters are the clauses' filters, those joined by OR,
\* and no others, share a clause, and what is no filter is text, an OR without a filter on
\* both sides, too (build_query); and the days of a query tile time, whatever is compared
\* with a text that ends in "Z" (build_condition).
SearchFaithful == NothingLost /\ DaysTile

WordStarts(text) == {p \in DOMAIN text : p = 1 \/ text[p - 1] \in Separators}

\* What is matched where words start.
Begun(text, match) == {match[p].found : p \in {q \in WordStarts(text) : match[q] # NULL}} \ {NULL}

\* A comment names what its words begin with.
FoundAtWords ==
    typed.field = "comment" =>
       LET text == typed.text
           references == ParseReferences(text)
           mentions == ParseMentions(text)
       IN /\ {references[i] : i \in DOMAIN references} =
                Begun(text, [p \in DOMAIN text |-> ReferenceAt(text, p)])
          /\ {mentions[i] : i \in DOMAIN mentions} =
                Begun(text, [p \in DOMAIN text |-> MentionAt(text, p)])
          /\ IsInjective(references) /\ IsInjective(mentions)

\* What an accepted estimation is displayed as is accepted again, and means the same.
DisplayMeansTheSame ==
    typed.field = "hours" =>
       LET hours == ParseEstimation(typed.text)
       IN hours # Invalid => ParseEstimation(FormatEstimation(hours)) = 10 * Round(hours)

\* What is typed is read back as it was meant: every word of a comment that begins like a
\* reference or a mention is found, and nothing else is, and each once (captures_iter
\* consumes the separator before a match, and none behind it); and an estimation's display
\* is the estimation, rounded to hours, up to a rounded 8h, which is a day.
TextReadBack == FoundAtWords /\ DisplayMeansTheSame

\* ticket.rs, list_tickets: "Use the same format sqlx uses for DateTime<Utc> in SQLite to
\* ensure correct lexicographic comparison." (It is another one, of a truncated time.)
ListedExactlyOnce ==
    Listed => \A id \in DOMAIN tickets \ touched :
                 Occurrences(id) = IF Selects(client.query.clauses, Columns(id)) THEN 1 ELSE 0

\* search.md: "Free-text search across ticket titles and all comment bodies, returning
\* tickets (not individual comments)." (No text search is ever answered.)
TextSearchAnswered ==
    client.pc = "end" /\ HasTextSearch(client.query) => client.code # 500
=============================================================================
