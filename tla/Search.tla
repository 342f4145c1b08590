------------------------------- MODULE Search -------------------------------
(***************************************************************************)
(* The search micro-syntax: from the text of a query to its clauses        *)
(* (src/src/search/parser.rs), and from the clauses to the rows that the   *)
(* SQL built of them selects (src/src/search/builder.rs).                  *)
(*                                                                         *)
(* A text is a sequence of lexemes: quotes, blanks, "-", ":", ",", the     *)
(* comparison operators, and words, which are never cut.                   *)
(***************************************************************************)
EXTENDS Models, Estimation, FiniteSets

CONSTANTS
    Days,           \* the words that are dates, [word -> the day's number]
    Durations,      \* the words that are estimations, [word -> its text]
    Lower,          \* the words in lower case, [word -> word]
    DayLength       \* the seconds of a day

ASSUME SearchAssumption == DayLength \in Nat \ {0} /\ Days \in [DOMAIN Days -> Int]

Keys == {"owner", "cc", "status", "priority", "type", "component", "milestone", "slug", "is",
         "created", "updated", "estimation", "has"}

Comparisons == {">", "<", ">=", "<="}

\* The keys whose value is compared with a column as it is.
PlainKeys == {"owner", "cc", "status", "priority", "type", "component", "milestone", "slug"}

-----------------------------------------------------------------------------
(* Parsing.                                                                *)

\* Blanks between quotes do not end a token.
Tokenize(text) ==
    LET Read(state, c) ==
            IF c = "\"" THEN [state EXCEPT !.current = Append(@, c), !.quoted = ~ @]
            ELSE IF c = " " /\ ~ state.quoted
              THEN [state EXCEPT !.tokens = IF state.current = <<>> THEN @ ELSE Append(@, state.current),
                                 !.current = <<>>]
              ELSE [state EXCEPT !.current = Append(@, c)]
        read[i \in 0 .. Len(text)] ==
            IF i = 0 THEN [tokens |-> <<>>, current |-> <<>>, quoted |-> FALSE]
            ELSE Read(read[i - 1], text[i])
        end == read[Len(text)]
    IN IF end.current = <<>> THEN end.tokens ELSE Append(end.tokens, end.current)

Quoted(s) == Len(s) >= 2 /\ Head(s) = "\"" /\ Last(s) = "\""
Unquoted(s) == SubSeq(s, 2, Len(s) - 1)

Condition(key, op, value) == [key |-> key, op |-> op, value |-> value]

\* NULL for a value that the key does not take.
TryParseFilter(key, raw) ==
    LET value == IF Quoted(raw) THEN Unquoted(raw) ELSE raw
        compares == value # <<>> /\ Head(value) \in Comparisons
        hours == IF compares /\ Len(value) = 2 /\ value[2] \in DOMAIN Durations
                   THEN ParseEstimation(Durations[value[2]]) ELSE Invalid
    IN IF key \in PlainKeys THEN Condition(key, "=", value)
       ELSE IF key = "is" /\ value \in {<<"open">>, <<"closed">>} THEN Condition(key, "=", value)
       ELSE IF key = "has" /\ value \in {<<"estimation">>, <<"milestone">>}
         THEN Condition(key, "=", value)
       ELSE IF key \in {"created", "updated"} /\ compares
         THEN Condition(key, Head(value), Tail(value))
       ELSE IF key = "estimation" /\ hours # Invalid THEN Condition(key, Head(value), hours)
       ELSE NULL

Filter(negated, condition) == [item |-> "filter", negated |-> negated, condition |-> condition]
TextTerm(negated, text, phrase) ==
    [item |-> "text", negated |-> negated, text |-> text, phrase |-> phrase]
OrMarker == [item |-> "or"]

\* key:value, split at the first colon; NULL when the token is no filter.
FilterOf(body) ==
    IF Len(body) < 3 \/ body[2] # ":" \/ body[1] \notin Keys THEN NULL
    ELSE TryParseFilter(body[1], SubSeq(body, 3, Len(body)))

ItemOf(token) ==
    LET negated == Head(token) = "-"
        body == IF negated THEN Tail(token) ELSE token
    IN IF token = <<"OR">> THEN OrMarker
       ELSE IF body = <<>> THEN TextTerm(FALSE, <<"-">>, FALSE)
       ELSE IF FilterOf(body) # NULL THEN Filter(negated, FilterOf(body))
       ELSE TextTerm(negated, IF Quoted(body) THEN Unquoted(body) ELSE body, Quoted(body))

IsA(items, i, kind) == i \in DOMAIN items /\ items[i].item = kind

\* Mutant: an OR between two filters is dropped, and both must hold.
BuildQuery_DropsOr(items) ==
    [clauses |-> [i \in DOMAIN SelectSeq(items, LAMBDA x : x.item = "filter") |->
                     <<SelectSeq(items, LAMBDA x : x.item = "filter")[i]>>],
     terms |-> SelectSeq(items, LAMBDA x : x.item = "text")]

\* A chain takes every "OR filter" that follows; an OR that joins nothing is text.
BuildQuery(items) ==
    LET chain[i \in DOMAIN items] ==
            <<items[i]>> \o IF IsA(items, i + 1, "or") /\ IsA(items, i + 2, "filter")
                              THEN chain[i + 2] ELSE <<>>
        from[i \in 1 .. Len(items) + 1] ==
            IF i > Len(items) THEN [clauses |-> <<>>, terms |-> <<>>]
            ELSE IF IsA(items, i, "filter")
              THEN LET rest == from[i + 2 * Len(chain[i]) - 1]
                   IN [rest EXCEPT !.clauses = <<chain[i]>> \o @]
              ELSE LET term == IF IsA(items, i, "or") THEN TextTerm(FALSE, <<"OR">>, FALSE)
                               ELSE items[i]
                   IN [from[i + 1] EXCEPT !.terms = <<term>> \o @]
    IN from[1]

Items(text) == LET tokens == Tokenize(text) IN [i \in DOMAIN tokens |-> ItemOf(tokens[i])]

Parse(text) == BuildQuery(Items(text))

HasTextSearch(query) == query.terms # <<>>

-----------------------------------------------------------------------------
(* Selecting. Dates are compared as texts: a date is written with a "Z",   *)
(* which is greater than the "." or "+" of a stored time, so the first     *)
(* second of a day comes before its own date.                              *)

\* Any other word is taken to begin with a letter, a text greater than every time.
CompareDate(second, op, value) ==
    LET before == \/ Len(value) # 1 \/ Head(value) \notin DOMAIN Days
                  \/ second <= Days[Head(value)] * DayLength
    IN before <=> op \in {"<", "<="}

CompareHours(hours, op, bound) ==
    CASE op = ">" -> hours > bound [] op = "<" -> hours < bound
      [] op = ">=" -> hours >= bound [] op = "<=" -> hours <= bound

\* LIKE '/value/%' on a path, which is case-insensitive; the words hold no wildcard.
UnderPath(path, value) ==
    LET names == SelectSeq(value, LAMBDA w : w # "/")
    IN Len(names) <= Len(path) /\ \A i \in DOMAIN names : Lower[names[i]] = Lower[path[i]]

\* TRUE, FALSE, or NULL, which only a comparison with a NULL column gives.
Truth(condition, ticket) ==
    LET value == condition.value IN
    CASE condition.key = "cc" -> value \in {<<u>> : u \in ticket.cc}
      [] condition.key = "milestone" -> value \in {<<m>> : m \in ticket.milestones}
      [] condition.key = "component" -> UnderPath(ticket.component, value)
      [] condition.key = "is" -> (ticket.status = "done") <=> (value = <<"closed">>)
      [] condition.key = "has" -> IF value = <<"milestone">> THEN ticket.milestones # {}
                                  ELSE ticket.estimation # NULL
      [] condition.key \in {"created", "updated"} ->
            CompareDate(ticket[condition.key], condition.op, value)
      [] condition.key = "estimation" ->
            IF ticket.estimation = NULL THEN NULL
            ELSE CompareHours(ticket.estimation, condition.op, value)
      [] OTHER -> value = <<ticket[condition.key]>>

Holds(filter, ticket) == Truth(filter.condition, ticket) = ~ filter.negated

\* Clauses are joined by AND, the filters of a clause by OR.
Selects(clauses, ticket) ==
    \A i \in DOMAIN clauses : \E j \in DOMAIN clauses[i] : Holds(clauses[i][j], ticket)

\* The slug filter is not supported by the builder.
Unsupported(query) ==
    \E i \in DOMAIN query.clauses : \E j \in DOMAIN query.clauses[i] :
       query.clauses[i][j].condition.key = "slug"

-----------------------------------------------------------------------------
(* Building the statement: its tables and filters, and what is bound to it.*)

\* What is matched, if anything, and what the statement is built of. The terms that are
\* bound to a MATCH are left out: no index row is there for them to tell apart.
BuiltQuery(matched, clauses, cursor, limit, offset) ==
    [matched |-> matched, clauses |-> clauses, cursor |-> cursor, limit |-> limit, offset |-> offset]

\* tickets_fts is joined under the alias fts, and it is the alias that is matched.
BuildFtsQuery(query, page_size, offset) ==
    BuiltQuery("fts", query.clauses, NULL, page_size, offset)

\* One row more than the page is fetched, to see whether there are more.
BuildCursorQuery(query, page_size, cursor) ==
    BuiltQuery(NULL, query.clauses, cursor, page_size + 1, 0)

\* NULL for an error.
BuildSearchQuery(query, page_size, offset, cursor) ==
    IF Unsupported(query) THEN NULL
    ELSE IF HasTextSearch(query) THEN BuildFtsQuery(query, page_size, offset)
    ELSE BuildCursorQuery(query, page_size, cursor)
=============================================================================
