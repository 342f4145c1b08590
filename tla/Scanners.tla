------------------------------ MODULE Scanners ------------------------------
(***************************************************************************)
(* What a comment's text names: tickets and comments                       *)
(* (src/src/references.rs), and users (src/src/mentions.rs).               *)
(*                                                                         *)
(* A text is a sequence of characters, which stand for their classes; the  *)
(* literals "comment#" and "/comment#" are one character, and "big" is a   *)
(* number too long for an i64.                                             *)
(***************************************************************************)
EXTENDS Models, SequencesExt

Separators == {" ", "(", ",", ";", "!", "?", "["}
Upper == {"A", "B"}
LowerLetters == {"a", "b"}
DigitValue == [d \in {"0", "1", "2", "big"} |-> CASE d = "1" -> 1 [] d = "2" -> 2 [] OTHER -> 0]
Digits == DOMAIN DigitValue
LowerOf == [c \in Upper |-> IF c = "A" THEN "a" ELSE "b"]

\* The regex crate's captures_iter, of a pattern that starts at the start of the text or
\* after a separator, which is part of the match. match[p] is what the pattern matches
\* at p, [found, end], or NULL.
Scan(text, match) ==
    LET from[i \in 1 .. Len(text) + 1] ==
            LET p == IF i = 1 /\ match[1] # NULL THEN 1 ELSE i + 1
            IN IF i > Len(text) THEN <<>>
               ELSE IF p = i + 1 /\ (text[i] \notin Separators \/ p > Len(text) \/ match[p] = NULL)
                 THEN from[i + 1]
               ELSE <<match[p].found>> \o from[match[p].end]
    IN from[1]

\* The first position after p, or p, whose character is not in the class.
RunEnd(text, p, class) ==
    CHOOSE e \in p .. Len(text) + 1 :
       /\ \A i \in p .. e - 1 : text[i] \in class
       /\ e = Len(text) + 1 \/ text[e] \notin class

Is(text, p, class) == p \in DOMAIN text /\ text[p] \in class

\* NULL: a number that is zero or does not fit.
Number(digits) ==
    LET n == FoldLeft(LAMBDA total, d : 10 * total + DigitValue[d], 0, digits)
    IN IF n = 0 \/ "big" \in {digits[i] : i \in DOMAIN digits} THEN NULL ELSE n

Reference(prefix, ticket, comment) == [prefix |-> prefix, ticket |-> ticket, comment |-> comment]

\* The five alternatives, the longer first. found is NULL when a number is no id: the
\* match is skipped.
ReferenceAt(text, p) ==
    LET to == RunEnd(text, p + 1, Upper \cup Digits)
        named == Is(text, p + 1, Upper) /\ to > p + 2 /\ Is(text, to, {"-"})
        id == IF named THEN to + 1 ELSE p + 1
        prefix == IF named THEN SubSeq(text, p + 1, to - 1) ELSE NULL
        end == RunEnd(text, id, Digits)
        ticket == Number(SubSeq(text, id, end - 1))
        long == RunEnd(text, end + 1, Digits)
        comment == Number(SubSeq(text, end + 1, long - 1))
        short == RunEnd(text, p + 1, Digits)
        only == Number(SubSeq(text, p + 1, short - 1))
    IN IF text[p] = "#" /\ Is(text, id, Digits)
         THEN IF Is(text, end, {"/comment#"}) /\ Is(text, end + 1, Digits)
                THEN [end |-> long,
                      found |-> IF NULL \in {ticket, comment} THEN NULL
                                ELSE Reference(prefix, ticket, comment)]
                ELSE [end |-> end, found |-> IF ticket = NULL THEN NULL
                                             ELSE Reference(prefix, ticket, NULL)]
       ELSE IF text[p] = "comment#" /\ Is(text, p + 1, Digits)
         THEN [end |-> short, found |-> IF only = NULL THEN NULL ELSE Reference(NULL, NULL, only)]
       ELSE NULL

\* Each once, in the order they first appear.
Deduplicated(found) ==
    LET seen[i \in 0 .. Len(found)] ==
            IF i = 0 THEN <<>>
            ELSE LET before == seen[i - 1]
                 IN IF found[i] = NULL \/ Contains(before, found[i]) THEN before
                    ELSE Append(before, found[i])
    IN seen[Len(found)]

\* Mutant: a separator is consumed behind a match, too.
ParseReferences_EatsSeparator(text) ==
    LET from[i \in 1 .. Len(text) + 2] ==
            LET p == IF i = 1 /\ ReferenceAt(text, 1) # NULL THEN 1 ELSE i + 1
            IN IF i > Len(text) THEN <<>>
               ELSE IF p = i + 1 /\ (text[i] \notin Separators \/ p > Len(text) \/ ReferenceAt(text, p) = NULL)
                 THEN from[i + 1]
               ELSE <<ReferenceAt(text, p).found>> \o from[ReferenceAt(text, p).end + 1]
    IN Deduplicated(from[1])

ParseReferences(text) == Deduplicated(Scan(text, [p \in DOMAIN text |-> ReferenceAt(text, p)]))

LoginChars == Upper \cup LowerLetters \cup Digits

MentionAt(text, p) ==
    IF text[p] = "@" /\ Is(text, p + 1, LoginChars)
      THEN LET end == RunEnd(text, p + 1, LoginChars \cup {"-"})
               login == SubSeq(text, p + 1, end - 1)
           IN [end |-> end, found |-> [i \in DOMAIN login |->
                  IF login[i] \in Upper THEN LowerOf[login[i]] ELSE login[i]]]
      ELSE NULL

ParseMentions(text) == Deduplicated(Scan(text, [p \in DOMAIN text |-> MentionAt(text, p)]))
=============================================================================
