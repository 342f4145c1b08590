---------------------------- MODULE ListingProofs ----------------------------
(***************************************************************************)
(* Theorems about Listing, for any rows at first, queries, clocks and page *)
(* sizes: its types, and that a list read to its end page by page shows    *)
(* each ticket nobody wrote meanwhile once; and, for whatever is typed, of *)
(* any length, that a query says what it says, that a comment names what   *)
(* its words begin with, and that an estimation's display means the same.  *)
(***************************************************************************)
EXTENDS Listing, FiniteSetTheorems, SequenceTheorems, WellFoundedInduction, TLAPS

-----------------------------------------------------------------------------
(* The invariants.                                                         *)

TicketRow(row, until) ==
    /\ {"status", "updated_at"} \subseteq DOMAIN row
    /\ row.status \in TicketStatus /\ row.updated_at \in 0 .. until

TypesInv ==
    /\ typed = [field |-> typed.field, text |-> typed.text, count |-> typed.count]
    /\ typed.field \in DOMAIN Input /\ typed.count \in 0 .. MaxTyped[typed.field]
    /\ now \in 0 .. MaxNow
    /\ tickets \in Seq({tickets[t] : t \in DOMAIN tickets})
    /\ \A t \in DOMAIN tickets : TicketRow(tickets[t], now)
    /\ client.pc \in {"typing", "more", "end"} /\ client.code \in {0, 200, 422, 500}
    /\ client.pc = "typing" => client = Idle /\ pages = <<>>
    /\ client.pc = "more" => client.cursor \in [ms : Nat, id : Nat]
    /\ pages \in Seq(Seq(Nat))
    /\ \A p \in DOMAIN pages : /\ Len(pages[p]) <= PageSize
                               /\ p < Len(pages) \/ client.pc = "more" => Len(pages[p]) = PageSize
    /\ touched \subseteq DOMAIN tickets

\* Pieces put together are a sequence, and an estimation's parts have numbers.
TypedInv ==
    /\ typed.field \in DOMAIN Input /\ IsSequence(typed.text)
    /\ typed.field = "hours" => IsText(typed.text)

\* A ticket is on the pages once if it is due, and not at all otherwise.
Shown(id, due) == IF due THEN \E at \in Places(id) : Places(id) = {at} ELSE Places(id) = {}

Calm == DOMAIN tickets \ (touched \cup crowded)

Due(id) == Selects(client.query.clauses, Columns(id))

\* What is not beyond the cursor has been shown, and nothing that is beyond it.
PagesInv ==
    /\ client.pc = "more" =>
          /\ ~ HasTextSearch(client.query)
          /\ Crowded(tickets) \subseteq crowded
          /\ \A id \in Calm : Shown(id, Due(id) /\ ~ BeyondCursor(client.cursor, id))
    /\ Listed => \A id \in Calm : Shown(id, Due(id))

-----------------------------------------------------------------------------
(* Numbers.                                                                *)

LEMMA LeastOf == ASSUME NEW S \in SUBSET Nat, S # {} PROVE \E n \in S : \A m \in S : n <= m
<1> DEFINE R == {ss \in Nat \X Nat : ss[1] < ss[2]}
<1>1. IsWellFoundedOn(R, Nat)
  BY NatLessThanWellFounded DEF OpToRel
<1>2. \A x, y \in Nat : <<y, x>> \in R <=> y < x
  OBVIOUS
<1> HIDE DEF R
<1>3. PICK x \in S : \A y \in S : ~ (<<y, x>> \in R)
  BY <1>1, WFMin
<1>4. ASSUME NEW y \in S PROVE x <= y
  <2>1. x \in Nat /\ y \in Nat
    OBVIOUS
  <2>2. ~ (<<y, x>> \in R)
    BY <1>3
  <2> QED
    BY <1>2, <2>1, <2>2
<1> QED
  BY <1>4

\* Induction over the numbers that are in a set.
LEMMA CountingUp ==
    ASSUME NEW S \in SUBSET Nat, 0 \in S, \A n \in S : n + 1 \in S
    PROVE  S = Nat
<1> SUFFICES ASSUME S # Nat PROVE FALSE
  OBVIOUS
<1>1. Nat \ S # {}
  OBVIOUS
<1>2. PICK n \in Nat \ S : \A m \in Nat \ S : n <= m
  BY <1>1, LeastOf
<1>3. n # 0 /\ n - 1 \in Nat /\ n - 1 \in S
  BY <1>2
<1>4. (n - 1) + 1 \in S
  BY <1>3
<1> QED
  BY <1>2, <1>4

\* f starts from base, and each value is the step from the one before.
Stepwise(f, n, S, base, step) ==
    /\ f \in [0 .. n -> S] /\ f[0] = base
    /\ \A i \in 1 .. n : f[i] = step[<<i, f[i - 1]>>]

\* What is defined step by step over the numbers up to n exists.
LEMMA StepByStep ==
    ASSUME NEW n, NEW S, NEW base, NEW step,
           n \in Nat, base \in S, step \in [(1 .. n) \X S -> S]
    PROVE  \E f : Stepwise(f, n, S, base, step)
<1> DEFINE Steps(f, m) == /\ f \in [0 .. m -> S] /\ f[0] = base
                          /\ \A i \in 1 .. m : f[i] = step[<<i, f[i - 1]>>]
           P == {m \in Nat : m <= n => \E f : Steps(f, m)}
<1>1. 0 \in P
  <2> PICK f : f = [i \in 0 .. 0 |-> base]
    OBVIOUS
  <2>1. Steps(f, 0)
    OBVIOUS
  <2> QED
    BY <2>1
<1>2. ASSUME NEW m \in P PROVE m + 1 \in P
  <2>0. m \in Nat /\ m + 1 \in Nat
    OBVIOUS
  <2> SUFFICES ASSUME m + 1 <= n PROVE \E f : Steps(f, m + 1)
    BY <2>0
  <2> PICK g : Steps(g, m)
    BY <2>0
  <2> PICK e : e = step[<<m + 1, g[m]>>]
    OBVIOUS
  <2>1. e \in S /\ g[m] \in S
    <3>1. m \in 0 .. m /\ m + 1 \in 1 .. n
      BY <2>0
    <3>2. g[m] \in S
      BY <3>1
    <3>3. <<m + 1, g[m]>> \in (1 .. n) \X S
      BY <3>1, <3>2
    <3> QED
      BY <3>2, <3>3
  <2>9. m \in 0 .. m /\ 0 \in 0 .. m
    BY <2>0
  <2> PICK f : f = [i \in 0 .. m + 1 |-> IF i = m + 1 THEN e ELSE g[i]]
    OBVIOUS
  <2>2. f \in [0 .. m + 1 -> S] /\ f[0] = base /\ f[m + 1] = e /\ \A i \in 0 .. m : f[i] = g[i]
    <3>1. \A i \in 0 .. m : i \in 0 .. m + 1 /\ i # m + 1 /\ g[i] \in S
      BY <2>0
    <3>2. m + 1 \in 0 .. m + 1 /\ 0 \in 0 .. m + 1
      BY <2>0
    <3>3. f \in [0 .. m + 1 -> S]
      <4> SUFFICES ASSUME NEW i \in 0 .. m + 1 PROVE f[i] \in S
        OBVIOUS
      <4>1. i = m + 1 \/ i \in 0 .. m
        BY <2>0
      <4> QED
        BY <2>1, <3>1, <4>1
    <3>4. f[m + 1] = e /\ \A i \in 0 .. m : f[i] = g[i]
      BY <3>1, <3>2
    <3> QED
      BY <2>9, <3>3, <3>4
  <2>3. ASSUME NEW i \in 1 .. m + 1 PROVE f[i] = step[<<i, f[i - 1]>>]
    <3>1. CASE i = m + 1
      <4>1. i - 1 = m
        BY <2>0, <3>1
      <4> QED
        BY <2>2, <2>9, <3>1, <4>1
    <3>2. CASE i # m + 1
      <4>1. i \in 1 .. m /\ i - 1 \in 0 .. m /\ i \in 0 .. m
        BY <2>0, <3>2
      <4>2. f[i] = g[i] /\ f[i - 1] = g[i - 1] /\ g[i] = step[<<i, g[i - 1]>>]
        BY <2>2, <4>1
      <4> QED
        BY <4>2
    <3> QED
      BY <3>1, <3>2
  <2>4. Steps(f, m + 1)
    BY <2>2, <2>3
  <2> HIDE DEF Steps
  <2> QED
    BY <2>4
<1>3. P = Nat
  <2> HIDE DEF P
  <2>1. P \in SUBSET Nat
    BY DEF P
  <2> QED
    BY <1>1, <1>2, <2>1, CountingUp
<1>4. \E f : Steps(f, n)
  BY <1>3
<1> QED
  BY <1>4 DEF Stepwise

LEMMA UpTo ==
    ASSUME NEW n \in Nat, NEW T, 0 \in T, \A i \in 1 .. n : i - 1 \in T => i \in T
    PROVE  0 .. n \subseteq T
<1> DEFINE S == {m \in Nat : m <= n => m \in T}
<1>1. 0 \in S
  OBVIOUS
<1>2. ASSUME NEW m \in S PROVE m + 1 \in S
  <2> SUFFICES ASSUME m + 1 <= n PROVE m + 1 \in T
    OBVIOUS
  <2>1. m \in T /\ m + 1 \in 1 .. n /\ (m + 1) - 1 = m
    OBVIOUS
  <2> QED
    BY <2>1
<1>3. S = Nat
  <2>1. S \in SUBSET Nat
    OBVIOUS
  <2> HIDE DEF S
  <2> QED
    BY <1>1, <1>2, <2>1, CountingUp
<1> QED
  BY <1>3

LEMMA DownFrom ==
    ASSUME NEW n \in Nat, NEW T, n + 1 \in T,
           \A i \in 1 .. n : (\A j \in i + 1 .. n + 1 : j \in T) => i \in T
    PROVE  1 .. n + 1 \subseteq T
<1> SUFFICES ASSUME NEW x \in 1 .. n + 1, x \notin T PROVE FALSE
  OBVIOUS
<1> DEFINE missing == {m \in Nat : m <= n /\ n + 1 - m \notin T}
<1>1. n + 1 - x \in missing
  OBVIOUS
<1>2. PICK m \in missing : \A k \in missing : m <= k
  <2>1. missing \in SUBSET Nat /\ missing # {}
    BY <1>1
  <2> HIDE DEF missing
  <2> QED
    BY <2>1, LeastOf
<1>3. m # 0 /\ n + 1 - m \in 1 .. n /\ n + 1 - m \notin T
  OBVIOUS
<1>4. ASSUME NEW j \in (n + 1 - m) + 1 .. n + 1 PROVE j \in T
  <2>1. n + 1 - j \in Nat /\ n + 1 - j < m /\ n + 1 - j <= n /\ n + 1 - (n + 1 - j) = j
    BY <1>3
  <2>2. n + 1 - j \notin missing
    BY <1>2, <2>1
  <2> QED
    BY <2>1, <2>2
<1> QED
  BY <1>3, <1>4

\* f starts from base at the end, and each value is the step from a later one.
Backwards(f, n, S, base, later, step) ==
    /\ f \in [1 .. n + 1 -> S] /\ f[n + 1] = base
    /\ \A i \in 1 .. n : f[i] = step[<<i, f[later[i]]>>]

\* What is defined by one later place exists, whichever place that is.
LEMMA StepByStepBack ==
    ASSUME NEW n, NEW S, NEW base, NEW later, NEW step, n \in Nat, base \in S,
           later \in [1 .. n -> 1 .. n + 1], step \in [(1 .. n) \X S -> S],
           \A i \in 1 .. n : later[i] > i
    PROVE  \E f : Backwards(f, n, S, base, later, step)
<1> DEFINE Steps(f, m) == /\ f \in [m .. n + 1 -> S] /\ f[n + 1] = base
                          /\ \A i \in m .. n : f[i] = step[<<i, f[later[i]]>>]
           T == {m \in 1 .. n + 1 : \E f : Steps(f, m)}
<1>1. n + 1 \in T
  <2> PICK f : f = [i \in n + 1 .. n + 1 |-> base]
    OBVIOUS
  <2>1. Steps(f, n + 1)
    OBVIOUS
  <2> QED
    BY <2>1
<1>2. ASSUME NEW m \in 1 .. n, \A j \in m + 1 .. n + 1 : j \in T PROVE m \in T
  <2>1. m + 1 \in T
    <3>1. m + 1 \in m + 1 .. n + 1
      OBVIOUS
    <3> HIDE DEF T
    <3> QED
      BY <1>2, <3>1
  <2> PICK g : Steps(g, m + 1)
    BY <2>1
  <2>2. later[m] \in m + 1 .. n + 1 /\ g[later[m]] \in S
    OBVIOUS
  <2> PICK e : e = step[<<m, g[later[m]]>>]
    OBVIOUS
  <2>3. e \in S
    <3>1. <<m, g[later[m]]>> \in (1 .. n) \X S
      BY <2>2
    <3> QED
      BY <3>1
  <2> PICK f : f = [i \in m .. n + 1 |-> IF i = m THEN e ELSE g[i]]
    OBVIOUS
  <2>4. f \in [m .. n + 1 -> S] /\ f[m] = e /\ \A i \in m + 1 .. n + 1 : f[i] = g[i]
    BY <2>3
  <2>5. f[n + 1] = base
    BY <2>4
  <2>6. ASSUME NEW i \in m .. n PROVE f[i] = step[<<i, f[later[i]]>>]
    <3>1. later[i] \in m + 1 .. n + 1
      OBVIOUS
    <3>2. f[later[i]] = g[later[i]]
      BY <2>4, <3>1
    <3>3. CASE i = m
      BY <2>4, <3>2, <3>3
    <3>4. CASE i # m
      BY <2>4, <3>2, <3>4
    <3> QED
      BY <3>3, <3>4
  <2>7. Steps(f, m)
    BY <2>4, <2>5, <2>6
  <2> HIDE DEF Steps
  <2> QED
    BY <2>7
<1>3. 1 .. n + 1 \subseteq T
  <2> HIDE DEF T
  <2> QED
    BY <1>1, <1>2, DownFrom
<1>4. 1 \in T
  <2>1. 1 \in 1 .. n + 1
    OBVIOUS
  <2> HIDE DEF T
  <2> QED
    BY <1>3, <2>1
<1> QED
  BY <1>4 DEF Backwards

-----------------------------------------------------------------------------
(* Rows in their order.                                                    *)

LEMMA OrderTotal ==
    ASSUME TypesInv, NEW a \in DOMAIN tickets, NEW b \in DOMAIN tickets, NEW c \in DOMAIN tickets
    PROVE  /\ ~ Precedes(a, a)
           /\ a # b => Precedes(a, b) \/ Precedes(b, a)
           /\ Precedes(a, b) /\ Precedes(b, c) => Precedes(a, c)
<1>1. DOMAIN tickets \subseteq Nat
  BY LenProperties DEF TypesInv
<1>2. now \in Nat
  BY ListingAssumption DEF TypesInv
<1>3. \A t \in DOMAIN tickets : t \in Nat /\ tickets[t].updated_at \in Nat
  BY <1>1, <1>2 DEF TypesInv, TicketRow
<1>4. /\ a \in Nat /\ tickets[a].updated_at \in Nat
      /\ b \in Nat /\ tickets[b].updated_at \in Nat
      /\ c \in Nat /\ tickets[c].updated_at \in Nat
  BY <1>3
<1> QED
  BY <1>4 DEF Precedes

Ahead(S, id) == {other \in S : Precedes(other, id)}

LEMMA PlacesDiffer ==
    ASSUME TypesInv, NEW S, S \subseteq DOMAIN tickets, IsFiniteSet(S),
           NEW a \in S, NEW b \in S, Precedes(a, b)
    PROVE  /\ Cardinality(Ahead(S, a)) \in Nat /\ Cardinality(Ahead(S, b)) \in Nat
           /\ Cardinality(Ahead(S, a)) < Cardinality(Ahead(S, b))
<1>1. a \in DOMAIN tickets /\ b \in DOMAIN tickets
  OBVIOUS
<1>2. Ahead(S, b) \in SUBSET S
  BY DEF Ahead
<1>3. Ahead(S, a) \in SUBSET Ahead(S, b)
  <2> SUFFICES ASSUME NEW x \in S, Precedes(x, a) PROVE Precedes(x, b)
    BY DEF Ahead
  <2>1. x \in DOMAIN tickets
    OBVIOUS
  <2> QED
    BY <1>1, <2>1, OrderTotal
<1>4. a \in Ahead(S, b) /\ a \notin Ahead(S, a)
  BY <1>1, OrderTotal DEF Ahead
<1>5. IsFiniteSet(Ahead(S, b))
  BY <1>2, FS_Subset
<1>6. IsFiniteSet(Ahead(S, a)) /\ Cardinality(Ahead(S, a)) <= Cardinality(Ahead(S, b))
      /\ (Cardinality(Ahead(S, b)) = Cardinality(Ahead(S, a)) => Ahead(S, b) = Ahead(S, a))
  BY <1>3, <1>5, FS_Subset
<1>7. Cardinality(Ahead(S, a)) \in Nat /\ Cardinality(Ahead(S, b)) \in Nat
  BY <1>5, <1>6, FS_CardinalityType
<1> QED
  BY <1>4, <1>6, <1>7

\* Every place from the first to the last is some row's.
LEMMA EveryPlaceTaken ==
    ASSUME TypesInv, NEW S, S \subseteq DOMAIN tickets, IsFiniteSet(S)
    PROVE  /\ Cardinality(S) \in Nat
           /\ \A id \in S : 1 + Cardinality(Ahead(S, id)) \in 1 .. Cardinality(S)
           /\ \A i \in 1 .. Cardinality(S) : \E id \in S : 1 + Cardinality(Ahead(S, id)) = i
<1> DEFINE n == Cardinality(S)
           place == [id \in S |-> 1 + Cardinality(Ahead(S, id))]
<1>1. n \in Nat
  BY FS_CardinalityType
<1>2. ASSUME NEW id \in S PROVE 1 + Cardinality(Ahead(S, id)) \in 1 .. n
  <2>1. Ahead(S, id) \in SUBSET (S \ {id})
    <3>1. ~ Precedes(id, id)
      BY OrderTotal
    <3> QED
      BY <3>1 DEF Ahead
  <2>2. IsFiniteSet(S \ {id}) /\ Cardinality(S \ {id}) = n - 1
    BY FS_RemoveElement
  <2>3. IsFiniteSet(Ahead(S, id)) /\ Cardinality(Ahead(S, id)) <= n - 1
    BY <2>1, <2>2, FS_Subset
  <2>4. Cardinality(Ahead(S, id)) \in Nat
    BY <2>3, FS_CardinalityType
  <2> QED
    BY <1>1, <2>3, <2>4
<1>3. place \in [S -> 1 .. n]
  BY <1>2
<1>4. ASSUME NEW a \in S, NEW b \in S, place[a] = place[b] PROVE a = b
  <2> SUFFICES ASSUME a # b PROVE FALSE
    OBVIOUS
  <2>1. Precedes(a, b) \/ Precedes(b, a)
    BY OrderTotal
  <2>2. CASE Precedes(a, b)
    BY <1>4, <2>2, PlacesDiffer
  <2>3. CASE Precedes(b, a)
    BY <1>4, <2>3, PlacesDiffer
  <2> QED
    BY <2>1, <2>2, <2>3
<1>5. place \in Injection(S, 1 .. n)
  BY <1>3, <1>4 DEF Injection, IsInjective
<1>6. IsFiniteSet(1 .. n) /\ Cardinality(1 .. n) = n
  BY <1>1, FS_Interval
<1>7. place \in Surjection(S, 1 .. n)
  BY <1>5, <1>6, FS_Injection
<1>8. \A i \in 1 .. n : \E id \in S : place[id] = i
  BY <1>7 DEF Surjection
<1> QED
  BY <1>1, <1>2, <1>8

LEMMA RowsInOrder ==
    ASSUME TypesInv, NEW built
    PROVE  /\ Rows(built) \in Seq(DOMAIN tickets)
           /\ {Rows(built)[i] : i \in DOMAIN Rows(built)} = Selected(built)
           /\ \A i, j \in DOMAIN Rows(built) : i < j => Precedes(Rows(built)[i], Rows(built)[j])
<1> DEFINE S == Selected(built)
           n == Cardinality(S)
           place(id) == 1 + Cardinality(Ahead(S, id))
           row(i) == CHOOSE id \in S : place(id) = i
<1>1. Rows(built) = [i \in 1 .. n |-> row(i)]
  BY DEF Rows, Ahead
<1>2. S \subseteq DOMAIN tickets
  BY DEF Selected
<1>3. IsFiniteSet(DOMAIN tickets)
  <2>1. Len(tickets) \in Nat /\ DOMAIN tickets = 1 .. Len(tickets)
    BY LenProperties DEF TypesInv
  <2> QED
    BY <2>1, FS_Interval
<1>4. IsFiniteSet(S)
  BY <1>2, <1>3, FS_Subset
<1> HIDE DEF S
<1>5. n \in Nat
  BY <1>2, <1>4, EveryPlaceTaken
<1>6. \A i \in 1 .. n : \E id \in S : place(id) = i
  BY <1>2, <1>4, EveryPlaceTaken
<1>7. \A i \in 1 .. n : row(i) \in S /\ place(row(i)) = i
  BY <1>6
<1>8. ASSUME NEW id \in S PROVE place(id) \in 1 .. n /\ row(place(id)) = id
  <2>1. place(id) \in 1 .. n
    BY <1>2, <1>4, EveryPlaceTaken
  <2>2. row(place(id)) \in S /\ place(row(place(id))) = place(id)
    BY <1>7, <2>1
  <2>3. \A x \in S : place(x) = place(id) => x = id
    <3> SUFFICES ASSUME NEW x \in S, place(x) = place(id), x # id PROVE FALSE
      OBVIOUS
    <3>1. Precedes(x, id) \/ Precedes(id, x)
      BY <1>2, OrderTotal
    <3>2. CASE Precedes(x, id)
      BY <1>2, <1>4, <3>2, PlacesDiffer
    <3>3. CASE Precedes(id, x)
      BY <1>2, <1>4, <3>3, PlacesDiffer
    <3> QED
      BY <3>1, <3>2, <3>3
  <2> QED
    BY <2>1, <2>2, <2>3
<1> HIDE DEF row, place
<1>9. Rows(built) \in Seq(DOMAIN tickets)
  BY <1>1, <1>2, <1>5, <1>7
<1>10. {Rows(built)[i] : i \in DOMAIN Rows(built)} = S
  BY <1>1, <1>7, <1>8
<1>11. ASSUME NEW i \in 1 .. n, NEW j \in 1 .. n, i < j PROVE Precedes(row(i), row(j))
  <2>1. row(i) \in S /\ row(j) \in S /\ place(row(i)) = i /\ place(row(j)) = j
    BY <1>7
  <2>2. row(i) # row(j)
    BY <1>11, <2>1
  <2>3. Precedes(row(i), row(j)) \/ Precedes(row(j), row(i))
    BY <1>2, <2>1, <2>2, OrderTotal
  <2>4. ASSUME Precedes(row(j), row(i)) PROVE FALSE
    <3>1. place(row(j)) < place(row(i))
      BY <1>2, <1>4, <2>1, <2>4, PlacesDiffer DEF place
    <3> QED
      BY <1>11, <2>1, <3>1
  <2> QED
    BY <2>3, <2>4
<1> QED
  BY <1>1, <1>5, <1>9, <1>10, <1>11 DEF S

-----------------------------------------------------------------------------
(* Times.                                                                  *)

LEMMA Milliseconds ==
    ASSUME NEW t \in Nat, NEW u \in Nat
    PROVE  /\ Millisecond(t) \in Nat
           /\ t <= u => Millisecond(t) <= Millisecond(u)
<1>1. Parts \in Nat \ {0}
  BY ListingAssumption
<1>2. t \div Parts \in Nat
  BY <1>1
<1>3. t <= u => t \div Parts <= u \div Parts
  BY <1>1
<1> QED
  BY <1>2, <1>3 DEF Millisecond

-----------------------------------------------------------------------------
(* A page.                                                                 *)

\* A page of the chosen rows: it ends the list with all of them, or it ends with the row
\* its cursor names, and the rows that are left come after that.
Filled(items, next, chosen) ==
    /\ items \in Seq(DOMAIN tickets) /\ Len(items) <= PageSize
    /\ \A i, j \in DOMAIN items : items[i] = items[j] => i = j
    /\ \A i \in DOMAIN items : items[i] \in chosen
    /\ \/ /\ next = NULL
          /\ \A id \in chosen : \E i \in DOMAIN items : items[i] = id
       \/ /\ Len(items) = PageSize /\ next = EncodeCursor(items[PageSize])
          /\ \A i \in DOMAIN items : i = PageSize \/ Precedes(items[i], items[PageSize])
          /\ \A id \in chosen :
                (\E i \in DOMAIN items : items[i] = id) \/ Precedes(items[PageSize], id)

PageOf(page, chosen) == Filled(page.items, page.next_cursor, chosen)

LEMMA PageOfRows ==
    ASSUME TypesInv, NEW query, NEW cursor
    PROVE  LET built == BuildCursorQuery(query, PageSize, cursor)
           IN PageOf(Page(ExecSearchQuery(built)), Selected(built))
<1> DEFINE built == BuildCursorQuery(query, PageSize, cursor)
           rows == Rows(built)
           fetched == FirstOf(rows, PageSize + 1)
           page == Page(fetched)
           chosen == Selected(built)
<1>1. PageSize \in Nat \ {0}
  BY ListingAssumption
<1>2. ExecSearchQuery(built) = fetched
  BY DEF ExecSearchQuery, BuildCursorQuery, BuiltQuery
<1>3. /\ rows \in Seq(DOMAIN tickets)
      /\ {rows[i] : i \in DOMAIN rows} = chosen
      /\ \A i, j \in DOMAIN rows : i < j => Precedes(rows[i], rows[j])
  BY RowsInOrder
<1> HIDE DEF rows, chosen
<1>4. Len(rows) \in Nat /\ DOMAIN rows = 1 .. Len(rows) /\ \A i \in DOMAIN rows : rows[i] \in DOMAIN tickets
  BY <1>3, LenProperties, ElementOfSeq
<1>5. \A i, j \in DOMAIN rows : rows[i] = rows[j] => i = j
  <2> SUFFICES ASSUME NEW i \in DOMAIN rows, NEW j \in DOMAIN rows, rows[i] = rows[j], i # j PROVE FALSE
    OBVIOUS
  <2>1. i < j \/ j < i
    BY <1>4
  <2>2. Precedes(rows[i], rows[i])
    BY <1>3, <2>1
  <2> QED
    BY <1>4, <2>2, OrderTotal
<1>6. CASE Len(rows) <= PageSize
  <2>1. fetched = rows
    <3>1. fetched = SubSeq(rows, 1, Len(rows))
      BY <1>1, <1>4, <1>6 DEF FirstOf
    <3> QED
      BY <1>3, <1>4, <3>1, SubSeqFull
  <2>2. page = CursorPage(rows, NULL)
    BY <1>1, <1>4, <1>6, <2>1 DEF Page
  <2>3. page.items = rows /\ page.next_cursor = NULL
    BY <2>2 DEF CursorPage
  <2>4. \A id \in chosen : \E i \in DOMAIN rows : rows[i] = id
    BY <1>3
  <2> HIDE DEF page
  <2> QED
    BY <1>2, <1>3, <1>4, <1>5, <1>6, <2>3, <2>4 DEF PageOf, Filled, page, chosen
<1>7. CASE ~ (Len(rows) <= PageSize)
  <2> DEFINE items == SubSeq(rows, 1, PageSize)
  <2>1. /\ fetched \in Seq(DOMAIN tickets) /\ Len(fetched) = PageSize + 1
        /\ \A i \in 1 .. PageSize + 1 : fetched[i] = rows[i]
    BY <1>1, <1>3, <1>4, <1>7 DEF FirstOf
  <2>2. /\ items \in Seq(DOMAIN tickets) /\ Len(items) = PageSize
        /\ \A i \in 1 .. PageSize : items[i] = rows[i]
    BY <1>1, <1>3, <1>4, <1>7
  <2>3. SubSeq(fetched, 1, PageSize) \in Seq(DOMAIN tickets)
        /\ Len(SubSeq(fetched, 1, PageSize)) = PageSize
        /\ \A i \in 1 .. PageSize : SubSeq(fetched, 1, PageSize)[i] = rows[i]
    BY <1>1, <2>1
  <2>4. SubSeq(fetched, 1, PageSize) = items
    BY <1>1, <2>2, <2>3, SeqEqual
  <2> HIDE DEF items, fetched
  <2>5. page = CursorPage(items, EncodeCursor(items[PageSize]))
    <3>1. FirstOf(fetched, PageSize) = items /\ fetched[PageSize] = items[PageSize]
      BY <1>1, <2>1, <2>2, <2>4 DEF FirstOf
    <3> QED
      BY <1>1, <2>1, <3>1 DEF Page
  <2>6. DOMAIN items = 1 .. PageSize
    BY <2>2
  <2>7. \A i \in DOMAIN items : i = PageSize \/ Precedes(items[i], items[PageSize])
    BY <1>1, <1>3, <1>4, <1>7, <2>2, <2>6
  <2>8. ASSUME NEW id \in chosen
        PROVE  (\E i \in DOMAIN items : items[i] = id) \/ Precedes(items[PageSize], id)
    <3>1. PICK k \in DOMAIN rows : rows[k] = id
      BY <1>3
    <3>2. CASE k <= PageSize
      BY <1>4, <2>2, <2>6, <3>1, <3>2
    <3>3. CASE ~ (k <= PageSize)
      BY <1>1, <1>3, <1>4, <1>7, <2>2, <3>1, <3>3
    <3> QED
      BY <3>2, <3>3
  <2>9. \A i \in DOMAIN items : items[i] \in chosen /\ \A j \in DOMAIN items : items[i] = items[j] => i = j
    <3>1. \A i \in DOMAIN items : i \in DOMAIN rows /\ items[i] = rows[i]
      BY <1>1, <1>4, <1>7, <2>2, <2>6
    <3> QED
      BY <1>3, <1>5, <3>1
  <2>10. page.items = items /\ page.next_cursor = EncodeCursor(items[PageSize])
    BY <2>5 DEF CursorPage
  <2> HIDE DEF page
  <2>11. Len(items) <= PageSize
    BY <1>1, <2>2
  <2>12. Filled(items, EncodeCursor(items[PageSize]), chosen)
    BY <2>2, <2>7, <2>8, <2>9, <2>11 DEF Filled
  <2> QED
    BY <1>2, <2>10, <2>12 DEF PageOf, page, chosen
<1> QED
  BY <1>6, <1>7

-----------------------------------------------------------------------------
(* What a further page adds to the places of a ticket.                     *)

LEMMA PlacesGrow ==
    ASSUME TypesInv, NEW items, items \in Seq(DOMAIN tickets), Len(items) <= PageSize,
           pages' = Append(pages, items), NEW id
    PROVE  Places(id)' = Places(id) \cup
                            {<<Len(pages) + 1, i>> : i \in {k \in DOMAIN items : items[k] = id}}
<1>1. PageSize \in Nat
  BY ListingAssumption
<1>2. /\ Len(pages) \in Nat /\ DOMAIN pages = 1 .. Len(pages)
      /\ \A p \in DOMAIN pages : pages'[p] = pages[p]
      /\ DOMAIN pages' = 1 .. Len(pages) + 1 /\ pages'[Len(pages) + 1] = items
  BY DEF TypesInv
<1>3. Len(items) \in Nat /\ DOMAIN items = 1 .. Len(items)
  BY LenProperties
<1> DEFINE new == Len(pages) + 1
           On(p, i) == i <= Len(pages'[p]) /\ pages'[p][i] = id
<1>4. Places(id)' = {at \in (1 .. new) \X (1 .. PageSize) : On(at[1], at[2])}
  BY <1>2 DEF Places
<1>5. ASSUME NEW at \in Places(id)' PROVE at \in Places(id) \/ \E i \in DOMAIN items : items[i] = id /\ at = <<new, i>>
  <2>1. PICK p \in 1 .. new, i \in 1 .. PageSize : at = <<p, i>> /\ On(p, i)
    BY <1>4
  <2>2. CASE p = new
    BY <1>2, <1>3, <2>1, <2>2
  <2>3. CASE p # new
    <3>1. p \in DOMAIN pages /\ pages'[p] = pages[p]
      BY <1>2, <2>1, <2>3
    <3> QED
      BY <2>1, <3>1 DEF Places
  <2> QED
    BY <2>2, <2>3
<1>6. ASSUME NEW at \in Places(id) PROVE at \in Places(id)'
  <2>1. PICK p \in DOMAIN pages, i \in 1 .. PageSize :
           at = <<p, i>> /\ i <= Len(pages[p]) /\ pages[p][i] = id
    BY DEF Places
  <2>2. p \in 1 .. new /\ On(p, i)
    BY <1>2, <2>1
  <2> QED
    BY <1>4, <2>1, <2>2
<1>7. ASSUME NEW i \in DOMAIN items, items[i] = id PROVE <<new, i>> \in Places(id)'
  <2>1. new \in 1 .. new /\ i \in 1 .. PageSize /\ On(new, i)
    BY <1>1, <1>2, <1>3, <1>7
  <2> QED
    BY <1>4, <2>1
<1> QED
  BY <1>5, <1>6, <1>7

\* A ticket that was on no page is on the new one once, or still on none; any other stays
\* where it was if the new page is without it.
LEMMA ShownOnce ==
    ASSUME TypesInv, NEW items, items \in Seq(DOMAIN tickets), Len(items) <= PageSize,
           \A i, j \in DOMAIN items : items[i] = items[j] => i = j,
           pages' = Append(pages, items), NEW id
    PROVE  /\ (\A i \in DOMAIN items : items[i] # id) => Places(id)' = Places(id)
           /\ (\E i \in DOMAIN items : items[i] = id) /\ Places(id) = {} =>
                 \E at \in Places(id)' : Places(id)' = {at}
<1>1. Places(id)' = Places(id) \cup
                       {<<Len(pages) + 1, i>> : i \in {k \in DOMAIN items : items[k] = id}}
  BY PlacesGrow
<1>2. ASSUME NEW i \in DOMAIN items, items[i] = id, Places(id) = {}
      PROVE  \E at \in Places(id)' : Places(id)' = {at}
  <2>1. {k \in DOMAIN items : items[k] = id} = {i}
    BY <1>2
  <2>2. Places(id)' = {<<Len(pages) + 1, i>>}
    BY <1>1, <1>2, <2>1
  <2> QED
    BY <2>2
<1>3. ASSUME \A i \in DOMAIN items : items[i] # id PROVE Places(id)' = Places(id)
  <2>1. {k \in DOMAIN items : items[k] = id} = {}
    BY <1>3
  <2> QED
    BY <1>1, <2>1
<1> QED
  BY <1>2, <1>3

-----------------------------------------------------------------------------
(* Types.                                                                  *)

LEMMA InitTypes == Init => TypesInv
<1> SUFFICES ASSUME Init PROVE TypesInv
  OBVIOUS
<1> DEFINE times == {0} \cup {Seed[t].updated_at : t \in DOMAIN Seed}
<1>1. times \subseteq 0 .. MaxNow /\ MaxNow \in Nat
  BY ListingAssumption
<1>2. \E latest \in times : \A t \in times : latest >= t
  <2> DEFINE bounds == {n \in Nat : \A t \in times : t <= n}
  <2>1. MaxNow \in bounds
    BY <1>1
  <2>2. PICK n \in bounds : \A m \in bounds : n <= m
    BY <2>1, LeastOf
  <2>3. n \in times
    <3> SUFFICES ASSUME n \notin times PROVE FALSE
      OBVIOUS
    <3>1. n # 0 /\ n \in Nat
      OBVIOUS
    <3>2. \A t \in times : t <= n - 1
      BY <1>1, <3>1
    <3>3. n - 1 \in bounds
      BY <3>1, <3>2
    <3> QED
      BY <2>2, <3>1, <3>3
  <2> QED
    BY <1>1, <2>3
<1>3. now \in times /\ \A t \in times : now >= t
  BY <1>2 DEF Init, Max
<1>4. now \in 0 .. MaxNow
  BY <1>1, <1>3
<1>5. \A t \in DOMAIN tickets : TicketRow(tickets[t], now)
  BY <1>1, <1>3, <1>4, ListingAssumption DEF Init, TicketRow
<1>6. tickets \in Seq({tickets[t] : t \in DOMAIN tickets})
  BY ListingAssumption DEF Init, IsSequence
<1>7. PICK field \in DOMAIN Input : typed = [field |-> field, text |-> <<>>, count |-> 0]
  BY DEF Init
<1>8. /\ typed = [field |-> typed.field, text |-> typed.text, count |-> typed.count]
      /\ typed.field \in DOMAIN Input /\ typed.count \in 0 .. MaxTyped[typed.field]
  BY <1>7, ListingAssumption
<1>9. client = Idle /\ pages = <<>> /\ touched = {}
  BY DEF Init
<1> QED
  BY <1>4, <1>5, <1>6, <1>8, <1>9 DEF TypesInv, Idle

LEMMA TypingKeepsTypes == ASSUME TypesInv, NEW piece, Type(piece) PROVE TypesInv'
<1>1. /\ typed'.field = typed.field /\ typed'.count = typed.count + 1
      /\ typed' = [field |-> typed'.field, text |-> typed'.text, count |-> typed'.count]
  BY DEF Type, TypesInv
<1>2. typed'.count \in 0 .. MaxTyped[typed'.field]
  <2>1. MaxTyped[typed.field] \in Nat
    BY ListingAssumption DEF TypesInv
  <2>2. typed.count \in 0 .. MaxTyped[typed.field] /\ typed.count < MaxTyped[typed.field]
    BY DEF Type, TypesInv
  <2> QED
    BY <1>1, <2>1, <2>2
<1> QED
  BY <1>1, <1>2 DEF Type, TypesInv, history

LEMMA RowsLater ==
    ASSUME NEW row, NEW until \in Nat, NEW later \in Nat, until <= later, TicketRow(row, until)
    PROVE  TicketRow(row, later)
BY DEF TicketRow

LEMMA TableTypes ==
    ASSUME TypesInv
    PROVE  /\ Len(tickets) \in Nat /\ DOMAIN tickets = 1 .. Len(tickets) /\ now \in Nat
           /\ DOMAIN tickets \subseteq Nat
           /\ \A id \in DOMAIN tickets : tickets[id].updated_at \in Nat
<1>1. Len(tickets) \in Nat /\ DOMAIN tickets = 1 .. Len(tickets)
  BY LenProperties DEF TypesInv
<1>2. now \in Nat
  BY ListingAssumption DEF TypesInv
<1> QED
  BY <1>1, <1>2 DEF TypesInv, TicketRow

LEMMA CreateKeepsTypes == ASSUME TypesInv, NEW t \in 0 .. MaxNow, CreateTicket(t) PROVE TypesInv'
<1> DEFINE row == [Seed[1] EXCEPT !.status = "new", !.updated_at = t]
<1>1. Len(tickets) \in Nat /\ DOMAIN tickets = 1 .. Len(tickets) /\ now \in Nat
  BY TableTypes
<1>2. t \in Nat /\ now <= t /\ now' = t /\ now' \in 0 .. MaxNow
  BY ListingAssumption DEF CreateTicket, Later
<1>3. tickets' = Append(tickets, row)
  BY DEF CreateTicket
<1>4. /\ DOMAIN tickets' = 1 .. Len(tickets) + 1 /\ tickets'[Len(tickets) + 1] = row
      /\ \A k \in DOMAIN tickets : tickets'[k] = tickets[k]
  BY <1>1, <1>3 DEF TypesInv
<1>5. TicketRow(row, t)
  <2>1. Seed[1] \in {Seed[k] : k \in DOMAIN Seed} /\ {"status", "updated_at"} \subseteq DOMAIN Seed[1]
    <3>1. 1 \in DOMAIN Seed
      BY ListingAssumption, EmptySeq, LenProperties
    <3> QED
      BY <3>1, ListingAssumption
  <2> QED
    BY <1>2, <2>1 DEF TicketRow, TicketStatus
<1> HIDE DEF row
<1>6. ASSUME NEW k \in DOMAIN tickets' PROVE TicketRow(tickets'[k], now')
  <2>1. CASE k = Len(tickets) + 1
    BY <1>2, <1>4, <1>5, <2>1
  <2>2. CASE k # Len(tickets) + 1
    <3>1. k \in DOMAIN tickets /\ TicketRow(tickets[k], now)
      BY <1>1, <1>4, <2>2 DEF TypesInv
    <3> QED
      BY <1>1, <1>2, <1>4, <3>1, RowsLater
  <2> QED
    BY <2>1, <2>2
<1>7. tickets' \in Seq({tickets'[k] : k \in DOMAIN tickets'})
  <2> DEFINE all == {tickets'[k] : k \in DOMAIN tickets'}
  <2>1. \A k \in DOMAIN tickets' : tickets'[k] \in all
    OBVIOUS
  <2>2. tickets' = [k \in 1 .. Len(tickets) + 1 |-> tickets'[k]]
    <3> DEFINE both == {tickets[k] : k \in DOMAIN tickets} \cup {row}
    <3>1. tickets \in Seq(both)
      <4>1. \A k \in 1 .. Len(tickets) : tickets[k] \in both
        BY <1>1
      <4>2. tickets = [k \in 1 .. Len(tickets) |-> tickets[k]]
        BY <1>1 DEF TypesInv
      <4> HIDE DEF both
      <4> QED
        BY <1>1, <4>1, <4>2, IsASeq
    <3>2. row \in both
      OBVIOUS
    <3> HIDE DEF both
    <3>3. tickets' \in Seq(both) /\ Len(tickets') = Len(tickets) + 1
      BY <1>3, <3>1, <3>2, AppendProperties
    <3> QED
      BY <3>3
  <2> HIDE DEF all
  <2>3. tickets' \in [1 .. Len(tickets) + 1 -> all]
    BY <1>4, <2>1, <2>2
  <2>4. tickets' \in Seq(all)
    BY <1>1, <2>3, IsASeq
  <2> QED
    BY <2>4 DEF all
<1>8. touched' \subseteq DOMAIN tickets'
  BY <1>1, <1>4 DEF CreateTicket, TypesInv
<1> QED
  BY <1>2, <1>6, <1>7, <1>8 DEF CreateTicket, TypesInv

LEMMA UpdateKeepsTypes ==
    ASSUME TypesInv, NEW t \in 0 .. MaxNow, NEW id \in DOMAIN tickets,
           NEW status \in {"new", "done"}, UpdateTicket(id, status, t)
    PROVE  TypesInv'
<1>1. Len(tickets) \in Nat /\ DOMAIN tickets = 1 .. Len(tickets) /\ now \in Nat
  BY TableTypes
<1>2. t \in Nat /\ now <= t /\ now' = t /\ now' \in 0 .. MaxNow
  BY ListingAssumption DEF UpdateTicket, Later
<1>3. tickets' = [tickets EXCEPT ![id].status = status, ![id].updated_at = t]
  BY DEF UpdateTicket
<1>4. DOMAIN tickets' = DOMAIN tickets /\ \A k \in DOMAIN tickets \ {id} : tickets'[k] = tickets[k]
  BY <1>3
<1>5. TicketRow(tickets'[id], t)
  BY <1>2, <1>3 DEF TypesInv, TicketRow, TicketStatus
<1>6. ASSUME NEW k \in DOMAIN tickets' PROVE TicketRow(tickets'[k], now')
  <2>1. CASE k = id
    BY <1>2, <1>5, <2>1
  <2>2. CASE k # id
    <3>1. k \in DOMAIN tickets /\ TicketRow(tickets[k], now) /\ tickets'[k] = tickets[k]
      BY <1>4, <2>2 DEF TypesInv
    <3> QED
      BY <1>1, <1>2, <3>1, RowsLater
  <2> QED
    BY <2>1, <2>2
<1>7. tickets' \in Seq({tickets'[k] : k \in DOMAIN tickets'})
  <2> DEFINE all == {tickets'[k] : k \in DOMAIN tickets'}
  <2>1. \A k \in DOMAIN tickets' : tickets'[k] \in all
    OBVIOUS
  <2>2. tickets' = [k \in 1 .. Len(tickets) |-> tickets'[k]]
    BY <1>1, <1>3
  <2> HIDE DEF all
  <2>3. tickets' \in [1 .. Len(tickets) -> all]
    BY <1>1, <1>4, <2>1, <2>2
  <2>4. tickets' \in Seq(all)
    BY <1>1, <2>3, IsASeq
  <2> QED
    BY <2>4 DEF all
<1>8. touched' \subseteq DOMAIN tickets'
  BY <1>4 DEF UpdateTicket, TypesInv
<1> QED
  BY <1>2, <1>6, <1>7, <1>8 DEF UpdateTicket, TypesInv

LEMMA TextIsRefused ==
    ASSUME NEW query, NEW number, HasTextSearch(query), ListByText(query, number)
    PROVE  client'.pc = "end" /\ client'.code \in {422, 500} /\ UNCHANGED pages
<1> DEFINE built == BuildSearchQuery(query, PageSize, (number - 1) * PageSize, NULL)
<1>1. HttpStatus["Validation"] = 422 /\ HttpStatus["Internal"] = 500
  BY DEF HttpStatus, AppError
<1>2. CASE built = NULL
  BY <1>1, <1>2 DEF ListByText, Ends, Idle
<1>3. CASE built # NULL
  <2>1. built.matched = "fts"
    BY <1>3 DEF BuildSearchQuery, BuildFtsQuery, BuiltQuery
  <2>2. ExecSearchQuery(built) = NULL
    BY <2>1, NullAssumption DEF ExecSearchQuery, FtsColumns
  <2> QED
    BY <1>1, <1>3, <2>2 DEF ListByText, Ends, Idle
<1> QED
  BY <1>2, <1>3

LEMMA CursorPages ==
    ASSUME TypesInv, NEW query, NEW cursor, ~ HasTextSearch(query), ListByCursor(query, cursor)
    PROVE  \/ \E code \in {422, 500} :
                 /\ client' = [Idle EXCEPT !.pc = "end", !.query = query, !.code = code]
                 /\ UNCHANGED pages
           \/ \E items, next :
                 /\ Filled(items, next, Selected(BuildCursorQuery(query, PageSize, cursor)))
                 /\ pages' = Append(pages, items)
                 /\ client' = [pc |-> IF next = NULL THEN "end" ELSE "more", query |-> query,
                               cursor |-> next, code |-> 200]
<1> DEFINE built == BuildSearchQuery(query, PageSize, NULL, cursor)
           page == Page(ExecSearchQuery(built))
<1>1. HttpStatus["Validation"] = 422 /\ HttpStatus["Internal"] = 500
  BY DEF HttpStatus, AppError
<1>2. ASSUME NEW code \in {422, 500}, Ends(query, code), UNCHANGED pages
      PROVE  /\ client' = [Idle EXCEPT !.pc = "end", !.query = query, !.code = code]
             /\ UNCHANGED pages
  BY <1>2 DEF Ends
<1>3. CASE /\ built # NULL
           /\ pages' = Append(pages, page.items)
           /\ client' = [pc |-> IF page.next_cursor = NULL THEN "end" ELSE "more", query |-> query,
                         cursor |-> page.next_cursor, code |-> 200]
  <2>1. built = BuildCursorQuery(query, PageSize, cursor)
    BY <1>3 DEF BuildSearchQuery
  <2>2. PageOf(page, Selected(built))
    BY <2>1, PageOfRows
  <2> HIDE DEF page, built
  <2>3. Filled(page.items, page.next_cursor, Selected(BuildCursorQuery(query, PageSize, cursor)))
    BY <2>1, <2>2 DEF PageOf
  <2> QED
    BY <1>3, <2>3
<1>4. CASE Ends(query, HttpStatus["Validation"]) /\ UNCHANGED pages
  BY <1>1, <1>2, <1>4
<1>5. CASE Ends(query, HttpStatus["Internal"]) /\ UNCHANGED pages
  BY <1>1, <1>2, <1>5
<1> QED
  BY <1>3, <1>4, <1>5 DEF ListByCursor

\* The types that a page changes.
LEMMA PageKeepsTypes ==
    ASSUME TypesInv, NEW query, NEW cursor, ~ HasTextSearch(query), ListByCursor(query, cursor),
           pages = <<>> \/ client.pc = "more", touched' \subseteq DOMAIN tickets,
           UNCHANGED <<typed, tickets, now>>
    PROVE  TypesInv'
<1>1. CASE \E code \in {422, 500} :
              /\ client' = [Idle EXCEPT !.pc = "end", !.query = query, !.code = code]
              /\ UNCHANGED pages
  <2>1. client'.pc = "end" /\ client'.code \in {422, 500}
    BY <1>1 DEF Idle
  <2> QED
    BY <1>1, <2>1 DEF TypesInv
<1>2. ASSUME NEW items, NEW next,
             Filled(items, next, Selected(BuildCursorQuery(query, PageSize, cursor))),
             pages' = Append(pages, items),
             client' = [pc |-> IF next = NULL THEN "end" ELSE "more", query |-> query,
                        cursor |-> next, code |-> 200]
      PROVE  TypesInv'
  <2>1. PageSize \in Nat \ {0}
    BY ListingAssumption
  <2>2. items \in Seq(Nat) /\ Len(items) <= PageSize /\ items \in Seq(DOMAIN tickets)
    <3>1. items \in Seq(DOMAIN tickets) /\ Len(items) <= PageSize
      BY <1>2 DEF Filled
    <3> QED
      BY <3>1, TableTypes
  <2>3. /\ Len(pages) \in Nat /\ DOMAIN pages = 1 .. Len(pages) /\ Len(pages') = Len(pages) + 1
        /\ pages' \in Seq(Seq(Nat)) /\ DOMAIN pages' = 1 .. Len(pages) + 1
        /\ pages'[Len(pages) + 1] = items /\ \A p \in DOMAIN pages : pages'[p] = pages[p]
    BY <1>2, <2>2 DEF TypesInv
  <2>4. \A p \in DOMAIN pages : Len(pages[p]) = PageSize
    BY <2>3 DEF TypesInv
  <2>5. next # NULL => Len(items) = PageSize /\ next \in [ms : Nat, id : Nat]
    <3> SUFFICES ASSUME next # NULL
                 PROVE  Len(items) = PageSize /\ next \in [ms : Nat, id : Nat]
      OBVIOUS
    <3>1. Len(items) = PageSize /\ next = EncodeCursor(items[PageSize])
      BY <1>2 DEF Filled
    <3>2. items[PageSize] \in DOMAIN tickets
      BY <2>1, <2>2, <3>1
    <3>3. tickets[items[PageSize]].updated_at \in Nat /\ items[PageSize] \in Nat
      BY <3>2, TableTypes
    <3>4. Millisecond(tickets[items[PageSize]].updated_at) \in Nat
      BY <3>3, Milliseconds
    <3> QED
      BY <3>1, <3>3, <3>4 DEF EncodeCursor
  <2>6. \A p \in DOMAIN pages' : /\ Len(pages'[p]) <= PageSize
                                 /\ p < Len(pages') \/ client'.pc = "more" => Len(pages'[p]) = PageSize
    <3> SUFFICES ASSUME NEW p \in DOMAIN pages'
                 PROVE  /\ Len(pages'[p]) <= PageSize
                        /\ p < Len(pages') \/ client'.pc = "more" => Len(pages'[p]) = PageSize
      OBVIOUS
    <3>1. CASE p \in DOMAIN pages
      BY <2>1, <2>3, <2>4, <3>1
    <3>2. CASE p = Len(pages) + 1
      BY <1>2, <2>2, <2>3, <2>5, <3>2
    <3> QED
      BY <2>3, <3>1, <3>2
  <2>7. /\ client'.pc \in {"more", "end"} /\ client'.code = 200
        /\ client'.pc = "more" => client'.cursor \in [ms : Nat, id : Nat]
    BY <1>2, <2>5
  <2> QED
    BY <2>3, <2>6, <2>7 DEF TypesInv
<1> QED
  BY <1>1, <1>2, CursorPages

LEMMA ListKeepsTypes ==
    ASSUME TypesInv, NEW decodes, NEW number, ListTickets(decodes, number)
    PROVE  TypesInv'
<1> DEFINE query == Parse(typed.text)
<1>1. client = Idle /\ pages = <<>> /\ touched' = {} /\ UNCHANGED <<typed, tickets, now>>
  BY DEF ListTickets, TypesInv, Idle
<1> HIDE DEF query
<1>2. CASE HasTextSearch(query) /\ ListByText(query, number)
  <2>1. client'.pc = "end" /\ client'.code \in {422, 500} /\ UNCHANGED pages
    BY <1>2, TextIsRefused
  <2> QED
    BY <1>1, <2>1 DEF TypesInv
<1>3. CASE Ends(query, HttpStatus["Validation"]) /\ UNCHANGED pages
  <2>1. client'.pc = "end" /\ client'.code = 422
    BY <1>3 DEF Ends, Idle, HttpStatus, AppError
  <2> QED
    BY <1>1, <1>3, <2>1 DEF TypesInv
<1>4. CASE ~ HasTextSearch(query) /\ ListByCursor(query, NULL)
  BY <1>1, <1>4, PageKeepsTypes
<1> QED
  BY <1>2, <1>3, <1>4 DEF ListTickets, query

LEMMA NextPageKeepsTypes == ASSUME TypesInv, PagesInv, NextPage PROVE TypesInv'
BY PageKeepsTypes DEF NextPage, PagesInv, TypesInv, history

-----------------------------------------------------------------------------
(* Every ticket once.                                                      *)

LEMMA CalmRows ==
    ASSUME TypesInv, NEW busy, Crowded(tickets) \subseteq busy,
           NEW id \in DOMAIN tickets \ busy
    PROVE  /\ ~ InFirstMicrosecond(tickets[id].updated_at)
           /\ \A other \in DOMAIN tickets \ {id} :
                 Millisecond(tickets[other].updated_at) # Millisecond(tickets[id].updated_at)
BY DEF Crowded

LEMMA CursorOf ==
    ASSUME TypesInv, NEW id \in DOMAIN tickets
    PROVE  EncodeCursor(id) \in [ms : Nat, id : Nat]
<1>1. id \in Nat /\ tickets[id].updated_at \in Nat
  BY TableTypes
<1> QED
  BY <1>1, Milliseconds DEF EncodeCursor

On(items, id) == \E i \in DOMAIN items : items[i] = id

\* A page moves the cursor past what it shows, and past nothing else that is calm.
LEMMA PageShows ==
    ASSUME TypesInv, NEW query, NEW cursor, NEW items, NEW next, NEW busy,
           cursor = NULL \/ cursor \in [ms : Nat, id : Nat],
           Crowded(tickets) \subseteq busy,
           Filled(items, next, Selected(BuildCursorQuery(query, PageSize, cursor))),
           NEW id \in DOMAIN tickets \ busy
    PROVE  /\ On(items, id) => Selects(query.clauses, Columns(id)) /\ BeyondCursor(cursor, id)
           /\ next = NULL =>
                 (On(items, id) <=> Selects(query.clauses, Columns(id)) /\ BeyondCursor(cursor, id))
           /\ next # NULL /\ On(items, id) => ~ BeyondCursor(next, id)
           /\ next # NULL /\ Selects(query.clauses, Columns(id)) /\ ~ BeyondCursor(cursor, id)
                => ~ BeyondCursor(next, id)
           /\ /\ next # NULL /\ Selects(query.clauses, Columns(id)) /\ BeyondCursor(cursor, id)
              /\ ~ On(items, id)
              => BeyondCursor(next, id)
<1> DEFINE chosen == Selected(BuildCursorQuery(query, PageSize, cursor))
           selects == Selects(query.clauses, Columns(id))
           on == On(items, id)
           last == items[PageSize]
           At(x) == tickets[x].updated_at
<1>1. \A x : x \in chosen <=>
         x \in DOMAIN tickets /\ Selects(query.clauses, Columns(x)) /\ BeyondCursor(cursor, x)
  BY DEF Selected, BuildCursorQuery, BuiltQuery
<1>2. on => id \in chosen
  BY DEF Filled, On
<1>3. /\ PageSize \in Nat \ {0} /\ items \in Seq(DOMAIN tickets)
      /\ Len(items) \in Nat /\ DOMAIN items = 1 .. Len(items)
  BY ListingAssumption, LenProperties DEF Filled
<1>4. ASSUME next = NULL, id \in chosen PROVE on
  <2>1. ~ (Len(items) = PageSize /\ next = EncodeCursor(last))
    <3> SUFFICES ASSUME Len(items) = PageSize PROVE next # EncodeCursor(last)
      OBVIOUS
    <3>1. last \in DOMAIN tickets
      BY <1>3
    <3> QED
      BY <1>4, <3>1, CursorOf, NullAssumption
  <2> QED
    BY <1>4, <2>1 DEF Filled, On
<1>5. ASSUME next # NULL
      PROVE  /\ on => ~ BeyondCursor(next, id)
             /\ selects /\ ~ BeyondCursor(cursor, id) => ~ BeyondCursor(next, id)
             /\ selects /\ BeyondCursor(cursor, id) /\ ~ on => BeyondCursor(next, id)
  <2> HIDE DEF selects, on, chosen
  <2>1. /\ Len(items) = PageSize /\ next = EncodeCursor(last)
        /\ \A i \in DOMAIN items : i = PageSize \/ Precedes(items[i], last)
        /\ \A x \in chosen : (\E i \in DOMAIN items : items[i] = x) \/ Precedes(last, x)
        /\ \A i \in DOMAIN items : items[i] \in chosen
    BY <1>5 DEF Filled, chosen
  <2>2. last \in DOMAIN tickets /\ last \in chosen /\ PageSize \in DOMAIN items
    BY <1>3, <2>1
  <2>3. id \in DOMAIN tickets /\ At(id) \in Nat /\ At(last) \in Nat
    BY <2>2, TableTypes
  <2> DEFINE mine == Millisecond(At(id))
             its == Millisecond(At(last))
  <2>4. mine \in Nat /\ its \in Nat
    BY <2>3, Milliseconds
  <2>5. next.ms = its /\ next # NULL
    BY <1>5, <2>1 DEF EncodeCursor
  <2>6. ~ InFirstMicrosecond(At(id))
    BY <2>3, CalmRows
  <2>7. BeyondCursor(next, id) <=> mine < its
    BY <2>5, <2>6 DEF BeyondCursor
  <2>8. ASSUME on PROVE its <= mine
    <3>1. PICK i \in DOMAIN items : items[i] = id
      BY <2>8 DEF on, On
    <3>2. At(last) <= At(id)
      BY <2>1, <2>3, <3>1 DEF Precedes
    <3> QED
      BY <2>3, <3>2, Milliseconds
  <2>9. ASSUME ~ BeyondCursor(cursor, id) PROVE its <= mine
    <3>1. cursor # NULL /\ cursor.ms \in Nat /\ ~ (mine < cursor.ms)
      BY <2>9 DEF BeyondCursor
    <3>2. BeyondCursor(cursor, last)
      BY <1>1, <2>2 DEF chosen
    <3>3. its < cursor.ms \/ its = cursor.ms
      BY <3>1, <3>2 DEF BeyondCursor
    <3> QED
      BY <2>4, <3>1, <3>3
  <2>10. ASSUME selects, BeyondCursor(cursor, id), ~ on PROVE mine < its
    <3>1. id \in chosen
      BY <1>1, <2>3, <2>10 DEF selects, chosen
    <3>2. Precedes(last, id) /\ id # last
      BY <2>1, <2>2, <2>10, <3>1 DEF on, On
    <3>3. At(id) <= At(last)
      BY <2>3, <3>2 DEF Precedes
    <3>4. mine <= its
      BY <2>3, <3>3, Milliseconds
    <3>5. mine # its
      BY <2>2, <3>2, CalmRows
    <3> QED
      BY <2>4, <3>4, <3>5
  <2> HIDE DEF mine, its
  <2> QED
    BY <2>4, <2>7, <2>8, <2>9, <2>10
<1> HIDE DEF on, selects
<1>6. on => selects /\ BeyondCursor(cursor, id)
  BY <1>1, <1>2 DEF selects
<1>7. next = NULL => (on <=> selects /\ BeyondCursor(cursor, id))
  BY <1>1, <1>4, <1>6 DEF selects
<1> QED
  BY <1>5, <1>6, <1>7 DEF on, selects

\* What is left when a page has been shown.
LEMMA PageKeepsPages ==
    ASSUME TypesInv, NEW query, NEW cursor, ~ HasTextSearch(query), ListByCursor(query, cursor),
           cursor = NULL \/ cursor \in [ms : Nat, id : Nat],
           Crowded(tickets) \subseteq crowded',
           \A id \in DOMAIN tickets \ (touched' \cup crowded') :
              Shown(id, Selects(query.clauses, Columns(id)) /\ ~ BeyondCursor(cursor, id)),
           UNCHANGED tickets
    PROVE  PagesInv'
<1>1. CASE \E code \in {422, 500} :
              /\ client' = [Idle EXCEPT !.pc = "end", !.query = query, !.code = code]
              /\ UNCHANGED pages
  BY <1>1 DEF PagesInv, Listed, Idle
<1>2. ASSUME NEW items, NEW next,
             Filled(items, next, Selected(BuildCursorQuery(query, PageSize, cursor))),
             pages' = Append(pages, items),
             client' = [pc |-> IF next = NULL THEN "end" ELSE "more", query |-> query,
                        cursor |-> next, code |-> 200]
      PROVE  PagesInv'
  <2>1. /\ client'.pc = (IF next = NULL THEN "end" ELSE "more") /\ client'.query = query
        /\ client'.cursor = next /\ client'.code = 200
    BY <1>2
  <2>2. /\ items \in Seq(DOMAIN tickets) /\ Len(items) <= PageSize
        /\ \A i, j \in DOMAIN items : items[i] = items[j] => i = j
    BY <1>2 DEF Filled
  <2>3. ASSUME NEW id \in Calm'
        PROVE  /\ next # NULL => Shown(id, Due(id) /\ ~ BeyondCursor(client.cursor, id))'
               /\ next = NULL => Shown(id, Due(id))'
    <3> DEFINE selects == Selects(query.clauses, Columns(id))
               on == On(items, id)
    <3>1. id \in DOMAIN tickets \ (touched' \cup crowded') /\ id \in DOMAIN tickets \ crowded'
      BY DEF Calm
    <3>2. /\ on => selects /\ BeyondCursor(cursor, id)
          /\ next = NULL => (on <=> selects /\ BeyondCursor(cursor, id))
          /\ next # NULL /\ on => ~ BeyondCursor(next, id)
          /\ next # NULL /\ selects /\ ~ BeyondCursor(cursor, id) => ~ BeyondCursor(next, id)
          /\ next # NULL /\ selects /\ BeyondCursor(cursor, id) /\ ~ on => BeyondCursor(next, id)
      BY <1>2, <3>1, PageShows
    <3>3. /\ ~ on => Places(id)' = Places(id)
          /\ on /\ Places(id) = {} => \E at \in Places(id)' : Places(id)' = {at}
      BY <1>2, <2>2, ShownOnce DEF On
    <3>4. IF selects /\ ~ BeyondCursor(cursor, id)
            THEN \E at \in Places(id) : Places(id) = {at} ELSE Places(id) = {}
      BY <3>1 DEF Shown, selects
    <3>5. Due(id)' <=> selects
      BY <2>1 DEF Due, Columns, selects
    <3>6. BeyondCursor(client.cursor, id)' <=> BeyondCursor(next, id)
      BY <2>1 DEF BeyondCursor
    <3> HIDE DEF selects, on
    <3>7. ASSUME next # NULL
          PROVE  IF selects /\ ~ BeyondCursor(next, id)
                   THEN \E at \in Places(id)' : Places(id)' = {at} ELSE Places(id)' = {}
      BY <3>2, <3>3, <3>4, <3>7
    <3>8. ASSUME next = NULL
          PROVE  IF selects THEN \E at \in Places(id)' : Places(id)' = {at} ELSE Places(id)' = {}
      BY <3>2, <3>3, <3>4, <3>8
    <3> QED
      BY <3>5, <3>6, <3>7, <3>8 DEF Shown
  <2> QED
    BY <2>1, <2>3 DEF PagesInv, Listed
<1> QED
  BY <1>1, <1>2, CursorPages

LEMMA ListKeepsPages ==
    ASSUME TypesInv, NEW decodes, NEW number, ListTickets(decodes, number)
    PROVE  PagesInv'
<1> DEFINE query == Parse(typed.text)
<1>1. client = Idle /\ pages = <<>> /\ crowded' = Crowded(tickets) /\ UNCHANGED tickets
  BY DEF ListTickets, TypesInv, Idle
<1> HIDE DEF query
<1>2. CASE HasTextSearch(query) /\ ListByText(query, number)
  <2>1. client'.pc = "end" /\ client'.code \in {422, 500}
    BY <1>2, TextIsRefused
  <2> QED
    BY <2>1 DEF PagesInv, Listed
<1>3. CASE Ends(query, HttpStatus["Validation"])
  <2>1. client'.pc = "end" /\ client'.code = 422
    BY <1>3 DEF Ends, Idle, HttpStatus, AppError
  <2> QED
    BY <2>1 DEF PagesInv, Listed
<1>4. CASE ~ HasTextSearch(query) /\ ListByCursor(query, NULL)
  <2>1. \A id : Places(id) = {} /\ BeyondCursor(NULL, id)
    BY <1>1 DEF Places, BeyondCursor
  <2>2. \A id : Shown(id, Selects(query.clauses, Columns(id)) /\ ~ BeyondCursor(NULL, id))
    BY <2>1 DEF Shown
  <2> QED
    BY <1>1, <1>4, <2>2, PageKeepsPages
<1> QED
  BY <1>2, <1>3, <1>4 DEF ListTickets, query

LEMMA NextPageKeepsPages == ASSUME TypesInv, PagesInv, NextPage PROVE PagesInv'
<1>1. /\ client.pc = "more" /\ ListByCursor(client.query, client.cursor)
      /\ UNCHANGED <<tickets, touched, crowded>>
  BY DEF NextPage, history
<1>2. client.cursor \in [ms : Nat, id : Nat]
  BY <1>1 DEF TypesInv
<1>3. /\ ~ HasTextSearch(client.query) /\ Crowded(tickets) \subseteq crowded'
      /\ \A id \in DOMAIN tickets \ (touched' \cup crowded') :
            Shown(id, Selects(client.query.clauses, Columns(id)) /\ ~ BeyondCursor(client.cursor, id))
  BY <1>1 DEF PagesInv, Calm, Due
<1> QED
  BY <1>1, <1>2, <1>3, PageKeepsPages

\* A write leaves the rows that it does not touch, and the pages, as they are.
LEMMA WriteKeepsPages ==
    ASSUME PagesInv, client.pc = "more", Crowded(tickets)' \subseteq crowded',
           crowded \subseteq crowded',
           \A id \in DOMAIN tickets' \ touched' :
              id \in DOMAIN tickets \ touched /\ tickets'[id] = tickets[id],
           UNCHANGED <<client, pages>>
    PROVE  PagesInv'
<1>1. ASSUME NEW id \in Calm' PROVE Shown(id, Due(id) /\ ~ BeyondCursor(client.cursor, id))'
  <2>1. id \in Calm /\ tickets'[id] = tickets[id]
    BY <1>1 DEF Calm
  <2>2. Shown(id, Due(id) /\ ~ BeyondCursor(client.cursor, id))
    BY <2>1 DEF PagesInv
  <2>3. Places(id)' = Places(id)
    BY DEF Places
  <2>4. Due(id)' = Due(id)
    BY <2>1 DEF Due, Columns
  <2>5. BeyondCursor(client.cursor, id)' = BeyondCursor(client.cursor, id)
    BY <2>1 DEF BeyondCursor
  <2> QED
    BY <2>2, <2>3, <2>4, <2>5 DEF Shown
<1> QED
  BY <1>1 DEF PagesInv, Listed

LEMMA CreateKeepsPages ==
    ASSUME TypesInv, PagesInv, NEW t \in 0 .. MaxNow, CreateTicket(t)
    PROVE  PagesInv'
<1> DEFINE row == [Seed[1] EXCEPT !.status = "new", !.updated_at = t]
<1>1. Len(tickets) \in Nat /\ DOMAIN tickets = 1 .. Len(tickets)
  BY TableTypes
<1>2. tickets' = Append(tickets, row) /\ touched' = touched \cup {Len(tickets) + 1}
  BY DEF CreateTicket
<1>3. DOMAIN tickets' = 1 .. Len(tickets) + 1 /\ \A k \in DOMAIN tickets : tickets'[k] = tickets[k]
  BY <1>1, <1>2 DEF TypesInv
<1>4. \A id \in DOMAIN tickets' \ touched' : id \in DOMAIN tickets \ touched /\ tickets'[id] = tickets[id]
  BY <1>1, <1>2, <1>3
<1>5. /\ client.pc = "more" /\ Crowded(tickets)' \subseteq crowded' /\ crowded \subseteq crowded'
      /\ UNCHANGED <<client, pages>>
  BY DEF CreateTicket
<1> QED
  BY <1>4, <1>5, WriteKeepsPages

LEMMA UpdateKeepsPages ==
    ASSUME TypesInv, PagesInv, NEW t \in 0 .. MaxNow, NEW id \in DOMAIN tickets,
           NEW status \in {"new", "done"}, UpdateTicket(id, status, t)
    PROVE  PagesInv'
<1>1. /\ tickets' = [tickets EXCEPT ![id].status = status, ![id].updated_at = t]
      /\ touched' = touched \cup {id}
  BY DEF UpdateTicket
<1>2. \A k \in DOMAIN tickets' \ touched' : k \in DOMAIN tickets \ touched /\ tickets'[k] = tickets[k]
  BY <1>1
<1>3. /\ client.pc = "more" /\ Crowded(tickets)' \subseteq crowded' /\ crowded \subseteq crowded'
      /\ UNCHANGED <<client, pages>>
  BY DEF UpdateTicket
<1> QED
  BY <1>2, <1>3, WriteKeepsPages

-----------------------------------------------------------------------------
(* Sequences of sequences.                                                 *)

Flattening(s) == CHOOSE flatten : flatten = [i \in 1 .. Len(s) |->
                    IF i = 1 THEN s[i] ELSE flatten[i - 1] \o s[i]]

\* FlattenSeq by its steps.
LEMMA FlattenSteps ==
    ASSUME NEW S, NEW s \in Seq(Seq(S)), s # <<>>
    PROVE  /\ Len(s) \in Nat \ {0} /\ FlattenSeq(s) = Flattening(s)[Len(s)]
           /\ Flattening(s) \in [1 .. Len(s) -> Seq(S)] /\ Flattening(s)[1] = s[1]
           /\ \A i \in 2 .. Len(s) : Flattening(s)[i] = Flattening(s)[i - 1] \o s[i]
<1> PICK n, T : n = Len(s) /\ T = Seq(S)
  OBVIOUS
<1>1. n \in Nat \ {0} /\ \A i \in 1 .. n : s[i] \in T
  BY EmptySeq, LenProperties
<1> PICK step : step = [x \in (1 .. n) \X T |-> IF x[1] = 1 THEN s[1] ELSE x[2] \o s[x[1]]]
  OBVIOUS
<1>2. step \in [(1 .. n) \X T -> T]
  <2> SUFFICES ASSUME NEW i \in 1 .. n, NEW c \in T
               PROVE  (IF i = 1 THEN s[1] ELSE c \o s[i]) \in T
    OBVIOUS
  <2>1. s[1] \in T /\ s[i] \in T
    BY <1>1
  <2>2. c \o s[i] \in T
    BY <2>1, ConcatProperties
  <2> QED
    BY <2>1, <2>2
<1>3. PICK f : Stepwise(f, n, T, <<>>, step)
  <2>1. <<>> \in T
    BY EmptySeq
  <2> QED
    BY <1>1, <1>2, <2>1, StepByStep
<1>4. ASSUME NEW i \in 1 .. n PROVE f[i] = IF i = 1 THEN s[1] ELSE f[i - 1] \o s[i]
  <2>1. f[i] = step[<<i, f[i - 1]>>]
    BY <1>3 DEF Stepwise
  <2>2. f[i - 1] \in T
    <3>1. i - 1 \in 0 .. n
      BY <1>1
    <3> QED
      BY <1>3, <3>1 DEF Stepwise
  <2> PICK x : x = <<i, f[i - 1]>>
    OBVIOUS
  <2>3. x \in (1 .. n) \X T /\ x[1] = i /\ x[2] = f[i - 1]
    BY <2>2
  <2> QED
    BY <2>1, <2>3
<1> PICK g : g = [i \in 1 .. n |-> f[i]]
  OBVIOUS
<1>5. g = [i \in 1 .. n |-> IF i = 1 THEN s[i] ELSE g[i - 1] \o s[i]]
  <2>1. ASSUME NEW i \in 1 .. n PROVE f[i] = IF i = 1 THEN s[i] ELSE g[i - 1] \o s[i]
    <3>1. i # 1 => i - 1 \in 1 .. n
      BY <1>1
    <3> QED
      BY <1>4, <3>1
  <2> QED
    BY <2>1
<1>6. Flattening(s) = [i \in 1 .. n |-> IF i = 1 THEN s[i] ELSE Flattening(s)[i - 1] \o s[i]]
  <2>1. g = [i \in 1 .. Len(s) |-> IF i = 1 THEN s[i] ELSE g[i - 1] \o s[i]]
    BY <1>5
  <2>2. Flattening(s) = [i \in 1 .. Len(s) |-> IF i = 1 THEN s[i] ELSE Flattening(s)[i - 1] \o s[i]]
    BY <2>1 DEF Flattening
  <2> QED
    BY <2>2
<1> PICK h : h = Flattening(s)
  OBVIOUS
<1> DEFINE U == {i \in 0 .. n : i = 0 \/ h[i] \in T}
<1>7. h = [i \in 1 .. n |-> IF i = 1 THEN s[i] ELSE h[i - 1] \o s[i]]
  BY <1>6
<1>8. \A i \in 1 .. n : i - 1 \in U => i \in U
  <2> SUFFICES ASSUME NEW i \in 1 .. n, i - 1 \in U PROVE h[i] \in T
    BY <1>1
  <2>1. s[i] \in T
    BY <1>1
  <2>2. CASE i = 1
    BY <1>7, <2>1, <2>2
  <2>3. CASE i # 1
    <3>1. h[i - 1] \in T
      BY <1>1, <2>3
    <3>2. h[i] = h[i - 1] \o s[i]
      BY <1>7, <2>3
    <3> QED
      BY <2>1, <3>1, <3>2, ConcatProperties
  <2> QED
    BY <2>2, <2>3
<1>9. \A i \in 1 .. n : h[i] \in T
  <2>1. 0 \in U
    OBVIOUS
  <2> HIDE DEF U
  <2>2. 0 .. n \subseteq U
    BY <1>1, <1>8, <2>1, UpTo
  <2> USE DEF U
  <2> QED
    BY <2>2
<1>10. FlattenSeq(s) = Flattening(s)[n]
  BY <1>1 DEF FlattenSeq, Flattening
<1>11. h \in [1 .. n -> T] /\ h[1] = s[1]
  BY <1>1, <1>7, <1>9
<1>12. ASSUME NEW i \in 2 .. n PROVE h[i] = h[i - 1] \o s[i]
  <2>1. i \in 1 .. n /\ i # 1
    BY <1>1
  <2> QED
    BY <1>7, <2>1
<1> QED
  BY <1>1, <1>10, <1>11, <1>12

\* What is first in a sequence of sequences is first when they are strung together.
LEMMA FlattenFirst ==
    ASSUME NEW S, NEW x \in Seq(S), NEW s \in Seq(Seq(S))
    PROVE  FlattenSeq(s) \in Seq(S) /\ FlattenSeq(<<x>> \o s) = x \o FlattenSeq(s)
<1>0. \A a, b, c \in Seq(S) : (a \o b) \o c = a \o (b \o c)
  BY ConcatAssociative
<1> PICK n, T : n = Len(s) /\ T = Seq(S)
  OBVIOUS
<1>1. n \in Nat /\ \A i \in 1 .. n : s[i] \in T
  BY LenProperties
<1> PICK r : r = <<x>> \o s
  OBVIOUS
<1>2. r \in Seq(Seq(S)) /\ Len(r) = n + 1 /\ r[1] = x /\ \A i \in 1 .. n : r[i + 1] = s[i]
  <2>1. <<x>> \in Seq(Seq(S)) /\ Len(<<x>>) = 1 /\ <<x>>[1] = x
    OBVIOUS
  <2>2. \A i \in 1 .. n + 1 : r[i] = IF i <= 1 THEN <<x>>[i] ELSE s[i - 1]
    BY <1>1, <2>1, ConcatProperties
  <2>3. 1 \in 1 .. n + 1 /\ \A i \in 1 .. n : i + 1 \in 1 .. n + 1 /\ ~ (i + 1 <= 1) /\ (i + 1) - 1 = i
    BY <1>1
  <2>4. r[1] = x
    BY <2>1, <2>2, <2>3
  <2>5. \A i \in 1 .. n : r[i + 1] = s[i]
    BY <2>2, <2>3
  <2> QED
    BY <1>1, <2>1, <2>4, <2>5, ConcatProperties
<1>3. r # <<>>
  BY <1>1, <1>2
<1> PICK h : h = Flattening(r)
  OBVIOUS
<1>4. /\ FlattenSeq(r) = h[n + 1] /\ h \in [1 .. n + 1 -> T] /\ h[1] = x
      /\ \A i \in 2 .. n + 1 : h[i] = h[i - 1] \o r[i]
  BY <1>2, <1>3, FlattenSteps
<1>5. CASE s = <<>>
  <2>1. n = 0 /\ FlattenSeq(s) = <<>>
    BY <1>5 DEF FlattenSeq
  <2>2. x \o <<>> = x /\ <<>> \in T
    BY ConcatEmptySeq, EmptySeq
  <2>3. FlattenSeq(r) = x
    BY <1>4, <2>1
  <2> QED
    BY <2>1, <2>2, <2>3
<1>6. CASE s # <<>>
  <2> PICK g : g = Flattening(s)
    OBVIOUS
  <2>1. /\ n # 0 /\ FlattenSeq(s) = g[n] /\ g \in [1 .. n -> T] /\ g[1] = s[1]
        /\ \A i \in 2 .. n : g[i] = g[i - 1] \o s[i]
    BY <1>6, FlattenSteps
  <2> DEFINE Same(i) == i # 0 => h[i + 1] = x \o g[i]
             U == {i \in 0 .. n : Same(i)}
  <2>2. ASSUME NEW i \in 1 .. n, Same(i - 1) PROVE Same(i)
    <3>1. i + 1 \in 2 .. n + 1 /\ (i + 1) - 1 = i
      BY <1>1
    <3> PICK k : k = i + 1
      OBVIOUS
    <3>2. h[k] = h[k - 1] \o r[k] /\ k - 1 = i /\ r[k] = s[i]
      BY <1>2, <1>4, <3>1
    <3>3. h[k] = h[i] \o s[i]
      BY <3>2
    <3>4. CASE i = 1
      BY <1>4, <2>1, <3>3, <3>4
    <3>5. CASE i # 1
      <4>1. i - 1 \in 1 .. n /\ i \in 2 .. n /\ (i - 1) + 1 = i /\ i - 1 # 0
        BY <1>1, <3>5
      <4> PICK j : j = i - 1
        OBVIOUS
      <4>2. h[i] = x \o g[j] /\ g[i] = g[j] \o s[i]
        BY <2>1, <2>2, <4>1
      <4>3. g[j] \in T /\ s[i] \in T
        BY <1>1, <2>1, <4>1
      <4>4. (x \o g[j]) \o s[i] = x \o (g[j] \o s[i])
        BY <1>0, <4>3
      <4> QED
        BY <3>3, <4>2, <4>4
    <3> QED
      BY <3>4, <3>5
  <2>3. Same(n)
    <3>1. Same(0)
      OBVIOUS
    <3> HIDE DEF Same
    <3>2. \A i \in 1 .. n : i - 1 \in U => i \in U
      BY <1>1, <2>2
    <3>3. 0 \in U /\ n \in 0 .. n
      BY <1>1, <3>1
    <3> HIDE DEF U
    <3>4. 0 .. n \subseteq U
      BY <1>1, <3>2, <3>3, UpTo
    <3> USE DEF U
    <3> QED
      BY <3>3, <3>4
  <2>4. g[n] \in T
    <3>1. n \in 1 .. n
      BY <1>1, <2>1
    <3> QED
      BY <2>1, <3>1
  <2>5. h[n + 1] = x \o g[n]
    BY <2>1, <2>3
  <2> QED
    BY <1>4, <2>1, <2>4, <2>5
<1> QED
  BY <1>5, <1>6

-----------------------------------------------------------------------------
(* build_query, by its steps.                                              *)

\* An OR and a filter follow the filter at i.
Joined(items, i) == IsA(items, i + 1, "or") /\ IsA(items, i + 2, "filter")

Chains(items) == CHOOSE chain : chain = [i \in DOMAIN items |->
    <<items[i]>> \o IF IsA(items, i + 1, "or") /\ IsA(items, i + 2, "filter")
                      THEN chain[i + 2] ELSE <<>>]

\* The chain from each item.
LEMMA ChainSteps ==
    ASSUME NEW S, NEW items \in Seq(S)
    PROVE  /\ Chains(items) \in [1 .. Len(items) -> Seq(S)]
           /\ \A i \in 1 .. Len(items) :
                 IF Joined(items, i) THEN Chains(items)[i] = <<items[i]>> \o Chains(items)[i + 2]
                                     ELSE Chains(items)[i] = <<items[i]>>
<1> PICK n, T : n = Len(items) /\ T = Seq(S)
  OBVIOUS
<1>1. n \in Nat /\ DOMAIN items = 1 .. n /\ \A i \in 1 .. n : items[i] \in S
  BY LenProperties
<1>2. \A i \in 1 .. n : <<items[i]>> \in T
  BY <1>1
<1>3. <<>> \in T /\ \A s, t \in T : s \o t \in T
  BY EmptySeq, ConcatProperties
<1>4. \A s \in T : s \o <<>> = s
  BY ConcatEmptySeq
<1>5. ASSUME NEW i \in 1 .. n, Joined(items, i) PROVE i + 2 \in i + 1 .. n
  <2>1. i + 2 \in DOMAIN items
    BY <1>5 DEF Joined, IsA
  <2>2. i + 2 \in 1 .. n
    BY <1>1, <2>1
  <2> QED
    BY <2>2
<1> PICK step : step = [x \in (1 .. n) \X T |->
                           <<items[x[1]]>> \o IF Joined(items, x[1]) THEN x[2] ELSE <<>>]
  OBVIOUS
<1>6. step \in [(1 .. n) \X T -> T]
  BY <1>2, <1>3
<1> PICK later : later = [i \in 1 .. n |-> IF Joined(items, i) THEN i + 2 ELSE n + 1]
  OBVIOUS
<1>7. later \in [1 .. n -> 1 .. n + 1] /\ \A i \in 1 .. n : later[i] > i
  BY <1>1, <1>5
<1>8. PICK f \in [1 .. n + 1 -> T] :
         f[n + 1] = <<>> /\ \A i \in 1 .. n : f[i] = step[<<i, f[later[i]]>>]
  <2> PICK base : base = <<>>
    OBVIOUS
  <2>1. base \in T
    BY <1>3
  <2>2. \E f : Backwards(f, n, T, base, later, step)
    BY <1>1, <1>6, <1>7, <2>1, StepByStepBack
  <2> QED
    BY <2>2 DEF Backwards
<1> PICK g : g = [i \in 1 .. n |-> f[i]]
  OBVIOUS
<1>9. ASSUME NEW i \in 1 .. n
      PROVE  f[i] = <<items[i]>> \o IF Joined(items, i) THEN g[i + 2] ELSE <<>>
  <2> PICK x : x = <<i, f[later[i]]>>
    OBVIOUS
  <2>1. x \in (1 .. n) \X T /\ x[1] = i /\ x[2] = f[later[i]]
    BY <1>7
  <2>2. f[i] = <<items[i]>> \o IF Joined(items, i) THEN f[later[i]] ELSE <<>>
    BY <1>8, <2>1
  <2>3. Joined(items, i) => f[later[i]] = g[i + 2]
    <3> SUFFICES ASSUME Joined(items, i) PROVE f[later[i]] = g[i + 2]
      OBVIOUS
    <3>1. i + 2 \in 1 .. n /\ later[i] = i + 2
      BY <1>1, <1>5
    <3> QED
      BY <3>1
  <2> QED
    BY <2>2, <2>3
<1>10. g = [i \in DOMAIN items |-> <<items[i]>> \o
              IF IsA(items, i + 1, "or") /\ IsA(items, i + 2, "filter") THEN g[i + 2] ELSE <<>>]
  BY <1>1, <1>9 DEF Joined
<1>11. Chains(items) = [i \in DOMAIN items |-> <<items[i]>> \o
          IF IsA(items, i + 1, "or") /\ IsA(items, i + 2, "filter") THEN Chains(items)[i + 2] ELSE <<>>]
  BY <1>10 DEF Chains
<1> PICK h : h = Chains(items)
  OBVIOUS
<1>12. h = [i \in 1 .. n |-> <<items[i]>> \o IF Joined(items, i) THEN h[i + 2] ELSE <<>>]
  BY <1>1, <1>11 DEF Joined
<1>13. ASSUME NEW i \in 1 .. n
       PROVE  h[i] = <<items[i]>> \o IF Joined(items, i) THEN h[i + 2] ELSE <<>>
  BY <1>12
<1> DEFINE U == {i \in 1 .. n + 1 : i # n + 1 => h[i] \in T}
<1>14. ASSUME NEW i \in 1 .. n, \A j \in i + 1 .. n + 1 : j \in U PROVE i \in U
  <2>1. Joined(items, i) => h[i + 2] \in T
    BY <1>1, <1>5, <1>14
  <2>2. h[i] \in T
    BY <1>2, <1>3, <1>13, <2>1
  <2> QED
    BY <2>2
<1>15. n + 1 \in U
  BY <1>1
<1>16. \A i \in 1 .. n : h[i] \in T
  <2> HIDE DEF U
  <2>1. 1 .. n + 1 \subseteq U
    BY <1>1, <1>14, <1>15, DownFrom
  <2>2. \A i \in 1 .. n : i \in 1 .. n + 1 /\ i # n + 1
    BY <1>1
  <2>3. \A i \in 1 .. n : i \in U
    BY <2>1, <2>2
  <2> USE DEF U
  <2> QED
    BY <2>2, <2>3
<1>17. h \in [1 .. n -> T]
  BY <1>12, <1>16
<1>18. ASSUME NEW i \in 1 .. n
       PROVE  IF Joined(items, i) THEN h[i] = <<items[i]>> \o h[i + 2] ELSE h[i] = <<items[i]>>
  BY <1>2, <1>4, <1>13
<1> QED
  BY <1>17, <1>18

\* The item behind the chain from i.
Behind(items, i) == i + 2 * Len(Chains(items)[i]) - 1

\* A chain has filters, and stays within the items.
LEMMA ChainEnds ==
    ASSUME NEW S, NEW items \in Seq(S)
    PROVE  \A i \in 1 .. Len(items) :
              /\ Len(Chains(items)[i]) \in Nat \ {0} /\ Behind(items, i) \in i + 1 .. Len(items) + 1
              /\ Joined(items, i) => Behind(items, i) = Behind(items, i + 2)
<1> PICK n, c : n = Len(items) /\ c = Chains(items)
  OBVIOUS
<1>1. n \in Nat /\ DOMAIN items = 1 .. n /\ \A i \in 1 .. n : items[i] \in S
  BY LenProperties
<1>2. \A i \in 1 .. n : c[i] \in Seq(S)
  BY ChainSteps
<1>3. \A i \in 1 .. n : Joined(items, i) => i + 2 \in 1 .. n
  BY <1>1 DEF Joined, IsA
<1> DEFINE Good(i) == i # n + 1 =>
                         /\ Len(c[i]) \in Nat \ {0} /\ Behind(items, i) \in i + 1 .. n + 1
                         /\ Joined(items, i) => Behind(items, i) = Behind(items, i + 2)
           U == {i \in 1 .. n + 1 : Good(i)}
<1>4. ASSUME NEW i \in 1 .. n, \A j \in i + 1 .. n + 1 : Good(j) PROVE Good(i)
  <2>1. CASE Joined(items, i)
    <3> PICK j : j = i + 2
      OBVIOUS
    <3>1. j \in i + 1 .. n + 1 /\ j # n + 1 /\ j \in 1 .. n
      BY <1>1, <1>3, <2>1
    <3>2. Len(c[j]) \in Nat \ {0} /\ Behind(items, j) \in j + 1 .. n + 1
      BY <1>4, <3>1
    <3>3. c[i] = <<items[i]>> \o c[j]
      BY <2>1, ChainSteps
    <3>4. c[j] \in Seq(S) /\ <<items[i]>> \in Seq(S) /\ Len(<<items[i]>>) = 1
      BY <1>1, <1>2, <3>1
    <3>5. Len(c[i]) = 1 + Len(c[j])
      BY <3>3, <3>4, ConcatProperties
    <3>6. Behind(items, i) = i + 2 * Len(c[i]) - 1 /\ Behind(items, j) = j + 2 * Len(c[j]) - 1
      BY DEF Behind
    <3>7. \A a, b \in Nat : a + 2 * (1 + b) - 1 = (a + 2) + 2 * b - 1
      OBVIOUS
    <3>8. Behind(items, i) = Behind(items, j) /\ Len(c[i]) \in Nat \ {0}
      <4> PICK k : k = Len(c[j])
        OBVIOUS
      <4>1. k \in Nat \ {0} /\ i \in Nat /\ Len(c[i]) = 1 + k
        BY <1>1, <3>2, <3>5
      <4>2. Behind(items, i) = i + 2 * (1 + k) - 1
        BY <3>6, <4>1
      <4>3. Behind(items, j) = (i + 2) + 2 * k - 1
        BY <3>6
      <4>4. i + 2 * (1 + k) - 1 = (i + 2) + 2 * k - 1
        BY <3>7, <4>1
      <4>5. 1 + k \in Nat \ {0}
        BY <4>1
      <4> QED
        BY <4>1, <4>2, <4>3, <4>4, <4>5
    <3>9. Behind(items, i) \in i + 1 .. n + 1
      BY <1>1, <3>2, <3>8
    <3> QED
      BY <3>8, <3>9
  <2>2. CASE ~ Joined(items, i)
    <3>1. c[i] = <<items[i]>>
      BY <2>2, ChainSteps
    <3>2. Len(c[i]) = 1
      BY <3>1
    <3>3. Behind(items, i) = i + 1
      BY <3>2 DEF Behind
    <3> QED
      BY <1>1, <2>2, <3>2, <3>3
  <2> QED
    BY <2>1, <2>2
<1>5. Good(n + 1)
  OBVIOUS
<1>6. \A i \in 1 .. n : Good(i)
  <2> HIDE DEF Good
  <2>1. n + 1 \in U
    BY <1>1, <1>5
  <2>2. \A i \in 1 .. n : (\A j \in i + 1 .. n + 1 : j \in U) => i \in U
    <3> SUFFICES ASSUME NEW i \in 1 .. n, \A j \in i + 1 .. n + 1 : j \in U PROVE Good(i)
      BY <1>1
    <3>1. \A j \in i + 1 .. n + 1 : Good(j)
      OBVIOUS
    <3> QED
      BY <1>4, <3>1
  <2> HIDE DEF U
  <2>3. 1 .. n + 1 \subseteq U
    BY <1>1, <2>1, <2>2, DownFrom
  <2>4. \A i \in 1 .. n : i \in 1 .. n + 1
    BY <1>1
  <2>5. \A i \in 1 .. n : i \in U
    BY <2>3, <2>4
  <2> USE DEF U
  <2> QED
    BY <2>5
<1>7. \A i \in 1 .. n : i # n + 1
  BY <1>1
<1> QED
  BY <1>6, <1>7

TermOf(items, i) == IF IsA(items, i, "or") THEN TextTerm(FALSE, <<"OR">>, FALSE) ELSE items[i]

Froms(items) == CHOOSE from : from = [i \in 1 .. Len(items) + 1 |->
    IF i > Len(items) THEN [clauses |-> <<>>, terms |-> <<>>]
    ELSE IF IsA(items, i, "filter")
      THEN LET rest == from[i + 2 * Len(Chains(items)[i]) - 1]
           IN [rest EXCEPT !.clauses = <<Chains(items)[i]>> \o @]
      ELSE LET term == IF IsA(items, i, "or") THEN TextTerm(FALSE, <<"OR">>, FALSE)
                       ELSE items[i]
           IN [from[i + 1] EXCEPT !.terms = <<term>> \o @]]

LEMMA BuildQueryFroms == ASSUME NEW items PROVE BuildQuery(items) = Froms(items)[1]
  BY DEF BuildQuery, Froms, Chains

\* Queries of filters and terms.
QueryOf(S) == [clauses : Seq(Seq(S)), terms : Seq(S \cup {TextTerm(FALSE, <<"OR">>, FALSE)})]

NoQuery == [clauses |-> <<>>, terms |-> <<>>]

FromStep(items, i, rest) ==
    IF IsA(items, i, "filter") THEN [rest EXCEPT !.clauses = <<Chains(items)[i]>> \o @]
                               ELSE [rest EXCEPT !.terms = <<TermOf(items, i)>> \o @]

FromNext(items, i) == IF IsA(items, i, "filter") THEN Behind(items, i) ELSE i + 1

\* A query grows by a clause or by a term.
LEMMA QueryGrows ==
    ASSUME NEW S, NEW items \in Seq(S), NEW i \in 1 .. Len(items), NEW rest \in QueryOf(S)
    PROVE  /\ FromStep(items, i, rest) \in QueryOf(S)
           /\ IF IsA(items, i, "filter")
                THEN /\ FromStep(items, i, rest).clauses = <<Chains(items)[i]>> \o rest.clauses
                     /\ FromStep(items, i, rest).terms = rest.terms
                ELSE /\ FromStep(items, i, rest).terms = <<TermOf(items, i)>> \o rest.terms
                     /\ FromStep(items, i, rest).clauses = rest.clauses
<1>0. \A A : \A x \in A : <<x>> \in Seq(A)
  OBVIOUS
<1> PICK R, T, or : or = TextTerm(FALSE, <<"OR">>, FALSE) /\ R = S \cup {or} /\ T = Seq(S)
  OBVIOUS
<1>1. items[i] \in S /\ Chains(items)[i] \in T
  BY ChainSteps, LenProperties
<1>8. QueryOf(S) = [clauses : Seq(T), terms : Seq(R)]
  BY DEF QueryOf
<1>2. rest.clauses \in Seq(T) /\ rest.terms \in Seq(R)
  BY DEF QueryOf
<1>3. rest = [clauses |-> rest.clauses, terms |-> rest.terms]
  BY DEF QueryOf
<1> PICK q, r, chain, term :
       q = rest.clauses /\ r = rest.terms /\ chain = Chains(items)[i] /\ term = TermOf(items, i)
  OBVIOUS
<1>4. <<chain>> \o q \in Seq(T)
  BY <1>1, <1>2, ConcatProperties
<1>5. <<term>> \o r \in Seq(R)
  <2>1. term \in R
    BY <1>1 DEF TermOf
  <2>2. <<term>> \in Seq(R)
    BY <1>0, <2>1
  <2> QED
    BY <1>2, <2>2, ConcatProperties
<1>6. CASE IsA(items, i, "filter")
  <2>1. FromStep(items, i, rest) = [clauses |-> <<chain>> \o q, terms |-> r]
    BY <1>3, <1>6 DEF FromStep
  <2> QED
    BY <1>2, <1>4, <1>6, <1>8, <2>1
<1>7. CASE ~ IsA(items, i, "filter")
  <2>1. FromStep(items, i, rest) = [clauses |-> q, terms |-> <<term>> \o r]
    BY <1>3, <1>7 DEF FromStep
  <2>2. [clauses |-> q, terms |-> <<term>> \o r] \in QueryOf(S)
    <3> PICK t : t = <<term>> \o r
      OBVIOUS
    <3>1. t \in Seq(R)
      BY <1>5
    <3> QED
      BY <1>2, <1>8, <3>1
  <2> QED
    BY <1>7, <2>1, <2>2
<1> QED
  BY <1>6, <1>7

\* The query from each item.
LEMMA FromSteps ==
    ASSUME NEW S, NEW items \in Seq(S)
    PROVE  /\ Froms(items) \in [1 .. Len(items) + 1 -> QueryOf(S)]
           /\ Froms(items)[Len(items) + 1] = NoQuery
           /\ \A i \in 1 .. Len(items) :
                 Froms(items)[i] = FromStep(items, i, Froms(items)[FromNext(items, i)])
<1> PICK n, Q : n = Len(items) /\ Q = QueryOf(S)
  OBVIOUS
<1>1. n \in Nat
  BY LenProperties
<1>2. NoQuery \in Q
  BY DEF NoQuery, QueryOf
<1>3. \A i \in 1 .. n : FromNext(items, i) \in i + 1 .. n + 1
  BY <1>1, ChainEnds DEF FromNext
<1> PICK step : step = [x \in (1 .. n) \X Q |-> FromStep(items, x[1], x[2])]
  OBVIOUS
<1>4. step \in [(1 .. n) \X Q -> Q]
  <2> SUFFICES ASSUME NEW i \in 1 .. n, NEW rest \in Q PROVE FromStep(items, i, rest) \in Q
    OBVIOUS
  <2> QED
    BY QueryGrows
<1> PICK later : later = [i \in 1 .. n |-> FromNext(items, i)]
  OBVIOUS
<1>5. later \in [1 .. n -> 1 .. n + 1] /\ \A i \in 1 .. n : later[i] > i
  BY <1>1, <1>3
<1>6. PICK f \in [1 .. n + 1 -> Q] :
         f[n + 1] = NoQuery /\ \A i \in 1 .. n : f[i] = step[<<i, f[later[i]]>>]
  <2>1. \E f : Backwards(f, n, Q, NoQuery, later, step)
    BY <1>1, <1>2, <1>4, <1>5, StepByStepBack
  <2> QED
    BY <2>1 DEF Backwards
<1>7. ASSUME NEW i \in 1 .. n PROVE f[i] = FromStep(items, i, f[FromNext(items, i)])
  <2> PICK x : x = <<i, f[later[i]]>>
    OBVIOUS
  <2>1. x \in (1 .. n) \X Q /\ x[1] = i /\ x[2] = f[FromNext(items, i)]
    BY <1>5
  <2> QED
    BY <1>6, <2>1
<1>8. \A i \in 1 .. n + 1 : i > n <=> i = n + 1
  BY <1>1
<1>9. \A i \in 1 .. n + 1 : i # n + 1 => i \in 1 .. n
  BY <1>1
<1>10. f = [i \in 1 .. n + 1 |-> IF i > n THEN NoQuery ELSE FromStep(items, i, f[FromNext(items, i)])]
  <2>1. ASSUME NEW i \in 1 .. n + 1
        PROVE  f[i] = IF i > n THEN NoQuery ELSE FromStep(items, i, f[FromNext(items, i)])
    BY <1>6, <1>7, <1>8, <1>9
  <2> QED
    BY <2>1
<1>11. Froms(items) = CHOOSE from : from = [i \in 1 .. n + 1 |->
          IF i > n THEN NoQuery ELSE FromStep(items, i, from[FromNext(items, i)])]
  BY DEF Froms, NoQuery, FromStep, FromNext, Behind, TermOf
<1>12. Froms(items) = [i \in 1 .. n + 1 |->
          IF i > n THEN NoQuery ELSE FromStep(items, i, Froms(items)[FromNext(items, i)])]
  BY <1>10, <1>11
<1> PICK h : h = Froms(items)
  OBVIOUS
<1>13. h = [i \in 1 .. n + 1 |-> IF i > n THEN NoQuery ELSE FromStep(items, i, h[FromNext(items, i)])]
  BY <1>12
<1>14. ASSUME NEW i \in 1 .. n PROVE h[i] = FromStep(items, i, h[FromNext(items, i)])
  <2>1. i \in 1 .. n + 1 /\ ~ (i > n)
    BY <1>1
  <2> QED
    BY <1>13, <2>1
<1>15. h[n + 1] = NoQuery
  BY <1>1, <1>13
<1> DEFINE U == {i \in 1 .. n + 1 : h[i] \in Q}
<1>16. ASSUME NEW i \in 1 .. n, \A j \in i + 1 .. n + 1 : j \in U PROVE i \in U
  <2>1. h[FromNext(items, i)] \in Q
    BY <1>3, <1>16
  <2> PICK rest : rest = h[FromNext(items, i)]
    OBVIOUS
  <2>3. rest \in QueryOf(S) /\ i \in 1 .. Len(items)
    BY <2>1
  <2>4. FromStep(items, i, rest) \in QueryOf(S)
    BY <2>3, QueryGrows
  <2>2. h[i] \in Q
    BY <1>14, <2>4
  <2> QED
    BY <1>1, <2>2
<1>17. 1 .. n + 1 \subseteq U
  <2>1. n + 1 \in U
    BY <1>1, <1>2, <1>15
  <2> HIDE DEF U
  <2> QED
    BY <1>1, <1>16, <2>1, DownFrom
<1>18. h \in [1 .. n + 1 -> Q]
  BY <1>13, <1>17
<1> QED
  BY <1>14, <1>15, <1>18

-----------------------------------------------------------------------------
(* The filters and the joins behind an item.                               *)

FilterHere(items, i) == IF items[i].item = "filter" THEN <<items[i]>> ELSE <<>>

FiltersFrom(items, i) ==
    FlattenSeq(SubSeq([k \in DOMAIN items |-> FilterHere(items, k)], i, Len(items)))

LEMMA FiltersNext ==
    ASSUME NEW S, NEW items \in Seq(S)
    PROVE  /\ FiltersFrom(items, 1) = Filters(items)
           /\ FiltersFrom(items, Len(items) + 1) = <<>>
           /\ \A i \in 1 .. Len(items) + 1 : FiltersFrom(items, i) \in Seq(S)
           /\ \A i \in 1 .. Len(items) :
                 FiltersFrom(items, i) = FilterHere(items, i) \o FiltersFrom(items, i + 1)
<1> PICK n, T, s : n = Len(items) /\ T = Seq(S) /\ s = [k \in DOMAIN items |-> FilterHere(items, k)]
  OBVIOUS
<1>1. n \in Nat /\ DOMAIN items = 1 .. n /\ \A i \in 1 .. n : items[i] \in S
  BY LenProperties
<1>2. ASSUME NEW i \in 1 .. n PROVE FilterHere(items, i) \in T
  BY <1>1 DEF FilterHere
<1>3. s \in Seq(T) /\ Len(s) = n
  BY <1>1, <1>2
<1>4. \A i \in 1 .. n + 1 : SubSeq(s, i, n) \in Seq(T)
  BY <1>1, <1>3
<1>5. \A i \in 1 .. n + 1 : FiltersFrom(items, i) = FlattenSeq(SubSeq(s, i, n))
  BY DEF FiltersFrom
<1>6. ASSUME NEW i \in 1 .. n + 1 PROVE FiltersFrom(items, i) \in T
  <2> PICK r : r = SubSeq(s, i, n)
    OBVIOUS
  <2>1. r \in Seq(Seq(S))
    BY <1>4
  <2>2. <<>> \in Seq(S)
    BY EmptySeq
  <2>3. FlattenSeq(r) \in Seq(S)
    BY <2>1, <2>2, FlattenFirst
  <2> QED
    BY <1>5, <2>3
<1>7. ASSUME NEW i \in 1 .. n
      PROVE  FiltersFrom(items, i) = FilterHere(items, i) \o FiltersFrom(items, i + 1)
  <2> PICK r : r = SubSeq(s, i + 1, n)
    OBVIOUS
  <2>1. i + 1 \in 1 .. n + 1 /\ i \in 1 .. n + 1
    BY <1>1
  <2>2. r \in Seq(Seq(S)) /\ FilterHere(items, i) \in Seq(S)
    BY <1>2, <1>4, <2>1
  <2>3. SubSeq(s, i, n) = <<s[i]>> \o r
    <3>1. n \in i .. Len(s) /\ i \in 1 .. Len(s)
      BY <1>1, <1>3
    <3> QED
      BY <1>3, <3>1, SubSeqRecursiveFirst
  <2>4. s[i] = FilterHere(items, i)
    BY <1>1
  <2>5. FlattenSeq(<<FilterHere(items, i)>> \o r) = FilterHere(items, i) \o FlattenSeq(r)
    BY <2>2, FlattenFirst
  <2> QED
    BY <1>5, <2>1, <2>3, <2>4, <2>5
<1>8. SubSeq(s, 1, n) = s
  BY <1>3, SubSeqFull
<1>9. SubSeq(s, n + 1, n) = <<>>
  BY <1>1, SubSeqEmpty
<1>10. FiltersFrom(items, 1) = Filters(items)
  <2>1. Filters(items) = FlattenSeq([k \in DOMAIN items |-> FilterHere(items, k)])
    BY DEF Filters, FilterHere
  <2>2. 1 \in 1 .. n + 1
    BY <1>1
  <2> QED
    BY <1>5, <1>8, <2>1, <2>2
<1>11. FiltersFrom(items, n + 1) = <<>>
  <2>1. FlattenSeq(<<>>) = <<>>
    BY DEF FlattenSeq
  <2>2. n + 1 \in 1 .. n + 1
    BY <1>1
  <2> QED
    BY <1>5, <1>9, <2>1, <2>2
<1> QED
  BY <1>6, <1>7, <1>10, <1>11

\* Where an OR joins two filters.
Joins(items) == {i \in DOMAIN items : /\ IsA(items, i, "or") /\ IsA(items, i - 1, "filter")
                                      /\ IsA(items, i + 1, "filter")}

JoinsFrom(items, i) == {j \in Joins(items) : j > i}

LEMMA JoinsNext ==
    ASSUME NEW S, NEW items \in Seq(S)
    PROVE  /\ JoinsFrom(items, Len(items) + 1) = {}
           /\ JoinsFrom(items, 1) = Joins(items)
           /\ \A i \in 1 .. Len(items) + 1 :
                 IsFiniteSet(JoinsFrom(items, i)) /\ Cardinality(JoinsFrom(items, i)) \in Nat
           /\ \A i \in 1 .. Len(items) :
                 IF IsA(items, i, "filter") /\ Joined(items, i)
                   THEN /\ JoinsFrom(items, i) = {i + 1} \cup JoinsFrom(items, i + 1)
                        /\ Cardinality(JoinsFrom(items, i)) = 1 + Cardinality(JoinsFrom(items, i + 1))
                   ELSE JoinsFrom(items, i) = JoinsFrom(items, i + 1)
<1> PICK n : n = Len(items)
  OBVIOUS
<1>1. n \in Nat /\ DOMAIN items = 1 .. n
  BY LenProperties
<1>2. \A i \in 1 .. n + 1 : JoinsFrom(items, i) \in SUBSET (1 .. n)
  BY <1>1 DEF JoinsFrom, Joins
<1>3. JoinsFrom(items, n + 1) = {}
  BY <1>1 DEF JoinsFrom, Joins
<1>4. JoinsFrom(items, 1) = Joins(items)
  <2>1. 1 \notin Joins(items)
    BY <1>1 DEF Joins, IsA
  <2>2. \A j \in Joins(items) : j \in 1 .. n
    BY <1>1 DEF Joins
  <2>3. \A j \in Joins(items) : j > 1
    BY <1>1, <2>1, <2>2
  <2> QED
    BY <2>3 DEF JoinsFrom
<1>5. ASSUME NEW i \in 1 .. n + 1
      PROVE  IsFiniteSet(JoinsFrom(items, i)) /\ Cardinality(JoinsFrom(items, i)) \in Nat
  <2>1. IsFiniteSet(1 .. n)
    BY <1>1, FS_Interval
  <2>2. IsFiniteSet(JoinsFrom(items, i))
    BY <1>2, <2>1, FS_Subset
  <2> QED
    BY <2>2, FS_CardinalityType
<1>6. ASSUME NEW i \in 1 .. n
      PROVE  IF IsA(items, i, "filter") /\ Joined(items, i)
                THEN /\ JoinsFrom(items, i) = {i + 1} \cup JoinsFrom(items, i + 1)
                     /\ Cardinality(JoinsFrom(items, i)) = 1 + Cardinality(JoinsFrom(items, i + 1))
                ELSE JoinsFrom(items, i) = JoinsFrom(items, i + 1)
  <2>1. (i + 1) - 1 = i /\ (i + 1) + 1 = i + 2 /\ i + 1 \in 1 .. n + 1
    BY <1>1
  <2>2. i + 1 \in Joins(items) <=> IsA(items, i, "filter") /\ Joined(items, i)
    BY <2>1 DEF Joins, Joined, IsA
  <2>3. \A j \in Joins(items) : j \in Nat
    BY <1>1 DEF Joins
  <2>4. \A j \in Joins(items) : j > i <=> j = i + 1 \/ j > i + 1
    BY <1>1, <2>3
  <2>5. CASE i + 1 \in Joins(items)
    <3>1. JoinsFrom(items, i) = {i + 1} \cup JoinsFrom(items, i + 1)
      BY <2>4, <2>5 DEF JoinsFrom
    <3>2. i + 1 \notin JoinsFrom(items, i + 1)
      BY <1>1 DEF JoinsFrom
    <3>3. Cardinality(JoinsFrom(items, i + 1) \cup {i + 1}) = Cardinality(JoinsFrom(items, i + 1)) + 1
      BY <1>5, <2>1, <3>2, FS_AddElement
    <3>4. Cardinality(JoinsFrom(items, i)) = 1 + Cardinality(JoinsFrom(items, i + 1))
      <4>1. JoinsFrom(items, i) = JoinsFrom(items, i + 1) \cup {i + 1}
        BY <3>1
      <4> QED
        BY <1>5, <2>1, <3>3, <4>1
    <3> QED
      BY <2>2, <2>5, <3>1, <3>4
  <2>6. CASE i + 1 \notin Joins(items)
    <3>1. JoinsFrom(items, i) = JoinsFrom(items, i + 1)
      BY <2>4, <2>6 DEF JoinsFrom
    <3> QED
      BY <2>2, <2>6, <3>1
  <2> QED
    BY <2>5, <2>6
<1> QED
  BY <1>3, <1>4, <1>5, <1>6

\* Two filters are next to each other in a chain.
Neighbours(chain, x, y) ==
    \E k \in DOMAIN chain : chain[k] = x /\ k + 1 \in DOMAIN chain /\ chain[k + 1] = y

ChainOfFilters(items, i, chain) ==
    /\ chain[1] = items[i]
    /\ FiltersFrom(items, i) = chain \o FiltersFrom(items, Behind(items, i))
    /\ Cardinality(JoinsFrom(items, i)) = Len(chain) - 1 + Cardinality(JoinsFrom(items, Behind(items, i)))
    /\ \A j \in JoinsFrom(items, i) : \/ j \in JoinsFrom(items, Behind(items, i))
                                      \/ Neighbours(chain, items[j - 1], items[j + 1])

\* One filter before another chain.
LEMMA ChainLonger ==
    ASSUME NEW S, NEW x \in S, NEW s \in Seq(S)
    PROVE  LET c == <<x>> \o s
           IN /\ c \in Seq(S) /\ Len(c) = 1 + Len(s) /\ c[1] = x
              /\ \A k \in DOMAIN s : k + 1 \in DOMAIN c /\ c[k + 1] = s[k]
              /\ \A y, z : Neighbours(s, y, z) => Neighbours(c, y, z)
              /\ s # <<>> => Neighbours(c, x, s[1])
<1> PICK c, n : c = <<x>> \o s /\ n = Len(s)
  OBVIOUS
<1>1. n \in Nat /\ DOMAIN s = 1 .. n
  BY LenProperties
<1>2. <<x>> \in Seq(S) /\ Len(<<x>>) = 1 /\ <<x>>[1] = x
  OBVIOUS
<1>3. c \in Seq(S) /\ Len(c) = 1 + n
  BY <1>2, ConcatProperties
<1>4. DOMAIN c = 1 .. n + 1
  BY <1>1, <1>3, LenProperties
<1>5. \A i \in 1 .. 1 + n : c[i] = IF i <= 1 THEN <<x>>[i] ELSE s[i - 1]
  BY <1>2, ConcatProperties
<1>6. c[1] = x /\ 1 \in DOMAIN c
  BY <1>1, <1>2, <1>4, <1>5
<1>7. ASSUME NEW k \in 1 .. n PROVE k + 1 \in DOMAIN c /\ c[k + 1] = s[k]
  <2>1. k + 1 \in 1 .. 1 + n /\ ~ (k + 1 <= 1) /\ (k + 1) - 1 = k
    BY <1>1
  <2> QED
    BY <1>4, <1>5, <2>1
<1>8. ASSUME NEW y, NEW z, Neighbours(s, y, z) PROVE Neighbours(c, y, z)
  <2> PICK k \in DOMAIN s : s[k] = y /\ k + 1 \in DOMAIN s /\ s[k + 1] = z
    BY <1>8 DEF Neighbours
  <2> PICK j : j = k + 1
    OBVIOUS
  <2>1. j \in DOMAIN c /\ c[j] = y
    BY <1>1, <1>7
  <2>2. j + 1 \in DOMAIN c /\ c[j + 1] = z
    BY <1>1, <1>7
  <2> QED
    BY <2>1, <2>2 DEF Neighbours
<1>9. s # <<>> => Neighbours(c, x, s[1])
  <2> SUFFICES ASSUME s # <<>> PROVE Neighbours(c, x, s[1])
    OBVIOUS
  <2>1. n # 0
    BY EmptySeq
  <2>2. 1 \in 1 .. n
    BY <1>1, <2>1
  <2>3. 1 + 1 \in DOMAIN c /\ c[1 + 1] = s[1]
    BY <1>7, <2>2
  <2> QED
    BY <1>6, <2>3 DEF Neighbours
<1> QED
  BY <1>1, <1>3, <1>6, <1>7, <1>8, <1>9

\* The chain from a filter has the filters up to its end, and joins are inside it.
LEMMA ChainHasAll ==
    ASSUME NEW S, NEW items \in Seq(S)
    PROVE  \A i \in 1 .. Len(items) :
              IsA(items, i, "filter") => ChainOfFilters(items, i, Chains(items)[i])
<1>0. \A a, b, d \in Seq(S) : (a \o b) \o d = a \o (b \o d)
  BY ConcatAssociative
<1> PICK n, c : n = Len(items) /\ c = Chains(items)
  OBVIOUS
<1>1. n \in Nat /\ DOMAIN items = 1 .. n /\ \A i \in 1 .. n : items[i] \in S
  BY LenProperties
<1>2. \A i \in 1 .. n : c[i] \in Seq(S) /\ Len(c[i]) \in Nat \ {0}
  BY ChainSteps, ChainEnds
<1> DEFINE Good(i) == i # n + 1 /\ IsA(items, i, "filter") => ChainOfFilters(items, i, c[i])
           U == {i \in 1 .. n + 1 : Good(i)}
<1>3. ASSUME NEW i \in 1 .. n, \A j \in i + 1 .. n + 1 : Good(j), IsA(items, i, "filter")
      PROVE  ChainOfFilters(items, i, c[i])
  <2> PICK x, e : x = items[i] /\ e = Behind(items, i)
    OBVIOUS
  <2>1. x \in S /\ i + 1 \in 1 .. n + 1 /\ FilterHere(items, i) = <<x>>
    BY <1>1, <1>3 DEF FilterHere, IsA
  <2>2. FiltersFrom(items, i) = <<x>> \o FiltersFrom(items, i + 1)
    BY <2>1, FiltersNext
  <2>3. CASE Joined(items, i)
    <3> PICK k : k = i + 2
      OBVIOUS
    <3>1. k \in DOMAIN items /\ IsA(items, k, "filter") /\ i + 1 \in DOMAIN items
      BY <2>3 DEF Joined, IsA
    <3>2. k \in 1 .. n /\ i + 1 \in 1 .. n /\ k \in i + 1 .. n + 1 /\ k # n + 1 /\ (i + 1) + 1 = k
      BY <1>1, <3>1
    <3>0. PICK s : s = c[k]
      OBVIOUS
    <3>3. ChainOfFilters(items, k, s)
      BY <1>3, <3>0, <3>1, <3>2
    <3>4. s \in Seq(S) /\ Len(s) \in Nat \ {0} /\ c[i] = <<x>> \o s
      BY <1>2, <2>3, <3>0, <3>2, ChainSteps
    <3>5. Behind(items, k) = e /\ e \in 1 .. n + 1
      <4>1. e \in i + 1 .. n + 1 /\ e = Behind(items, i + 2)
        BY <2>3, ChainEnds
      <4> QED
        BY <1>1, <4>1
    <3>6. items[i + 1].item = "or"
      BY <2>3 DEF Joined, IsA
    <3>7. FiltersFrom(items, i + 1) = FiltersFrom(items, k)
      <4>1. FilterHere(items, i + 1) = <<>>
        BY <3>6 DEF FilterHere
      <4> PICK m : m = i + 1
        OBVIOUS
      <4>2. FiltersFrom(items, m) = FilterHere(items, m) \o FiltersFrom(items, m + 1)
        BY <3>2, FiltersNext
      <4>3. FiltersFrom(items, k) \in Seq(S)
        <5>1. k \in 1 .. Len(items) + 1
          BY <1>1, <3>2
        <5> QED
          BY <5>1, FiltersNext
      <4> QED
        BY <3>2, <4>1, <4>2, <4>3, ConcatEmptySeq
    <3>8. FiltersFrom(items, i) = c[i] \o FiltersFrom(items, e)
      <4>0. PICK r : r = FiltersFrom(items, e)
        OBVIOUS
      <4>1. r \in Seq(S) /\ <<x>> \in Seq(S)
        BY <2>1, <3>5, <4>0, FiltersNext
      <4>2. FiltersFrom(items, k) = s \o r
        BY <3>3, <3>5, <4>0 DEF ChainOfFilters
      <4>3. (<<x>> \o s) \o r = <<x>> \o (s \o r)
        <5>1. PICK one : one = <<x>>
          OBVIOUS
        <5>2. one \in Seq(S)
          BY <4>1, <5>1
        <5>3. (one \o s) \o r = one \o (s \o r)
          BY <1>0, <3>4, <4>1, <5>2
        <5> QED
          BY <5>1, <5>3
      <4> QED
        BY <2>2, <3>4, <3>7, <4>0, <4>2, <4>3
    <3>9. /\ JoinsFrom(items, i) = {i + 1} \cup JoinsFrom(items, i + 1)
          /\ Cardinality(JoinsFrom(items, i)) = 1 + Cardinality(JoinsFrom(items, i + 1))
      BY <1>3, <2>3, JoinsNext
    <3>10. JoinsFrom(items, i + 1) = JoinsFrom(items, k)
      <4> PICK m : m = i + 1
        OBVIOUS
      <4>1. ~ IsA(items, m, "filter")
        BY <3>6 DEF IsA
      <4>2. JoinsFrom(items, m) = JoinsFrom(items, m + 1)
        BY <3>2, <4>1, JoinsNext
      <4> QED
        BY <3>2, <4>2
    <3>11. /\ c[i][1] = x /\ Len(c[i]) = 1 + Len(s) /\ Neighbours(c[i], x, s[1])
           /\ \A y, z : Neighbours(s, y, z) => Neighbours(c[i], y, z)
      <4>1. s # <<>>
        BY <3>4
      <4> QED
        BY <2>1, <3>4, <4>1, ChainLonger
    <3>12. Cardinality(JoinsFrom(items, i)) = Len(c[i]) - 1 + Cardinality(JoinsFrom(items, e))
      <4>1. Cardinality(JoinsFrom(items, k)) = Len(s) - 1 + Cardinality(JoinsFrom(items, e))
        BY <3>3, <3>5 DEF ChainOfFilters
      <4>2. Cardinality(JoinsFrom(items, e)) \in Nat
        BY <3>5, JoinsNext
      <4> PICK a, b : a = Cardinality(JoinsFrom(items, e)) /\ b = Len(s)
        OBVIOUS
      <4>3. Cardinality(JoinsFrom(items, i)) = 1 + (b - 1 + a) /\ Len(c[i]) = 1 + b
        BY <3>9, <3>10, <3>11, <4>1
      <4>4. 1 + (b - 1 + a) = (1 + b) - 1 + a
        BY <3>4, <4>2
      <4> QED
        BY <4>3, <4>4
    <3>13. ASSUME NEW j \in JoinsFrom(items, i)
           PROVE  \/ j \in JoinsFrom(items, e)
                  \/ Neighbours(c[i], items[j - 1], items[j + 1])
      <4>1. CASE j = i + 1
        <5>1. items[j - 1] = x /\ items[j + 1] = items[k] /\ s[1] = items[k]
          <6>1. j - 1 = i /\ j + 1 = k
            BY <4>1
          <6>2. s[1] = items[k]
            BY <3>3 DEF ChainOfFilters
          <6> QED
            BY <6>1, <6>2
        <5> QED
          BY <3>11, <5>1
      <4>2. CASE j \in JoinsFrom(items, k)
        <5>1. j \in JoinsFrom(items, e) \/ Neighbours(s, items[j - 1], items[j + 1])
          BY <3>3, <3>5, <4>2 DEF ChainOfFilters
        <5> QED
          BY <3>11, <5>1
      <4> QED
        BY <3>9, <3>10, <4>1, <4>2
    <3> QED
      BY <3>8, <3>11, <3>12, <3>13 DEF ChainOfFilters
  <2>4. CASE ~ Joined(items, i)
    <3>1. c[i] = <<x>>
      BY <2>4, ChainSteps
    <3>2. Len(c[i]) = 1 /\ e = i + 1 /\ c[i][1] = x
      BY <3>1 DEF Behind
    <3>3. JoinsFrom(items, i) = JoinsFrom(items, e)
      BY <2>4, <3>2, JoinsNext
    <3>4. Cardinality(JoinsFrom(items, e)) \in Nat
      BY <2>1, <3>2, JoinsNext
    <3>5. Cardinality(JoinsFrom(items, i)) = Len(c[i]) - 1 + Cardinality(JoinsFrom(items, e))
      BY <3>2, <3>3, <3>4
    <3> QED
      BY <2>2, <3>1, <3>2, <3>3, <3>5 DEF ChainOfFilters
  <2> QED
    BY <2>3, <2>4
<1>4. \A i \in 1 .. n : Good(i)
  <2>1. \A i \in 1 .. n : (\A j \in i + 1 .. n + 1 : Good(j)) => Good(i)
    BY <1>3
  <2>2. Good(n + 1)
    OBVIOUS
  <2> HIDE DEF Good
  <2>3. n + 1 \in U
    BY <1>1, <2>2
  <2>4. \A i \in 1 .. n : (\A j \in i + 1 .. n + 1 : j \in U) => i \in U
    <3> SUFFICES ASSUME NEW i \in 1 .. n, \A j \in i + 1 .. n + 1 : j \in U PROVE Good(i)
      BY <1>1
    <3>1. \A j \in i + 1 .. n + 1 : Good(j)
      OBVIOUS
    <3> QED
      BY <2>1, <3>1
  <2> HIDE DEF U
  <2>5. 1 .. n + 1 \subseteq U
    BY <1>1, <2>3, <2>4, DownFrom
  <2>6. \A i \in 1 .. n : i \in 1 .. n + 1
    BY <1>1
  <2>7. \A i \in 1 .. n : i \in U
    BY <2>5, <2>6
  <2> USE DEF U
  <2> QED
    BY <2>7
<1>5. \A i \in 1 .. n : i # n + 1
  BY <1>1
<1> QED
  BY <1>4, <1>5

QueryFrom(items, i, query) ==
    /\ FlattenSeq(query.clauses) = FiltersFrom(items, i)
    /\ Len(query.clauses) = Len(FiltersFrom(items, i)) - Cardinality(JoinsFrom(items, i))
    /\ Len(query.terms) =
          Len(items) + 1 - i - Len(FiltersFrom(items, i)) - Cardinality(JoinsFrom(items, i))
    /\ \A j \in JoinsFrom(items, i) : \E c \in DOMAIN query.clauses :
          Neighbours(query.clauses[c], items[j - 1], items[j + 1])

\* A clause before others.
LEMMA FirstClause ==
    ASSUME NEW T, NEW x \in T, NEW s \in Seq(T)
    PROVE  LET c == <<x>> \o s
           IN /\ Len(s) \in Nat /\ Len(c) = 1 + Len(s) /\ 1 \in DOMAIN c /\ c[1] = x
              /\ \A k \in DOMAIN s : k + 1 \in DOMAIN c /\ c[k + 1] = s[k]
<1> PICK c, n : c = <<x>> \o s /\ n = Len(s)
  OBVIOUS
<1>1. n \in Nat /\ DOMAIN s = 1 .. n
  BY LenProperties
<1>2. c \in Seq(T) /\ Len(c) = 1 + n /\ c[1] = x /\ \A k \in DOMAIN s : k + 1 \in DOMAIN c /\ c[k + 1] = s[k]
  BY ChainLonger
<1>3. 1 \in DOMAIN c
  BY <1>1, <1>2, LenProperties
<1> QED
  BY <1>1, <1>2, <1>3

\* Each item has its effect on the query, and in its place.
LEMMA QueryHasAll ==
    ASSUME NEW S, NEW items \in Seq(S)
    PROVE  \A i \in 1 .. Len(items) + 1 : QueryFrom(items, i, Froms(items)[i])
<1> PICK n, q : n = Len(items) /\ q = Froms(items)
  OBVIOUS
<1>1. n \in Nat /\ DOMAIN items = 1 .. n /\ \A i \in 1 .. n : items[i] \in S
  BY LenProperties
<1> DEFINE Good(i) == QueryFrom(items, i, q[i])
           U == {i \in 1 .. n + 1 : Good(i)}
<1>2. Good(n + 1)
  <2>1. q[n + 1] = NoQuery /\ FiltersFrom(items, n + 1) = <<>> /\ JoinsFrom(items, n + 1) = {}
    BY FromSteps, FiltersNext, JoinsNext
  <2>2. FlattenSeq(<<>>) = <<>> /\ Len(<<>>) = 0
    BY DEF FlattenSeq
  <2>3. Cardinality({}) = 0
    BY FS_EmptySet
  <2>4. q[n + 1].clauses = <<>> /\ q[n + 1].terms = <<>>
    BY <2>1 DEF NoQuery
  <2>5. 0 = 0 - 0 /\ 0 = n + 1 - (n + 1) - 0 - 0
    BY <1>1
  <2>6. FlattenSeq(q[n + 1].clauses) = FiltersFrom(items, n + 1)
    BY <2>1, <2>2, <2>4
  <2>7. /\ Len(q[n + 1].clauses) = 0 /\ Len(q[n + 1].terms) = 0
        /\ Len(FiltersFrom(items, n + 1)) = 0 /\ Cardinality(JoinsFrom(items, n + 1)) = 0
    BY <2>1, <2>2, <2>3, <2>4
  <2> QED
    BY <2>1, <2>5, <2>6, <2>7 DEF QueryFrom
<1>3. ASSUME NEW i \in 1 .. n, \A j \in i + 1 .. n + 1 : Good(j) PROVE Good(i)
  <2> PICK e : e = FromNext(items, i)
    OBVIOUS
  <2>1. e \in i + 1 .. n + 1 /\ e \in 1 .. n + 1
    <3>1. e \in i + 1 .. n + 1
      BY <1>1, ChainEnds DEF FromNext
    <3> QED
      BY <1>1, <3>1
  <2>0. PICK rest : rest = q[e]
    OBVIOUS
  <2>2. rest \in QueryOf(S) /\ QueryFrom(items, e, rest) /\ q[i] = FromStep(items, i, rest)
    BY <1>3, <2>0, <2>1, FromSteps
  <2>3. rest.clauses \in Seq(Seq(S)) /\ rest.terms \in Seq(S \cup {TextTerm(FALSE, <<"OR">>, FALSE)})
    BY <2>2 DEF QueryOf
  <2>9. PICK r, t : r = rest.clauses /\ t = rest.terms
    OBVIOUS
  <2>8. /\ IF IsA(items, i, "filter")
             THEN q[i].clauses = <<Chains(items)[i]>> \o r /\ q[i].terms = t
             ELSE q[i].terms = <<TermOf(items, i)>> \o t /\ q[i].clauses = r
    <3>1. IF IsA(items, i, "filter")
            THEN /\ FromStep(items, i, rest).clauses = <<Chains(items)[i]>> \o rest.clauses
                 /\ FromStep(items, i, rest).terms = rest.terms
            ELSE /\ FromStep(items, i, rest).terms = <<TermOf(items, i)>> \o rest.terms
                 /\ FromStep(items, i, rest).clauses = rest.clauses
      <4>1. rest \in QueryOf(S) /\ i \in 1 .. Len(items)
        BY <2>2
      <4> QED
        BY <4>1, QueryGrows
    <3> QED
      BY <2>2, <2>9, <3>1
  <2>4. FiltersFrom(items, e) \in Seq(S) /\ Len(FiltersFrom(items, e)) \in Nat
    BY <2>1, FiltersNext, LenProperties
  <2>5. Cardinality(JoinsFrom(items, e)) \in Nat
    BY <2>1, JoinsNext
  <2>6. CASE IsA(items, i, "filter")
    <3>0. PICK c : c = Chains(items)[i]
      OBVIOUS
    <3>1. c \in Seq(S) /\ Len(c) \in Nat \ {0} /\ e = i + 2 * Len(c) - 1 /\ e = Behind(items, i)
      BY <2>6, <3>0, ChainSteps, ChainEnds DEF FromNext, Behind
    <3>2. q[i].clauses = <<c>> \o rest.clauses /\ q[i].terms = rest.terms
      BY <2>6, <2>8, <2>9, <3>0
    <3>3. ChainOfFilters(items, i, c)
      BY <2>6, <3>0, ChainHasAll
    <3>4. FlattenSeq(q[i].clauses) = c \o FlattenSeq(rest.clauses)
      <4>1. r \in Seq(Seq(S)) /\ c \in Seq(S) /\ q[i].clauses = <<c>> \o r
        BY <2>3, <2>9, <3>1, <3>2
      <4>2. FlattenSeq(<<c>> \o r) = c \o FlattenSeq(r)
        BY <4>1, FlattenFirst
      <4> QED
        BY <2>9, <4>1, <4>2
    <3>5. /\ Len(rest.clauses) \in Nat /\ Len(q[i].clauses) = 1 + Len(rest.clauses)
          /\ 1 \in DOMAIN q[i].clauses /\ q[i].clauses[1] = c
          /\ \A k \in DOMAIN rest.clauses :
                k + 1 \in DOMAIN q[i].clauses /\ q[i].clauses[k + 1] = rest.clauses[k]
      <4>0. PICK T, all : T = Seq(S) /\ all = q[i].clauses
        OBVIOUS
      <4>1. r \in Seq(T) /\ c \in T /\ all = <<c>> \o r
        BY <2>3, <2>9, <3>1, <3>2, <4>0
      <4>2. /\ Len(r) \in Nat /\ Len(all) = 1 + Len(r) /\ 1 \in DOMAIN all /\ all[1] = c
            /\ \A k \in DOMAIN r : k + 1 \in DOMAIN all /\ all[k + 1] = r[k]
        <5>1. /\ Len(r) \in Nat /\ Len(<<c>> \o r) = 1 + Len(r)
              /\ 1 \in DOMAIN (<<c>> \o r) /\ (<<c>> \o r)[1] = c
              /\ \A k \in DOMAIN r : k + 1 \in DOMAIN (<<c>> \o r) /\ (<<c>> \o r)[k + 1] = r[k]
          BY <4>1, FirstClause
        <5> QED
          BY <4>1, <5>1
      <4> QED
        BY <2>9, <4>0, <4>2
    <3>6. FlattenSeq(q[i].clauses) = FiltersFrom(items, i)
      BY <2>2, <3>1, <3>3, <3>4 DEF QueryFrom, ChainOfFilters
    <3>7. Len(FiltersFrom(items, i)) = Len(c) + Len(FiltersFrom(items, e))
      <4> PICK f : f = FiltersFrom(items, e)
        OBVIOUS
      <4>1. f \in Seq(S) /\ FiltersFrom(items, i) = c \o f
        BY <2>4, <3>1, <3>3 DEF ChainOfFilters
      <4>2. Len(c \o f) = Len(c) + Len(f)
        BY <3>1, <4>1, ConcatProperties
      <4> QED
        BY <4>1, <4>2
    <3>8. Cardinality(JoinsFrom(items, i)) = Len(c) - 1 + Cardinality(JoinsFrom(items, e))
      BY <3>1, <3>3 DEF ChainOfFilters
    <3>9. /\ Len(q[i].clauses) = Len(FiltersFrom(items, i)) - Cardinality(JoinsFrom(items, i))
          /\ Len(q[i].terms) =
                n + 1 - i - Len(FiltersFrom(items, i)) - Cardinality(JoinsFrom(items, i))
      <4>0. PICK l, f, j : /\ l = Len(c) /\ f = Len(FiltersFrom(items, e))
                         /\ j = Cardinality(JoinsFrom(items, e))
        OBVIOUS
      <4>5. i \in Nat /\ n \in Nat
        BY <1>1
      <4>6. Len(c) \in Nat
        BY <3>1
      <4>1. l \in Nat /\ f \in Nat /\ j \in Nat /\ i \in Nat /\ n \in Nat
        BY <2>4, <2>5, <4>0, <4>5, <4>6, Zenon
      <4>2. Len(q[i].clauses) = 1 + (f - j)
        BY <2>2, <3>5, <4>0 DEF QueryFrom
      <4>3. Len(q[i].terms) = n + 1 - (i + 2 * l - 1) - f - j
        BY <2>2, <3>1, <3>2, <4>0 DEF QueryFrom
      <4>4. /\ 1 + (f - j) = (l + f) - (l - 1 + j)
            /\ n + 1 - (i + 2 * l - 1) - f - j = n + 1 - i - (l + f) - (l - 1 + j)
        <5>1. \A a, b, d, g, h \in Nat :
                 /\ 1 + (d - g) = (b + d) - (b - 1 + g)
                 /\ h + 1 - (a + 2 * b - 1) - d - g = h + 1 - a - (b + d) - (b - 1 + g)
          OBVIOUS
        <5> QED
          BY <4>1, <5>1
      <4> QED
        BY <3>7, <3>8, <4>0, <4>2, <4>3, <4>4
    <3>10. ASSUME NEW j \in JoinsFrom(items, i)
           PROVE  \E k \in DOMAIN q[i].clauses : Neighbours(q[i].clauses[k], items[j - 1], items[j + 1])
      <4>1. CASE Neighbours(c, items[j - 1], items[j + 1])
        BY <3>5, <4>1
      <4>2. CASE j \in JoinsFrom(items, e)
        <5>1. PICK k \in DOMAIN rest.clauses : Neighbours(rest.clauses[k], items[j - 1], items[j + 1])
          BY <2>2, <4>2 DEF QueryFrom
        <5> PICK m : m = k + 1
          OBVIOUS
        <5>2. m \in DOMAIN q[i].clauses /\ q[i].clauses[m] = rest.clauses[k]
          BY <3>5
        <5> QED
          BY <5>1, <5>2
      <4> QED
        BY <3>1, <3>3, <4>1, <4>2 DEF ChainOfFilters
    <3> QED
      BY <3>6, <3>9, <3>10 DEF QueryFrom
  <2>7. CASE ~ IsA(items, i, "filter")
    <3>1. e = i + 1
      BY <2>7 DEF FromNext
    <3>2. q[i].terms = <<TermOf(items, i)>> \o rest.terms /\ q[i].clauses = rest.clauses
      BY <2>7, <2>8, <2>9
    <3>3. FiltersFrom(items, i) = FiltersFrom(items, e)
      <4>1. FilterHere(items, i) = <<>>
        BY <1>1, <2>7 DEF FilterHere, IsA
      <4> QED
        <5>1. FiltersFrom(items, i) = FilterHere(items, i) \o FiltersFrom(items, i + 1)
          BY FiltersNext
        <5>2. <<>> \o FiltersFrom(items, e) = FiltersFrom(items, e)
          BY <2>4, ConcatEmptySeq
        <5> QED
          BY <3>1, <4>1, <5>1, <5>2
    <3>4. JoinsFrom(items, i) = JoinsFrom(items, e)
      BY <2>7, <3>1, JoinsNext
    <3>5. Len(rest.terms) \in Nat /\ Len(q[i].terms) = 1 + Len(rest.terms)
      <4> PICK R, term : R = S \cup {TextTerm(FALSE, <<"OR">>, FALSE)} /\ term = TermOf(items, i)
        OBVIOUS
      <4>1. term \in R
        BY <1>1 DEF TermOf
      <4> QED
        BY <2>3, <3>2, <4>1, FirstClause
    <3>6. Len(q[i].terms) =
             n + 1 - i - Len(FiltersFrom(items, i)) - Cardinality(JoinsFrom(items, i))
      <4> PICK f, j : f = Len(FiltersFrom(items, e)) /\ j = Cardinality(JoinsFrom(items, e))
        OBVIOUS
      <4>1. f \in Nat /\ j \in Nat /\ i \in Nat /\ n \in Nat
        BY <1>1, <2>4, <2>5
      <4>2. Len(q[i].terms) = 1 + (n + 1 - (i + 1) - f - j)
        BY <2>2, <3>1, <3>5 DEF QueryFrom
      <4>3. 1 + (n + 1 - (i + 1) - f - j) = n + 1 - i - f - j
        BY <4>1
      <4> QED
        BY <3>3, <3>4, <4>2, <4>3
    <3> QED
      BY <2>2, <3>2, <3>3, <3>4, <3>6 DEF QueryFrom
  <2> QED
    BY <2>6, <2>7
<1>4. 1 .. n + 1 \subseteq U
  <2> HIDE DEF Good
  <2>1. n + 1 \in U
    BY <1>1, <1>2
  <2>2. \A i \in 1 .. n : (\A j \in i + 1 .. n + 1 : j \in U) => i \in U
    <3> SUFFICES ASSUME NEW i \in 1 .. n, \A j \in i + 1 .. n + 1 : j \in U PROVE Good(i)
      BY <1>1
    <3>1. \A j \in i + 1 .. n + 1 : Good(j)
      OBVIOUS
    <3> QED
      BY <1>3, <3>1
  <2> HIDE DEF U
  <2> QED
    BY <1>1, <2>1, <2>2, DownFrom
<1> QED
  BY <1>4

-----------------------------------------------------------------------------
(* Tokens.                                                                 *)

ReadStep(state, c) ==
    IF c = "\"" THEN [state EXCEPT !.current = Append(@, c), !.quoted = ~ @]
    ELSE IF c = " " /\ ~ state.quoted
      THEN [state EXCEPT !.tokens = IF state.current = <<>> THEN @ ELSE Append(@, state.current),
                         !.current = <<>>]
      ELSE [state EXCEPT !.current = Append(@, c)]

Unread == [tokens |-> <<>>, current |-> <<>>, quoted |-> FALSE]

Reading(text) == CHOOSE read : read = [i \in 0 .. Len(text) |->
                    IF i = 0 THEN Unread ELSE ReadStep(read[i - 1], text[i])]

LEMMA TokenizeReads ==
    ASSUME NEW text
    PROVE  LET end == Reading(text)[Len(text)]
           IN Tokenize(text) = IF end.current = <<>> THEN end.tokens ELSE Append(end.tokens, end.current)
BY DEF Tokenize, Reading, ReadStep, Unread

\* The states of the tokenizer.
ReadState(A) == [tokens : Seq(Seq(A)), current : Seq(A), quoted : BOOLEAN]

LEMMA ReadStays ==
    ASSUME NEW A, NEW c \in A, NEW state \in ReadState(A) PROVE ReadStep(state, c) \in ReadState(A)
<1>1. /\ state = [tokens |-> state.tokens, current |-> state.current, quoted |-> state.quoted]
      /\ state.tokens \in Seq(Seq(A)) /\ state.current \in Seq(A) /\ state.quoted \in BOOLEAN
  BY DEF ReadState
<1>2. Append(state.current, c) \in Seq(A) /\ Append(state.tokens, state.current) \in Seq(Seq(A))
  BY <1>1
<1>3. <<>> \in Seq(A)
  OBVIOUS
<1>4. CASE c = "\""
  <2>1. ReadStep(state, c) =
           [tokens |-> state.tokens, current |-> Append(state.current, c), quoted |-> ~ state.quoted]
    BY <1>1, <1>4 DEF ReadStep
  <2> QED
    BY <1>1, <1>2, <2>1 DEF ReadState
<1>5. CASE c # "\"" /\ c = " " /\ ~ state.quoted
  <2>1. ReadStep(state, c) =
           [tokens |-> IF state.current = <<>> THEN state.tokens ELSE Append(state.tokens, state.current),
            current |-> <<>>, quoted |-> state.quoted]
    BY <1>1, <1>5 DEF ReadStep
  <2> QED
    BY <1>1, <1>2, <1>3, <2>1 DEF ReadState
<1>6. CASE c # "\"" /\ ~ (c = " " /\ ~ state.quoted)
  <2>1. ReadStep(state, c) =
           [tokens |-> state.tokens, current |-> Append(state.current, c), quoted |-> state.quoted]
    BY <1>1, <1>6 DEF ReadStep
  <2> QED
    BY <1>1, <1>2, <2>1 DEF ReadState
<1> QED
  BY <1>4, <1>5, <1>6

\* The tokens of a text are texts.
LEMMA Tokens == ASSUME NEW A, NEW text \in Seq(A) PROVE Tokenize(text) \in Seq(Seq(A))
<1>1. PICK n, T : n = Len(text) /\ T = ReadState(A)
  OBVIOUS
<1>2. n \in Nat /\ \A i \in 1 .. n : text[i] \in A
  BY <1>1, LenProperties
<1>3. Unread \in T
  BY <1>1 DEF Unread, ReadState
<1>4. PICK step : step = [x \in (1 .. n) \X T |-> ReadStep(x[2], text[x[1]])]
  OBVIOUS
<1>5. step \in [(1 .. n) \X T -> T]
  <2>1. ASSUME NEW i \in 1 .. n, NEW state \in T PROVE ReadStep(state, text[i]) \in T
    BY <1>1, <1>2, ReadStays
  <2> QED
    BY <1>4, <2>1
<1>6. PICK f : Stepwise(f, n, T, Unread, step)
  BY <1>2, <1>3, <1>5, StepByStep
<1>7. f \in [0 .. n -> T] /\ f[0] = Unread
  BY <1>6 DEF Stepwise
<1>8. ASSUME NEW i \in 1 .. n PROVE f[i] = ReadStep(f[i - 1], text[i])
  <2>1. PICK x : x = <<i, f[i - 1]>>
    OBVIOUS
  <2>2. f[i] = step[x]
    BY <1>6, <2>1 DEF Stepwise
  <2>3. i - 1 \in 0 .. n
    BY <1>2
  <2>4. x \in (1 .. n) \X T /\ x[1] = i /\ x[2] = f[i - 1]
    BY <1>7, <2>1, <2>3
  <2> QED
    BY <1>4, <2>2, <2>4
<1>9. f = [i \in 0 .. n |-> IF i = 0 THEN Unread ELSE ReadStep(f[i - 1], text[i])]
  <2>1. ASSUME NEW i \in 0 .. n
        PROVE  f[i] = IF i = 0 THEN Unread ELSE ReadStep(f[i - 1], text[i])
    <3>1. i # 0 => i \in 1 .. n
      BY <1>2
    <3> QED
      BY <1>7, <1>8, <3>1
  <2>2. f = [i \in 0 .. n |-> f[i]]
    BY <1>7
  <2> QED
    BY <2>1, <2>2, Zenon
<1>10. PICK h : h = Reading(text)
  OBVIOUS
<1>11. h = [i \in 0 .. n |-> IF i = 0 THEN Unread ELSE ReadStep(h[i - 1], text[i])]
  <2>1. Reading(text) = CHOOSE read : read = [i \in 0 .. n |->
                           IF i = 0 THEN Unread ELSE ReadStep(read[i - 1], text[i])]
    BY <1>1 DEF Reading
  <2> QED
    BY <1>9, <1>10, <2>1
<1>12. PICK U : U = {i \in 0 .. n : h[i] \in T}
  OBVIOUS
<1>13. 0 \in U
  BY <1>2, <1>3, <1>11, <1>12
<1>14. ASSUME NEW i \in 1 .. n, i - 1 \in U PROVE i \in U
  <2>1. h[i] = ReadStep(h[i - 1], text[i]) /\ i \in 0 .. n
    BY <1>2, <1>11
  <2>2. PICK state : state = h[i - 1]
    OBVIOUS
  <2>3. state \in ReadState(A) /\ text[i] \in A
    BY <1>1, <1>2, <1>12, <1>14, <2>2
  <2>4. ReadStep(state, text[i]) \in ReadState(A)
    BY <2>3, ReadStays
  <2> QED
    BY <1>1, <1>12, <2>1, <2>2, <2>4
<1>15. 0 .. n \subseteq U
  BY <1>2, <1>13, <1>14, UpTo
<1>16. PICK end : end = h[n]
  OBVIOUS
<1>17. end \in ReadState(A)
  BY <1>1, <1>2, <1>12, <1>15, <1>16
<1>18. Tokenize(text) = IF end.current = <<>> THEN end.tokens ELSE Append(end.tokens, end.current)
  BY <1>1, <1>10, <1>16, TokenizeReads
<1>19. end.tokens \in Seq(Seq(A)) /\ end.current \in Seq(A)
  BY <1>17 DEF ReadState
<1> QED
  BY <1>18, <1>19

\* A query has its items in sequence.
LEMMA ItemsInSequence ==
    ASSUME NEW A, NEW text \in Seq(A)
    PROVE  Items(text) \in Seq({Items(text)[i] : i \in DOMAIN Items(text)})
<1>1. PICK tokens, n : tokens = Tokenize(text) /\ n = Len(tokens)
  OBVIOUS
<1>2. tokens \in Seq(Seq(A))
  BY <1>1, Tokens
<1>3. n \in Nat /\ DOMAIN tokens = 1 .. n
  BY <1>1, <1>2, LenProperties
<1>4. PICK items : items = [i \in 1 .. n |-> ItemOf(tokens[i])]
  OBVIOUS
<1>5. Items(text) = items
  BY <1>1, <1>3, <1>4 DEF Items
<1>6. DOMAIN items = 1 .. n /\ items \in Seq({items[i] : i \in 1 .. n})
  BY <1>3, <1>4
<1> QED
  BY <1>5, <1>6

\* Parsing loses nothing of a text.
LEMMA ParseKeepsAll ==
    ASSUME typed.field = "search" => IsSequence(typed.text)
    PROVE  NothingLost
<1> SUFFICES ASSUME typed.field = "search" PROVE NothingLost
  BY DEF NothingLost
<1>1. PICK items, query : items = Items(typed.text) /\ query = Parse(typed.text)
  OBVIOUS
<1>2. PICK S, n : S = {items[i] : i \in DOMAIN items} /\ n = Len(items)
  OBVIOUS
<1>3. items \in Seq(S)
  <2>1. PICK A : A = {typed.text[i] : i \in DOMAIN typed.text}
    OBVIOUS
  <2>2. typed.text \in Seq(A)
    BY <2>1 DEF IsSequence
  <2> QED
    BY <1>1, <1>2, <2>2, ItemsInSequence
<1>4. n \in Nat /\ 1 \in 1 .. n + 1
  BY <1>2, <1>3, LenProperties
<1>5. query = Froms(items)[1]
  BY <1>1, BuildQueryFroms DEF Parse
<1>6. QueryFrom(items, 1, query)
  BY <1>2, <1>3, <1>4, <1>5, QueryHasAll
<1>7. FiltersFrom(items, 1) = Filters(items) /\ JoinsFrom(items, 1) = Joins(items)
  BY <1>3, FiltersNext, JoinsNext
<1>8. PICK f, j : f = Len(Filters(items)) /\ j = Cardinality(Joins(items))
  OBVIOUS
<1>9. f \in Nat /\ j \in Nat
  <2>1. Filters(items) \in Seq(S) /\ Cardinality(Joins(items)) \in Nat
    BY <1>2, <1>3, <1>4, <1>7, FiltersNext, JoinsNext
  <2> QED
    BY <1>8, <2>1, LenProperties
<1>10. /\ FlattenSeq(query.clauses) = Filters(items)
       /\ Len(query.clauses) = Len(Filters(items)) - Cardinality(Joins(items))
  BY <1>6, <1>7 DEF QueryFrom
<1>11. Len(query.terms) = Len(items) - Len(Filters(items)) - Cardinality(Joins(items))
  <2>1. Len(query.terms) = n + 1 - 1 - f - j
    BY <1>2, <1>6, <1>7, <1>8 DEF QueryFrom
  <2>2. n + 1 - 1 - f - j = n - f - j
    BY <1>4, <1>9
  <2> QED
    BY <1>2, <1>8, <2>1, <2>2
<1>12. \A i \in Joins(items) : \E c \in DOMAIN query.clauses : \E k \in DOMAIN query.clauses[c] :
          query.clauses[c][k] = items[i - 1] /\ k + 1 \in DOMAIN query.clauses[c]
          /\ query.clauses[c][k + 1] = items[i + 1]
  BY <1>6, <1>7 DEF QueryFrom, Neighbours
<1> QED
  BY <1>1, <1>10, <1>11, <1>12 DEF NothingLost, Joins

-----------------------------------------------------------------------------
(* Days.                                                                   *)

\* A second is in the day that began before it.
LEMMA DayOfSecond ==
    ASSUME NEW second \in Nat, NEW length \in Nat \ {0}, NEW day \in Int
    PROVE  (second - 1) \div length = day <=> day * length < second /\ second <= (day + 1) * length
<1>1. (day + 1) * length = day * length + length
  OBVIOUS
<1>2. (second - 1) \div length = day <=> day * length < second /\ second <= day * length + length
  OBVIOUS
<1> QED
  BY <1>1, <1>2

\* updated:<op>word of a row whose time is second.
LEMMA HoldsDate ==
    ASSUME NEW ticket, NEW second \in Nat, ticket["updated"] = second, NEW word \in DOMAIN Days
    PROVE  /\ Holds(Filter(FALSE, Condition("updated", "<", <<word>>)), ticket)
                 <=> second <= Days[word] * DayLength
           /\ Holds(Filter(FALSE, Condition("updated", ">=", <<word>>)), ticket)
                 <=> ~ (second <= Days[word] * DayLength)
<1>1. Len(<<word>>) = 1 /\ Head(<<word>>) = word
  OBVIOUS
<1>2. ASSUME NEW op \in {"<", ">="}
      PROVE  /\ CompareDate(second, op, <<word>>) \in BOOLEAN
             /\ CompareDate(second, op, <<word>>) <=> (second <= Days[word] * DayLength <=> op = "<")
  BY <1>1, <1>2 DEF CompareDate
<1>3. ASSUME NEW op \in {"<", ">="}
      PROVE  Holds(Filter(FALSE, Condition("updated", op, <<word>>)), ticket)
                <=> CompareDate(second, op, <<word>>)
  <2>1. PICK condition : condition = Condition("updated", op, <<word>>)
    OBVIOUS
  <2>2. condition.key = "updated" /\ condition.op = op /\ condition.value = <<word>>
    BY <2>1 DEF Condition
  <2>3. Truth(condition, ticket) = CompareDate(second, op, <<word>>)
    BY <2>2 DEF Truth
  <2>4. PICK filter : filter = Filter(FALSE, condition)
    OBVIOUS
  <2>5. filter.condition = condition /\ filter.negated = FALSE
    BY <2>4 DEF Filter
  <2>6. Holds(filter, ticket) <=> Truth(condition, ticket) = TRUE
    BY <2>5 DEF Holds
  <2>7. CompareDate(second, op, <<word>>) \in BOOLEAN
    BY <1>2
  <2> QED
    BY <2>1, <2>3, <2>4, <2>6, <2>7
<1>4. CompareDate(second, "<", <<word>>) <=> second <= Days[word] * DayLength
  BY <1>2
<1>5. CompareDate(second, ">=", <<word>>) <=> ~ (second <= Days[word] * DayLength)
  BY <1>2
<1> QED
  BY <1>3, <1>4, <1>5

LEMMA DaysTiled ==
    ASSUME \A id \in DOMAIN tickets : tickets[id].updated_at \in Nat
    PROVE  DaysTile
<1> SUFFICES ASSUME NEW id \in DOMAIN tickets, NEW word \in DOMAIN Days, NEW next \in DOMAIN Days
    PROVE  LET Compares(op, w) == Holds(Filter(FALSE, Condition("updated", op, <<w>>)), Columns(id))
           IN /\ Compares(">=", word) <=> ~ Compares("<", word)
              /\ Days[next] = Days[word] + 1 =>
                   (Compares(">=", word) /\ Compares("<", next)
                      <=> (tickets[id].updated_at \div SecondLength - 1) \div DayLength = Days[word])
  BY DEF DaysTile
<1>1. PICK ticket, second : ticket = Columns(id) /\ second = tickets[id].updated_at \div SecondLength
  OBVIOUS
<1>2. second \in Nat
  BY <1>1, ListingAssumption
<1>3. ticket["updated"] = second
  BY <1>1 DEF Columns
<1>4. \A w \in DOMAIN Days :
         /\ Holds(Filter(FALSE, Condition("updated", "<", <<w>>)), ticket)
               <=> second <= Days[w] * DayLength
         /\ Holds(Filter(FALSE, Condition("updated", ">=", <<w>>)), ticket)
               <=> ~ (second <= Days[w] * DayLength)
  BY <1>2, <1>3, HoldsDate
<1>5. ASSUME Days[next] = Days[word] + 1
      PROVE  ~ (second <= Days[word] * DayLength) /\ second <= Days[next] * DayLength
                <=> (second - 1) \div DayLength = Days[word]
  <2>1. PICK day, length : day = Days[word] /\ length = DayLength
    OBVIOUS
  <2>2. day \in Int /\ length \in Nat \ {0}
    BY <2>1, SearchAssumption
  <2>3. (second - 1) \div length = day <=> day * length < second /\ second <= (day + 1) * length
    BY <1>2, <2>2, DayOfSecond
  <2>4. \A n \in Int : ~ (second <= n) <=> n < second
    BY <1>2
  <2>5. day * length \in Int
    BY <2>2
  <2>6. ~ (second <= day * length) <=> day * length < second
    BY <2>4, <2>5
  <2> QED
    BY <1>5, <2>1, <2>3, <2>6
<1> QED
  BY <1>1, <1>4, <1>5

-----------------------------------------------------------------------------
(* Sums, and what an estimation's display means.                           *)

Sums(s) == CHOOSE sum : sum = [i \in 0 .. Len(s) |-> IF i = 0 THEN 0 ELSE sum[i - 1] + s[i]]

\* The sum of a sequence of numbers, by its partial sums.
LEMMA SumSteps ==
    ASSUME NEW s \in Seq(Nat)
    PROVE  /\ SumOf(s) = Sums(s)[Len(s)] /\ Sums(s) \in [0 .. Len(s) -> Nat] /\ Sums(s)[0] = 0
           /\ \A i \in 1 .. Len(s) : Sums(s)[i] = Sums(s)[i - 1] + s[i]
<1>0. Len(s) \in Nat /\ \A i \in 1 .. Len(s) : s[i] \in Nat
  BY LenProperties
<1> PICK step : step = [x \in (1 .. Len(s)) \X Nat |-> x[2] + s[x[1]]]
  OBVIOUS
<1>1. step \in [(1 .. Len(s)) \X Nat -> Nat]
  BY <1>0
<1>2. PICK f \in [0 .. Len(s) -> Nat] :
         f[0] = 0 /\ \A i \in 1 .. Len(s) : f[i] = step[<<i, f[i - 1]>>]
  <2> PICK n \in Nat : n = Len(s)
    BY <1>0
  <2> PICK S, base : S = Nat /\ base = 0
    OBVIOUS
  <2>1. step \in [(1 .. n) \X S -> S] /\ base \in S
    BY <1>1
  <2>2. \E f : Stepwise(f, n, S, base, step)
    BY <2>1, StepByStep
  <2> QED
    BY <2>2 DEF Stepwise
<1>3. \A i \in 1 .. Len(s) : f[i] = f[i - 1] + s[i]
  <2> SUFFICES ASSUME NEW i \in 1 .. Len(s) PROVE f[i] = f[i - 1] + s[i]
    OBVIOUS
  <2> PICK x : x = <<i, f[i - 1]>>
    OBVIOUS
  <2>1. x \in (1 .. Len(s)) \X Nat /\ x[1] = i /\ x[2] = f[i - 1]
    <3>1. i - 1 \in 0 .. Len(s)
      BY <1>0
    <3> QED
      BY <3>1
  <2>2. f[i] = step[x]
    BY <1>2
  <2> QED
    BY <2>1, <2>2
<1>4. f = [i \in 0 .. Len(s) |-> IF i = 0 THEN 0 ELSE f[i - 1] + s[i]]
  <2>1. ASSUME NEW i \in 0 .. Len(s) PROVE f[i] = IF i = 0 THEN 0 ELSE f[i - 1] + s[i]
    <3>1. i = 0 \/ i \in 1 .. Len(s)
      BY <1>0
    <3> QED
      BY <1>2, <1>3, <3>1
  <2>2. f = [i \in 0 .. Len(s) |-> f[i]]
    BY <1>2
  <2> QED
    BY <2>1, <2>2, Zenon
<1>5. Sums(s) = [i \in 0 .. Len(s) |-> IF i = 0 THEN 0 ELSE Sums(s)[i - 1] + s[i]]
  BY <1>4 DEF Sums
<1> PICK sums : sums = Sums(s)
  OBVIOUS
<1>6. sums = [i \in 0 .. Len(s) |-> IF i = 0 THEN 0 ELSE sums[i - 1] + s[i]]
  BY <1>5
<1>7. sums[0] = 0 /\ \A i \in 1 .. Len(s) : sums[i] = sums[i - 1] + s[i]
  BY <1>0, <1>6
<1> DEFINE P == {i \in Nat : i <= Len(s) => sums[i] \in Nat}
<1>8. P = Nat
  <2>1. 0 \in P
    BY <1>7
  <2>2. ASSUME NEW i \in P PROVE i + 1 \in P
    <3>1. i + 1 <= Len(s) => i + 1 \in 1 .. Len(s) /\ (i + 1) - 1 = i /\ i <= Len(s)
      BY <1>0
    <3>2. i + 1 <= Len(s) => sums[i + 1] = sums[i] + s[i + 1] /\ sums[i] \in Nat
      BY <1>7, <3>1
    <3> QED
      BY <1>0, <3>1, <3>2
  <2> HIDE DEF P
  <2>3. P \in SUBSET Nat
    BY DEF P
  <2> QED
    BY <2>1, <2>2, <2>3, CountingUp
<1>9. sums \in [0 .. Len(s) -> Nat]
  <2>1. ASSUME NEW i \in 0 .. Len(s) PROVE sums[i] \in Nat
    <3>1. i \in P
      BY <1>0, <1>8
    <3> QED
      BY <1>0, <3>1
  <2> QED
    BY <1>6, <2>1
<1> QED
  BY <1>7, <1>9 DEF SumOf, Sums

LEMMA SumNext ==
    ASSUME NEW s \in Seq(Nat), NEW x \in Nat
    PROVE  SumOf(s) \in Nat /\ SumOf(Append(s, x)) = SumOf(s) + x
<1>1. PICK n, r, f, g : n = Len(s) /\ r = Append(s, x) /\ f = Sums(s) /\ g = Sums(r)
  OBVIOUS
<1>2. n \in Nat /\ r \in Seq(Nat) /\ Len(r) = n + 1 /\ r[n + 1] = x /\ \A i \in 1 .. n : r[i] = s[i]
  BY <1>1
<1>3. /\ SumOf(s) = f[n] /\ f \in [0 .. n -> Nat] /\ f[0] = 0
      /\ \A i \in 1 .. n : f[i] = f[i - 1] + s[i]
  BY <1>1, SumSteps
<1>4. /\ SumOf(r) = g[n + 1] /\ g[0] = 0 /\ \A i \in 1 .. n + 1 : g[i] = g[i - 1] + r[i]
  BY <1>1, <1>2, SumSteps
<1>5. PICK U : U = {i \in 0 .. n : g[i] = f[i]}
  OBVIOUS
<1>6. 0 \in U
  BY <1>2, <1>3, <1>4, <1>5
<1>7. ASSUME NEW i \in 1 .. n, i - 1 \in U PROVE i \in U
  <2>1. i \in 1 .. n + 1 /\ i \in 0 .. n
    BY <1>2
  <2>2. g[i] = g[i - 1] + s[i] /\ f[i] = f[i - 1] + s[i] /\ g[i - 1] = f[i - 1]
    BY <1>2, <1>3, <1>4, <1>5, <1>7, <2>1
  <2> QED
    BY <1>5, <2>1, <2>2
<1>8. n \in U
  <2>1. 0 .. n \subseteq U
    BY <1>2, <1>6, <1>7, UpTo
  <2> QED
    BY <1>2, <2>1
<1>9. f[n] \in Nat /\ g[n] = f[n]
  BY <1>2, <1>3, <1>5, <1>8
<1>10. g[n + 1] = g[n] + x
  <2>1. PICK k : k = n + 1
    OBVIOUS
  <2>2. k \in 1 .. n + 1 /\ k - 1 = n
    BY <1>2, <2>1
  <2>3. g[k] = g[k - 1] + r[k] /\ r[k] = x
    BY <1>2, <1>4, <2>1, <2>2
  <2> QED
    BY <2>1, <2>2, <2>3
<1> QED
  BY <1>1, <1>3, <1>4, <1>9, <1>10

LEMMA SumOfNone == SumOf(<<>>) = 0
<1>1. <<>> \in Seq(Nat) /\ Len(<<>>) = 0
  OBVIOUS
<1> QED
  BY <1>1, SumSteps

\* The parts that estimations are displayed with.
Parted == [number : Nat, unit : DOMAIN HoursPer]

Worths(parts) == [i \in DOMAIN parts |-> parts[i].number * HoursPer[parts[i].unit]]

LEMMA WorthOfUnit == \A unit \in DOMAIN HoursPer : HoursPer[unit] \in Nat
BY DEF HoursPer

LEMMA WorthsNext ==
    ASSUME NEW parts \in Seq(Parted), NEW part \in Parted
    PROVE  /\ Worths(parts) \in Seq(Nat)
           /\ Worths(parts \o <<part>>) = Append(Worths(parts), part.number * HoursPer[part.unit])
<1>1. PICK n, q : n = Len(parts) /\ q = parts \o <<part>>
  OBVIOUS
<1>2. n \in Nat /\ DOMAIN parts = 1 .. n /\ \A i \in 1 .. n : parts[i] \in Parted
  BY <1>1, LenProperties
<1>3. ASSUME NEW p \in Parted PROVE p.number * HoursPer[p.unit] \in Nat
  <2>1. p.number \in Nat /\ p.unit \in DOMAIN HoursPer
    BY DEF Parted
  <2>2. HoursPer[p.unit] \in Nat
    BY <2>1, WorthOfUnit
  <2>3. \A a, b \in Nat : a * b \in Nat
    OBVIOUS
  <2> QED
    BY <2>1, <2>2, <2>3
<1>4. PICK w : w = Worths(parts)
  OBVIOUS
<1>5. w = [i \in 1 .. n |-> parts[i].number * HoursPer[parts[i].unit]]
  BY <1>2, <1>4 DEF Worths
<1>6. w \in [1 .. n -> Nat]
  BY <1>2, <1>3, <1>5
<1>7. w \in Seq(Nat) /\ Len(w) = n
  BY <1>2, <1>6
<1>8. q \in Seq(Parted) /\ Len(q) = n + 1 /\ q[n + 1] = part /\ \A i \in 1 .. n : q[i] = parts[i]
  <2>1. PICK one : one = <<part>>
    OBVIOUS
  <2>2. one \in Seq(Parted) /\ Len(one) = 1 /\ one[1] = part
    BY <2>1
  <2>3. /\ q \in Seq(Parted) /\ Len(q) = n + 1
        /\ \A i \in 1 .. n + 1 : q[i] = IF i <= n THEN parts[i] ELSE one[i - n]
    BY <1>1, <2>1, <2>2, ConcatProperties
  <2>4. n + 1 \in 1 .. n + 1 /\ ~ (n + 1 <= n) /\ (n + 1) - n = 1
    BY <1>2
  <2>5. \A i \in 1 .. n : i \in 1 .. n + 1 /\ i <= n
    BY <1>2
  <2> QED
    BY <2>2, <2>3, <2>4, <2>5
<1>9. DOMAIN q = 1 .. n + 1
  BY <1>2, <1>8, LenProperties
<1>10. PICK v : v = part.number * HoursPer[part.unit]
  OBVIOUS
<1>11. PICK r : r = Worths(q)
  OBVIOUS
<1>12. r = [i \in 1 .. n + 1 |-> q[i].number * HoursPer[q[i].unit]]
  BY <1>9, <1>11 DEF Worths
<1>13. r[n + 1] = v /\ \A i \in 1 .. n : r[i] = w[i]
  BY <1>2, <1>5, <1>8, <1>10, <1>12
<1>14. v \in Nat
  BY <1>3, <1>10
<1>15. r = [i \in 1 .. n + 1 |-> IF i = n + 1 THEN v ELSE w[i]]
  <2>1. ASSUME NEW i \in 1 .. n + 1 PROVE r[i] = IF i = n + 1 THEN v ELSE w[i]
    <3>1. i # n + 1 => i \in 1 .. n
      BY <1>2
    <3> QED
      BY <1>13, <3>1
  <2>2. r = [i \in 1 .. n + 1 |-> r[i]]
    BY <1>12
  <2> QED
    BY <2>1, <2>2, Zenon
<1>16. r = Append(w, v)
  <2>1. r \in Seq(Nat) /\ Len(r) = n + 1
    BY <1>2, <1>6, <1>14, <1>15
  <2>2. /\ Append(w, v) \in Seq(Nat) /\ Len(Append(w, v)) = n + 1 /\ Append(w, v)[n + 1] = v
        /\ \A i \in 1 .. n : Append(w, v)[i] = w[i]
    BY <1>7, <1>14
  <2>3. \A i \in 1 .. n + 1 : r[i] = Append(w, v)[i]
    <3> SUFFICES ASSUME NEW i \in 1 .. n + 1 PROVE r[i] = Append(w, v)[i]
      OBVIOUS
    <3>1. i # n + 1 => i \in 1 .. n
      BY <1>2
    <3> QED
      BY <1>13, <2>2, <3>1
  <2> QED
    BY <2>1, <2>2, <2>3, SeqEqual
<1> QED
  BY <1>1, <1>4, <1>7, <1>10, <1>11, <1>16

LEMMA NumbersInOrder ==
    ASSUME NEW n \in Nat, NEW q, q = [i \in 1 .. n |-> q[i]], \A i \in 1 .. n : q[i] \in Nat
    PROVE  q \in Seq(Nat) /\ Len(q) = n
<1>1. q \in [1 .. n -> Nat]
  OBVIOUS
<1>2. q \in Seq(Nat)
  BY <1>1, SeqDef
<1>3. DOMAIN q = 1 .. n
  BY <1>1
<1> QED
  BY <1>2, <1>3, LenProperties

\* What parse_estimation accepts is a number of hours.
LEMMA EstimationParsed ==
    ASSUME NEW text, IsText(text), ParseEstimation(text) # Invalid
    PROVE  ParseEstimation(text) \in Nat
<1>1. /\ \A i \in DOMAIN text : text[i].unit \in DOMAIN HoursPer /\ text[i].number # NaN
      /\ ParseEstimation(text) = SumOf([i \in DOMAIN text |-> text[i].number * HoursPer[text[i].unit]])
  BY DEF ParseEstimation
<1> PICK n : n = Len(text)
  OBVIOUS
<1>2. n \in Nat /\ DOMAIN text = 1 .. n
  BY LenProperties DEF IsText
<1> PICK q : q = [i \in 1 .. n |-> text[i].number * HoursPer[text[i].unit]]
  OBVIOUS
<1>3. ASSUME NEW i \in 1 .. n PROVE q[i] \in Nat
  <2> PICK number, unit : number = text[i].number /\ unit = text[i].unit
    OBVIOUS
  <2>1. number \in Nat /\ unit \in {"w", "d", "h"}
    BY <1>1, <1>2 DEF IsText, HoursPer
  <2>2. q[i] = number * HoursPer[unit]
    OBVIOUS
  <2>3. HoursPer["w"] = 40 /\ HoursPer["d"] = 8 /\ HoursPer["h"] = 1
    BY DEF HoursPer
  <2>4. HoursPer[unit] \in Nat
    BY <2>1, <2>3
  <2>5. \A a, b \in Nat : a * b \in Nat
    OBVIOUS
  <2> QED
    BY <2>1, <2>2, <2>4, <2>5
<1>4. q = [i \in 1 .. n |-> q[i]]
  OBVIOUS
<1>5. q \in Seq(Nat) /\ Len(q) = n
  BY <1>2, <1>3, <1>4, NumbersInOrder
<1>6. SumOf(q) \in Nat
  BY <1>5, SumNext
<1>7. ParseEstimation(text) = SumOf(q)
  BY <1>1, <1>2
<1> QED
  BY <1>6, <1>7

\* A part counts for its hours, and a part that is left out has none.
LEMMA PartCounts ==
    ASSUME NEW parts \in Seq(Parted), NEW number \in Nat, NEW unit \in DOMAIN HoursPer
    PROVE  /\ SumOf(Worths(parts)) \in Nat /\ parts \o Part(number, unit) \in Seq(Parted)
           /\ SumOf(Worths(parts \o Part(number, unit))) =
                 SumOf(Worths(parts)) + 10 * number * HoursPer[unit]
           /\ number > 0 => parts \o Part(number, unit) # <<>>
           /\ number = 0 => parts \o Part(number, unit) = parts
           /\ Part(number, unit) \in Seq(Parted)
<1>1. PICK one, h : one = [number |-> 10 * number, unit |-> unit] /\ h = HoursPer[unit]
  OBVIOUS
<1>2. one \in Parted /\ h \in Nat
  BY <1>1, WorthOfUnit DEF Parted
<1>3. Worths(parts) \in Seq(Nat) /\ Worths(parts \o <<one>>) = Append(Worths(parts), one.number * HoursPer[one.unit])
  BY <1>2, WorthsNext
<1>4. one.number * HoursPer[one.unit] = (10 * number) * h
  BY <1>1
<1>5. (10 * number) * h \in Nat
  BY <1>2
<1>6. SumOf(Worths(parts)) \in Nat
  BY <1>3, SumNext
<1>7. CASE number > 0
  <2>1. Part(number, unit) = <<one>>
    BY <1>1, <1>7 DEF Part
  <2>2. SumOf(Worths(parts \o <<one>>)) = SumOf(Worths(parts)) + (10 * number) * h
    BY <1>3, <1>4, <1>5, SumNext
  <2>3. parts \o <<one>> \in Seq(Parted) /\ Len(parts \o <<one>>) = Len(parts) + 1 /\ Len(parts) \in Nat
    <3>1. <<one>> \in Seq(Parted) /\ Len(<<one>>) = 1
      BY <1>2
    <3> QED
      BY <3>1, ConcatProperties, LenProperties
  <2>4. parts \o <<one>> # <<>>
    <3>1. Len(parts \o <<one>>) # 0 /\ Len(<<>>) = 0
      BY <2>3
    <3> QED
      BY <3>1
  <2>5. Part(number, unit) \in Seq(Parted)
    BY <1>2, <2>1
  <2> QED
    BY <1>1, <1>6, <1>7, <2>1, <2>2, <2>3, <2>4, <2>5
<1>8. CASE number = 0
  <2>1. Part(number, unit) = <<>>
    BY <1>8 DEF Part
  <2>2. parts \o <<>> = parts
    BY ConcatEmptySeq
  <2>3. 10 * number * h = 0
    BY <1>2, <1>8
  <2>4. PICK p, sum : p = parts \o Part(number, unit) /\ sum = SumOf(Worths(parts))
    OBVIOUS
  <2>5. p = parts /\ p \in Seq(Parted) /\ sum \in Nat /\ SumOf(Worths(p)) = sum
    BY <1>6, <2>1, <2>2, <2>4
  <2>6. SumOf(Worths(p)) = sum + 10 * number * HoursPer[unit]
    BY <1>1, <2>3, <2>5
  <2>7. Part(number, unit) \in Seq(Parted)
    BY <2>1
  <2> QED
    BY <1>8, <2>4, <2>5, <2>6, <2>7
<1> QED
  BY <1>7, <1>8

Divided(hours, weeks, days, rest) ==
    /\ weeks = hours \div 400 /\ days = (hours - 400 * weeks) \div 80
    /\ rest = hours - 400 * weeks - 80 * days

\* An estimation divided into weeks, days and a rest is rounded as its rest is.
LEMMA Rounded ==
    ASSUME NEW hours \in Nat, NEW weeks, NEW days, NEW rest, Divided(hours, weeks, days, rest)
    PROVE  /\ weeks \in Nat /\ days \in Nat /\ Round(rest) \in Nat /\ Round(hours) \in Nat
           /\ Round(hours) = 40 * weeks + 8 * days + Round(rest)
<1>0. /\ weeks = hours \div 400 /\ days = (hours - 400 * weeks) \div 80
      /\ rest = hours - 400 * weeks - 80 * days
  BY DEF Divided
<1>2. weeks \in Nat /\ 400 * weeks <= hours
  BY <1>0
<1>3. PICK more : more = hours - 400 * weeks
  OBVIOUS
<1>4. more \in Nat /\ days = more \div 80 /\ hours = more + 400 * weeks
  BY <1>0, <1>2, <1>3
<1>5. days \in Nat /\ 80 * days <= more
  BY <1>4
<1>7. rest \in Nat /\ hours = rest + 80 * days + 400 * weeks
  BY <1>0, <1>3, <1>4, <1>5
<1>8. (hours + 5) \div 10 = 40 * weeks + 8 * days + (rest + 5) \div 10
  <2>1. \A a, b, c \in Nat : (a + 80 * b + 400 * c + 5) \div 10 = 40 * c + 8 * b + (a + 5) \div 10
    OBVIOUS
  <2> QED
    BY <1>2, <1>5, <1>7, <2>1
<1>9. (hours + 5) \div 10 \in Nat /\ (rest + 5) \div 10 \in Nat
  BY <1>7
<1> QED
  BY <1>2, <1>5, <1>8, <1>9 DEF Round

LEMMA Displayed ==
    ASSUME NEW hours \in Nat PROVE ParseEstimation(FormatEstimation(hours)) = 10 * Round(hours)
<1>1. PICK weeks, days, rest : /\ weeks = hours \div 400 /\ days = (hours - 400 * weeks) \div 80
                               /\ rest = hours - 400 * weeks - 80 * days
  OBVIOUS
<1>2. /\ weeks \in Nat /\ days \in Nat /\ Round(rest) \in Nat
      /\ Round(hours) = 40 * weeks + 8 * days + Round(rest)
  <2>1. Divided(hours, weeks, days, rest)
    BY <1>1 DEF Divided
  <2> QED
    BY <2>1, Rounded
<1>3. PICK none, first, second, parts :
         /\ none = <<>> /\ first = none \o Part(weeks, "w") /\ second = first \o Part(days, "d")
         /\ parts = second \o Part(Round(rest), "h")
  OBVIOUS
<1>4. none \in Seq(Parted)
  BY <1>3
<1>5. {"w", "d", "h"} \subseteq DOMAIN HoursPer /\ HoursPer["w"] = 40 /\ HoursPer["d"] = 8 /\ HoursPer["h"] = 1
  BY DEF HoursPer
<1>6. SumOf(Worths(none)) = 0
  <2>1. Worths(none) = <<>>
    BY <1>3 DEF Worths
  <2> QED
    BY <2>1, SumOfNone
<1>7. /\ first \in Seq(Parted) /\ SumOf(Worths(first)) = SumOf(Worths(none)) + 10 * weeks * HoursPer["w"]
      /\ weeks > 0 => first # <<>>
      /\ weeks = 0 => first = none
  BY <1>2, <1>3, <1>4, <1>5, PartCounts
<1>8. /\ second \in Seq(Parted) /\ SumOf(Worths(second)) = SumOf(Worths(first)) + 10 * days * HoursPer["d"]
      /\ days > 0 => second # <<>>
      /\ days = 0 => second = first
  BY <1>2, <1>3, <1>5, <1>7, PartCounts
<1>9. /\ parts \in Seq(Parted)
      /\ SumOf(Worths(parts)) = SumOf(Worths(second)) + 10 * Round(rest) * HoursPer["h"]
      /\ Round(rest) > 0 => parts # <<>>
      /\ Round(rest) = 0 => parts = second
  <2>1. PICK r : r = Round(rest)
    OBVIOUS
  <2>2. r \in Nat /\ second \in Seq(Parted) /\ "h" \in DOMAIN HoursPer
    BY <1>2, <1>5, <1>8, <2>1
  <2>3. /\ second \o Part(r, "h") \in Seq(Parted)
        /\ SumOf(Worths(second \o Part(r, "h"))) = SumOf(Worths(second)) + 10 * r * HoursPer["h"]
        /\ r > 0 => second \o Part(r, "h") # <<>>
        /\ r = 0 => second \o Part(r, "h") = second
    BY <2>2, PartCounts
  <2> QED
    BY <1>3, <2>1, <2>3
<1>10. SumOf(Worths(parts)) = 10 * Round(hours)
  <2>1. PICK w, d, r : w = weeks /\ d = days /\ r = Round(rest)
    OBVIOUS
  <2>2. SumOf(Worths(parts)) = 0 + 10 * w * 40 + 10 * d * 8 + 10 * r * 1
    BY <1>5, <1>6, <1>7, <1>8, <1>9, <2>1
  <2>3. w \in Nat /\ d \in Nat /\ r \in Nat
    BY <1>2, <2>1
  <2>4. 0 + 10 * w * 40 + 10 * d * 8 + 10 * r * 1 = 10 * (40 * w + 8 * d + r)
    BY <2>3
  <2> QED
    BY <1>2, <2>1, <2>2, <2>4
<1>11. FormatEstimation(hours) = IF parts = <<>> THEN <<[number |-> 0, unit |-> "h"]>> ELSE parts
  <2>1. none \o Part(weeks, "w") = Part(weeks, "w")
    <3>1. Part(weeks, "w") \in Seq(Parted)
      BY <1>2, <1>4, <1>5, PartCounts
    <3> QED
      BY <1>3, <3>1, ConcatEmptySeq
  <2>2. parts = Part(weeks, "w") \o Part(days, "d") \o Part(Round(rest), "h")
    BY <1>3, <2>1
  <2> QED
    BY <1>1, <2>2 DEF FormatEstimation
<1>12. ASSUME NEW text \in Seq(Parted), text # <<>> PROVE ParseEstimation(text) = SumOf(Worths(text))
  <2>1. \A i \in DOMAIN text : text[i].unit \in DOMAIN HoursPer /\ text[i].number \in Nat
    <3>1. \A i \in DOMAIN text : text[i] \in Parted
      BY LenProperties
    <3> QED
      BY <3>1 DEF Parted
  <2>2. \A i \in DOMAIN text : text[i].number # NaN
    BY <2>1 DEF NaN
  <2> QED
    BY <1>12, <2>1, <2>2 DEF ParseEstimation, Worths
<1>13. CASE parts # <<>>
  BY <1>9, <1>10, <1>11, <1>12, <1>13
<1>14. CASE parts = <<>>
  <2>1. weeks = 0 /\ days = 0 /\ Round(rest) = 0 /\ Round(hours) = 0
    <3>1. ~ (Round(rest) > 0)
      BY <1>9, <1>14
    <3>2. Round(rest) = 0 /\ second = <<>>
      BY <1>2, <1>9, <1>14, <3>1
    <3>3. ~ (days > 0)
      BY <1>8, <3>2
    <3>4. days = 0 /\ first = <<>>
      BY <1>2, <1>8, <3>2, <3>3
    <3>5. ~ (weeks > 0)
      BY <1>7, <3>4
    <3>6. weeks = 0
      BY <1>2, <3>5
    <3> QED
      BY <1>2, <3>2, <3>4, <3>6
  <2>2. PICK zero : zero = [number |-> 0, unit |-> "h"]
    OBVIOUS
  <2>3. zero \in Parted /\ zero.number * HoursPer[zero.unit] = 0
    BY <1>5, <2>2 DEF Parted
  <2>4. <<zero>> \in Seq(Parted) /\ <<zero>> # <<>> /\ none \o <<zero>> = <<zero>>
    BY <1>3, <2>3
  <2>5. SumOf(Worths(<<zero>>)) = 0
    <3>1. Worths(none) \in Seq(Nat) /\ Worths(<<zero>>) = Append(Worths(none), 0)
      BY <1>4, <2>3, <2>4, WorthsNext
    <3>2. SumOf(Append(Worths(none), 0)) = SumOf(Worths(none)) + 0
      BY <3>1, SumNext
    <3>3. PICK a, b : a = Worths(none) /\ b = Append(Worths(none), 0)
      OBVIOUS
    <3>4. SumOf(b) = SumOf(a) + 0 /\ SumOf(a) = 0 /\ Worths(<<zero>>) = b
      BY <1>6, <3>1, <3>2, <3>3, Zenon
    <3> QED
      BY <3>4
  <2>6. ParseEstimation(<<zero>>) = 0
    BY <1>12, <2>4, <2>5
  <2> QED
    BY <1>11, <1>14, <2>1, <2>2, <2>6
<1> QED
  BY <1>13, <1>14

-----------------------------------------------------------------------------
(* What a text names.                                                      *)

\* What is found at each position: m[p] is what the pattern matches at p. A match is of
\* one character or more, none of them a separator.
Matching(text, m) ==
    \A p \in 1 .. Len(text) :
       m[p] # NULL => /\ m[p].end \in p + 1 .. Len(text) + 1
                      /\ \A k \in p .. m[p].end - 1 : text[k] \notin Separators

\* The position at which a match is taken at i, or 0.
StartAt(text, m, i) ==
    IF i = 1 /\ m[1] # NULL THEN 1
    ELSE IF text[i] \in Separators /\ i + 1 <= Len(text) /\ m[i + 1] # NULL THEN i + 1 ELSE 0

ScanAt(text, m, from, i) ==
    IF i > Len(text) THEN <<>>
    ELSE IF StartAt(text, m, i) = 0 THEN from[i + 1]
    ELSE <<m[StartAt(text, m, i)].found>> \o from[m[StartAt(text, m, i)].end]

Scanned(text, m, from) == from = [i \in 1 .. Len(text) + 1 |-> ScanAt(text, m, from, i)]

LEMMA StartsAhead ==
    ASSUME NEW text, Len(text) \in Nat, NEW m, Matching(text, m), NEW i \in 1 .. Len(text)
    PROVE  LET p == StartAt(text, m, i)
           IN p # 0 => /\ p \in {i, i + 1} /\ p \in 1 .. Len(text) /\ m[p] # NULL
                       /\ m[p].end \in i + 1 .. Len(text) + 1
<1>1. PICK p, n : p = StartAt(text, m, i) /\ n = Len(text)
  OBVIOUS
<1>2. p # 0 => p \in {i, i + 1} /\ p \in 1 .. n /\ m[p] # NULL
  BY <1>1 DEF StartAt
<1>3. p # 0 => m[p].end \in p + 1 .. n + 1
  BY <1>1, <1>2 DEF Matching
<1>4. p # 0 => m[p].end \in i + 1 .. n + 1
  <2> SUFFICES ASSUME p # 0 PROVE m[p].end \in i + 1 .. n + 1
    OBVIOUS
  <2>1. PICK e : e = m[p].end
    OBVIOUS
  <2>2. e \in p + 1 .. n + 1 /\ p \in {i, i + 1} /\ n \in Nat
    BY <1>1, <1>2, <1>3, <2>1
  <2>3. e \in i + 1 .. n + 1
    BY <2>2
  <2> QED
    BY <2>1, <2>3
<1> QED
  BY <1>1, <1>2, <1>4

LEMMA ScanExists ==
    ASSUME NEW text, Len(text) \in Nat, NEW m, Matching(text, m)
    PROVE  \E from : Scanned(text, m, from)
<1>1. PICK n, V, T, none :
         /\ n = Len(text) /\ V = {m[p].found : p \in 1 .. Len(text)} /\ T = Seq(V) /\ none = <<>>
  OBVIOUS
<1>2. n \in Nat /\ none \in T /\ \A s, t \in T : s \o t \in T
  BY <1>1, ConcatProperties
<1>3. PICK later : later = [i \in 1 .. n |-> IF StartAt(text, m, i) = 0 THEN i + 1
                                             ELSE m[StartAt(text, m, i)].end]
  OBVIOUS
<1>4. ASSUME NEW i \in 1 .. n
      PROVE  /\ later[i] \in i + 1 .. n + 1
             /\ StartAt(text, m, i) # 0 => <<m[StartAt(text, m, i)].found>> \in T
  <2>1. PICK p : p = StartAt(text, m, i)
    OBVIOUS
  <2>2. p # 0 => p \in 1 .. n /\ m[p].end \in i + 1 .. n + 1
    BY <1>1, <1>2, <2>1, StartsAhead
  <2>3. p # 0 => <<m[p].found>> \in T
    BY <1>1, <2>2
  <2>4. later[i] = IF p = 0 THEN i + 1 ELSE m[p].end
    BY <1>3, <2>1
  <2>5. i + 1 \in i + 1 .. n + 1
    BY <1>2
  <2> QED
    BY <2>1, <2>2, <2>3, <2>4, <2>5
<1>5. later \in [1 .. n -> 1 .. n + 1] /\ \A i \in 1 .. n : later[i] > i
  <2>1. ASSUME NEW i \in 1 .. n PROVE later[i] \in 1 .. n + 1 /\ later[i] > i
    <3>1. later[i] \in i + 1 .. n + 1
      BY <1>4
    <3> QED
      BY <1>2, <3>1
  <2> QED
    BY <1>3, <2>1
<1>6. PICK step : step = [x \in (1 .. n) \X T |->
                             IF StartAt(text, m, x[1]) = 0 THEN x[2]
                             ELSE <<m[StartAt(text, m, x[1])].found>> \o x[2]]
  OBVIOUS
<1>7. step \in [(1 .. n) \X T -> T]
  <2>1. ASSUME NEW i \in 1 .. n, NEW t \in T
        PROVE  (IF StartAt(text, m, i) = 0 THEN t ELSE <<m[StartAt(text, m, i)].found>> \o t) \in T
    BY <1>2, <1>4
  <2> QED
    BY <1>6, <2>1
<1>8. PICK f : Backwards(f, n, T, none, later, step)
  BY <1>2, <1>5, <1>7, StepByStepBack
<1>9. f \in [1 .. n + 1 -> T] /\ f[n + 1] = none
  BY <1>8 DEF Backwards
<1>10. ASSUME NEW i \in 1 .. n + 1 PROVE f[i] = ScanAt(text, m, f, i)
  <2>1. CASE i = n + 1
    <3>1. i > Len(text)
      BY <1>1, <1>2, <2>1
    <3> QED
      BY <1>1, <1>9, <2>1, <3>1 DEF ScanAt
  <2>2. CASE i # n + 1
    <3>1. i \in 1 .. n /\ ~ (i > Len(text))
      BY <1>1, <1>2, <2>2
    <3>2. PICK x : x = <<i, f[later[i]]>>
      OBVIOUS
    <3>3. f[i] = step[x]
      BY <1>8, <3>1, <3>2 DEF Backwards
    <3>4. x \in (1 .. n) \X T /\ x[1] = i /\ x[2] = f[later[i]]
      BY <1>5, <1>9, <3>1, <3>2
    <3>5. f[i] = IF StartAt(text, m, i) = 0 THEN f[later[i]]
                 ELSE <<m[StartAt(text, m, i)].found>> \o f[later[i]]
      BY <1>6, <3>3, <3>4
    <3>6. later[i] = IF StartAt(text, m, i) = 0 THEN i + 1 ELSE m[StartAt(text, m, i)].end
      BY <1>3, <3>1
    <3> QED
      BY <3>1, <3>5, <3>6 DEF ScanAt
  <2> QED
    BY <2>1, <2>2
<1>11. f = [i \in 1 .. n + 1 |-> ScanAt(text, m, f, i)]
  <2>1. f = [i \in 1 .. n + 1 |-> f[i]]
    BY <1>9
  <2> QED
    BY <1>10, <2>1, Zenon
<1>12. Scanned(text, m, f)
  BY <1>1, <1>11 DEF Scanned
<1> QED
  BY <1>12

\* The positions from i on at which a match is to be found.
Begins(text, m, i) ==
    {p \in 1 .. Len(text) : /\ m[p] # NULL
                            /\ (p = 1 /\ i = 1) \/ (p - 1 >= i /\ text[p - 1] \in Separators)}

LEMMA BeginsNext ==
    ASSUME NEW text, Len(text) \in Nat, NEW m, Matching(text, m), NEW i \in 1 .. Len(text)
    PROVE  LET p == StartAt(text, m, i)
           IN Begins(text, m, i) = IF p = 0 THEN Begins(text, m, i + 1)
                                   ELSE {p} \cup Begins(text, m, m[p].end)
<1>1. PICK p, n : p = StartAt(text, m, i) /\ n = Len(text)
  OBVIOUS
<1>2. CASE p = 0
  <2>1. ~ (i = 1 /\ m[1] # NULL) /\ ~ (text[i] \in Separators /\ i + 1 <= n /\ m[i + 1] # NULL)
    BY <1>1, <1>2 DEF StartAt
  <2>2. ASSUME NEW q \in 1 .. n, m[q] # NULL
        PROVE  ((q = 1 /\ i = 1) \/ (q - 1 >= i /\ text[q - 1] \in Separators))
                  <=> ((q = 1 /\ i + 1 = 1) \/ (q - 1 >= i + 1 /\ text[q - 1] \in Separators))
    <3>1. i + 1 # 1 /\ ~ (q = 1 /\ i = 1)
      BY <2>1, <2>2
    <3>2. q - 1 >= i <=> q - 1 = i \/ q - 1 >= i + 1
      OBVIOUS
    <3>3. q - 1 = i => text[q - 1] \notin Separators
      <4> SUFFICES ASSUME q - 1 = i PROVE text[i] \notin Separators
        OBVIOUS
      <4>1. q = i + 1 /\ i + 1 <= n
        BY <1>1
      <4> QED
        BY <2>1, <2>2, <4>1
    <3> QED
      BY <3>1, <3>2, <3>3
  <2>3. Begins(text, m, i) = Begins(text, m, i + 1)
    BY <1>1, <2>2 DEF Begins
  <2> QED
    BY <1>1, <1>2, <2>3
<1>3. CASE p # 0
  <2>1. PICK e : e = m[p].end
    OBVIOUS
  <2>2. p \in {i, i + 1} /\ p \in 1 .. n /\ m[p] # NULL /\ e \in i + 1 .. n + 1
    BY <1>1, <1>3, <2>1, StartsAhead
  <2>3. e \in p + 1 .. n + 1 /\ \A k \in p .. e - 1 : text[k] \notin Separators
    BY <1>1, <2>1, <2>2 DEF Matching
  <2>4. (p = 1 /\ i = 1) \/ (p = i + 1 /\ text[i] \in Separators)
    <3>1. CASE i = 1 /\ m[1] # NULL
      <4>1. StartAt(text, m, i) = 1
        BY <3>1, Zenon DEF StartAt
      <4> QED
        BY <1>1, <3>1, <4>1, Zenon
    <3>2. CASE ~ (i = 1 /\ m[1] # NULL)
      <4>1. p = IF text[i] \in Separators /\ i + 1 <= n /\ m[i + 1] # NULL THEN i + 1 ELSE 0
        BY <1>1, <3>2 DEF StartAt
      <4> QED
        BY <1>3, <4>1
    <3> QED
      BY <3>1, <3>2
  <2>5. ASSUME NEW q \in 1 .. n, m[q] # NULL
        PROVE  ((q = 1 /\ i = 1) \/ (q - 1 >= i /\ text[q - 1] \in Separators))
                  <=> q = p \/ (q = 1 /\ e = 1) \/ (q - 1 >= e /\ text[q - 1] \in Separators)
    <3>1. e # 1 /\ (q - 1 >= e => q - 1 >= i)
      BY <2>2
    <3>2. q - 1 \in p .. e - 1 => text[q - 1] \notin Separators
      BY <2>3
    <3>3. q - 1 >= e \/ q - 1 \in p .. e - 1 \/ q - 1 < p
      BY <2>2, <2>3
    <3>4. CASE p = 1 /\ i = 1
      <4>1. q - 1 < p <=> q = p
        BY <3>4
      <4>2. q - 1 >= i <=> q # 1
        BY <3>4
      <4> QED
        <5>1. CASE q = p
          <6>1. q = 1 /\ i = 1
            BY <3>4, <5>1
          <6> QED
            BY <5>1, <6>1, Zenon
        <5>2. CASE q # p
          <6>1. q - 1 >= e \/ text[q - 1] \notin Separators
            BY <3>2, <3>3, <4>1, <5>2
          <6>2. q # 1 /\ q - 1 >= i
            BY <3>4, <4>2, <5>2
          <6> QED
            BY <3>1, <5>2, <6>1, <6>2
        <5> QED
          BY <5>1, <5>2
    <3>5. CASE p = i + 1 /\ text[i] \in Separators
      <4>1. q = 1 /\ i = 1 => FALSE
        <5> SUFFICES ASSUME q = 1, i = 1 PROVE FALSE
          OBVIOUS
        <5>1. StartAt(text, m, i) = 1
          BY <2>5 DEF StartAt
        <5> QED
          BY <1>1, <3>5, <5>1
      <4>2. q - 1 < p /\ q - 1 >= i <=> q = p
        BY <2>2, <3>5
      <4>3. q = p => text[q - 1] \in Separators
        BY <2>2, <3>5
      <4> QED
        BY <3>1, <3>2, <3>3, <4>1, <4>2, <4>3
    <3> QED
      BY <2>4, <3>4, <3>5
  <2>6. Begins(text, m, i) = {p} \cup Begins(text, m, e)
    BY <1>1, <2>2, <2>5 DEF Begins
  <2> QED
    BY <1>1, <1>3, <2>1, <2>6
<1> QED
  BY <1>2, <1>3

FoundIn(text, m) == {m[p].found : p \in 1 .. Len(text)}
FindsAll(r, text, m) ==
    /\ r \in Seq(FoundIn(text, m))
    /\ {r[k] : k \in DOMAIN r} = {m[p].found : p \in Begins(text, m, 1)}

\* What a scan finds is what begins at the positions ahead.
LEMMA ScanFinds ==
    ASSUME NEW text, Len(text) \in Nat, NEW m, Matching(text, m), NEW from, Scanned(text, m, from)
    PROVE  FindsAll(from[1], text, m)
<1>1. PICK n, V, T : n = Len(text) /\ V = {m[p].found : p \in 1 .. Len(text)} /\ T = Seq(V)
  OBVIOUS
<1>2. n \in Nat
  BY <1>1
<1> DEFINE Good(i) == /\ from[i] \in T
                      /\ {from[i][k] : k \in DOMAIN from[i]} = {m[p].found : p \in Begins(text, m, i)}
           U == {i \in 1 .. n + 1 : Good(i)}
<1>3. \A i \in 1 .. n + 1 : from[i] = ScanAt(text, m, from, i)
  BY <1>1 DEF Scanned
<1>4. Good(n + 1)
  <2>1. n + 1 \in 1 .. n + 1 /\ n + 1 > n
    BY <1>2
  <2>2. from[n + 1] = <<>>
    BY <1>1, <1>3, <2>1 DEF ScanAt
  <2>3. Begins(text, m, n + 1) = {}
    BY <1>1, <1>2 DEF Begins
  <2>4. <<>> \in T /\ DOMAIN <<>> = {}
    BY <1>1
  <2> QED
    BY <2>2, <2>3, <2>4
<1>5. ASSUME NEW i \in 1 .. n, \A j \in i + 1 .. n + 1 : Good(j) PROVE Good(i)
  <2>1. PICK p : p = StartAt(text, m, i)
    OBVIOUS
  <2>2. i \in 1 .. n + 1 /\ ~ (i > n) /\ i + 1 \in i + 1 .. n + 1
    BY <1>2
  <2>3. from[i] = IF p = 0 THEN from[i + 1] ELSE <<m[p].found>> \o from[m[p].end]
    BY <1>1, <1>3, <2>1, <2>2 DEF ScanAt
  <2>4. Begins(text, m, i) = IF p = 0 THEN Begins(text, m, i + 1)
                             ELSE {p} \cup Begins(text, m, m[p].end)
    BY <1>1, <2>1, BeginsNext
  <2>5. CASE p = 0
    <3>1. Good(i + 1)
      BY <1>5, <2>2
    <3> QED
      BY <2>3, <2>4, <2>5, <3>1
  <2>6. CASE p # 0
    <3>1. PICK e : e = m[p].end
      OBVIOUS
    <3>2. p \in 1 .. n /\ e \in i + 1 .. n + 1
      BY <1>1, <2>1, <2>6, <3>1, StartsAhead
    <3>3. PICK x, s : x = m[p].found /\ s = from[e]
      OBVIOUS
    <3>4. x \in V /\ s \in T /\ {s[k] : k \in DOMAIN s} = {m[q].found : q \in Begins(text, m, e)}
      BY <1>1, <1>5, <3>2, <3>3
    <3>5. PICK c : c = <<x>> \o s
      OBVIOUS
    <3>6. c \in Seq(V) /\ Len(c) = 1 + Len(s) /\ c[1] = x /\ \A k \in DOMAIN s : k + 1 \in DOMAIN c /\ c[k + 1] = s[k]
      BY <1>1, <3>4, <3>5, ChainLonger
    <3>7. Len(s) \in Nat /\ DOMAIN s = 1 .. Len(s) /\ DOMAIN c = 1 .. 1 + Len(s)
      BY <1>1, <3>4, <3>6, LenProperties
    <3>8. {c[k] : k \in DOMAIN c} = {x} \cup {s[k] : k \in DOMAIN s}
      <4>1. ASSUME NEW k \in DOMAIN c PROVE c[k] \in {x} \cup {s[j] : j \in DOMAIN s}
        <5>1. k = 1 \/ (k - 1 \in DOMAIN s /\ (k - 1) + 1 = k)
          BY <3>7
        <5>2. CASE k - 1 \in DOMAIN s /\ (k - 1) + 1 = k
          <6>1. PICK j : j = k - 1
            OBVIOUS
          <6>2. j \in DOMAIN s /\ c[j + 1] = s[j] /\ j + 1 = k
            BY <3>6, <5>2, <6>1
          <6> QED
            BY <6>2
        <5> QED
          BY <3>6, <5>1, <5>2
      <4>2. x \in {c[k] : k \in DOMAIN c}
        <5>1. 1 \in DOMAIN c
          BY <3>7
        <5> QED
          BY <3>6, <5>1
      <4>3. ASSUME NEW j \in DOMAIN s PROVE s[j] \in {c[k] : k \in DOMAIN c}
        BY <3>6
      <4> QED
        BY <4>1, <4>2, <4>3
    <3>9. from[i] = c /\ Begins(text, m, i) = {p} \cup Begins(text, m, e)
      BY <2>3, <2>4, <2>6, <3>1, <3>3, <3>5
    <3>10. {m[q].found : q \in {p} \cup Begins(text, m, e)} =
              {x} \cup {m[q].found : q \in Begins(text, m, e)}
      BY <3>3
    <3>11. from[i] \in T
      BY <1>1, <3>6, <3>9
    <3>12. {from[i][k] : k \in DOMAIN from[i]} = {m[q].found : q \in Begins(text, m, i)}
      <4>1. {from[i][k] : k \in DOMAIN from[i]} = {c[k] : k \in DOMAIN c}
        BY <3>9
      <4>2. {m[q].found : q \in Begins(text, m, i)} = {m[q].found : q \in {p} \cup Begins(text, m, e)}
        BY <3>9
      <4> QED
        BY <3>4, <3>8, <3>10, <4>1, <4>2
    <3> QED
      BY <3>11, <3>12
  <2> QED
    BY <2>5, <2>6
<1>6. Good(1)
  <2> HIDE DEF Good
  <2>1. n + 1 \in U
    BY <1>2, <1>4
  <2>2. \A i \in 1 .. n : (\A j \in i + 1 .. n + 1 : j \in U) => i \in U
    <3> SUFFICES ASSUME NEW i \in 1 .. n, \A j \in i + 1 .. n + 1 : j \in U PROVE Good(i)
      BY <1>2
    <3>1. \A j \in i + 1 .. n + 1 : Good(j)
      OBVIOUS
    <3> QED
      BY <1>5, <3>1
  <2> HIDE DEF U
  <2>3. 1 .. n + 1 \subseteq U
    BY <1>2, <2>1, <2>2, DownFrom
  <2>4. 1 \in 1 .. n + 1
    BY <1>2
  <2>5. 1 \in U
    BY <2>3, <2>4
  <2> USE DEF U
  <2> QED
    BY <2>5
<1> QED
  BY <1>1, <1>6 DEF FindsAll, FoundIn

-----------------------------------------------------------------------------
(* Each once.                                                              *)

DedupStep(before, x) == IF x = NULL \/ Contains(before, x) THEN before ELSE Append(before, x)

Seen(found) == CHOOSE seen : seen = [i \in 0 .. Len(found) |->
                  IF i = 0 THEN <<>> ELSE DedupStep(seen[i - 1], found[i])]

LEMMA DeduplicatedSeen == ASSUME NEW found PROVE Deduplicated(found) = Seen(found)[Len(found)]
BY DEF Deduplicated, Seen, DedupStep

\* A sequence without repetitions, of the elements of a set.
Lists(r, V, S) == r \in Seq(V) /\ IsInjective(r) /\ {r[k] : k \in DOMAIN r} = S

LEMMA DedupNext ==
    ASSUME NEW V, NEW S, NEW s, Lists(s, V, S), NEW x \in V
    PROVE  Lists(DedupStep(s, x), V, S \cup ({x} \ {NULL}))
<1> USE DEF Lists
<1>1. PICK r, n : r = DedupStep(s, x) /\ n = Len(s)
  OBVIOUS
<1>2. n \in Nat /\ DOMAIN s = 1 .. n
  BY <1>1, LenProperties
<1>3. CASE x = NULL \/ \E i \in 1 .. n : s[i] = x
  <2>1. r = s
    BY <1>1, <1>3 DEF DedupStep, Contains
  <2> QED
    BY <1>1, <1>2, <1>3, <2>1
<1>4. CASE x # NULL /\ \A i \in 1 .. n : s[i] # x
  <2>1. r = Append(s, x)
    BY <1>1, <1>4 DEF DedupStep, Contains
  <2>2. r \in Seq(V) /\ Len(r) = n + 1 /\ r[n + 1] = x /\ \A i \in 1 .. n : r[i] = s[i]
    BY <1>1, <1>2, <2>1
  <2>3. DOMAIN r = 1 .. n + 1 /\ \A i \in 1 .. n + 1 : i = n + 1 \/ i \in 1 .. n
    BY <1>2, <2>2, LenProperties
  <2>4. IsInjective(r)
    <3> SUFFICES ASSUME NEW a \in 1 .. n + 1, NEW b \in 1 .. n + 1, r[a] = r[b] PROVE a = b
      BY <2>3 DEF IsInjective
    <3>1. CASE a \in 1 .. n /\ b \in 1 .. n
      BY <1>2, <2>2, <3>1 DEF IsInjective
    <3>2. CASE a = n + 1 \/ b = n + 1
      BY <1>4, <2>2, <2>3, <3>2
    <3> QED
      BY <2>3, <3>1, <3>2
  <2>5. {r[k] : k \in DOMAIN r} = {s[k] : k \in DOMAIN s} \cup {x}
    <3>1. \A k \in 1 .. n + 1 : r[k] = x \/ (k \in 1 .. n /\ r[k] = s[k])
      BY <2>2, <2>3
    <3>2. n + 1 \in 1 .. n + 1 /\ \A k \in 1 .. n : k \in 1 .. n + 1
      BY <1>2
    <3> QED
      BY <1>2, <2>2, <2>3, <3>1, <3>2
  <2> QED
    BY <1>1, <1>4, <2>2, <2>4, <2>5
<1> QED
  BY <1>2, <1>3, <1>4

\* Each once: what is found, but NULL, is in the result, in one place.
LEMMA DedupAll ==
    ASSUME NEW V, NEW found \in Seq(V)
    PROVE  Lists(Deduplicated(found), V, {found[i] : i \in DOMAIN found} \ {NULL})
<1>1. PICK n, T : n = Len(found) /\ T = Seq(V)
  OBVIOUS
<1>2. n \in Nat /\ DOMAIN found = 1 .. n /\ \A i \in 1 .. n : found[i] \in V
  BY <1>1, LenProperties
<1>3. <<>> \in T
  BY <1>1
<1>4. PICK step : step = [x \in (1 .. n) \X T |-> DedupStep(x[2], found[x[1]])]
  OBVIOUS
<1>5. step \in [(1 .. n) \X T -> T]
  <2>1. ASSUME NEW i \in 1 .. n, NEW s \in T PROVE DedupStep(s, found[i]) \in T
    <3>1. s \in Seq(V) /\ found[i] \in V
      BY <1>1, <1>2
    <3>2. Append(s, found[i]) \in T
      BY <1>1, <3>1
    <3> QED
      BY <3>2 DEF DedupStep
  <2> QED
    BY <1>4, <2>1
<1>6. PICK f : Stepwise(f, n, T, <<>>, step)
  BY <1>2, <1>3, <1>5, StepByStep
<1>7. f \in [0 .. n -> T] /\ f[0] = <<>>
  BY <1>6 DEF Stepwise
<1>8. ASSUME NEW i \in 1 .. n PROVE f[i] = DedupStep(f[i - 1], found[i])
  <2>1. PICK x : x = <<i, f[i - 1]>>
    OBVIOUS
  <2>2. f[i] = step[x]
    BY <1>6, <2>1 DEF Stepwise
  <2>3. i - 1 \in 0 .. n
    BY <1>2
  <2>4. x \in (1 .. n) \X T /\ x[1] = i /\ x[2] = f[i - 1]
    BY <1>7, <2>1, <2>3
  <2> QED
    BY <1>4, <2>2, <2>4
<1>9. f = [i \in 0 .. n |-> IF i = 0 THEN <<>> ELSE DedupStep(f[i - 1], found[i])]
  <2>1. ASSUME NEW i \in 0 .. n
        PROVE  f[i] = IF i = 0 THEN <<>> ELSE DedupStep(f[i - 1], found[i])
    <3>1. i # 0 => i \in 1 .. n
      BY <1>2
    <3> QED
      BY <1>7, <1>8, <3>1
  <2>2. f = [i \in 0 .. n |-> f[i]]
    BY <1>7
  <2> QED
    BY <2>1, <2>2, Zenon
<1>10. PICK h : h = Seen(found)
  OBVIOUS
<1>11. h = [i \in 0 .. n |-> IF i = 0 THEN <<>> ELSE DedupStep(h[i - 1], found[i])]
  <2>1. Seen(found) = CHOOSE seen : seen = [i \in 0 .. n |->
                           IF i = 0 THEN <<>> ELSE DedupStep(seen[i - 1], found[i])]
    BY <1>1 DEF Seen
  <2> QED
    BY <1>9, <1>10, <2>1
<1> DEFINE Good(i) == /\ h[i] \in T /\ IsInjective(h[i])
                      /\ {h[i][k] : k \in DOMAIN h[i]} = {found[j] : j \in 1 .. i} \ {NULL}
           U == {i \in 0 .. n : Good(i)}
<1>12. Good(0)
  <2>1. h[0] = <<>>
    BY <1>2, <1>11
  <2>2. IsInjective(<<>>) /\ DOMAIN <<>> = {} /\ 1 .. 0 = {}
    BY DEF IsInjective
  <2>3. {h[0][k] : k \in DOMAIN h[0]} = {}
    BY <2>1, <2>2
  <2> QED
    BY <1>3, <2>1, <2>2, <2>3
<1>13. ASSUME NEW i \in 1 .. n, Good(i - 1) PROVE Good(i)
  <2>1. i \in 0 .. n /\ i # 0
    BY <1>2
  <2>2. h[i] = DedupStep(h[i - 1], found[i])
    BY <1>11, <2>1
  <2>3. PICK s, x : s = h[i - 1] /\ x = found[i]
    OBVIOUS
  <2>4. Lists(s, V, {found[j] : j \in 1 .. i - 1} \ {NULL}) /\ x \in V
    BY <1>1, <1>2, <1>13, <2>3 DEF Lists
  <2>5. Lists(DedupStep(s, x), V, ({found[j] : j \in 1 .. i - 1} \ {NULL}) \cup ({x} \ {NULL}))
    BY <2>4, DedupNext
  <2>6. ({found[j] : j \in 1 .. i - 1} \ {NULL}) \cup ({x} \ {NULL}) = {found[j] : j \in 1 .. i} \ {NULL}
    <3>1. \A j : j \in 1 .. i <=> j \in 1 .. i - 1 \/ j = i
      BY <1>2
    <3> QED
      BY <2>3, <3>1
  <2>7. h[i] = DedupStep(s, x)
    BY <2>2, <2>3
  <2> QED
    BY <1>1, <2>5, <2>6, <2>7 DEF Lists
<1>14. Good(n)
  <2> HIDE DEF Good
  <2>1. 0 \in U
    BY <1>2, <1>12
  <2>2. \A i \in 1 .. n : i - 1 \in U => i \in U
    <3> SUFFICES ASSUME NEW i \in 1 .. n, i - 1 \in U PROVE Good(i)
      BY <1>2
    <3> QED
      BY <1>13
  <2> HIDE DEF U
  <2>3. 0 .. n \subseteq U
    BY <1>2, <2>1, <2>2, UpTo
  <2>4. n \in U
    BY <1>2, <2>3
  <2> USE DEF U
  <2> QED
    BY <2>4
<1>15. Deduplicated(found) = h[n]
  BY <1>1, <1>10, DeduplicatedSeen
<1> QED
  BY <1>1, <1>2, <1>14, <1>15 DEF Lists

\* A run ends where its class does.
LEMMA RunEnds ==
    ASSUME NEW text, Len(text) \in Nat, NEW class, NEW p \in 1 .. Len(text) + 1
    PROVE  LET e == RunEnd(text, p, class)
           IN /\ e \in p .. Len(text) + 1
              /\ \A i \in p .. e - 1 : text[i] \in class
              /\ e = Len(text) + 1 \/ text[e] \notin class
<1>1. PICK n : n = Len(text)
  OBVIOUS
<1>2. n \in Nat /\ p \in 1 .. n + 1
  BY <1>1
<1>3. PICK S : S = {m \in p .. n + 1 : m = n + 1 \/ text[m] \notin class}
  OBVIOUS
<1>4. S \in SUBSET Nat /\ n + 1 \in S
  BY <1>2, <1>3
<1>5. PICK e \in S : \A m \in S : e <= m
  BY <1>4, LeastOf
<1>6. e \in p .. n + 1 /\ (e = n + 1 \/ text[e] \notin class)
  BY <1>3
<1>7. \A i \in p .. e - 1 : text[i] \in class
  <2> SUFFICES ASSUME NEW i \in p .. e - 1, text[i] \notin class PROVE FALSE
    OBVIOUS
  <2>1. i \in p .. n + 1
    BY <1>2, <1>6
  <2>2. i \in S
    BY <1>3, <2>1
  <2> QED
    BY <1>2, <1>5, <1>6, <2>2
<1>8. RunEnd(text, p, class) =
         CHOOSE x \in p .. n + 1 : (\A i \in p .. x - 1 : text[i] \in class)
                                   /\ (x = n + 1 \/ text[x] \notin class)
  BY <1>1 DEF RunEnd
<1>9. \E x \in p .. n + 1 : (\A i \in p .. x - 1 : text[i] \in class)
                            /\ (x = n + 1 \/ text[x] \notin class)
  BY <1>6, <1>7
<1>10. PICK d : d = RunEnd(text, p, class)
  OBVIOUS
<1>11. d \in p .. n + 1 /\ (\A i \in p .. d - 1 : text[i] \in class) /\ (d = n + 1 \/ text[d] \notin class)
  BY <1>8, <1>9, <1>10
<1> QED
  BY <1>1, <1>10, <1>11

\* What a reference or a mention is made of.
WordChars == Upper \cup LowerLetters \cup Digits \cup {"#", "comment#", "/comment#", "-", "@"}

LEMMA NoSeparator == WordChars \cap Separators = {}
BY DEF WordChars, Upper, LowerLetters, Digits, DigitValue, Separators

\* From p to before e there are only characters of words.
Worded(text, p, e) == e \in p .. Len(text) + 1 /\ \A k \in p .. e - 1 : text[k] \in WordChars

LEMMA WordedOn ==
    ASSUME NEW text, Len(text) \in Nat, NEW p \in 1 .. Len(text) + 1, NEW e, Worded(text, p, e),
           e <= Len(text), text[e] \in WordChars
    PROVE  Worded(text, p, e + 1)
<1>1. PICK n : n = Len(text)
  OBVIOUS
<1>2. n \in Nat /\ e \in p .. n + 1 /\ p \in 1 .. n + 1 /\ e <= n
  BY <1>1 DEF Worded
<1>3. e + 1 \in p .. n + 1 /\ \A k \in p .. (e + 1) - 1 : k = e \/ k \in p .. e - 1
  BY <1>2
<1>4. \A k \in p .. e - 1 : text[k] \in WordChars
  BY DEF Worded
<1>5. \A k \in p .. (e + 1) - 1 : text[k] \in WordChars
  BY <1>3, <1>4
<1> QED
  BY <1>1, <1>3, <1>5 DEF Worded

LEMMA WordedRun ==
    ASSUME NEW text, Len(text) \in Nat, NEW p \in 1 .. Len(text) + 1, NEW e, Worded(text, p, e),
           NEW class \in SUBSET WordChars
    PROVE  Worded(text, p, RunEnd(text, e, class)) /\ RunEnd(text, e, class) >= e
<1>1. PICK n, r : n = Len(text) /\ r = RunEnd(text, e, class)
  OBVIOUS
<1>2. n \in Nat /\ e \in p .. n + 1 /\ p \in 1 .. n + 1
  BY <1>1 DEF Worded
<1>3. e \in 1 .. Len(text) + 1
  BY <1>1, <1>2
<1>4. r \in e .. n + 1 /\ \A i \in e .. r - 1 : text[i] \in class
  BY <1>1, <1>3, RunEnds
<1>5. r \in p .. n + 1 /\ \A k \in p .. r - 1 : k \in e .. r - 1 \/ k \in p .. e - 1
  BY <1>2, <1>4
<1>6. \A k \in p .. e - 1 : text[k] \in WordChars
  BY DEF Worded
<1>7. \A k \in p .. r - 1 : text[k] \in WordChars
  BY <1>4, <1>5, <1>6
<1> QED
  BY <1>1, <1>2, <1>4, <1>5, <1>7 DEF Worded

LEMMA ReferenceMatches ==
    ASSUME NEW text, Len(text) \in Nat, DOMAIN text = 1 .. Len(text), NEW p \in 1 .. Len(text),
           ReferenceAt(text, p) # NULL
    PROVE  ReferenceAt(text, p).end \in p + 1 .. Len(text) + 1
           /\ Worded(text, p, ReferenceAt(text, p).end)
<1>1. PICK n, to, named, id, end, long, short :
         /\ n = Len(text)
         /\ to = RunEnd(text, p + 1, Upper \cup Digits)
         /\ named = (Is(text, p + 1, Upper) /\ to > p + 2 /\ Is(text, to, {"-"}))
         /\ id = (IF named THEN to + 1 ELSE p + 1)
         /\ end = RunEnd(text, id, Digits)
         /\ long = RunEnd(text, end + 1, Digits)
         /\ short = RunEnd(text, p + 1, Digits)
  OBVIOUS
<1>2. /\ text[p] = "#" /\ Is(text, id, Digits) /\ Is(text, end, {"/comment#"}) /\ Is(text, end + 1, Digits)
         => ReferenceAt(text, p).end = long
      /\ text[p] = "#" /\ Is(text, id, Digits) /\ ~ (Is(text, end, {"/comment#"}) /\ Is(text, end + 1, Digits))
         => ReferenceAt(text, p).end = end
      /\ ~ (text[p] = "#" /\ Is(text, id, Digits)) /\ text[p] = "comment#" /\ Is(text, p + 1, Digits)
         => ReferenceAt(text, p).end = short
      /\ \/ text[p] = "#" /\ Is(text, id, Digits)
         \/ text[p] = "comment#" /\ Is(text, p + 1, Digits)
  BY <1>1 DEF ReferenceAt
<1>3. n \in Nat /\ p \in 1 .. n /\ p \in 1 .. Len(text) + 1
  BY <1>1
<1>4. Digits \in SUBSET WordChars /\ Upper \cup Digits \in SUBSET WordChars
      /\ "#" \in WordChars /\ "comment#" \in WordChars /\ "/comment#" \in WordChars /\ "-" \in WordChars
  BY DEF WordChars
<1>5. text[p] \in WordChars
  BY <1>2, <1>4
<1>6. Worded(text, p, p)
  BY <1>3 DEF Worded
<1>7. Worded(text, p, p + 1)
  BY <1>3, <1>5, <1>6, WordedOn
<1>8. Worded(text, p, to) /\ to >= p + 1
  BY <1>1, <1>3, <1>4, <1>7, WordedRun
<1>9. Worded(text, p, short) /\ short >= p + 1
  BY <1>1, <1>3, <1>4, <1>7, WordedRun
<1>10. Worded(text, p, id) /\ id >= p + 1
  <2>1. CASE named
    <3>1. to \in 1 .. Len(text) /\ text[to] = "-"
      BY <1>1, <2>1 DEF Is
    <3>2. Worded(text, p, to + 1)
      BY <1>3, <1>4, <1>8, <3>1, WordedOn
    <3> QED
      BY <1>1, <1>3, <1>8, <2>1, <3>1, <3>2
  <2>2. CASE ~ named
    BY <1>1, <1>3, <1>7, <2>2
  <2> QED
    BY <2>1, <2>2
<1>11. Worded(text, p, end) /\ end >= id
  BY <1>1, <1>3, <1>4, <1>10, WordedRun
<1>12. Is(text, end, {"/comment#"}) => Worded(text, p, long) /\ long >= end + 1
  <2> SUFFICES ASSUME Is(text, end, {"/comment#"})
      PROVE  Worded(text, p, long) /\ long >= end + 1
    OBVIOUS
  <2>1. end \in 1 .. Len(text) /\ text[end] = "/comment#"
    BY DEF Is
  <2>2. Worded(text, p, end + 1)
    BY <1>3, <1>4, <1>11, <2>1, WordedOn
  <2> QED
    BY <1>1, <1>3, <1>4, <2>2, WordedRun
<1>13. PICK e : e = ReferenceAt(text, p).end
  OBVIOUS
<1>14. Worded(text, p, e) /\ e >= p + 1
  <2>1. e = long \/ e = end \/ e = short
    BY <1>2, <1>13
  <2>2. (e = long /\ Is(text, end, {"/comment#"})) \/ e = end \/ e = short
    BY <1>2, <1>13
  <2>3. id \in p .. n + 1 /\ end \in p .. n + 1
    BY <1>1, <1>10, <1>11 DEF Worded
  <2>4. end >= p + 1 /\ end + 1 >= p + 1
    BY <1>3, <1>10, <1>11, <2>3
  <2>5. CASE e = long /\ Is(text, end, {"/comment#"})
    <3>1. Worded(text, p, long) /\ long >= end + 1
      BY <1>12, <2>5
    <3>2. long \in p .. n + 1
      BY <1>1, <3>1 DEF Worded
    <3> QED
      BY <1>3, <2>3, <2>4, <2>5, <3>1, <3>2
  <2>6. CASE e = end
    BY <1>11, <2>4, <2>6
  <2>7. CASE e = short
    BY <1>9, <2>7
  <2> QED
    BY <2>2, <2>5, <2>6, <2>7
<1>15. e \in p + 1 .. n + 1
  <2>1. e \in p .. n + 1
    BY <1>1, <1>14 DEF Worded
  <2> QED
    BY <1>3, <1>14, <2>1
<1> QED
  BY <1>1, <1>13, <1>14, <1>15

LEMMA MentionMatches ==
    ASSUME NEW text, Len(text) \in Nat, DOMAIN text = 1 .. Len(text), NEW p \in 1 .. Len(text),
           MentionAt(text, p) # NULL
    PROVE  MentionAt(text, p).end \in p + 1 .. Len(text) + 1
           /\ Worded(text, p, MentionAt(text, p).end)
<1>1. PICK n, end : n = Len(text) /\ end = RunEnd(text, p + 1, LoginChars \cup {"-"})
  OBVIOUS
<1>2. text[p] = "@" /\ MentionAt(text, p).end = end
  BY <1>1 DEF MentionAt
<1>3. n \in Nat /\ p \in 1 .. n /\ p \in 1 .. Len(text) + 1
  BY <1>1
<1>4. LoginChars \cup {"-"} \in SUBSET WordChars /\ "@" \in WordChars
  BY DEF WordChars, LoginChars
<1>5. Worded(text, p, p)
  BY <1>3 DEF Worded
<1>6. Worded(text, p, p + 1)
  BY <1>2, <1>3, <1>4, <1>5, WordedOn
<1>7. Worded(text, p, end) /\ end >= p + 1
  BY <1>1, <1>3, <1>4, <1>6, WordedRun
<1>8. end \in p .. n + 1
  BY <1>1, <1>7 DEF Worded
<1> QED
  BY <1>1, <1>2, <1>3, <1>7, <1>8

LEMMA MatchesAreWords ==
    ASSUME NEW text, Len(text) \in Nat, NEW m,
           \A p \in 1 .. Len(text) : m[p] # NULL =>
              m[p].end \in p + 1 .. Len(text) + 1 /\ Worded(text, p, m[p].end)
    PROVE  Matching(text, m)
BY NoSeparator DEF Matching, Worded

\* A scan finds what the words of a text begin with, each once when they are counted once.
LEMMA ScanOfWords ==
    ASSUME NEW text, Len(text) \in Nat, DOMAIN text = 1 .. Len(text), NEW m, Matching(text, m)
    PROVE  Lists(Deduplicated(Scan(text, m)), FoundIn(text, m), Begun(text, m))
<1>1. PICK n, V : n = Len(text) /\ V = {m[p].found : p \in 1 .. Len(text)}
  OBVIOUS
<1> DEFINE body(from, i) ==
        LET p == IF i = 1 /\ m[1] # NULL THEN 1 ELSE i + 1
        IN IF i > Len(text) THEN <<>>
           ELSE IF p = i + 1 /\ (text[i] \notin Separators \/ p > Len(text) \/ m[p] = NULL)
             THEN from[i + 1]
           ELSE <<m[p].found>> \o from[m[p].end]
<1>0. PICK h : h = CHOOSE from : from = [i \in 1 .. Len(text) + 1 |-> body(from, i)]
  OBVIOUS
<1>2. Scan(text, m) = h[1]
  BY <1>0 DEF Scan
<1>3. ASSUME NEW from, NEW i \in 1 .. Len(text) + 1
      PROVE  body(from, i) = ScanAt(text, m, from, i)
  <2>1. n \in Nat
    BY <1>1
  <2>2. CASE i > n
    BY <1>1, <2>2 DEF ScanAt
  <2>3. CASE i <= n /\ i = 1 /\ m[1] # NULL
    <3>1. StartAt(text, m, i) = 1 /\ ~ (i > n) /\ i # 0 /\ 1 # i + 1
      BY <2>1, <2>3 DEF StartAt
    <3> QED
      BY <1>1, <2>3, <3>1 DEF ScanAt
  <2>4. CASE i <= n /\ ~ (i = 1 /\ m[1] # NULL)
    <3>1. StartAt(text, m, i) =
             IF text[i] \in Separators /\ i + 1 <= n /\ m[i + 1] # NULL THEN i + 1 ELSE 0
      BY <1>1, <2>4, Zenon DEF StartAt
    <3>2. ~ (i > n) /\ i + 1 # 0 /\ (i + 1 > n <=> ~ (i + 1 <= n))
      BY <1>1, <2>1, <2>4
    <3>3. CASE text[i] \in Separators /\ i + 1 <= n /\ m[i + 1] # NULL
      <4>1. StartAt(text, m, i) = i + 1
        BY <3>1, <3>3
      <4> QED
        BY <1>1, <2>4, <3>2, <3>3, <4>1 DEF ScanAt
    <3>4. CASE ~ (text[i] \in Separators /\ i + 1 <= n /\ m[i + 1] # NULL)
      <4>1. StartAt(text, m, i) = 0
        BY <3>1, <3>4
      <4> QED
        BY <1>1, <2>4, <3>2, <3>4, <4>1 DEF ScanAt
    <3> QED
      BY <3>3, <3>4
  <2> QED
    BY <1>1, <2>1, <2>2, <2>3, <2>4
<1> HIDE DEF body
<1>4. ASSUME NEW from
      PROVE  [i \in 1 .. Len(text) + 1 |-> body(from, i)] =
             [i \in 1 .. Len(text) + 1 |-> ScanAt(text, m, from, i)]
  BY <1>3, Zenon
<1>5. Scanned(text, m, h)
  <2>1. PICK from : Scanned(text, m, from)
    BY ScanExists
  <2>2. from = [i \in 1 .. Len(text) + 1 |-> body(from, i)]
    BY <1>4, <2>1, Zenon DEF Scanned
  <2>3. h = [i \in 1 .. Len(text) + 1 |-> body(h, i)]
    BY <1>0, <2>2, Zenon
  <2> QED
    BY <1>4, <2>3, Zenon DEF Scanned
<1>6. h[1] \in Seq(V) /\ {h[1][k] : k \in DOMAIN h[1]} = {m[p].found : p \in Begins(text, m, 1)}
  <2>1. FindsAll(h[1], text, m)
    BY <1>5, ScanFinds
  <2> QED
    BY <1>1, <2>1 DEF FindsAll, FoundIn
<1>7. Begins(text, m, 1) = {q \in WordStarts(text) : m[q] # NULL}
  <2>1. \A p \in 1 .. n : p = 1 \/ p - 1 >= 1
    BY <1>1
  <2> QED
    BY <1>1, <2>1 DEF Begins, WordStarts
<1>8. Lists(Deduplicated(h[1]), V, {h[1][k] : k \in DOMAIN h[1]} \ {NULL})
  BY <1>6, DedupAll
<1> QED
  BY <1>1, <1>2, <1>6, <1>7, <1>8 DEF FoundIn, Begun

LEMMA ParsedAtWords ==
    ASSUME NEW text, Len(text) \in Nat, DOMAIN text = 1 .. Len(text), NEW refs, NEW names,
           refs = [p \in DOMAIN text |-> ReferenceAt(text, p)],
           names = [p \in DOMAIN text |-> MentionAt(text, p)]
    PROVE  /\ Lists(ParseReferences(text), FoundIn(text, refs), Begun(text, refs))
           /\ Lists(ParseMentions(text), FoundIn(text, names), Begun(text, names))
<1>1. Matching(text, refs)
  <2>1. ASSUME NEW p \in 1 .. Len(text), refs[p] # NULL
        PROVE  refs[p].end \in p + 1 .. Len(text) + 1 /\ Worded(text, p, refs[p].end)
    <3>1. refs[p] = ReferenceAt(text, p)
      OBVIOUS
    <3> QED
      BY <2>1, <3>1, ReferenceMatches
  <2> QED
    BY <2>1, MatchesAreWords
<1>2. Matching(text, names)
  <2>1. ASSUME NEW p \in 1 .. Len(text), names[p] # NULL
        PROVE  names[p].end \in p + 1 .. Len(text) + 1 /\ Worded(text, p, names[p].end)
    <3>1. names[p] = MentionAt(text, p)
      OBVIOUS
    <3> QED
      BY <2>1, <3>1, MentionMatches
  <2> QED
    BY <2>1, MatchesAreWords
<1>3. ParseReferences(text) = Deduplicated(Scan(text, refs))
      /\ ParseMentions(text) = Deduplicated(Scan(text, names))
  BY DEF ParseReferences, ParseMentions
<1>4. /\ Lists(Deduplicated(Scan(text, refs)), FoundIn(text, refs), Begun(text, refs))
      /\ Lists(Deduplicated(Scan(text, names)), FoundIn(text, names), Begun(text, names))
  BY <1>1, <1>2, ScanOfWords, Zenon
<1> QED
  BY <1>3, <1>4, Zenon

\* FoundAtWords, of every text.
LEMMA WordsFound == ASSUME IsSequence(typed.text) PROVE FoundAtWords
<1>1. PICK text : text = typed.text
  OBVIOUS
<1>2. Len(text) \in Nat /\ DOMAIN text = 1 .. Len(text)
  BY <1>1, LenProperties DEF IsSequence
<1>3. PICK refs, names : /\ refs = [p \in DOMAIN text |-> ReferenceAt(text, p)]
                         /\ names = [p \in DOMAIN text |-> MentionAt(text, p)]
  OBVIOUS
<1>4. /\ Lists(ParseReferences(text), FoundIn(text, refs), Begun(text, refs))
      /\ Lists(ParseMentions(text), FoundIn(text, names), Begun(text, names))
  BY <1>2, <1>3, ParsedAtWords
<1> QED
  <2>1. PICK references, mentions : /\ references = ParseReferences(text)
                                    /\ mentions = ParseMentions(text)
    OBVIOUS
  <2>2. /\ {references[i] : i \in DOMAIN references} = Begun(text, refs) /\ IsInjective(references)
        /\ {mentions[i] : i \in DOMAIN mentions} = Begun(text, names) /\ IsInjective(mentions)
    BY <1>4, <2>1 DEF Lists
  <2> QED
    BY <1>1, <1>3, <2>1, <2>2 DEF FoundAtWords

\* DisplayMeansTheSame, of every text.
LEMMA DisplaysAgain ==
    ASSUME typed.field = "hours" => IsText(typed.text)
    PROVE  DisplayMeansTheSame
BY EstimationParsed, Displayed DEF DisplayMeansTheSame

-----------------------------------------------------------------------------
(* What is typed.                                                          *)

LEMMA SequenceOf == ASSUME NEW A, NEW s \in Seq(A) PROVE IsSequence(s)
BY DEF IsSequence

LEMMA PutTogether ==
    ASSUME NEW s, NEW t, IsSequence(s), IsSequence(t)
    PROVE  /\ IsSequence(s \o t)
           /\ \A i \in DOMAIN (s \o t) :
                 (\E j \in DOMAIN s : (s \o t)[i] = s[j]) \/ \E j \in DOMAIN t : (s \o t)[i] = t[j]
<1>1. PICK A : A = {s[i] : i \in DOMAIN s} \cup {t[i] : i \in DOMAIN t}
  OBVIOUS
<1>2. PICK B, C : B = {s[i] : i \in DOMAIN s} /\ C = {t[i] : i \in DOMAIN t}
  OBVIOUS
<1>3. s \in Seq(B) /\ t \in Seq(C) /\ B \subseteq A /\ C \subseteq A
  BY <1>1, <1>2 DEF IsSequence
<1>4. s \in Seq(A) /\ t \in Seq(A)
  BY <1>3, SeqMonotonic
<1>5. PICK m, n : m = Len(s) /\ n = Len(t)
  OBVIOUS
<1>6. m \in Nat /\ n \in Nat /\ DOMAIN s = 1 .. m /\ DOMAIN t = 1 .. n
  BY <1>4, <1>5, LenProperties
<1>7. s \o t \in Seq(A) /\ Len(s \o t) = m + n
  BY <1>4, <1>5, ConcatProperties
<1>8. DOMAIN (s \o t) = 1 .. m + n
  BY <1>7, LenProperties
<1>9. \A i \in 1 .. m + n : (s \o t)[i] = IF i <= m THEN s[i] ELSE t[i - m]
  BY <1>4, <1>5, ConcatProperties
<1>10. ASSUME NEW i \in 1 .. m + n
       PROVE  (\E j \in 1 .. m : (s \o t)[i] = s[j]) \/ \E j \in 1 .. n : (s \o t)[i] = t[j]
  <2>1. CASE i <= m
    <3>1. i \in 1 .. m
      BY <1>6, <2>1
    <3> QED
      BY <1>9, <2>1, <3>1
  <2>2. CASE ~ (i <= m)
    <3>1. i - m \in 1 .. n
      BY <1>6, <2>2
    <3> QED
      BY <1>9, <2>2, <3>1
  <2> QED
    BY <2>1, <2>2
<1>11. IsSequence(s \o t)
  BY <1>7, SequenceOf
<1> QED
  BY <1>6, <1>8, <1>10, <1>11

LEMMA TypingInSequence ==
    ASSUME TypesInv, TypedInv, NEW piece \in Input[typed.field], Type(piece)
    PROVE  TypedInv'
<1>1. typed' = [typed EXCEPT !.text = typed.text \o piece, !.count = typed.count + 1]
  BY DEF Type
<1>2. IsSequence(piece) /\ (typed.field = "hours" => IsText(piece))
  BY ListingAssumption DEF TypedInv, Input
<1>3. PICK text : text = typed.text \o piece
  OBVIOUS
<1>4. /\ IsSequence(text)
      /\ \A i \in DOMAIN text : (\E j \in DOMAIN typed.text : text[i] = typed.text[j])
                                \/ \E j \in DOMAIN piece : text[i] = piece[j]
  BY <1>2, <1>3, PutTogether DEF TypedInv
<1>5. typed'.field = typed.field /\ typed'.text = text
  <2>1. typed' = [field |-> typed.field, text |-> text, count |-> typed.count + 1]
    BY <1>1, <1>3 DEF TypesInv
  <2> QED
    BY <2>1
<1>6. ASSUME typed.field = "hours" PROVE IsText(text)
  <2>1. \A i \in DOMAIN text : text[i].number \in Nat \cup {NaN}
    BY <1>2, <1>4, <1>6 DEF TypedInv, IsText
  <2> QED
    BY <1>4, <2>1 DEF IsText, IsSequence
<1> QED
  BY <1>4, <1>5, <1>6 DEF TypedInv

-----------------------------------------------------------------------------
(* The theorems.                                                           *)

LEMMA InitPages == Init => PagesInv
BY DEF Init, Idle, PagesInv, Listed

LEMMA StepKeeps == TypesInv /\ PagesInv /\ [Next]_vars => TypesInv' /\ PagesInv'
<1> SUFFICES ASSUME TypesInv, PagesInv, [Next]_vars PROVE TypesInv' /\ PagesInv'
  OBVIOUS
<1>1. ASSUME NEW piece \in Input[typed.field], Type(piece) PROVE TypesInv' /\ PagesInv'
  <2>1. client = Idle /\ UNCHANGED client
    BY <1>1 DEF Type
  <2> QED
    BY <1>1, <2>1, TypingKeepsTypes DEF PagesInv, Listed, Idle
<1>2. ASSUME NEW t \in 0 .. MaxNow, CreateTicket(t) PROVE TypesInv' /\ PagesInv'
  BY <1>2, CreateKeepsTypes, CreateKeepsPages
<1>3. ASSUME NEW t \in 0 .. MaxNow, NEW id \in DOMAIN tickets, NEW status \in {"new", "done"},
             UpdateTicket(id, status, t)
      PROVE  TypesInv' /\ PagesInv'
  BY <1>3, UpdateKeepsTypes, UpdateKeepsPages
<1>4. ASSUME NEW decodes \in BOOLEAN, NEW number \in 1 .. 2, ListTickets(decodes, number)
      PROVE  TypesInv' /\ PagesInv'
  BY <1>4, ListKeepsTypes, ListKeepsPages
<1>5. CASE NextPage
  BY <1>5, NextPageKeepsTypes, NextPageKeepsPages
<1>6. CASE UNCHANGED vars
  <2>1. TypesInv'
    BY <1>6 DEF vars, history, TypesInv
  <2>2. PagesInv'
    <3>1. UNCHANGED <<tickets, client, pages, touched, crowded>>
      BY <1>6 DEF vars, history
    <3>2. Calm' = Calm /\ Crowded(tickets)' = Crowded(tickets) /\ Listed' = Listed
      BY <3>1 DEF Calm, Crowded, Listed
    <3>3. \A id : Places(id)' = Places(id)
      BY <3>1 DEF Places
    <3>4. \A id : Due(id)' = Due(id)
      BY <3>1 DEF Due, Columns
    <3>5. \A id : BeyondCursor(client.cursor, id)' = BeyondCursor(client.cursor, id)
      BY <3>1 DEF BeyondCursor
    <3> QED
      BY <3>1, <3>2, <3>3, <3>4, <3>5 DEF PagesInv, Shown
  <2> QED
    BY <2>1, <2>2
<1> QED
  BY <1>1, <1>2, <1>3, <1>4, <1>5, <1>6 DEF Next

LEMMA InitTyped == Init => TypedInv
<1> SUFFICES ASSUME Init PROVE TypedInv
  OBVIOUS
<1>1. typed.field \in DOMAIN Input /\ typed.text = <<>>
  BY DEF Init
<1>2. IsSequence(typed.text) /\ DOMAIN typed.text = {}
  BY <1>1 DEF IsSequence
<1> QED
  BY <1>1, <1>2 DEF TypedInv, IsText, IsSequence

LEMMA TypedStays == TypesInv /\ TypedInv /\ [Next]_vars => TypedInv'
<1> SUFFICES ASSUME TypesInv, TypedInv, [Next]_vars PROVE TypedInv'
  OBVIOUS
<1>1. ASSUME NEW piece \in Input[typed.field], Type(piece) PROVE TypedInv'
  BY <1>1, TypingInSequence
<1>2. CASE UNCHANGED typed
  BY <1>2 DEF TypedInv
<1>3. ASSUME NEW t \in 0 .. MaxNow, CreateTicket(t) PROVE UNCHANGED typed
  BY <1>3 DEF CreateTicket
<1>4. ASSUME NEW t \in 0 .. MaxNow, NEW id, NEW status, UpdateTicket(id, status, t)
      PROVE  UNCHANGED typed
  BY <1>4 DEF UpdateTicket
<1>5. ASSUME NEW decodes \in BOOLEAN, NEW number \in 1 .. 2, ListTickets(decodes, number)
      PROVE  UNCHANGED typed
  BY <1>5 DEF ListTickets
<1>6. CASE NextPage
  BY <1>2, <1>6 DEF NextPage
<1>7. CASE UNCHANGED vars
  BY <1>2, <1>7 DEF vars
<1> QED
  BY <1>1, <1>2, <1>3, <1>4, <1>5, <1>6, <1>7 DEF Next

LEMMA ListingInvariant == Spec => [](TypesInv /\ PagesInv)
BY InitTypes, InitPages, StepKeeps, PTL DEF Spec

LEMMA TypedInvariant == Spec => []TypedInv
<1>1. Spec => []TypesInv
  BY ListingInvariant, PTL
<1> QED
  BY <1>1, InitTyped, TypedStays, PTL DEF Spec

\* The variables of Listing keep their types, and every page but the last is full.
THEOREM ListingTypes == Spec => []TypeOK
<1>1. TypesInv => TypeOK
  BY DEF TypesInv, TypeOK, TicketRow
<1> QED
  BY <1>1, ListingInvariant, PTL

\* A client that follows the cursors of list_tickets to the end sees each selected ticket
\* once that nobody wrote meanwhile, that shared no millisecond, and that was not written in
\* the first microsecond of one: whatever is created or updated between its pages, none is
\* skipped and none repeated.
THEOREM PagesShowAll == Spec => []ListedOnce
<1>1. TypesInv /\ PagesInv => ListedOnce
  <2> SUFFICES ASSUME PagesInv, Listed, NEW id \in DOMAIN tickets \ (touched \cup crowded)
               PROVE  Occurrences(id) = IF Selects(client.query.clauses, Columns(id)) THEN 1 ELSE 0
    BY DEF ListedOnce
  <2>1. Shown(id, Due(id))
    BY DEF PagesInv, Calm
  <2>2. CASE Due(id)
    <3>1. PICK at \in Places(id) : Places(id) = {at}
      BY <2>1, <2>2 DEF Shown
    <3>2. Cardinality(Places(id)) = 1
      BY <3>1, FS_Singleton
    <3> QED
      BY <2>2, <3>2 DEF Occurrences, Due
  <2>3. CASE ~ Due(id)
    <3>1. Cardinality(Places(id)) = 0
      BY <2>1, <2>3, FS_EmptySet DEF Shown
    <3> QED
      BY <2>3, <3>1 DEF Occurrences, Due
  <2> QED
    BY <2>2, <2>3
<1> QED
  BY <1>1, ListingInvariant, PTL

\* Whatever is typed into the search field, build_query loses no token of it, joins just
\* the filters that an OR stands between, and the days that build_condition compares with
\* cover time without a gap or an overlap.
THEOREM QueriesAreFaithful == Spec => []SearchFaithful
<1>1. TypesInv /\ TypedInv => SearchFaithful
  <2> SUFFICES ASSUME TypesInv, TypedInv PROVE SearchFaithful
    OBVIOUS
  <2>1. NothingLost
    BY ParseKeepsAll DEF TypedInv
  <2>2. \A id \in DOMAIN tickets : tickets[id].updated_at \in Nat
    BY DEF TypesInv, TicketRow
  <2>3. DaysTile
    BY <2>2, DaysTiled
  <2> QED
    BY <2>1, <2>3 DEF SearchFaithful
<1> QED
  BY <1>1, ListingInvariant, TypedInvariant, PTL

\* Of a comment of any length, parse_references and parse_mentions find just what its words
\* begin with, each once; and an estimation's display is accepted again, for any number of
\* hours, and means the same.
THEOREM TextsAreReadBack == Spec => []TextReadBack
<1>1. TypedInv => TextReadBack
  BY WordsFound, DisplaysAgain DEF TypedInv, TextReadBack
<1> QED
  BY <1>1, TypedInvariant, PTL
=============================================================================
