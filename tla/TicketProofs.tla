---------------------------- MODULE TicketProofs ----------------------------
(***************************************************************************)
(* Theorems about Tickets, for any bodies, tickets, milestones, requests   *)
(* and failures: its types, what a write may change or take along, and     *)
(* that an update announces just what it changed.                          *)
(***************************************************************************)
EXTENDS Tickets, FiniteSetTheorems, SequenceTheorems, WellFoundedInduction, TLAPS

-----------------------------------------------------------------------------
(* The invariant.                                                          *)

RequestFields ==
    {"user", "kind", "id", "body", "pc", "code", "existing", "old_milestones", "row", "cc",
     "links", "shown", "said", "raced", "faulted", "changed", "before", "committed", "released"}

IsRequest(r) == r = [f \in DOMAIN r |-> r[f]] /\ RequestFields \subseteq DOMAIN r

\* Where a handler is still to write or delete.
BeforeWrite == {"milestones", "update", "insert_ms", "write_ms", "count", "delete"}

\* Nothing was changed or taken along beyond what is allowed, and the request is prepared
\* for the write it is about to do: unless it has raced, the row it holds is the one in the
\* table, or the milestone it deletes has no tickets.
Prepared(r) ==
    /\ IsRequest(r)
    /\ r.kind = "update" => r.changed = {}
    /\ r.changed # {} => r.raced = TRUE
    /\ r.released # {} => r.raced = TRUE
    /\ r.pc \in BeforeWrite => r.changed = {} /\ r.released = {}
    /\ r.pc \in {"milestones", "update"} => r.kind = "update" /\ r.id \in DOMAIN tickets
    /\ r.pc = "insert_ms" => r.kind = "create_milestone" /\ "id" \notin DOMAIN r.body
    /\ r.pc = "write_ms" =>
          /\ r.kind = "update_milestone" /\ "id" \notin DOMAIN r.body
          /\ r.existing.id = r.id
          /\ MilestoneFields \cup {"id"} \subseteq DOMAIN r.existing
          /\ r.raced = TRUE \/ r.existing \in milestones
    /\ r.pc \in {"count", "delete"} => r.kind = "delete_milestone"
    /\ r.pc = "delete" => r.raced = TRUE \/ \A x \in ticket_milestones : x[2] # r.id

Tables ==
    /\ IsSequence(tickets)
    /\ \A t \in DOMAIN tickets : TicketFields \subseteq DOMAIN tickets[t]
    /\ \A row \in milestones : MilestoneFields \cup {"id"} \subseteq DOMAIN row /\ row.id \in Nat
    /\ UniqueIds(milestones)
    /\ \A x \in ticket_milestones : x = <<x[1], x[2]>> /\ x[1] \in DOMAIN tickets

TicketsInv ==
    /\ Tables
    /\ IsSequence(requests)
    /\ \A k \in DOMAIN requests : Prepared(requests[k])

-----------------------------------------------------------------------------
(* Numbers.                                                                *)

LEMMA LeastOf == ASSUME NEW S \in SUBSET Nat, S # {} PROVE \E n \in S : \A m \in S : n <= m
<1> DEFINE R == {ss \in Nat \X Nat : ss[1] < ss[2]}
<1>1. IsWellFoundedOn(R, Nat)
  BY NatLessThanWellFounded DEF OpToRel
<1>2. \A x, y \in Nat : <<y, x>> \in R <=> y < x
  OBVIOUS
<1> HIDE DEF R
<1>3. PICK x \in S : \A y \in S : ~ (<<y, x>> \in R)
  BY <1>1, WFMin
<1>4. ASSUME NEW y \in S PROVE x <= y
  <2>1. x \in Nat /\ y \in Nat
    OBVIOUS
  <2>2. ~ (<<y, x>> \in R)
    BY <1>3
  <2> QED
    BY <1>2, <2>1, <2>2
<1> QED
  BY <1>4

\* Induction over the numbers that are in a set.
LEMMA CountingUp ==
    ASSUME NEW S \in SUBSET Nat, 0 \in S, \A n \in S : n + 1 \in S
    PROVE  S = Nat
<1> SUFFICES ASSUME S # Nat PROVE FALSE
  OBVIOUS
<1>1. Nat \ S # {}
  OBVIOUS
<1>2. PICK n \in Nat \ S : \A m \in Nat \ S : n <= m
  BY <1>1, LeastOf
<1>3. n # 0 /\ n - 1 \in Nat /\ n - 1 \in S
  BY <1>2
<1>4. (n - 1) + 1 \in S
  BY <1>3
<1> QED
  BY <1>2, <1>4

\* f starts from base, and each value is the step from the one before.
Stepwise(f, n, S, base, step) ==
    /\ f \in [0 .. n -> S] /\ f[0] = base
    /\ \A i \in 1 .. n : f[i] = step[<<i, f[i - 1]>>]

\* What is defined step by step over the numbers up to n exists.
LEMMA StepByStep ==
    ASSUME NEW n, NEW S, NEW base, NEW step,
           n \in Nat, base \in S, step \in [(1 .. n) \X S -> S]
    PROVE  \E f : Stepwise(f, n, S, base, step)
<1> DEFINE Steps(f, m) == /\ f \in [0 .. m -> S] /\ f[0] = base
                          /\ \A i \in 1 .. m : f[i] = step[<<i, f[i - 1]>>]
           P == {m \in Nat : m <= n => \E f : Steps(f, m)}
<1>1. 0 \in P
  <2> PICK f : f = [i \in 0 .. 0 |-> base]
    OBVIOUS
  <2>1. Steps(f, 0)
    OBVIOUS
  <2> QED
    BY <2>1
<1>2. ASSUME NEW m \in P PROVE m + 1 \in P
  <2>0. m \in Nat /\ m + 1 \in Nat
    OBVIOUS
  <2> SUFFICES ASSUME m + 1 <= n PROVE \E f : Steps(f, m + 1)
    BY <2>0
  <2> PICK g : Steps(g, m)
    BY <2>0
  <2> PICK e : e = step[<<m + 1, g[m]>>]
    OBVIOUS
  <2>1. e \in S /\ g[m] \in S
    <3>1. m \in 0 .. m /\ m + 1 \in 1 .. n
      BY <2>0
    <3>2. g[m] \in S
      BY <3>1
    <3>3. <<m + 1, g[m]>> \in (1 .. n) \X S
      BY <3>1, <3>2
    <3> QED
      BY <3>2, <3>3
  <2>9. m \in 0 .. m /\ 0 \in 0 .. m
    BY <2>0
  <2> PICK f : f = [i \in 0 .. m + 1 |-> IF i = m + 1 THEN e ELSE g[i]]
    OBVIOUS
  <2>2. f \in [0 .. m + 1 -> S] /\ f[0] = base /\ f[m + 1] = e /\ \A i \in 0 .. m : f[i] = g[i]
    <3>1. \A i \in 0 .. m : i \in 0 .. m + 1 /\ i # m + 1 /\ g[i] \in S
      BY <2>0
    <3>2. m + 1 \in 0 .. m + 1 /\ 0 \in 0 .. m + 1
      BY <2>0
    <3>3. f \in [0 .. m + 1 -> S]
      <4> SUFFICES ASSUME NEW i \in 0 .. m + 1 PROVE f[i] \in S
        OBVIOUS
      <4>1. i = m + 1 \/ i \in 0 .. m
        BY <2>0
      <4> QED
        BY <2>1, <3>1, <4>1
    <3>4. f[m + 1] = e /\ \A i \in 0 .. m : f[i] = g[i]
      BY <3>1, <3>2
    <3> QED
      BY <2>9, <3>3, <3>4
  <2>3. ASSUME NEW i \in 1 .. m + 1 PROVE f[i] = step[<<i, f[i - 1]>>]
    <3>1. CASE i = m + 1
      <4>1. i - 1 = m
        BY <2>0, <3>1
      <4> QED
        BY <2>2, <2>9, <3>1, <4>1
    <3>2. CASE i # m + 1
      <4>1. i \in 1 .. m /\ i - 1 \in 0 .. m /\ i \in 0 .. m
        BY <2>0, <3>2
      <4>2. f[i] = g[i] /\ f[i - 1] = g[i - 1] /\ g[i] = step[<<i, g[i - 1]>>]
        BY <2>2, <4>1
      <4> QED
        BY <4>2
    <3> QED
      BY <3>1, <3>2
  <2>4. Steps(f, m + 1)
    BY <2>2, <2>3
  <2> HIDE DEF Steps
  <2> QED
    BY <2>4
<1>3. P = Nat
  <2> HIDE DEF P
  <2>1. P \in SUBSET Nat
    BY DEF P
  <2> QED
    BY <1>1, <1>2, <2>1, CountingUp
<1>4. \E f : Steps(f, n)
  BY <1>3
<1> QED
  BY <1>4 DEF Stepwise

-----------------------------------------------------------------------------
(* Sequences.                                                              *)

LEMMA Building ==
    ASSUME NEW n \in Nat, NEW q, q = [i \in 1 .. n |-> q[i]]
    PROVE  IsSequence(q) /\ DOMAIN q = 1 .. n /\ Len(q) = n
<1> PICK T : T = {q[i] : i \in 1 .. n}
  OBVIOUS
<1>1. q \in [1 .. n -> T] /\ DOMAIN q = 1 .. n
  OBVIOUS
<1>2. q \in Seq(T)
  BY <1>1, SeqDef
<1>3. Len(q) = n
  BY <1>1, <1>2, LenProperties
<1>4. {q[i] : i \in DOMAIN q} = T
  BY <1>1
<1> QED
  BY <1>1, <1>2, <1>3, <1>4 DEF IsSequence

Extended(s, e) == Append(s, e)
NewIndex(s) == Len(s) + 1

LEMMA Appending ==
    ASSUME NEW s, NEW e, NEW q, IsSequence(s), q = Extended(s, e)
    PROVE  /\ IsSequence(q) /\ NewIndex(s) \in DOMAIN q /\ NewIndex(s) \notin DOMAIN s
           /\ \A i : i \in DOMAIN q <=> i \in DOMAIN s \/ i = NewIndex(s)
           /\ q[NewIndex(s)] = e /\ \A i \in DOMAIN s : q[i] = s[i]
<1> PICK S : S = {s[i] : i \in DOMAIN s} \cup {e}
  OBVIOUS
<1>1. s \in Seq(S) /\ e \in S
  BY SeqMonotonic DEF IsSequence
<1>2. q = Append(s, e)
  BY DEF Extended
<1>3. /\ q \in Seq(S) /\ DOMAIN s = 1 .. Len(s) /\ Len(s) \in Nat
      /\ DOMAIN q = 1 .. Len(s) + 1 /\ Len(q) = Len(s) + 1
      /\ q[Len(s) + 1] = e /\ \A i \in DOMAIN s : q[i] = s[i]
  BY <1>1, <1>2, AppendProperties, LenProperties
<1>4. q = [i \in 1 .. Len(s) + 1 |-> q[i]]
  <2>1. q \in [1 .. Len(s) + 1 -> S]
    BY <1>3, LenProperties
  <2> QED
    BY <2>1
<1>5. IsSequence(q)
  BY <1>3, <1>4, Building
<1> QED
  BY <1>3, <1>5 DEF NewIndex

LEMMA Replacing ==
    ASSUME NEW s, NEW k \in DOMAIN s, NEW e, NEW q, IsSequence(s), q = [s EXCEPT ![k] = e]
    PROVE  /\ IsSequence(q) /\ DOMAIN q = DOMAIN s /\ Len(q) = Len(s)
           /\ q[k] = e /\ \A i \in DOMAIN s : i # k => q[i] = s[i]
<1>1. s \in [1 .. Len(s) -> {s[i] : i \in DOMAIN s}] /\ Len(s) \in Nat /\ DOMAIN s = 1 .. Len(s)
  BY LenProperties DEF IsSequence
<1>2. /\ DOMAIN q = DOMAIN s
      /\ q[k] = e /\ \A i \in DOMAIN s : i # k => q[i] = s[i]
      /\ q = [i \in 1 .. Len(s) |-> q[i]]
  BY <1>1
<1> QED
  BY <1>1, <1>2, Building

LEMMA Rebuilding ==
    ASSUME NEW s, NEW q, IsSequence(s), q = [i \in DOMAIN s |-> q[i]]
    PROVE  IsSequence(q) /\ DOMAIN q = DOMAIN s /\ Len(q) = Len(s)
<1>1. DOMAIN s = 1 .. Len(s) /\ Len(s) \in Nat
  BY LenProperties DEF IsSequence
<1> QED
  BY <1>1, Building

-----------------------------------------------------------------------------
(* Sums.                                                                   *)

Sums(s) == CHOOSE sum : sum = [i \in 0 .. Len(s) |-> IF i = 0 THEN 0 ELSE sum[i - 1] + s[i]]

\* The sum of a sequence of numbers, by its partial sums.
LEMMA SumSteps ==
    ASSUME NEW s \in Seq(Nat)
    PROVE  /\ SumOf(s) = Sums(s)[Len(s)] /\ Sums(s) \in [0 .. Len(s) -> Nat] /\ Sums(s)[0] = 0
           /\ \A i \in 1 .. Len(s) : Sums(s)[i] = Sums(s)[i - 1] + s[i]
<1>0. Len(s) \in Nat /\ \A i \in 1 .. Len(s) : s[i] \in Nat
  BY LenProperties
<1> PICK step : step = [x \in (1 .. Len(s)) \X Nat |-> x[2] + s[x[1]]]
  OBVIOUS
<1>1. step \in [(1 .. Len(s)) \X Nat -> Nat]
  BY <1>0
<1>2. PICK f \in [0 .. Len(s) -> Nat] :
         f[0] = 0 /\ \A i \in 1 .. Len(s) : f[i] = step[<<i, f[i - 1]>>]
  <2> PICK n \in Nat : n = Len(s)
    BY <1>0
  <2> PICK S, base : S = Nat /\ base = 0
    OBVIOUS
  <2>1. step \in [(1 .. n) \X S -> S] /\ base \in S
    BY <1>1
  <2>2. \E f : Stepwise(f, n, S, base, step)
    BY <2>1, StepByStep
  <2> QED
    BY <2>2 DEF Stepwise
<1>3. \A i \in 1 .. Len(s) : f[i] = f[i - 1] + s[i]
  <2> SUFFICES ASSUME NEW i \in 1 .. Len(s) PROVE f[i] = f[i - 1] + s[i]
    OBVIOUS
  <2> PICK x : x = <<i, f[i - 1]>>
    OBVIOUS
  <2>1. x \in (1 .. Len(s)) \X Nat /\ x[1] = i /\ x[2] = f[i - 1]
    <3>1. i - 1 \in 0 .. Len(s)
      BY <1>0
    <3> QED
      BY <3>1
  <2>2. f[i] = step[x]
    BY <1>2
  <2> QED
    BY <2>1, <2>2
<1>4. f = [i \in 0 .. Len(s) |-> IF i = 0 THEN 0 ELSE f[i - 1] + s[i]]
  <2>1. ASSUME NEW i \in 0 .. Len(s) PROVE f[i] = IF i = 0 THEN 0 ELSE f[i - 1] + s[i]
    <3>1. i = 0 \/ i \in 1 .. Len(s)
      BY <1>0
    <3> QED
      BY <1>2, <1>3, <3>1
  <2>2. f = [i \in 0 .. Len(s) |-> f[i]]
    BY <1>2
  <2> QED
    BY <2>1, <2>2, Zenon
<1>5. Sums(s) = [i \in 0 .. Len(s) |-> IF i = 0 THEN 0 ELSE Sums(s)[i - 1] + s[i]]
  BY <1>4 DEF Sums
<1> PICK sums : sums = Sums(s)
  OBVIOUS
<1>6. sums = [i \in 0 .. Len(s) |-> IF i = 0 THEN 0 ELSE sums[i - 1] + s[i]]
  BY <1>5
<1>7. sums[0] = 0 /\ \A i \in 1 .. Len(s) : sums[i] = sums[i - 1] + s[i]
  BY <1>0, <1>6
<1> DEFINE P == {i \in Nat : i <= Len(s) => sums[i] \in Nat}
<1>8. P = Nat
  <2>1. 0 \in P
    BY <1>7
  <2>2. ASSUME NEW i \in P PROVE i + 1 \in P
    <3>1. i + 1 <= Len(s) => i + 1 \in 1 .. Len(s) /\ (i + 1) - 1 = i /\ i <= Len(s)
      BY <1>0
    <3>2. i + 1 <= Len(s) => sums[i + 1] = sums[i] + s[i + 1] /\ sums[i] \in Nat
      BY <1>7, <3>1
    <3> QED
      BY <1>0, <3>1, <3>2
  <2> HIDE DEF P
  <2>3. P \in SUBSET Nat
    BY DEF P
  <2> QED
    BY <2>1, <2>2, <2>3, CountingUp
<1>9. sums \in [0 .. Len(s) -> Nat]
  <2>1. ASSUME NEW i \in 0 .. Len(s) PROVE sums[i] \in Nat
    <3>1. i \in P
      BY <1>0, <1>8
    <3> QED
      BY <1>0, <3>1
  <2> QED
    BY <1>6, <2>1
<1> QED
  BY <1>7, <1>9 DEF SumOf, Sums

\* Less in every place is less in sum.
LEMMA SumMonotonic ==
    ASSUME NEW s \in Seq(Nat), NEW r \in Seq(Nat), Len(r) = Len(s),
           \A i \in 1 .. Len(s) : r[i] <= s[i]
    PROVE  SumOf(r) \in Nat /\ SumOf(s) \in Nat /\ SumOf(r) <= SumOf(s)
<1> PICK n \in Nat : n = Len(s)
  BY LenProperties
<1> PICK f, g : f = Sums(r) /\ g = Sums(s)
  OBVIOUS
<1>1. /\ SumOf(r) = f[n] /\ f \in [0 .. n -> Nat] /\ f[0] = 0
      /\ \A i \in 1 .. n : f[i] = f[i - 1] + r[i]
  BY SumSteps
<1>2. /\ SumOf(s) = g[n] /\ g \in [0 .. n -> Nat] /\ g[0] = 0
      /\ \A i \in 1 .. n : g[i] = g[i - 1] + s[i]
  BY SumSteps
<1>3. \A i \in 1 .. n : r[i] \in Nat /\ s[i] \in Nat /\ r[i] <= s[i]
  BY LenProperties
<1> DEFINE P == {i \in Nat : i <= n => f[i] <= g[i]}
<1>4. P = Nat
  <2>1. 0 \in P
    BY <1>1, <1>2
  <2>2. ASSUME NEW i \in P PROVE i + 1 \in P
    <3> SUFFICES ASSUME i + 1 <= n PROVE f[i + 1] <= g[i + 1]
      OBVIOUS
    <3>1. i + 1 \in 1 .. n /\ (i + 1) - 1 = i /\ i \in 0 .. n /\ f[i] <= g[i]
      OBVIOUS
    <3> PICK j : j = i + 1
      OBVIOUS
    <3>4. f[j] = f[j - 1] + r[j] /\ g[j] = g[j - 1] + s[j]
      BY <1>1, <1>2, <3>1
    <3>2. f[i + 1] = f[i] + r[i + 1] /\ g[i + 1] = g[i] + s[i + 1]
      BY <3>1, <3>4
    <3>3. f[i] \in Nat /\ g[i] \in Nat
      BY <1>1, <1>2, <3>1
    <3> QED
      BY <1>3, <3>1, <3>2, <3>3
  <2> HIDE DEF P
  <2>3. P \in SUBSET Nat
    BY DEF P
  <2> QED
    BY <2>1, <2>2, <2>3, CountingUp
<1>5. f[n] <= g[n]
  BY <1>4
<1> QED
  BY <1>1, <1>2, <1>5

-----------------------------------------------------------------------------
(* Requests.                                                               *)

\* Without a write to the tables, a request that goes on prepared leaves the others so.
LEMMA StepPrepared ==
    ASSUME TicketsInv, NEW k \in DOMAIN requests, NEW r, Prepared(r), Step(k, r),
           UNCHANGED <<tickets, ticket_milestones, milestones>>
    PROVE  TicketsInv'
<1>1. /\ IsSequence(requests') /\ DOMAIN requests' = DOMAIN requests
      /\ requests'[k] = r /\ \A j \in DOMAIN requests : j # k => requests'[j] = requests[j]
  BY Replacing DEF Step, TicketsInv
<1>2. ASSUME NEW j \in DOMAIN requests' PROVE Prepared(requests'[j])
  BY <1>1 DEF TicketsInv
<1>3. ASSUME NEW q, Prepared(q) PROVE Prepared(q)'
  BY <1>3 DEF Prepared
<1>4. Tables'
  BY DEF TicketsInv, Tables
<1> QED
  BY <1>1, <1>2, <1>3, <1>4 DEF TicketsInv, Prepared

LEMMA ArrivePrepared ==
    ASSUME TicketsInv, NEW r, Prepared(r), Arrive(r),
           UNCHANGED <<tickets, ticket_milestones, milestones>>
    PROVE  TicketsInv'
<1> PICK q : q = requests'
  OBVIOUS
<1>1. q = Extended(requests, r)
  BY DEF Arrive, Extended
<1>2. IsSequence(requests)
  BY DEF TicketsInv
<1>3. /\ IsSequence(q) /\ \A j : j \in DOMAIN q <=> j \in DOMAIN requests \/ j = NewIndex(requests)
      /\ q[NewIndex(requests)] = r /\ \A j \in DOMAIN requests : q[j] = requests[j]
  BY <1>1, <1>2, Appending
<1>4. ASSUME NEW j \in DOMAIN q PROVE Prepared(q[j])
  BY <1>3 DEF TicketsInv
<1>5. Tables'
  BY DEF TicketsInv, Tables
<1> QED
  BY <1>3, <1>4, <1>5 DEF TicketsInv, Prepared

\* A request that raced is prepared for anything.
LEMMA RacedPrepared ==
    ASSUME NEW r, Prepared(r) PROVE Prepared([r EXCEPT !.raced = TRUE])
<1> PICK q : q = [r EXCEPT !.raced = TRUE]
  OBVIOUS
<1>1. /\ IsRequest(q) /\ q.raced = TRUE
      /\ q.kind = r.kind /\ q.id = r.id /\ q.body = r.body /\ q.pc = r.pc
      /\ q.existing = r.existing /\ q.changed = r.changed /\ q.released = r.released
  BY DEF Prepared, IsRequest, RequestFields
<1> QED
  BY <1>1 DEF Prepared

\* A handler past its write has nothing left to prepare for.
LEMMA PastWrite ==
    ASSUME NEW r, Prepared(r), NEW q, IsRequest(q), q.pc \notin BeforeWrite,
           q.kind = r.kind, q.changed = r.changed, q.released = r.released, q.raced = r.raced
    PROVE  Prepared(q)
BY DEF Prepared, BeforeWrite

LEMMA BlankPrepared ==
    ASSUME NEW u, NEW kind, NEW id, NEW body, NEW r, r = Blank(u, kind, id, body)
    PROVE  /\ Prepared(r)
           /\ r.kind = kind /\ r.id = id /\ r.body = body /\ r.pc = "done"
           /\ r.changed = {} /\ r.released = {}
<1>1. IsRequest(r)
  BY DEF Blank, IsRequest, RequestFields
<1>2. /\ r.kind = kind /\ r.id = id /\ r.body = body /\ r.pc = "done"
      /\ r.changed = {} /\ r.released = {}
  BY DEF Blank
<1> QED
  BY <1>1, <1>2 DEF Prepared, BeforeWrite

LEMMA AnsweredPrepared ==
    ASSUME NEW r, Prepared(r), NEW error PROVE Prepared(Answered(r, error))
<1> PICK q : q = [r EXCEPT !.pc = "done", !.code = HttpStatus[error]]
  OBVIOUS
<1>1. /\ IsRequest(q) /\ q.pc = "done"
      /\ q.kind = r.kind /\ q.changed = r.changed /\ q.released = r.released /\ q.raced = r.raced
  BY DEF Prepared, IsRequest, RequestFields
<1>2. Prepared(q)
  BY <1>1, PastWrite DEF BeforeWrite
<1> QED
  BY <1>2 DEF Answered

\* The two bad ends.
LEMMA RefusedPrepared ==
    ASSUME TicketsInv, NEW k \in DOMAIN requests, NEW error, Step(k, Answered(requests[k], error)),
           UNCHANGED <<tickets, ticket_milestones, milestones>>
    PROVE  TicketsInv'
<1>1. Prepared(requests[k])
  BY DEF TicketsInv
<1> QED
  BY <1>1, AnsweredPrepared, StepPrepared

LEMMA ArrivalRefused ==
    ASSUME TicketsInv, NEW r, Prepared(r), NEW error, Arrive(Answered(r, error)),
           UNCHANGED <<tickets, ticket_milestones, milestones>>
    PROVE  TicketsInv'
BY AnsweredPrepared, ArrivePrepared

-----------------------------------------------------------------------------
(* Requests arrive.                                                        *)

LEMMA Found ==
    ASSUME IsSequence(tickets), NEW t \in TicketIds, t \notin DOMAIN tickets
    PROVE  t > Len(tickets)
<1>1. DOMAIN tickets = 1 .. Len(tickets) /\ Len(tickets) \in Nat
  BY LenProperties DEF IsSequence
<1>2. t \in Nat /\ t >= 1
  <2>1. MaxTickets \in Nat
    BY TicketsAssumption
  <2> QED
    BY <2>1 DEF TicketIds
<1> QED
  BY <1>1, <1>2

LEMMA Arrivals ==
    ASSUME TicketsInv, NEW u,
           \/ \E body \in CreateBodies : CreateTicket(u, body)
           \/ \E t \in TicketIds, body \in UpdateBodies : UpdateTicket(u, t, body)
           \/ \E body \in MilestoneBodies :
                 CreateMilestone(u, body) \/ \E m \in MilestoneIds : UpdateMilestone(u, m, body)
           \/ \E m \in MilestoneIds : DeleteMilestone(u, m)
           \/ Read
    PROVE  TicketsInv'
<1>1. ASSUME NEW body \in CreateBodies, CreateTicket(u, body) PROVE TicketsInv'
  <2> PICK r : r = Blank(u, "create", 0, body)
    OBVIOUS
  <2> PICK q : q = [r EXCEPT !.pc = "insert"]
    OBVIOUS
  <2>0. UNCHANGED <<tickets, ticket_milestones, milestones>>
    BY <1>1 DEF CreateTicket
  <2>1. Prepared(r)
    BY BlankPrepared
  <2>2. /\ IsRequest(q) /\ q.pc = "insert"
        /\ q.kind = r.kind /\ q.changed = r.changed /\ q.released = r.released /\ q.raced = r.raced
    BY <2>1 DEF Prepared, IsRequest, RequestFields
  <2>3. Prepared(q)
    BY <2>1, <2>2, PastWrite DEF BeforeWrite
  <2>4. Arrive(Answered(r, "Validation")) \/ Arrive(q)
    BY <1>1 DEF CreateTicket
  <2> QED
    BY <2>0, <2>1, <2>3, <2>4, ArrivalRefused, ArrivePrepared
<1>2. ASSUME NEW t \in TicketIds, NEW body \in UpdateBodies, UpdateTicket(u, t, body)
      PROVE  TicketsInv'
  <2> PICK r : r = Blank(u, "update", t, body)
    OBVIOUS
  <2> PICK q : q = [r EXCEPT !.existing = tickets[t], !.before = Snapshot(t),
                             !.pc = IF "milestones" \in DOMAIN body THEN "milestones" ELSE "update"]
    OBVIOUS
  <2>0. UNCHANGED <<tickets, ticket_milestones, milestones>>
    BY <1>2 DEF UpdateTicket
  <2>1. /\ Prepared(r) /\ r.kind = "update" /\ r.id = t /\ r.changed = {} /\ r.released = {}
    BY BlankPrepared
  <2>2. /\ IsRequest(q) /\ q.pc \in {"milestones", "update"}
        /\ q.kind = "update" /\ q.id = t /\ q.changed = {} /\ q.released = {}
    BY <2>1 DEF Prepared, IsRequest, RequestFields
  <2>3. t \in DOMAIN tickets => Prepared(q)
    BY <2>2 DEF Prepared
  <2>4. Arrive(Answered(r, Refusal(u, t, body))) \/ (Refusal(u, t, body) = "" /\ Arrive(q))
    BY <1>2 DEF UpdateTicket
  <2>5. Refusal(u, t, body) = "" => t \in DOMAIN tickets
    <3> SUFFICES ASSUME t \notin DOMAIN tickets PROVE Refusal(u, t, body) # ""
      OBVIOUS
    <3>1. t > Len(tickets)
      BY Found DEF TicketsInv, Tables
    <3>2. Refusal(u, t, body) = "NotFound"
      BY <3>1 DEF Refusal
    <3> QED
      BY <3>2
  <2> QED
    BY <2>0, <2>1, <2>3, <2>4, <2>5, ArrivalRefused, ArrivePrepared
<1>3. ASSUME NEW body \in MilestoneBodies, CreateMilestone(u, body) PROVE TicketsInv'
  <2> PICK r : r = Blank(u, "create_milestone", 0, body)
    OBVIOUS
  <2> PICK q : q = [r EXCEPT !.pc = "insert_ms"]
    OBVIOUS
  <2>0. UNCHANGED <<tickets, ticket_milestones, milestones>>
    BY <1>3 DEF CreateMilestone
  <2>1. /\ Prepared(r) /\ r.kind = "create_milestone" /\ r.body = body
        /\ r.changed = {} /\ r.released = {}
    BY BlankPrepared
  <2>2. /\ IsRequest(q) /\ q.pc = "insert_ms" /\ q.kind = "create_milestone" /\ q.body = body
        /\ q.changed = {} /\ q.released = {}
    BY <2>1 DEF Prepared, IsRequest, RequestFields
  <2>3. Prepared(q)
    BY <2>2, TicketsAssumption DEF Prepared, MilestoneBody
  <2>4. Arrive(Answered(r, "Validation")) \/ Arrive(q)
    BY <1>3 DEF CreateMilestone
  <2> QED
    BY <2>0, <2>1, <2>3, <2>4, ArrivalRefused, ArrivePrepared
<1>4. ASSUME NEW body \in MilestoneBodies, NEW m \in MilestoneIds, UpdateMilestone(u, m, body)
      PROVE  TicketsInv'
  <2> PICK r : r = Blank(u, "update_milestone", m, body)
    OBVIOUS
  <2> PICK q : q = [r EXCEPT !.pc = "write_ms", !.existing = MilestoneRow(m)]
    OBVIOUS
  <2>0. UNCHANGED <<tickets, ticket_milestones, milestones>>
    BY <1>4 DEF UpdateMilestone
  <2>1. /\ Prepared(r) /\ r.kind = "update_milestone" /\ r.id = m /\ r.body = body
        /\ r.changed = {} /\ r.released = {}
    BY BlankPrepared
  <2>2. /\ IsRequest(q) /\ q.pc = "write_ms" /\ q.kind = "update_milestone" /\ q.body = body
        /\ q.id = m /\ q.existing = MilestoneRow(m) /\ q.changed = {} /\ q.released = {}
    BY <2>1 DEF Prepared, IsRequest, RequestFields
  <2>3. MilestoneExists(m) => Prepared(q)
    <3>1. MilestoneExists(m) => MilestoneRow(m) \in milestones /\ MilestoneRow(m).id = m
      BY DEF MilestoneExists, MilestoneRow
    <3> QED
      BY <2>2, <3>1, TicketsAssumption DEF Prepared, TicketsInv, Tables, MilestoneBody
  <2>4. Arrive(Answered(r, "NotFound")) \/ (MilestoneExists(m) /\ Arrive(q))
    BY <1>4 DEF UpdateMilestone
  <2> QED
    BY <2>0, <2>1, <2>3, <2>4, ArrivalRefused, ArrivePrepared
<1>5. ASSUME NEW m \in MilestoneIds, DeleteMilestone(u, m) PROVE TicketsInv'
  <2> PICK r : r = Blank(u, "delete_milestone", m, <<>>)
    OBVIOUS
  <2> PICK q : q = [r EXCEPT !.pc = "count"]
    OBVIOUS
  <2>0. UNCHANGED <<tickets, ticket_milestones, milestones>>
    BY <1>5 DEF DeleteMilestone
  <2>1. Prepared(r) /\ r.kind = "delete_milestone" /\ r.changed = {} /\ r.released = {}
    BY BlankPrepared
  <2>2. /\ IsRequest(q) /\ q.pc = "count" /\ q.kind = "delete_milestone"
        /\ q.changed = {} /\ q.released = {}
    BY <2>1 DEF Prepared, IsRequest, RequestFields
  <2>3. Prepared(q)
    BY <2>2 DEF Prepared
  <2>4. Arrive(Answered(r, "NotFound")) \/ Arrive(q)
    BY <1>5 DEF DeleteMilestone
  <2> QED
    BY <2>0, <2>1, <2>3, <2>4, ArrivalRefused, ArrivePrepared
<1>6. ASSUME NEW t \in TicketIds, GetTicket(t) PROVE TicketsInv'
  <2> PICK r : r = Blank(NULL, "get", t, <<>>)
    OBVIOUS
  <2> PICK q : q = [r EXCEPT !.pc = "cc", !.row = tickets[t], !.before = Snapshot(t)]
    OBVIOUS
  <2>0. UNCHANGED <<tickets, ticket_milestones, milestones>>
    BY <1>6 DEF GetTicket
  <2>1. Prepared(r)
    BY BlankPrepared
  <2>2. /\ IsRequest(q) /\ q.pc = "cc"
        /\ q.kind = r.kind /\ q.changed = r.changed /\ q.released = r.released /\ q.raced = r.raced
    BY <2>1 DEF Prepared, IsRequest, RequestFields
  <2>3. Prepared(q)
    BY <2>1, <2>2, PastWrite DEF BeforeWrite
  <2>4. Arrive(Answered(r, "NotFound")) \/ Arrive(q)
    BY <1>6 DEF GetTicket
  <2> QED
    BY <2>0, <2>1, <2>3, <2>4, ArrivalRefused, ArrivePrepared
<1>7. ASSUME NEW status, ListMilestones(status) PROVE TicketsInv'
  <2> PICK r : r = Blank(NULL, "list_milestones", 0, <<>>)
    OBVIOUS
  <2> DEFINE found == SetToSortSeq({row \in milestones : status \in {NULL, row.status}}, Sooner)
  <2> HIDE DEF found
  <2> PICK q : q = [r EXCEPT !.pc = "stats", !.row = found]
    OBVIOUS
  <2>0. UNCHANGED <<tickets, ticket_milestones, milestones>>
    BY <1>7 DEF ListMilestones
  <2>1. Prepared(r)
    BY BlankPrepared
  <2>2. /\ IsRequest(q) /\ q.pc = "stats"
        /\ q.kind = r.kind /\ q.changed = r.changed /\ q.released = r.released /\ q.raced = r.raced
    BY <2>1 DEF Prepared, IsRequest, RequestFields
  <2>3. Prepared(q)
    BY <2>1, <2>2, PastWrite DEF BeforeWrite
  <2>4. Arrive(q)
    BY <1>7 DEF ListMilestones, found
  <2> QED
    BY <2>0, <2>3, <2>4, ArrivePrepared
<1> QED
  BY <1>1, <1>2, <1>3, <1>4, <1>5, <1>6, <1>7 DEF Read

-----------------------------------------------------------------------------
(* Steps that read, or go on past the write.                               *)

\* The handler's next program counter is past its writes, and the history is as it was.
LEMMA GoesOn ==
    ASSUME TicketsInv, NEW k \in DOMAIN requests, NEW q, IsRequest(q), q.pc \notin BeforeWrite,
           q.kind = requests[k].kind, q.changed = requests[k].changed,
           q.released = requests[k].released, q.raced = requests[k].raced, Step(k, q),
           UNCHANGED <<tickets, ticket_milestones, milestones>>
    PROVE  TicketsInv'
<1>1. Prepared(requests[k])
  BY DEF TicketsInv
<1>2. Prepared(q)
  BY <1>1, PastWrite
<1> QED
  BY <1>2, StepPrepared

LEMMA Reads ==
    ASSUME TicketsInv, NEW k \in DOMAIN requests,
           \/ CaptureMilestones(k) \/ Reread(k) \/ EnrichCc(k) \/ EnrichComponent(k)
           \/ EnrichLinks(k) \/ EnrichNames(k) \/ Announce(k)
           \/ RereadMilestone(k) \/ CountAssigned(k) \/ Stats(k)
    PROVE  TicketsInv'
<1> PICK r : r = requests[k]
  OBVIOUS
<1>1. Prepared(r) /\ IsRequest(r)
  BY DEF TicketsInv, Prepared
<1>2. CASE CaptureMilestones(k)
  <2> PICK q : q = [r EXCEPT !.pc = "update", !.old_milestones = Links(r.id)]
    OBVIOUS
  <2>1. /\ r.pc = "milestones" /\ Step(k, q)
        /\ UNCHANGED <<tickets, ticket_milestones, milestones>>
    BY <1>2 DEF CaptureMilestones
  <2>2. /\ IsRequest(q) /\ q.pc = "update" /\ q.kind = r.kind /\ q.id = r.id
        /\ q.changed = r.changed /\ q.released = r.released
    BY <1>1 DEF IsRequest, RequestFields
  <2>3. Prepared(q)
    BY <1>1, <2>1, <2>2 DEF Prepared, BeforeWrite
  <2> QED
    BY <2>1, <2>3, StepPrepared
<1>3. CASE Reread(k)
  <2> PICK q : q = [r EXCEPT !.pc = "cc", !.row = tickets[r.id]]
    OBVIOUS
  <2>1. Step(k, q) /\ UNCHANGED <<tickets, ticket_milestones, milestones>>
    BY <1>3 DEF Reread
  <2>2. /\ IsRequest(q) /\ q.pc \notin BeforeWrite /\ q.kind = r.kind
        /\ q.changed = r.changed /\ q.released = r.released /\ q.raced = r.raced
    BY <1>1 DEF IsRequest, RequestFields, BeforeWrite
  <2> QED
    BY <2>1, <2>2, GoesOn
<1>4. CASE EnrichCc(k)
  <2> PICK q : q = [r EXCEPT !.pc = "component", !.cc = Cc(r.id)]
    OBVIOUS
  <2>1. Step(k, q) /\ UNCHANGED <<tickets, ticket_milestones, milestones>>
    BY <1>4 DEF EnrichCc
  <2>2. /\ IsRequest(q) /\ q.pc \notin BeforeWrite /\ q.kind = r.kind
        /\ q.changed = r.changed /\ q.released = r.released /\ q.raced = r.raced
    BY <1>1 DEF IsRequest, RequestFields, BeforeWrite
  <2> QED
    BY <2>1, <2>2, GoesOn
<1>5. CASE EnrichComponent(k)
  <2> PICK q : q = [r EXCEPT !.pc = "links"]
    OBVIOUS
  <2>1. /\ Step(k, q) \/ Step(k, Answered(r, "Internal"))
        /\ UNCHANGED <<tickets, ticket_milestones, milestones>>
    BY <1>5 DEF EnrichComponent
  <2>2. /\ IsRequest(q) /\ q.pc \notin BeforeWrite /\ q.kind = r.kind
        /\ q.changed = r.changed /\ q.released = r.released /\ q.raced = r.raced
    BY <1>1 DEF IsRequest, RequestFields, BeforeWrite
  <2> QED
    BY <2>1, <2>2, GoesOn, RefusedPrepared
<1>6. CASE EnrichLinks(k)
  <2> PICK q : q = [r EXCEPT !.pc = "names", !.links = Links(r.id)]
    OBVIOUS
  <2>1. Step(k, q) /\ UNCHANGED <<tickets, ticket_milestones, milestones>>
    BY <1>6 DEF EnrichLinks
  <2>2. /\ IsRequest(q) /\ q.pc \notin BeforeWrite /\ q.kind = r.kind
        /\ q.changed = r.changed /\ q.released = r.released /\ q.raced = r.raced
    BY <1>1 DEF IsRequest, RequestFields, BeforeWrite
  <2> QED
    BY <2>1, <2>2, GoesOn
<1>7. CASE EnrichNames(k)
  <2> PICK shown : Step(k, [r EXCEPT !.pc = "announce", !.shown = shown])
    BY <1>7 DEF EnrichNames
  <2> PICK q : q = [r EXCEPT !.pc = "announce", !.shown = shown]
    OBVIOUS
  <2>1. Step(k, q) /\ UNCHANGED <<tickets, ticket_milestones, milestones>>
    BY <1>7 DEF EnrichNames
  <2>2. /\ IsRequest(q) /\ q.pc \notin BeforeWrite /\ q.kind = r.kind
        /\ q.changed = r.changed /\ q.released = r.released /\ q.raced = r.raced
    BY <1>1 DEF IsRequest, RequestFields, BeforeWrite
  <2> QED
    BY <2>1, <2>2, GoesOn
<1>8. CASE Announce(k)
  <2>0. PICK said, code : \/ Step(k, [r EXCEPT !.pc = "done", !.code = code])
                         \/ Step(k, [r EXCEPT !.said = said])
    BY <1>8 DEF Announce
  <2> PICK p : p = [r EXCEPT !.pc = "done", !.code = code]
    OBVIOUS
  <2> PICK q : q = [r EXCEPT !.said = said]
    OBVIOUS
  <2>1. /\ Step(k, p) \/ Step(k, q)
        /\ r.pc = "announce" /\ UNCHANGED <<tickets, ticket_milestones, milestones>>
    BY <1>8, <2>0 DEF Announce
  <2>2. /\ IsRequest(p) /\ p.pc \notin BeforeWrite /\ p.kind = r.kind
        /\ p.changed = r.changed /\ p.released = r.released /\ p.raced = r.raced
    BY <1>1 DEF IsRequest, RequestFields, BeforeWrite
  <2>3. /\ IsRequest(q) /\ q.pc \notin BeforeWrite /\ q.kind = r.kind
        /\ q.changed = r.changed /\ q.released = r.released /\ q.raced = r.raced
    BY <1>1, <2>1 DEF IsRequest, RequestFields, BeforeWrite
  <2> QED
    BY <2>1, <2>2, <2>3, GoesOn
<1>9. CASE RereadMilestone(k)
  <2> PICK p : p = [r EXCEPT !.pc = "stats", !.row = <<MilestoneRow(r.id)>>]
    OBVIOUS
  <2> PICK q : q = [r EXCEPT !.pc = "done"]
    OBVIOUS
  <2>1. /\ Step(k, p) \/ Step(k, q)
        /\ UNCHANGED <<tickets, ticket_milestones, milestones>>
    BY <1>9 DEF RereadMilestone
  <2>2. /\ IsRequest(p) /\ p.pc \notin BeforeWrite /\ p.kind = r.kind
        /\ p.changed = r.changed /\ p.released = r.released /\ p.raced = r.raced
    BY <1>1 DEF IsRequest, RequestFields, BeforeWrite
  <2>3. /\ IsRequest(q) /\ q.pc \notin BeforeWrite /\ q.kind = r.kind
        /\ q.changed = r.changed /\ q.released = r.released /\ q.raced = r.raced
    BY <1>1 DEF IsRequest, RequestFields, BeforeWrite
  <2> QED
    BY <2>1, <2>2, <2>3, GoesOn
<1>10. CASE CountAssigned(k)
  <2> PICK q : q = [r EXCEPT !.pc = "delete", !.raced = FALSE]
    OBVIOUS
  <2>1. /\ Step(k, Answered(r, "Conflict")) \/ (Assigned(r.id) = {} /\ Step(k, q))
        /\ r.pc = "count" /\ UNCHANGED <<tickets, ticket_milestones, milestones>>
    BY <1>10 DEF CountAssigned
  <2>2. /\ IsRequest(q) /\ q.pc = "delete" /\ q.kind = r.kind /\ q.id = r.id
        /\ q.changed = r.changed /\ q.released = r.released
    BY <1>1 DEF IsRequest, RequestFields
  <2>3. Assigned(r.id) = {} => \A x \in ticket_milestones : x[2] # r.id
    <3> SUFFICES ASSUME NEW x \in ticket_milestones, x[2] = r.id PROVE x[1] \in Assigned(r.id)
      OBVIOUS
    <3>1. x = <<x[1], x[2]>> /\ x[1] \in DOMAIN tickets
      BY DEF TicketsInv, Tables
    <3>2. <<x[1], r.id>> \in ticket_milestones
      BY <3>1
    <3> QED
      BY <3>1, <3>2 DEF Assigned
  <2>4. Assigned(r.id) = {} => Prepared(q)
    BY <1>1, <2>1, <2>2, <2>3 DEF Prepared, BeforeWrite
  <2> QED
    BY <2>1, <2>4, RefusedPrepared, StepPrepared
<1>11. CASE Stats(k)
  <2>0. PICK shown, code : Step(k, [r EXCEPT !.pc = "done", !.shown = shown, !.code = code])
    BY <1>11 DEF Stats
  <2> PICK q : q = [r EXCEPT !.pc = "done", !.shown = shown, !.code = code]
    OBVIOUS
  <2>1. Step(k, q) /\ UNCHANGED <<tickets, ticket_milestones, milestones>>
    BY <1>11, <2>0 DEF Stats
  <2>2. /\ IsRequest(q) /\ q.pc \notin BeforeWrite /\ q.kind = r.kind
        /\ q.changed = r.changed /\ q.released = r.released /\ q.raced = r.raced
    BY <1>1 DEF IsRequest, RequestFields, BeforeWrite
  <2> QED
    BY <2>1, <2>2, GoesOn
<1> QED
  BY <1>2, <1>3, <1>4, <1>5, <1>6, <1>7, <1>8, <1>9, <1>10, <1>11

LEMMA Failures ==
    ASSUME TicketsInv, (\E k \in DOMAIN requests : StatementFails(k)) \/ Crash
    PROVE  TicketsInv'
<1>1. ASSUME NEW k \in DOMAIN requests, StatementFails(k) PROVE TicketsInv'
  <2> PICK r : r = [requests[k] EXCEPT !.faulted = TRUE]
    OBVIOUS
  <2>1. Prepared(requests[k]) /\ IsRequest(requests[k])
    BY DEF TicketsInv, Prepared
  <2>2. /\ IsRequest(r) /\ r.pc = requests[k].pc /\ r.kind = requests[k].kind
        /\ r.id = requests[k].id /\ r.body = requests[k].body
        /\ r.existing = requests[k].existing /\ r.changed = requests[k].changed
        /\ r.released = requests[k].released /\ r.raced = requests[k].raced
    BY <2>1 DEF IsRequest, RequestFields
  <2>3. Prepared(r)
    BY <2>1, <2>2 DEF Prepared
  <2>4. PICK said : /\ \/ r.pc = "milestones" /\ Step(k, [r EXCEPT !.pc = "update"])
                       \/ r.pc = "announce" /\ Step(k, [r EXCEPT !.said = said])
                       \/ Step(k, Answered(r, "Internal"))
                    /\ UNCHANGED <<tickets, ticket_milestones, milestones>>
    BY <1>1 DEF StatementFails
  <2> PICK p : p = [r EXCEPT !.pc = "update"]
    OBVIOUS
  <2> PICK q : q = [r EXCEPT !.said = said]
    OBVIOUS
  <2>5. /\ IsRequest(p) /\ p.pc = "update" /\ p.kind = r.kind /\ p.id = r.id
        /\ p.changed = r.changed /\ p.released = r.released
    BY <2>2 DEF IsRequest, RequestFields
  <2>6. r.pc = "milestones" => Prepared(p)
    BY <2>3, <2>5 DEF Prepared, BeforeWrite
  <2>7. /\ IsRequest(q) /\ q.pc = r.pc /\ q.kind = r.kind
        /\ q.changed = r.changed /\ q.released = r.released /\ q.raced = r.raced
    BY <2>2 DEF IsRequest, RequestFields
  <2>8. r.pc = "announce" => Prepared(q)
    BY <2>3, <2>7, PastWrite DEF BeforeWrite
  <2>9. Prepared(Answered(r, "Internal"))
    BY <2>3, AnsweredPrepared
  <2> QED
    BY <2>4, <2>6, <2>8, <2>9, StepPrepared
<1>2. CASE Crash
  <2> PICK q : q = requests'
    OBVIOUS
  <2>1. /\ q = [k \in DOMAIN requests |-> IF requests[k].pc = "done" THEN requests[k]
                                         ELSE [requests[k] EXCEPT !.pc = "done", !.faulted = TRUE]]
        /\ UNCHANGED <<tickets, ticket_milestones, milestones>>
    BY <1>2 DEF Crash
  <2>2. q = [k \in DOMAIN requests |-> q[k]]
    BY <2>1
  <2>3. IsSequence(q) /\ DOMAIN q = DOMAIN requests
    BY <2>2, Rebuilding DEF TicketsInv
  <2>4. ASSUME NEW k \in DOMAIN requests PROVE Prepared(q[k])
    <3> PICK p : p = [requests[k] EXCEPT !.pc = "done", !.faulted = TRUE]
      OBVIOUS
    <3>1. Prepared(requests[k]) /\ IsRequest(requests[k])
      BY DEF TicketsInv, Prepared
    <3>2. /\ IsRequest(p) /\ p.pc = "done" /\ p.kind = requests[k].kind
          /\ p.changed = requests[k].changed /\ p.released = requests[k].released
          /\ p.raced = requests[k].raced
      BY <3>1 DEF IsRequest, RequestFields
    <3>3. Prepared(p)
      BY <3>1, <3>2, PastWrite DEF BeforeWrite
    <3>4. q[k] = requests[k] \/ q[k] = p
      BY <2>1
    <3> QED
      BY <3>1, <3>3, <3>4
  <2>5. UNCHANGED <<tickets, ticket_milestones, milestones>>
    BY <2>1
  <2>6. Tables'
    BY <2>5 DEF TicketsInv, Tables
  <2> QED
    BY <2>3, <2>4, <2>5, <2>6 DEF TicketsInv, Prepared
<1> QED
  BY <1>1, <1>2

-----------------------------------------------------------------------------
(* Writes.                                                                 *)

\* A write that prepares its own request, and leaves prepared whoever it has not raced with.
LEMMA WritePrepared ==
    ASSUME TicketsInv, NEW k \in DOMAIN requests, NEW r, NEW racing, StepRacing(k, r, racing),
           Tables', Prepared(r)', DOMAIN tickets \subseteq DOMAIN tickets',
           \A j \in DOMAIN requests : \A p : p = requests[j] /\ j # k /\ j \notin racing =>
              Prepared(p)'
    PROVE  TicketsInv'
<1> PICK q : q = requests'
  OBVIOUS
<1>1. q = [j \in DOMAIN requests |-> IF j = k THEN r
                                   ELSE IF j \in racing THEN [requests[j] EXCEPT !.raced = TRUE]
                                   ELSE requests[j]]
  BY DEF StepRacing
<1>2. q = [j \in DOMAIN requests |-> q[j]]
  BY <1>1
<1>3. IsSequence(q) /\ DOMAIN q = DOMAIN requests
  BY <1>2, Rebuilding DEF TicketsInv
<1>4. ASSUME NEW p, Prepared(p), p.raced = TRUE PROVE Prepared(p)'
  BY <1>4 DEF Prepared
<1>5. ASSUME NEW j \in DOMAIN requests, NEW p, p = q[j] PROVE Prepared(p)'
  <2>1. CASE j = k
    BY <1>1, <1>5, <2>1
  <2>2. CASE j # k /\ j \in racing
    <3>1. Prepared(requests[j])
      BY DEF TicketsInv
    <3>2. p = [requests[j] EXCEPT !.raced = TRUE]
      BY <1>1, <1>5, <2>2
    <3>3. Prepared(p)
      BY <3>1, <3>2, RacedPrepared
    <3>4. p.raced = TRUE
      BY <3>1, <3>2 DEF Prepared, IsRequest, RequestFields
    <3> QED
      BY <1>4, <3>3, <3>4
  <2>3. CASE j # k /\ j \notin racing
    BY <1>1, <1>5, <2>3
  <2> QED
    BY <2>1, <2>2, <2>3
<1> QED
  BY <1>3, <1>5 DEF TicketsInv

\* What is new in a replaced list is of the ticket that names it.
LEMMA ReplacedLinks ==
    ASSUME NEW table, NEW t, NEW body, NEW f, NEW x \in Replaced(table, t, body, f)
    PROVE  \/ x \in table
           \/ x = <<x[1], x[2]>> /\ x[1] = t /\ x[2] \in Of(Replaced(table, t, body, f), t)
<1>1. x \in table \/ \E m : x = <<t, m>>
  BY DEF Replaced
<1>2. ASSUME NEW m, x = <<t, m>>
      PROVE  x = <<x[1], x[2]>> /\ x[1] = t /\ x[2] \in Of(Replaced(table, t, body, f), t)
  <2>1. x[1] = t /\ x[2] = m
    BY <1>2
  <2> QED
    BY <1>2, <2>1 DEF Of
<1> QED
  BY <1>1, <1>2

\* A ticket's transaction leaves prepared whoever is not about to change that ticket or to
\* delete a milestone it names.
LEMMA LinksReplaced ==
    ASSUME TicketsInv, NEW t, NEW body, t \in DOMAIN tickets',
           DOMAIN tickets \subseteq DOMAIN tickets',
           ticket_milestones' = Replaced(ticket_milestones, t, body, "milestones"),
           UNCHANGED milestones
    PROVE  /\ \A x \in ticket_milestones' : x = <<x[1], x[2]>> /\ x[1] \in DOMAIN tickets'
           /\ \A j \in DOMAIN requests \ OnDeletions(Of(ticket_milestones', t)) : \A p :
                 p = requests[j] => Prepared(p)'
<1> PICK named : named = Of(ticket_milestones', t)
  OBVIOUS
<1>1. \A x \in ticket_milestones' :
         x \in ticket_milestones \/ (x = <<x[1], x[2]>> /\ x[1] = t /\ x[2] \in named)
  BY ReplacedLinks
<1>2. \A x \in ticket_milestones' : x = <<x[1], x[2]>> /\ x[1] \in DOMAIN tickets'
  BY <1>1 DEF TicketsInv, Tables
<1>3. ASSUME NEW j \in DOMAIN requests, j \notin OnDeletions(named), NEW p, p = requests[j]
      PROVE  Prepared(p)'
  <2>1. Prepared(p)
    BY <1>3 DEF TicketsInv
  <2>2. p.pc = "delete" => p.id \notin named
    BY <1>3, <2>1 DEF Prepared, OnDeletions, InFlight
  <2>3. p.pc = "delete" => p.raced = TRUE \/ \A x \in ticket_milestones' : x[2] # p.id
    BY <1>1, <2>1, <2>2 DEF Prepared
  <2> QED
    BY <2>1, <2>3 DEF Prepared
<1> QED
  BY <1>2, <1>3

LEMMA InsertTicketStep ==
    ASSUME TicketsInv, NEW k \in DOMAIN requests, InsertTicket(k)
    PROVE  TicketsInv'
<1> PICK r : r = requests[k]
  OBVIOUS
<1> PICK t : t = NewIndex(tickets)
  OBVIOUS
<1>1. Prepared(r) /\ IsRequest(r)
  BY DEF TicketsInv, Prepared
<1>2. PICK error : \/ /\ Step(k, Answered(r, error))
                      /\ UNCHANGED <<tickets, ticket_milestones, milestones>>
                   \/ /\ tickets' = Extended(tickets, NewTicket(r.user, r.body))
                      /\ ticket_milestones' = Replaced(ticket_milestones, t, r.body, "milestones")
                      /\ milestones' = milestones
                      /\ \E committed : StepRacing(k, [r EXCEPT !.pc = "reread", !.id = t,
                                                               !.committed = committed],
                                                   OnDeletions(Of(ticket_milestones', t)))
  BY DEF InsertTicket, Extended, NewIndex
<1>3. CASE Step(k, Answered(r, error)) /\ UNCHANGED <<tickets, ticket_milestones, milestones>>
  BY <1>3, RefusedPrepared
<1>4. CASE /\ tickets' = Extended(tickets, NewTicket(r.user, r.body))
           /\ ticket_milestones' = Replaced(ticket_milestones, t, r.body, "milestones")
           /\ milestones' = milestones
           /\ \E committed : StepRacing(k, [r EXCEPT !.pc = "reread", !.id = t,
                                                    !.committed = committed],
                                        OnDeletions(Of(ticket_milestones', t)))
  <2> PICK new : new = NewTicket(r.user, r.body)
    OBVIOUS
  <2> PICK all : all = tickets'
    OBVIOUS
  <2>1. all = Extended(tickets, new) /\ IsSequence(tickets)
    BY <1>4 DEF TicketsInv, Tables
  <2>2. /\ IsSequence(all) /\ \A i : i \in DOMAIN all <=> i \in DOMAIN tickets \/ i = t
        /\ all[t] = new /\ \A i \in DOMAIN tickets : all[i] = tickets[i]
    BY <2>1, Appending
  <2>3. TicketFields \subseteq DOMAIN new
    BY DEF NewTicket, Merge, TicketFields
  <2>4. t \in DOMAIN tickets' /\ DOMAIN tickets \subseteq DOMAIN tickets'
    BY <2>2
  <2>5. /\ \A x \in ticket_milestones' : x = <<x[1], x[2]>> /\ x[1] \in DOMAIN tickets'
        /\ \A j \in DOMAIN requests \ OnDeletions(Of(ticket_milestones', t)) : \A p :
              p = requests[j] => Prepared(p)'
    BY <1>4, <2>4, LinksReplaced
  <2>6. Tables'
    BY <1>4, <2>2, <2>3, <2>5 DEF TicketsInv, Tables
  <2>7. PICK committed : StepRacing(k, [r EXCEPT !.pc = "reread", !.id = t,
                                                 !.committed = committed],
                                    OnDeletions(Of(ticket_milestones', t)))
    BY <1>4
  <2> PICK q : q = [r EXCEPT !.pc = "reread", !.id = t, !.committed = committed]
    OBVIOUS
  <2>8. /\ IsRequest(q) /\ q.pc = "reread" /\ q.kind = r.kind
        /\ q.changed = r.changed /\ q.released = r.released /\ q.raced = r.raced
    BY <1>1 DEF IsRequest, RequestFields
  <2>9. Prepared(q)'
    BY <1>1, <2>8 DEF Prepared, BeforeWrite
  <2> QED
    BY <2>4, <2>5, <2>6, <2>7, <2>9, WritePrepared
<1> QED
  BY <1>2, <1>3, <1>4

LEMMA UpdateStep ==
    ASSUME TicketsInv, NEW k \in DOMAIN requests, Update(k)
    PROVE  TicketsInv'
<1> PICK r : r = requests[k]
  OBVIOUS
<1> PICK new : new = Merge(tickets[r.id], Columns(r.body))
  OBVIOUS
<1>1. Prepared(r) /\ IsRequest(r) /\ r.pc = "update"
  BY DEF TicketsInv, Prepared, Update
<1>2. r.id \in DOMAIN tickets /\ r.changed = {} /\ r.released = {}
  BY <1>1 DEF Prepared, BeforeWrite
<1>3. CASE \E error : Step(k, Answered(r, error)) /\ UNCHANGED <<tickets, ticket_milestones, milestones>>
  BY <1>3, RefusedPrepared
<1>4. CASE Commit(k, new) /\ UNCHANGED milestones
  <2> DEFINE changed == {f \in TicketFields \ DOMAIN r.body : new[f] # tickets[r.id][f]}
             racing == OnTickets({r.id}) \cup OnDeletions(Of(ticket_milestones', r.id))
  <2>1. changed = {}
    <3> SUFFICES ASSUME NEW f \in TicketFields, f \notin DOMAIN r.body
                 PROVE  new[f] = tickets[r.id][f]
      OBVIOUS
    <3>1. f \in DOMAIN tickets[r.id]
      BY <1>2 DEF TicketsInv, Tables
    <3>2. f \notin DOMAIN Columns(r.body)
      BY DEF Columns
    <3> QED
      BY <3>1, <3>2 DEF Merge
  <2>2. /\ tickets' = [tickets EXCEPT ![r.id] = new]
        /\ ticket_milestones' = Replaced(ticket_milestones, r.id, r.body, "milestones")
        /\ \E committed : StepRacing(k, [r EXCEPT !.pc = "reread", !.changed = changed,
                                                 !.committed = committed], racing)
    BY <1>4 DEF Commit
  <2> HIDE DEF changed, racing
  <2> PICK all : all = tickets'
    OBVIOUS
  <2> PICK t : t = r.id
    OBVIOUS
  <2>3. all = [tickets EXCEPT ![t] = new] /\ IsSequence(tickets) /\ t \in DOMAIN tickets
    BY <1>2, <2>2 DEF TicketsInv, Tables
  <2>4. /\ IsSequence(all) /\ DOMAIN all = DOMAIN tickets
        /\ all[t] = new /\ \A i \in DOMAIN tickets : i # t => all[i] = tickets[i]
    BY ONLY <2>3, Replacing
  <2>5. DOMAIN new = DOMAIN tickets[r.id]
    BY DEF Merge
  <2>6. r.id \in DOMAIN tickets' /\ DOMAIN tickets \subseteq DOMAIN tickets'
    BY <1>2, <2>4
  <2>7. /\ \A x \in ticket_milestones' : x = <<x[1], x[2]>> /\ x[1] \in DOMAIN tickets'
        /\ \A j \in DOMAIN requests \ OnDeletions(Of(ticket_milestones', r.id)) : \A p :
              p = requests[j] => Prepared(p)'
    BY <1>4, <2>2, <2>6, LinksReplaced
  <2>8. Tables'
    BY <1>2, <1>4, <2>4, <2>5, <2>7 DEF TicketsInv, Tables
  <2>9. PICK committed : StepRacing(k, [r EXCEPT !.pc = "reread", !.changed = changed,
                                                 !.committed = committed], racing)
    BY <2>2
  <2> PICK q : q = [r EXCEPT !.pc = "reread", !.changed = changed, !.committed = committed]
    OBVIOUS
  <2>10. /\ IsRequest(q) /\ q.pc = "reread" /\ q.changed = changed /\ q.released = r.released
    BY <1>1 DEF IsRequest, RequestFields
  <2>11. Prepared(q)'
    BY <1>2, <2>1, <2>10 DEF Prepared, BeforeWrite
  <2>12. \A j \in DOMAIN requests : \A p : p = requests[j] /\ j # k /\ j \notin racing =>
            Prepared(p)'
    BY <2>7 DEF racing
  <2> QED
    BY <2>6, <2>8, <2>9, <2>11, <2>12, WritePrepared
<1> QED
  BY <1>3, <1>4 DEF Update

LEMMA StepAlone ==
    ASSUME TicketsInv, NEW k \in DOMAIN requests, NEW r, Step(k, r)
    PROVE  StepRacing(k, r, {})
<1>1. requests = [j \in DOMAIN requests |-> requests[j]]
  <2>1. requests \in [1 .. Len(requests) -> {requests[i] : i \in DOMAIN requests}]
    BY LenProperties DEF TicketsInv, IsSequence
  <2> QED
    BY <2>1
<1> QED
  BY <1>1 DEF Step, StepRacing

LEMMA InsertMilestoneStep ==
    ASSUME TicketsInv, NEW k \in DOMAIN requests, InsertMilestone(k)
    PROVE  TicketsInv'
<1> PICK r : r = requests[k]
  OBVIOUS
<1>1. Prepared(r) /\ IsRequest(r) /\ r.pc = "insert_ms"
  BY DEF TicketsInv, Prepared, InsertMilestone
<1>2. CASE Step(k, Answered(r, "Conflict")) /\ UNCHANGED <<tickets, ticket_milestones, milestones>>
  BY <1>2, RefusedPrepared
<1>3. ASSUME NEW m \in MilestoneIds, IsNextRowid(milestones, m),
             milestones' = milestones \cup
                {Merge([id |-> m, name |-> 0, description |-> NULL, due_date |-> NULL,
                        status |-> "open"], r.body)},
             Step(k, [r EXCEPT !.id = m, !.pc = "reread_ms"]),
             UNCHANGED <<tickets, ticket_milestones>>
      PROVE  TicketsInv'
  <2> PICK new : new = Merge([id |-> m, name |-> 0, description |-> NULL, due_date |-> NULL,
                              status |-> "open"], r.body)
    OBVIOUS
  <2> PICK q : q = [r EXCEPT !.id = m, !.pc = "reread_ms"]
    OBVIOUS
  <2>1. "id" \notin DOMAIN r.body
    BY <1>1 DEF Prepared
  <2>2. new.id = m /\ MilestoneFields \cup {"id"} \subseteq DOMAIN new
    BY <2>1 DEF Merge, MilestoneFields
  <2>3. m \in Nat
    <3>1. MaxMilestones \in Nat
      BY TicketsAssumption
    <3> QED
      BY <3>1 DEF MilestoneIds
  <2>4. \A row \in milestones : row.id # m
    <3>1. \A row \in milestones : row.id \in Nat
      BY DEF TicketsInv, Tables
    <3> QED
      BY <1>3, <2>3, <3>1 DEF IsNextRowid
  <2>5. milestones' = milestones \cup {new}
    BY <1>3
  <2>6. Tables'
    BY <1>3, <2>2, <2>3, <2>4, <2>5 DEF TicketsInv, Tables, UniqueIds
  <2>7. ASSUME NEW p, Prepared(p) PROVE Prepared(p)'
    BY <1>3, <2>5, <2>7 DEF Prepared
  <2>8. /\ IsRequest(q) /\ q.pc = "reread_ms" /\ q.kind = r.kind
        /\ q.changed = r.changed /\ q.released = r.released /\ q.raced = r.raced
    BY <1>1 DEF IsRequest, RequestFields
  <2>9. Prepared(q)
    BY <1>1, <2>8, PastWrite DEF BeforeWrite
  <2>10. StepRacing(k, q, {})
    BY <1>3, StepAlone
  <2>11. \A j \in DOMAIN requests : Prepared(requests[j])
    BY DEF TicketsInv
  <2>12. \A j \in DOMAIN requests : \A p : p = requests[j] /\ j # k /\ j \notin {} => Prepared(p)'
    BY <2>7, <2>11
  <2> QED
    BY <1>3, <2>6, <2>7, <2>9, <2>10, <2>12, WritePrepared
<1>4. \/ Step(k, Answered(r, "Conflict")) /\ UNCHANGED <<tickets, ticket_milestones, milestones>>
      \/ \E m \in MilestoneIds :
            /\ IsNextRowid(milestones, m)
            /\ milestones' = milestones \cup
                 {Merge([id |-> m, name |-> 0, description |-> NULL, due_date |-> NULL,
                         status |-> "open"], r.body)}
            /\ Step(k, [r EXCEPT !.id = m, !.pc = "reread_ms"])
            /\ UNCHANGED <<tickets, ticket_milestones>>
  BY DEF InsertMilestone
<1> QED
  BY <1>2, <1>3, <1>4

LEMMA WriteMilestoneStep ==
    ASSUME TicketsInv, NEW k \in DOMAIN requests, WriteMilestone(k)
    PROVE  TicketsInv'
<1> PICK r : r = requests[k]
  OBVIOUS
<1> PICK new : new = Merge(r.existing, r.body)
  OBVIOUS
<1> DEFINE changed == {f \in MilestoneFields \ DOMAIN r.body :
                          \E row \in milestones : row.id = r.id /\ row[f] # new[f]}
           racing == OnMilestones({r.id}) \cup OnTickets(Assigned(r.id))
<1>1. Prepared(r) /\ IsRequest(r) /\ r.pc = "write_ms"
  BY DEF TicketsInv, Prepared, WriteMilestone
<1>2. CASE Step(k, Answered(r, "Conflict")) /\ UNCHANGED <<tickets, ticket_milestones, milestones>>
  BY <1>2, RefusedPrepared
<1>3. CASE /\ milestones' = {IF row.id = r.id THEN new ELSE row : row \in milestones}
           /\ StepRacing(k, [r EXCEPT !.pc = "reread_ms", !.changed = changed], racing)
           /\ UNCHANGED <<tickets, ticket_milestones>>
  <2>1. /\ "id" \notin DOMAIN r.body /\ r.existing.id = r.id
        /\ MilestoneFields \cup {"id"} \subseteq DOMAIN r.existing
        /\ r.raced = TRUE \/ r.existing \in milestones
        /\ r.kind = "update_milestone" /\ r.released = {}
    BY <1>1 DEF Prepared, BeforeWrite
  <2>2. new.id = r.id /\ MilestoneFields \cup {"id"} \subseteq DOMAIN new
    BY <2>1 DEF Merge
  <2>3. changed # {} => r.raced = TRUE
    <3> SUFFICES ASSUME NEW f \in MilestoneFields, f \notin DOMAIN r.body,
                        r.existing \in milestones,
                        NEW row \in milestones, row.id = r.id
                 PROVE  row[f] = new[f]
      BY <2>1
    <3>1. row = r.existing
      BY <2>1 DEF TicketsInv, Tables, UniqueIds
    <3>2. new[f] = r.existing[f]
      BY <2>1 DEF Merge
    <3> QED
      BY <3>1, <3>2
  <2>4. ASSUME NEW row \in milestones'
        PROVE  \/ row \in milestones /\ row.id # r.id
               \/ row = new /\ \E old \in milestones : old.id = r.id
    <3>1. PICK old \in milestones : row = IF old.id = r.id THEN new ELSE old
      BY <1>3
    <3>2. CASE old.id = r.id
      BY <3>1, <3>2
    <3>3. CASE old.id # r.id
      BY <3>1, <3>3
    <3> QED
      BY <3>2, <3>3
  <2>5. \A row \in milestones : row.id # r.id => row \in milestones'
    BY <1>3
  <2>6. Tables'
    BY <1>3, <2>2, <2>4 DEF TicketsInv, Tables, UniqueIds
  <2> HIDE DEF changed, racing
  <2> PICK q : q = [r EXCEPT !.pc = "reread_ms", !.changed = changed]
    OBVIOUS
  <2>7. /\ IsRequest(q) /\ q.pc = "reread_ms" /\ q.kind = r.kind
        /\ q.changed = changed /\ q.released = r.released /\ q.raced = r.raced
    BY <1>1 DEF IsRequest, RequestFields
  <2>8. Prepared(q)'
    BY <2>1, <2>3, <2>7 DEF Prepared, BeforeWrite
  <2>9. ASSUME NEW j \in DOMAIN requests, j \notin racing, NEW p, p = requests[j]
        PROVE  Prepared(p)'
    <3>1. Prepared(p)
      BY <2>9 DEF TicketsInv
    <3>2. p.pc = "write_ms" => p.id # r.id
      BY <2>9, <3>1 DEF Prepared, racing, OnMilestones, InFlight
    <3>3. p.pc = "write_ms" => p.raced = TRUE \/ p.existing \in milestones'
      BY <2>5, <3>1, <3>2 DEF Prepared
    <3> QED
      BY <1>3, <3>1, <3>3 DEF Prepared
  <2>10. StepRacing(k, q, racing)
    BY <1>3
  <2> QED
    BY <1>3, <2>6, <2>8, <2>9, <2>10, WritePrepared
<1> QED
  BY <1>2, <1>3 DEF WriteMilestone

LEMMA RemoveMilestoneStep ==
    ASSUME TicketsInv, NEW k \in DOMAIN requests, RemoveMilestone(k)
    PROVE  TicketsInv'
<1> PICK r : r = requests[k]
  OBVIOUS
<1> DEFINE racing == OnMilestones({r.id}) \cup OnTickets(Assigned(r.id))
<1>1. Prepared(r) /\ IsRequest(r) /\ r.pc = "delete"
  BY DEF TicketsInv, Prepared, RemoveMilestone
<1>2. /\ milestones' = {row \in milestones : row.id # r.id}
      /\ ticket_milestones' = {x \in ticket_milestones : x[2] # r.id}
      /\ UNCHANGED tickets
  BY DEF RemoveMilestone
<1>3. PICK released, code :
         /\ released = {x \in ticket_milestones : x[2] = r.id}
         /\ StepRacing(k, [r EXCEPT !.pc = "done", !.code = code, !.released = released], racing)
  BY DEF RemoveMilestone
<1>4. released # {} => r.raced = TRUE
  <2>1. r.raced = TRUE \/ \A x \in ticket_milestones : x[2] # r.id
    BY <1>1 DEF Prepared
  <2> QED
    BY <1>3, <2>1
<1> HIDE DEF racing
<1> PICK q : q = [r EXCEPT !.pc = "done", !.code = code, !.released = released]
  OBVIOUS
<1>5. /\ IsRequest(q) /\ q.pc = "done" /\ q.kind = r.kind
      /\ q.changed = r.changed /\ q.released = released /\ q.raced = r.raced
  BY <1>1 DEF IsRequest, RequestFields
<1>6. Prepared(q)'
  BY <1>1, <1>4, <1>5 DEF Prepared, BeforeWrite
<1>7. Tables'
  BY <1>2 DEF TicketsInv, Tables, UniqueIds
<1>8. ASSUME NEW j \in DOMAIN requests, j \notin racing, NEW p, p = requests[j]
      PROVE  Prepared(p)'
  <2>1. Prepared(p)
    BY <1>8 DEF TicketsInv
  <2>2. p.pc = "write_ms" => p.id # r.id
    BY <1>8, <2>1 DEF Prepared, racing, OnMilestones, InFlight
  <2>3. p.pc = "write_ms" => p.raced = TRUE \/ p.existing \in milestones'
    BY <1>2, <2>1, <2>2 DEF Prepared
  <2> QED
    BY <1>2, <2>1, <2>3 DEF Prepared
<1>9. StepRacing(k, q, racing)
  BY <1>3
<1> QED
  BY <1>2, <1>6, <1>7, <1>8, <1>9, WritePrepared

-----------------------------------------------------------------------------
(* The invariant holds.                                                    *)

LEMMA TicketsInit == Init => TicketsInv
<1> SUFFICES ASSUME Init PROVE TicketsInv
  OBVIOUS
<1>1. IsSequence(requests) /\ DOMAIN requests = {}
  BY DEF Init, IsSequence
<1>2. Tables
  <2>1. IsSequence(tickets) /\ \A t \in DOMAIN tickets : TicketFields \subseteq DOMAIN tickets[t]
    BY TicketsAssumption DEF Init, TicketRow
  <2>2. /\ \A row \in milestones : MilestoneFields \cup {"id"} \subseteq DOMAIN row /\ row.id \in Nat
        /\ UniqueIds(milestones)
    BY TicketsAssumption DEF Init, MilestoneIds
  <2>3. ticket_milestones \subseteq (DOMAIN tickets) \X {row.id : row \in milestones}
    BY TicketsAssumption DEF Init
  <2> QED
    BY <2>1, <2>2, <2>3 DEF Tables
<1> QED
  BY <1>1, <1>2 DEF TicketsInv

LEMMA TicketsStep == TicketsInv /\ [Next]_vars => TicketsInv'
<1> SUFFICES ASSUME TicketsInv, [Next]_vars PROVE TicketsInv'
  OBVIOUS
<1>1. CASE (\E u \in Users : Request(u)) \/ Read
  BY <1>1, Arrivals DEF Request
<1>2. ASSUME NEW k \in DOMAIN requests, Proceed(k) PROVE TicketsInv'
  BY <1>2, Reads, InsertTicketStep, UpdateStep, InsertMilestoneStep, WriteMilestoneStep,
     RemoveMilestoneStep DEF Proceed
<1>3. CASE (\E k \in DOMAIN requests : StatementFails(k)) \/ Crash
  BY <1>3, Failures
<1>4. CASE UNCHANGED <<tickets, ticket_milestones, milestones, requests>>
  BY <1>4 DEF TicketsInv, Tables, Prepared
<1>5. ASSUME NEW c \in Components, DeleteComponent(c) PROVE TicketsInv'
  BY <1>4, <1>5 DEF DeleteComponent
<1>6. CASE UNCHANGED vars
  BY <1>4, <1>6 DEF vars
<1> QED
  BY <1>1, <1>2, <1>3, <1>5, <1>6 DEF Next

LEMMA TicketsAlways == Spec => []TicketsInv
<1> QED
  BY TicketsInit, TicketsStep, PTL DEF Spec

-----------------------------------------------------------------------------
(* What it shows.                                                          *)

\* However requests interleave and fail, an update of a ticket changes no field its body does
\* not name, since its transaction reads the row again; and an update of a milestone does
\* only if another write of the milestone came in between (repos::ticket::update,
\* repos::milestone::update).
THEOREM WritesKeepTheRest == Spec => []UnnamedFieldsKept
<1>1. TicketsInv => UnnamedFieldsKept
  BY DEF TicketsInv, Prepared, UnnamedFieldsKept
<1> QED
  BY <1>1, TicketsAlways, PTL

\* The deletion of a milestone takes a ticket's link along only if the ticket was assigned
\* after the deletion had counted none (repos::milestone::delete).
THEOREM DeletionsTakeLateLinksOnly == Spec => []LinksLostOnlyToRaces
<1>1. TicketsInv => LinksLostOnlyToRaces
  BY DEF TicketsInv, Prepared, LinksLostOnlyToRaces
<1> QED
  BY <1>1, TicketsAlways, PTL

-----------------------------------------------------------------------------
(* Types: estimations and statistics.                                      *)

LEMMA NumbersInOrder ==
    ASSUME NEW n \in Nat, NEW q, q = [i \in 1 .. n |-> q[i]], \A i \in 1 .. n : q[i] \in Nat
    PROVE  q \in Seq(Nat) /\ Len(q) = n
<1>1. q \in [1 .. n -> Nat]
  OBVIOUS
<1>2. q \in Seq(Nat)
  BY <1>1, SeqDef
<1>3. DOMAIN q = 1 .. n
  BY <1>1
<1> QED
  BY <1>2, <1>3, LenProperties

\* What parse_estimation accepts is a number of hours.
LEMMA EstimationParsed ==
    ASSUME NEW text, IsText(text), ParseEstimation(text) # Invalid
    PROVE  ParseEstimation(text) \in Nat
<1>1. /\ \A i \in DOMAIN text : text[i].unit \in DOMAIN HoursPer /\ text[i].number # NaN
      /\ ParseEstimation(text) = SumOf([i \in DOMAIN text |-> text[i].number * HoursPer[text[i].unit]])
  BY DEF ParseEstimation
<1> PICK n : n = Len(text)
  OBVIOUS
<1>2. n \in Nat /\ DOMAIN text = 1 .. n
  BY LenProperties DEF IsText
<1> PICK q : q = [i \in 1 .. n |-> text[i].number * HoursPer[text[i].unit]]
  OBVIOUS
<1>3. ASSUME NEW i \in 1 .. n PROVE q[i] \in Nat
  <2> PICK number, unit : number = text[i].number /\ unit = text[i].unit
    OBVIOUS
  <2>1. number \in Nat /\ unit \in {"w", "d", "h"}
    BY <1>1, <1>2 DEF IsText, HoursPer
  <2>2. q[i] = number * HoursPer[unit]
    OBVIOUS
  <2>3. HoursPer["w"] = 40 /\ HoursPer["d"] = 8 /\ HoursPer["h"] = 1
    BY DEF HoursPer
  <2>4. HoursPer[unit] \in Nat
    BY <2>1, <2>3
  <2>5. \A a, b \in Nat : a * b \in Nat
    OBVIOUS
  <2> QED
    BY <2>1, <2>2, <2>4, <2>5
<1>4. q = [i \in 1 .. n |-> q[i]]
  OBVIOUS
<1>5. q \in Seq(Nat) /\ Len(q) = n
  BY <1>2, <1>3, <1>4, NumbersInOrder
<1>6. SumOf(q) \in Nat
  BY <1>5, SumMonotonic
<1>7. ParseEstimation(text) = SumOf(q)
  BY <1>1, <1>2
<1> QED
  BY <1>6, <1>7

HourOf(ts, t) ==
    IF t \in ts /\ tickets[t].estimation # NULL THEN tickets[t].estimation ELSE 0

LEMMA HoursOf ==
    ASSUME IsSequence(tickets), \A t \in DOMAIN tickets : tickets[t].estimation \in Nat \cup {NULL},
           NEW ts, NEW less \in SUBSET ts
    PROVE  SumHours(less) \in Nat /\ SumHours(ts) \in Nat /\ SumHours(less) <= SumHours(ts)
<1> PICK n : n = Len(tickets)
  OBVIOUS
<1>1. n \in Nat /\ DOMAIN tickets = 1 .. n
  BY LenProperties DEF IsSequence
<1> PICK r, s : r = [t \in 1 .. n |-> HourOf(less, t)] /\ s = [t \in 1 .. n |-> HourOf(ts, t)]
  OBVIOUS
<1>2. \A t \in 1 .. n : HourOf(less, t) \in Nat /\ HourOf(ts, t) \in Nat
                        /\ HourOf(less, t) <= HourOf(ts, t)
  BY <1>1 DEF HourOf
<1>3. \A t \in 1 .. n : r[t] \in Nat /\ s[t] \in Nat /\ r[t] <= s[t]
  BY <1>2
<1>4. r = [t \in 1 .. n |-> r[t]] /\ s = [t \in 1 .. n |-> s[t]]
  OBVIOUS
<1>5. r \in Seq(Nat) /\ Len(r) = n /\ s \in Seq(Nat) /\ Len(s) = n
  BY <1>1, <1>3, <1>4, NumbersInOrder
<1>6. SumOf(r) \in Nat /\ SumOf(s) \in Nat /\ SumOf(r) <= SumOf(s)
  BY <1>3, <1>5, SumMonotonic
<1>7. SumHours(less) = SumOf(r) /\ SumHours(ts) = SumOf(s)
  BY <1>1 DEF SumHours, HourOf
<1> QED
  BY <1>6, <1>7

LEMMA DisjointUnion ==
    ASSUME NEW S, NEW T, IsFiniteSet(S), IsFiniteSet(T), S \cap T = {}
    PROVE  IsFiniteSet(S \cup T) /\ Cardinality(S \cup T) = Cardinality(S) + Cardinality(T)
<1>1. Cardinality(S \cap T) = 0 /\ Cardinality(S) \in Nat /\ Cardinality(T) \in Nat
  BY FS_EmptySet, FS_CardinalityType
<1>2. /\ IsFiniteSet(S \cup T)
      /\ Cardinality(S \cup T) = Cardinality(S) + Cardinality(T) - Cardinality(S \cap T)
  BY FS_Union
<1> QED
  BY <1>1, <1>2

\* The four statuses share the tickets out between them.
LEMMA StatusesPartition ==
    ASSUME NEW ts, IsFiniteSet(ts), \A t \in ts : tickets[t].status \in TicketStatus
    PROVE  Cardinality(ts) = InStatus(ts, "new") + InStatus(ts, "in_progress")
                             + InStatus(ts, "verify") + InStatus(ts, "done")
<1> DEFINE In(status) == {t \in ts : tickets[t].status = status}
<1> PICK a, b, c, d : a = In("new") /\ b = In("in_progress") /\ c = In("verify") /\ d = In("done")
  OBVIOUS
<1>1. IsFiniteSet(a) /\ IsFiniteSet(b) /\ IsFiniteSet(c) /\ IsFiniteSet(d)
  BY FS_Subset
<1>2. /\ a \cap b = {} /\ (a \cup b) \cap c = {} /\ ((a \cup b) \cup c) \cap d = {}
      /\ ((a \cup b) \cup c) \cup d = ts
  BY DEF TicketStatus
<1> PICK ab, abc : ab = a \cup b /\ abc = ab \cup c
  OBVIOUS
<1>3. IsFiniteSet(ab) /\ Cardinality(ab) = Cardinality(a) + Cardinality(b)
  BY <1>1, <1>2, DisjointUnion
<1>4. ab \cap c = {} /\ abc \cap d = {} /\ abc \cup d = ts
  BY <1>2
<1>5. IsFiniteSet(abc) /\ Cardinality(abc) = Cardinality(ab) + Cardinality(c)
  <2>1. /\ IsFiniteSet(ab \cup c)
        /\ Cardinality(ab \cup c) = Cardinality(ab) + Cardinality(c)
    BY ONLY <1>1, <1>3, <1>4, DisjointUnion
  <2>2. abc = ab \cup c
    OBVIOUS
  <2> QED
    BY ONLY <2>1, <2>2
<1>6. Cardinality(ts) = Cardinality(abc) + Cardinality(d)
  <2>1. Cardinality(abc \cup d) = Cardinality(abc) + Cardinality(d)
    BY ONLY <1>1, <1>4, <1>5, DisjointUnion
  <2> QED
    BY ONLY <1>4, <2>1
<1>7. /\ InStatus(ts, "new") = Cardinality(a) /\ InStatus(ts, "in_progress") = Cardinality(b)
      /\ InStatus(ts, "verify") = Cardinality(c) /\ InStatus(ts, "done") = Cardinality(d)
  BY DEF InStatus
<1>8. /\ Cardinality(a) \in Nat /\ Cardinality(b) \in Nat
      /\ Cardinality(c) \in Nat /\ Cardinality(d) \in Nat
  BY <1>1, FS_CardinalityType
<1> QED
  BY <1>3, <1>5, <1>6, <1>7, <1>8

LEMMA StatsAddUp ==
    ASSUME IsSequence(tickets), NEW ts \in SUBSET DOMAIN tickets,
           \A t \in DOMAIN tickets : /\ tickets[t].estimation \in Nat \cup {NULL}
                                     /\ tickets[t].status \in TicketStatus
    PROVE  AddsUp(StatsOf(ts))
<1>1. IsFiniteSet(ts)
  <2>1. DOMAIN tickets = 1 .. Len(tickets) /\ Len(tickets) \in Nat
    BY LenProperties DEF IsSequence
  <2>2. IsFiniteSet(1 .. Len(tickets))
    BY <2>1, FS_Interval
  <2> QED
    BY <2>1, <2>2, FS_Subset
<1>2. \A t \in ts : tickets[t].status \in TicketStatus
  OBVIOUS
<1>3. Cardinality(ts) = InStatus(ts, "new") + InStatus(ts, "in_progress")
                        + InStatus(ts, "verify") + InStatus(ts, "done")
  BY <1>1, <1>2, StatusesPartition
<1> PICK less : less = {t \in ts : tickets[t].status # "done"}
  OBVIOUS
<1>4. SumHours(less) <= SumHours(ts)
  BY HoursOf
<1> QED
  BY <1>3, <1>4 DEF AddsUp, StatsOf

LEMMA NoStatsAddUp == AddsUp(NoStats)
BY DEF AddsUp, NoStats

\* What the milestones of an answer are enriched with.
LEMMA EnrichedAddUp ==
    ASSUME IsSequence(tickets), NEW rows, NEW i \in DOMAIN EnrichMilestones(rows),
           \A t \in DOMAIN tickets : /\ tickets[t].estimation \in Nat \cup {NULL}
                                     /\ tickets[t].status \in TicketStatus
    PROVE  AddsUp(EnrichMilestones(rows)[i].stats)
<1> PICK ids : ids = {rows[j].id : j \in DOMAIN rows}
  OBVIOUS
<1> PICK stats : stats = StatsBatch(ids)
  OBVIOUS
<1>1. i \in DOMAIN rows /\ EnrichMilestones(rows)[i].stats = Given(stats, rows[i].id, NoStats)
  BY DEF EnrichMilestones, MilestoneResponse
<1>2. ASSUME NEW m \in DOMAIN stats PROVE AddsUp(stats[m])
  <2>1. stats[m] = StatsOf(Assigned(m))
    BY DEF StatsBatch
  <2>2. Assigned(m) \in SUBSET DOMAIN tickets
    BY DEF Assigned
  <2> QED
    BY <2>1, <2>2, StatsAddUp
<1> QED
  BY <1>1, <1>2, NoStatsAddUp DEF Given

-----------------------------------------------------------------------------
(* Types: requests.                                                        *)

MilestoneKinds == {"create_milestone", "update_milestone", "list_milestones"}

TicketPcs ==
    {"insert", "milestones", "update", "reread", "cc", "component", "links", "names", "announce"}

\* Where a handler still needs its body.
BodyPcs == {"insert", "milestones", "update", "insert_ms", "write_ms"}

MilestoneTyped(row) ==
    /\ row.id \in MilestoneIds /\ row.name \in Nat /\ row.status \in MilestoneStatus

\* What a handler is about to write has its types, and so have the statistics it answers with.
Typed(r) ==
    /\ IsRequest(r)
    /\ r.pc = "insert" =>
          /\ TicketBody(r.body) /\ {"type", "title", "owner", "component"} \subseteq DOMAIN r.body
          /\ r.user \in Users
    /\ r.pc \in {"milestones", "update"} => TicketBody(r.body)
    /\ r.pc = "insert_ms" => MilestoneBody(r.body) /\ "name" \in DOMAIN r.body
    /\ r.pc = "write_ms" => MilestoneBody(r.body) /\ MilestoneTyped(r.existing)
    /\ r.kind \in MilestoneKinds => r.pc \notin TicketPcs
    /\ r.kind \in MilestoneKinds /\ r.shown # NULL =>
          \A i \in DOMAIN r.shown : AddsUp(r.shown[i].stats)

RequestsTyped == \A k \in DOMAIN requests : Typed(requests[k])

TablesTyped ==
    /\ \A t \in DOMAIN tickets : t \in TicketIds /\ TicketRow(tickets[t], components)
    /\ ticket_cc \subseteq (DOMAIN tickets) \X Users
    /\ ticket_milestones \subseteq (DOMAIN tickets) \X {row.id : row \in milestones}
    /\ \A row \in milestones : MilestoneTyped(row)
    /\ UniqueNames(milestones)
    /\ components \subseteq Components

TypesInv ==
    /\ TablesTyped /\ RequestsTyped
    /\ Len(requests) <= MaxRequests /\ faults \in 0 .. MaxFaults

\* A request keeps its types when it goes on to where its body is not needed.
LEMMA GoesOnTyped ==
    ASSUME NEW r, Typed(r), NEW q, IsRequest(q), q.kind = r.kind, q.shown = r.shown,
           q.pc \notin BodyPcs, q.pc \in TicketPcs => r.pc \in TicketPcs
    PROVE  Typed(q)
BY DEF Typed, BodyPcs

LEMMA AnsweredTyped ==
    ASSUME NEW r, Typed(r), NEW error PROVE Typed(Answered(r, error))
<1> PICK q : q = [r EXCEPT !.pc = "done", !.code = HttpStatus[error]]
  OBVIOUS
<1>1. IsRequest(q) /\ q.kind = r.kind /\ q.shown = r.shown /\ q.pc = "done"
  BY DEF Typed, IsRequest, RequestFields
<1>2. Typed(q)
  BY <1>1, GoesOnTyped DEF BodyPcs, TicketPcs
<1> QED
  BY <1>2 DEF Answered

LEMMA BlankTyped ==
    ASSUME NEW u, NEW kind, NEW id, NEW body, NEW r, r = Blank(u, kind, id, body)
    PROVE  /\ Typed(r) /\ IsRequest(r)
           /\ r.user = u /\ r.kind = kind /\ r.id = id /\ r.body = body /\ r.shown = NULL
<1>1. IsRequest(r)
  BY DEF Blank, IsRequest, RequestFields
<1>2. /\ r.user = u /\ r.kind = kind /\ r.id = id /\ r.body = body /\ r.shown = NULL
      /\ r.pc = "done"
  BY DEF Blank
<1> QED
  BY <1>1, <1>2 DEF Typed, TicketPcs

\* How the requests of a step differ from those before it.
LEMMA StepTyped ==
    ASSUME IsSequence(requests), RequestsTyped, NEW k \in DOMAIN requests, NEW r, Typed(r),
           Step(k, r) \/ \E racing : StepRacing(k, r, racing)
    PROVE  RequestsTyped' /\ Len(requests') = Len(requests)
<1> PICK q : q = requests'
  OBVIOUS
<1>1. CASE Step(k, r)
  <2>1. /\ DOMAIN q = DOMAIN requests /\ Len(q) = Len(requests)
        /\ q[k] = r /\ \A j \in DOMAIN requests : j # k => q[j] = requests[j]
    BY <1>1, Replacing DEF Step
  <2> QED
    BY <2>1 DEF RequestsTyped
<1>2. CASE \E racing : StepRacing(k, r, racing)
  <2> PICK racing : StepRacing(k, r, racing)
    BY <1>2
  <2>1. q = [j \in DOMAIN requests |-> IF j = k THEN r
                                   ELSE IF j \in racing THEN [requests[j] EXCEPT !.raced = TRUE]
                                   ELSE requests[j]]
    BY DEF StepRacing
  <2>2. DOMAIN q = DOMAIN requests /\ Len(q) = Len(requests)
    <3>1. q = [j \in DOMAIN requests |-> q[j]]
      BY <2>1
    <3> QED
      BY <3>1, Rebuilding
  <2>3. ASSUME NEW j \in DOMAIN requests PROVE Typed(q[j])
    <3> PICK p : p = [requests[j] EXCEPT !.raced = TRUE]
      OBVIOUS
    <3>1. Typed(requests[j])
      BY DEF RequestsTyped
    <3>2. /\ IsRequest(p) /\ p.kind = requests[j].kind /\ p.shown = requests[j].shown
          /\ p.pc = requests[j].pc /\ p.body = requests[j].body /\ p.user = requests[j].user
          /\ p.existing = requests[j].existing
      BY <3>1 DEF Typed, IsRequest, RequestFields
    <3>3. Typed(p)
      BY <3>1, <3>2 DEF Typed
    <3> QED
      BY <2>1, <3>1, <3>3
  <2> QED
    BY <2>2, <2>3 DEF RequestsTyped
<1> QED
  BY <1>1, <1>2

LEMMA ArriveTyped ==
    ASSUME IsSequence(requests), RequestsTyped, NEW r, Typed(r), Arrive(r)
    PROVE  RequestsTyped' /\ Len(requests') <= MaxRequests
<1> PICK q : q = requests'
  OBVIOUS
<1>1. q = Extended(requests, r) /\ Len(requests) < MaxRequests
  BY DEF Arrive, Extended
<1>2. /\ \A j : j \in DOMAIN q <=> j \in DOMAIN requests \/ j = NewIndex(requests)
      /\ q[NewIndex(requests)] = r /\ \A j \in DOMAIN requests : q[j] = requests[j]
  BY <1>1, Appending
<1>3. RequestsTyped'
  BY <1>2 DEF RequestsTyped
<1>4. Len(q) = Len(requests) + 1 /\ Len(requests) \in Nat
  BY <1>1, AppendProperties, SeqMonotonic, LenProperties DEF Extended, IsSequence
<1> QED
  BY <1>1, <1>3, <1>4, TicketsAssumption

LEMMA ArrivalRefusedTyped ==
    ASSUME IsSequence(requests), RequestsTyped, NEW r, Typed(r), NEW error,
           Arrive(Answered(r, error))
    PROVE  RequestsTyped' /\ Len(requests') <= MaxRequests
BY AnsweredTyped, ArriveTyped

LEMMA ArrivalsTyped ==
    ASSUME IsSequence(requests), TypesInv, (\E u \in Users : Request(u)) \/ Read
    PROVE  RequestsTyped' /\ Len(requests') <= MaxRequests
<1> DEFINE Goal == RequestsTyped' /\ Len(requests') <= MaxRequests
<1>0. RequestsTyped
  BY DEF TypesInv
<1>1. ASSUME NEW u \in Users, NEW body \in CreateBodies, CreateTicket(u, body) PROVE Goal
  <2> PICK r : r = Blank(u, "create", 0, body)
    OBVIOUS
  <2> PICK q : q = [r EXCEPT !.pc = "insert"]
    OBVIOUS
  <2>1. /\ Typed(r) /\ IsRequest(r) /\ r.user = u /\ r.kind = "create" /\ r.body = body
        /\ r.shown = NULL
    BY BlankTyped
  <2>2. /\ IsRequest(q) /\ q.pc = "insert" /\ q.user = u /\ q.kind = "create" /\ q.body = body
    BY <2>1 DEF IsRequest, RequestFields
  <2>3. Typed(q)
    <3>1. TicketBody(body) /\ {"type", "title", "owner", "component"} \subseteq DOMAIN body
      BY TicketsAssumption
    <3> QED
      BY <2>2, <3>1 DEF Typed, MilestoneKinds
  <2>4. Arrive(Answered(r, "Validation")) \/ Arrive(q)
    BY <1>1 DEF CreateTicket
  <2> QED
    BY <1>0, <2>1, <2>3, <2>4, ArrivalRefusedTyped, ArriveTyped
<1>2. ASSUME NEW u \in Users, NEW t \in TicketIds, NEW body \in UpdateBodies,
             UpdateTicket(u, t, body)
      PROVE  Goal
  <2> PICK r : r = Blank(u, "update", t, body)
    OBVIOUS
  <2> PICK q : q = [r EXCEPT !.existing = tickets[t], !.before = Snapshot(t),
                             !.pc = IF "milestones" \in DOMAIN body THEN "milestones" ELSE "update"]
    OBVIOUS
  <2>1. /\ Typed(r) /\ IsRequest(r) /\ r.user = u /\ r.kind = "update" /\ r.body = body
        /\ r.shown = NULL
    BY BlankTyped
  <2>2. /\ IsRequest(q) /\ q.pc \in {"milestones", "update"} /\ q.kind = "update" /\ q.body = body
    BY <2>1 DEF IsRequest, RequestFields
  <2>3. Typed(q)
    <3>1. TicketBody(body)
      BY TicketsAssumption
    <3> QED
      BY <2>2, <3>1 DEF Typed, MilestoneKinds
  <2>4. Arrive(Answered(r, Refusal(u, t, body))) \/ Arrive(q)
    BY <1>2 DEF UpdateTicket
  <2> QED
    BY <1>0, <2>1, <2>3, <2>4, ArrivalRefusedTyped, ArriveTyped
<1>3. ASSUME NEW u \in Users, NEW body \in MilestoneBodies, CreateMilestone(u, body) PROVE Goal
  <2> PICK r : r = Blank(u, "create_milestone", 0, body)
    OBVIOUS
  <2> PICK q : q = [r EXCEPT !.pc = "insert_ms"]
    OBVIOUS
  <2>1. /\ Typed(r) /\ IsRequest(r) /\ r.kind = "create_milestone" /\ r.body = body
        /\ r.shown = NULL
    BY BlankTyped
  <2>2. /\ IsRequest(q) /\ q.pc = "insert_ms" /\ q.body = body /\ q.shown = NULL
    BY <2>1 DEF IsRequest, RequestFields
  <2>3. Typed(q)
    <3>1. MilestoneBody(body) /\ "name" \in DOMAIN body
      BY <1>3, TicketsAssumption DEF CreateMilestone
    <3> QED
      BY <2>2, <3>1 DEF Typed, TicketPcs
  <2>4. Arrive(Answered(r, "Validation")) \/ Arrive(q)
    BY <1>3 DEF CreateMilestone
  <2> QED
    BY <1>0, <2>1, <2>3, <2>4, ArrivalRefusedTyped, ArriveTyped
<1>4. ASSUME NEW u \in Users, NEW body \in MilestoneBodies, NEW m \in MilestoneIds,
             UpdateMilestone(u, m, body)
      PROVE  Goal
  <2> PICK r : r = Blank(u, "update_milestone", m, body)
    OBVIOUS
  <2> PICK q : q = [r EXCEPT !.pc = "write_ms", !.existing = MilestoneRow(m)]
    OBVIOUS
  <2>1. /\ Typed(r) /\ IsRequest(r) /\ r.kind = "update_milestone" /\ r.body = body
        /\ r.shown = NULL
    BY BlankTyped
  <2>2. /\ IsRequest(q) /\ q.pc = "write_ms" /\ q.body = body /\ q.shown = NULL
        /\ q.existing = MilestoneRow(m)
    BY <2>1 DEF IsRequest, RequestFields
  <2>3. MilestoneExists(m) => Typed(q)
    <3>1. MilestoneExists(m) => MilestoneTyped(MilestoneRow(m))
      BY DEF MilestoneExists, MilestoneRow, TypesInv, TablesTyped
    <3>2. MilestoneBody(body)
      BY TicketsAssumption
    <3> QED
      BY <2>2, <3>1, <3>2 DEF Typed, TicketPcs
  <2>4. Arrive(Answered(r, "NotFound")) \/ (MilestoneExists(m) /\ Arrive(q))
    BY <1>4 DEF UpdateMilestone
  <2> QED
    BY <1>0, <2>1, <2>3, <2>4, ArrivalRefusedTyped, ArriveTyped
<1>5. ASSUME NEW u, NEW m \in MilestoneIds, DeleteMilestone(u, m) PROVE Goal
  <2> PICK r : r = Blank(u, "delete_milestone", m, <<>>)
    OBVIOUS
  <2> PICK q : q = [r EXCEPT !.pc = "count"]
    OBVIOUS
  <2>1. Typed(r) /\ IsRequest(r)
    BY BlankTyped
  <2>2. IsRequest(q) /\ q.pc = "count" /\ q.kind = r.kind /\ q.shown = r.shown
    BY <2>1 DEF IsRequest, RequestFields
  <2>3. Typed(q)
    BY <2>1, <2>2, GoesOnTyped DEF BodyPcs, TicketPcs
  <2>4. Arrive(Answered(r, "NotFound")) \/ Arrive(q)
    BY <1>5 DEF DeleteMilestone
  <2> QED
    BY <1>0, <2>1, <2>3, <2>4, ArrivalRefusedTyped, ArriveTyped
<1>6. ASSUME NEW t \in TicketIds, GetTicket(t) PROVE Goal
  <2> PICK r : r = Blank(NULL, "get", t, <<>>)
    OBVIOUS
  <2> PICK q : q = [r EXCEPT !.pc = "cc", !.row = tickets[t], !.before = Snapshot(t)]
    OBVIOUS
  <2>1. Typed(r) /\ IsRequest(r) /\ r.kind = "get"
    BY BlankTyped
  <2>2. IsRequest(q) /\ q.pc = "cc" /\ q.kind = "get"
    BY <2>1 DEF IsRequest, RequestFields
  <2>3. Typed(q)
    BY <2>2 DEF Typed, MilestoneKinds
  <2>4. Arrive(Answered(r, "NotFound")) \/ Arrive(q)
    BY <1>6 DEF GetTicket
  <2> QED
    BY <1>0, <2>1, <2>3, <2>4, ArrivalRefusedTyped, ArriveTyped
<1>7. ASSUME NEW status, ListMilestones(status) PROVE Goal
  <2> PICK r : r = Blank(NULL, "list_milestones", 0, <<>>)
    OBVIOUS
  <2> DEFINE found == SetToSortSeq({row \in milestones : status \in {NULL, row.status}}, Sooner)
  <2> HIDE DEF found
  <2> PICK q : q = [r EXCEPT !.pc = "stats", !.row = found]
    OBVIOUS
  <2>1. Typed(r) /\ IsRequest(r)
    BY BlankTyped
  <2>2. IsRequest(q) /\ q.pc = "stats" /\ q.kind = r.kind /\ q.shown = r.shown
    BY <2>1 DEF IsRequest, RequestFields
  <2>3. Typed(q)
    BY <2>1, <2>2, GoesOnTyped DEF BodyPcs, TicketPcs
  <2>4. Arrive(q)
    BY <1>7 DEF ListMilestones, found
  <2> QED
    BY <1>0, <2>3, <2>4, ArriveTyped
<1> QED
  BY <1>1, <1>2, <1>3, <1>4, <1>5, <1>6, <1>7 DEF Request, Read

\* How a request goes on: its program counter, and what it has found.
LEMMA ProceedsTyped ==
    ASSUME TicketsInv, TypesInv, NEW k \in DOMAIN requests, Proceed(k)
    PROVE  RequestsTyped' /\ Len(requests') = Len(requests)
<1> DEFINE Goal == RequestsTyped' /\ Len(requests') = Len(requests)
<1> PICK r : r = requests[k]
  OBVIOUS
<1>0. IsSequence(requests) /\ RequestsTyped
  BY DEF TicketsInv, TypesInv
<1>1. Typed(r) /\ IsRequest(r)
  BY <1>0 DEF RequestsTyped, Typed
<1>2. ASSUME NEW error, Step(k, Answered(r, error)) PROVE Goal
  BY <1>0, <1>1, <1>2, AnsweredTyped, StepTyped
<1>3. ASSUME NEW q, IsRequest(q), q.kind = r.kind, q.shown = r.shown, q.pc \notin BodyPcs,
             q.pc \in TicketPcs => r.pc \in TicketPcs,
             Step(k, q) \/ \E racing : StepRacing(k, q, racing)
      PROVE  Goal
  <2>1. Typed(q)
    BY <1>1, <1>3, GoesOnTyped
  <2> QED
    BY <1>0, <1>3, <2>1, StepTyped
<1>4. ASSUME InsertTicket(k) PROVE Goal
  <2>0. \/ \E error : Step(k, Answered(r, error))
        \/ \E id, committed, racing :
              StepRacing(k, [r EXCEPT !.pc = "reread", !.id = id, !.committed = committed], racing)
    BY <1>4 DEF InsertTicket
  <2>1. PICK id, committed :
           \/ \E error : Step(k, Answered(r, error))
           \/ \E racing :
                 StepRacing(k, [r EXCEPT !.pc = "reread", !.id = id, !.committed = committed], racing)
    BY <2>0
  <2> PICK q : q = [r EXCEPT !.pc = "reread", !.id = id, !.committed = committed]
    OBVIOUS
  <2>2. /\ IsRequest(q) /\ q.kind = r.kind /\ q.shown = r.shown /\ q.pc = "reread"
        /\ r.pc = "insert"
    BY <1>1, <1>4 DEF IsRequest, RequestFields, InsertTicket
  <2> QED
    BY <1>2, <1>3, <2>1, <2>2 DEF BodyPcs, TicketPcs
<1>5. ASSUME CaptureMilestones(k) PROVE Goal
  <2> PICK q : q = [r EXCEPT !.pc = "update", !.old_milestones = Links(r.id)]
    OBVIOUS
  <2>1. r.pc = "milestones" /\ Step(k, q)
    BY <1>5 DEF CaptureMilestones
  <2>2. /\ IsRequest(q) /\ q.kind = r.kind /\ q.shown = r.shown /\ q.pc = "update"
        /\ q.body = r.body
    BY <1>1 DEF IsRequest, RequestFields
  <2>3. Typed(q)
    BY <1>1, <2>1, <2>2 DEF Typed, TicketPcs
  <2> QED
    BY <1>0, <2>1, <2>3, StepTyped
<1>6. ASSUME Update(k) PROVE Goal
  <2>0. \/ \E error : Step(k, Answered(r, error))
        \/ \E changed, committed, racing :
              StepRacing(k, [r EXCEPT !.pc = "reread", !.changed = changed,
                                      !.committed = committed], racing)
    BY <1>6 DEF Update, Commit
  <2>1. PICK changed, committed :
           \/ \E error : Step(k, Answered(r, error))
           \/ \E racing : StepRacing(k, [r EXCEPT !.pc = "reread", !.changed = changed,
                                                  !.committed = committed], racing)
    BY <2>0
  <2> PICK q : q = [r EXCEPT !.pc = "reread", !.changed = changed, !.committed = committed]
    OBVIOUS
  <2>2. /\ IsRequest(q) /\ q.kind = r.kind /\ q.shown = r.shown /\ q.pc = "reread"
        /\ r.pc = "update"
    BY <1>1, <1>6 DEF IsRequest, RequestFields, Update
  <2> QED
    BY <1>2, <1>3, <2>1, <2>2 DEF BodyPcs, TicketPcs
<1>7. ASSUME Reread(k) PROVE Goal
  <2> PICK q : q = [r EXCEPT !.pc = "cc", !.row = tickets[r.id]]
    OBVIOUS
  <2>1. Step(k, q) /\ r.pc = "reread"
    BY <1>7 DEF Reread
  <2>2. IsRequest(q) /\ q.kind = r.kind /\ q.shown = r.shown /\ q.pc = "cc"
    BY <1>1 DEF IsRequest, RequestFields
  <2> QED
    BY <1>3, <2>1, <2>2 DEF BodyPcs, TicketPcs
<1>8. ASSUME EnrichCc(k) PROVE Goal
  <2> PICK q : q = [r EXCEPT !.pc = "component", !.cc = Cc(r.id)]
    OBVIOUS
  <2>1. Step(k, q) /\ r.pc = "cc"
    BY <1>8 DEF EnrichCc
  <2>2. IsRequest(q) /\ q.kind = r.kind /\ q.shown = r.shown /\ q.pc = "component"
    BY <1>1 DEF IsRequest, RequestFields
  <2> QED
    BY <1>3, <2>1, <2>2 DEF BodyPcs, TicketPcs
<1>9. ASSUME EnrichComponent(k) PROVE Goal
  <2> PICK q : q = [r EXCEPT !.pc = "links"]
    OBVIOUS
  <2>1. (Step(k, q) \/ Step(k, Answered(r, "Internal"))) /\ r.pc = "component"
    BY <1>9 DEF EnrichComponent
  <2>2. IsRequest(q) /\ q.kind = r.kind /\ q.shown = r.shown /\ q.pc = "links"
    BY <1>1 DEF IsRequest, RequestFields
  <2> QED
    BY <1>2, <1>3, <2>1, <2>2 DEF BodyPcs, TicketPcs
<1>10. ASSUME EnrichLinks(k) PROVE Goal
  <2> PICK q : q = [r EXCEPT !.pc = "names", !.links = Links(r.id)]
    OBVIOUS
  <2>1. Step(k, q) /\ r.pc = "links"
    BY <1>10 DEF EnrichLinks
  <2>2. IsRequest(q) /\ q.kind = r.kind /\ q.shown = r.shown /\ q.pc = "names"
    BY <1>1 DEF IsRequest, RequestFields
  <2> QED
    BY <1>3, <2>1, <2>2 DEF BodyPcs, TicketPcs
<1>11. ASSUME EnrichNames(k) PROVE Goal
  <2>0. r.pc = "names"
    BY <1>11 DEF EnrichNames
  <2>1. PICK shown : Step(k, [r EXCEPT !.pc = "announce", !.shown = shown])
    BY <1>11 DEF EnrichNames
  <2> PICK q : q = [r EXCEPT !.pc = "announce", !.shown = shown]
    OBVIOUS
  <2>2. IsRequest(q) /\ q.kind = r.kind /\ q.pc = "announce"
    BY <1>1 DEF IsRequest, RequestFields
  <2>3. Typed(q)
    BY <1>1, <2>0, <2>2 DEF Typed, TicketPcs
  <2> QED
    BY <1>0, <2>1, <2>3, StepTyped
<1>12. ASSUME Announce(k) PROVE Goal
  <2>0. r.pc = "announce"
    BY <1>12 DEF Announce
  <2>1. PICK said, code : \/ Step(k, [r EXCEPT !.pc = "done", !.code = code])
                         \/ Step(k, [r EXCEPT !.said = said])
    BY <1>12 DEF Announce
  <2> PICK p : p = [r EXCEPT !.pc = "done", !.code = code]
    OBVIOUS
  <2> PICK q : q = [r EXCEPT !.said = said]
    OBVIOUS
  <2>2. IsRequest(p) /\ p.kind = r.kind /\ p.shown = r.shown /\ p.pc = "done"
    BY <1>1 DEF IsRequest, RequestFields
  <2>3. IsRequest(q) /\ q.kind = r.kind /\ q.shown = r.shown /\ q.pc = "announce"
    BY <1>1, <2>0 DEF IsRequest, RequestFields
  <2> QED
    BY <1>3, <2>0, <2>1, <2>2, <2>3 DEF BodyPcs, TicketPcs
<1>13. ASSUME InsertMilestone(k) PROVE Goal
  <2>0. \/ \E error : Step(k, Answered(r, error))
        \/ \E id : Step(k, [r EXCEPT !.id = id, !.pc = "reread_ms"])
    BY <1>13 DEF InsertMilestone
  <2>1. PICK id : \/ \E error : Step(k, Answered(r, error))
                  \/ Step(k, [r EXCEPT !.id = id, !.pc = "reread_ms"])
    BY <2>0
  <2> PICK q : q = [r EXCEPT !.id = id, !.pc = "reread_ms"]
    OBVIOUS
  <2>2. IsRequest(q) /\ q.kind = r.kind /\ q.shown = r.shown /\ q.pc = "reread_ms"
    BY <1>1 DEF IsRequest, RequestFields
  <2> QED
    BY <1>2, <1>3, <2>1, <2>2 DEF BodyPcs, TicketPcs
<1>14. ASSUME WriteMilestone(k) PROVE Goal
  <2>0. \/ \E error : Step(k, Answered(r, error))
        \/ \E changed, racing :
              StepRacing(k, [r EXCEPT !.pc = "reread_ms", !.changed = changed], racing)
    BY <1>14 DEF WriteMilestone
  <2>1. PICK changed :
           \/ \E error : Step(k, Answered(r, error))
           \/ \E racing : StepRacing(k, [r EXCEPT !.pc = "reread_ms", !.changed = changed], racing)
    BY <2>0
  <2> PICK q : q = [r EXCEPT !.pc = "reread_ms", !.changed = changed]
    OBVIOUS
  <2>2. IsRequest(q) /\ q.kind = r.kind /\ q.shown = r.shown /\ q.pc = "reread_ms"
    BY <1>1 DEF IsRequest, RequestFields
  <2> QED
    BY <1>2, <1>3, <2>1, <2>2 DEF BodyPcs, TicketPcs
<1>15. ASSUME RereadMilestone(k) PROVE Goal
  <2> PICK p : p = [r EXCEPT !.pc = "stats", !.row = <<MilestoneRow(r.id)>>]
    OBVIOUS
  <2> PICK q : q = [r EXCEPT !.pc = "done"]
    OBVIOUS
  <2>1. Step(k, p) \/ Step(k, q)
    BY <1>15 DEF RereadMilestone
  <2>2. IsRequest(p) /\ p.kind = r.kind /\ p.shown = r.shown /\ p.pc = "stats"
    BY <1>1 DEF IsRequest, RequestFields
  <2>3. IsRequest(q) /\ q.kind = r.kind /\ q.shown = r.shown /\ q.pc = "done"
    BY <1>1 DEF IsRequest, RequestFields
  <2> QED
    BY <1>3, <2>1, <2>2, <2>3 DEF BodyPcs, TicketPcs
<1>16. ASSUME CountAssigned(k) PROVE Goal
  <2> PICK q : q = [r EXCEPT !.pc = "delete", !.raced = FALSE]
    OBVIOUS
  <2>1. Step(k, Answered(r, "Conflict")) \/ Step(k, q)
    BY <1>16 DEF CountAssigned
  <2>2. IsRequest(q) /\ q.kind = r.kind /\ q.shown = r.shown /\ q.pc = "delete"
    BY <1>1 DEF IsRequest, RequestFields
  <2> QED
    BY <1>2, <1>3, <2>1, <2>2 DEF BodyPcs, TicketPcs
<1>17. ASSUME RemoveMilestone(k) PROVE Goal
  <2>1. PICK released, code :
           \E racing :
              StepRacing(k, [r EXCEPT !.pc = "done", !.code = code, !.released = released], racing)
    BY <1>17 DEF RemoveMilestone
  <2> PICK q : q = [r EXCEPT !.pc = "done", !.code = code, !.released = released]
    OBVIOUS
  <2>2. IsRequest(q) /\ q.kind = r.kind /\ q.shown = r.shown /\ q.pc = "done"
    BY <1>1 DEF IsRequest, RequestFields
  <2> QED
    BY <1>3, <2>1, <2>2 DEF BodyPcs, TicketPcs
<1>18. ASSUME Stats(k) PROVE Goal
  <2> PICK shown : shown = EnrichMilestones(r.row)
    OBVIOUS
  <2>1. PICK code : Step(k, [r EXCEPT !.pc = "done", !.shown = shown, !.code = code])
    BY <1>18 DEF Stats
  <2> PICK q : q = [r EXCEPT !.pc = "done", !.shown = shown, !.code = code]
    OBVIOUS
  <2>2. IsRequest(q) /\ q.pc = "done" /\ q.shown = shown
    BY <1>1 DEF IsRequest, RequestFields
  <2>3. \A i \in DOMAIN shown : AddsUp(shown[i].stats)
    <3>1. \A t \in DOMAIN tickets : /\ tickets[t].estimation \in Nat \cup {NULL}
                                    /\ tickets[t].status \in TicketStatus
      BY DEF TypesInv, TablesTyped, TicketRow
    <3>2. IsSequence(tickets)
      BY DEF TicketsInv, Tables
    <3> QED
      BY <3>1, <3>2, EnrichedAddUp
  <2>4. Typed(q)
    BY <2>2, <2>3 DEF Typed, TicketPcs
  <2> QED
    BY <1>0, <2>1, <2>4, StepTyped
<1> QED
  BY <1>4, <1>5, <1>6, <1>7, <1>8, <1>9, <1>10, <1>11, <1>12, <1>13, <1>14, <1>15, <1>16,
     <1>17, <1>18 DEF Proceed

LEMMA FailuresTyped ==
    ASSUME TicketsInv, TypesInv, (\E k \in DOMAIN requests : StatementFails(k)) \/ Crash
    PROVE  RequestsTyped' /\ Len(requests') = Len(requests) /\ faults' \in 0 .. MaxFaults
<1>0. IsSequence(requests) /\ RequestsTyped /\ faults \in 0 .. MaxFaults /\ MaxFaults \in Nat
  BY TicketsAssumption DEF TicketsInv, TypesInv
<1>1. faults' \in 0 .. MaxFaults
  <2>1. faults < MaxFaults /\ faults' = faults + 1
    BY DEF StatementFails, Crash
  <2> QED
    BY <1>0, <2>1
<1>2. ASSUME NEW k \in DOMAIN requests, StatementFails(k)
      PROVE  RequestsTyped' /\ Len(requests') = Len(requests)
  <2> PICK o : o = requests[k]
    OBVIOUS
  <2> PICK r : r = [o EXCEPT !.faulted = TRUE]
    OBVIOUS
  <2>1. Typed(o) /\ IsRequest(o)
    BY <1>0 DEF RequestsTyped, Typed
  <2>2. /\ IsRequest(r) /\ r.pc = o.pc /\ r.kind = o.kind /\ r.body = o.body /\ r.user = o.user
        /\ r.existing = o.existing /\ r.shown = o.shown
    BY <2>1 DEF IsRequest, RequestFields
  <2>3. Typed(r)
    BY <2>1, <2>2 DEF Typed
  <2>4. PICK said : \/ r.pc = "milestones" /\ Step(k, [r EXCEPT !.pc = "update"])
                    \/ r.pc = "announce" /\ Step(k, [r EXCEPT !.said = said])
                    \/ Step(k, Answered(r, "Internal"))
    BY <1>2 DEF StatementFails
  <2> PICK p : p = [r EXCEPT !.pc = "update"]
    OBVIOUS
  <2> PICK q : q = [r EXCEPT !.said = said]
    OBVIOUS
  <2>5. /\ IsRequest(p) /\ p.pc = "update" /\ p.kind = r.kind /\ p.body = r.body
        /\ p.shown = r.shown
    BY <2>2 DEF IsRequest, RequestFields
  <2>6. r.pc = "milestones" => Typed(p)
    BY <2>3, <2>5 DEF Typed, TicketPcs
  <2>7. IsRequest(q) /\ q.pc = r.pc /\ q.kind = r.kind /\ q.shown = r.shown
    BY <2>2 DEF IsRequest, RequestFields
  <2>8. r.pc = "announce" => Typed(q)
    BY <2>3, <2>7, GoesOnTyped DEF BodyPcs, TicketPcs
  <2>9. Typed(Answered(r, "Internal"))
    BY <2>3, AnsweredTyped
  <2> QED
    BY <1>0, <2>4, <2>6, <2>8, <2>9, StepTyped
<1>3. ASSUME Crash PROVE RequestsTyped' /\ Len(requests') = Len(requests)
  <2> PICK q : q = requests'
    OBVIOUS
  <2>1. q = [k \in DOMAIN requests |-> IF requests[k].pc = "done" THEN requests[k]
                                       ELSE [requests[k] EXCEPT !.pc = "done", !.faulted = TRUE]]
    BY <1>3 DEF Crash
  <2>2. q = [k \in DOMAIN requests |-> q[k]]
    BY <2>1
  <2>3. IsSequence(q) /\ DOMAIN q = DOMAIN requests /\ Len(q) = Len(requests)
    BY <1>0, <2>2, Rebuilding
  <2>4. ASSUME NEW k \in DOMAIN requests PROVE Typed(q[k])
    <3> PICK o : o = requests[k]
      OBVIOUS
    <3> PICK p : p = [o EXCEPT !.pc = "done", !.faulted = TRUE]
      OBVIOUS
    <3>1. Typed(o) /\ IsRequest(o)
      BY <1>0 DEF RequestsTyped, Typed
    <3>2. IsRequest(p) /\ p.pc = "done" /\ p.kind = o.kind /\ p.shown = o.shown
      BY <3>1 DEF IsRequest, RequestFields
    <3>3. Typed(p)
      BY <3>1, <3>2, GoesOnTyped DEF BodyPcs, TicketPcs
    <3>4. q[k] = o \/ q[k] = p
      BY <2>1
    <3> QED
      BY <3>1, <3>3, <3>4
  <2> QED
    BY <2>3, <2>4 DEF RequestsTyped
<1> QED
  BY <1>1, <1>2, <1>3

-----------------------------------------------------------------------------
(* Types: tables.                                                          *)

\* A list is inserted when all its ids are known, each once.
LEMMA InsertedAll ==
    ASSUME NEW ids, NEW known, InsertAll(ids, known) = "ok"
    PROVE  \A i \in DOMAIN ids : ids[i] \in known /\ \A j \in 1 .. i - 1 : ids[j] # ids[i]
<1> DEFINE failing == {i \in DOMAIN ids : ids[i] \notin known \/ \E j \in 1 .. i - 1 : ids[j] = ids[i]}
<1>1. \A violated : FromSqlite(violated) # "ok"
  BY DEF FromSqlite
<1>2. failing = {}
  BY <1>1 DEF InsertAll
<1> QED
  BY <1>2

LEMMA OutcomeOk ==
    ASSUME NEW body, Outcome(body) = "ok"
    PROVE  /\ "estimation" \in DOMAIN body => Hours(body["estimation"]) # Invalid
           /\ Given(body, "owner", NULL) \in Users \cup {NULL}
           /\ Given(body, "component", NULL) \in components \cup {NULL}
           /\ InsertAll(Given(body, "cc", <<>>), Users) = "ok"
           /\ InsertAll(Given(body, "milestones", <<>>), {m.id : m \in milestones}) = "ok"
<1> PICK cc, links : /\ cc = InsertAll(Given(body, "cc", <<>>), Users)
                     /\ links = InsertAll(Given(body, "milestones", <<>>), {m.id : m \in milestones})
  OBVIOUS
<1>1. Outcome(body) =
         IF "estimation" \in DOMAIN body /\ Hours(body["estimation"]) = Invalid THEN "Conflict"
         ELSE IF \/ Given(body, "owner", NULL) \notin Users \cup {NULL}
                 \/ Given(body, "component", NULL) \notin components \cup {NULL} THEN "Database"
         ELSE IF cc # "ok" THEN cc ELSE links
  BY DEF Outcome
<1> QED
  BY <1>1

LEMMA Columned ==
    ASSUME NEW row, NEW body, NEW f \in DOMAIN row
    PROVE  Merge(row, Columns(body))[f] =
              IF f \in TicketFields /\ f \in DOMAIN body
                THEN IF f = "estimation" THEN Hours(body[f]) ELSE body[f]
                ELSE row[f]
BY DEF Merge, Columns

\* What a transaction writes has its types when it does not fail: of the columns that the
\* body does not name, the row's.
LEMMA WrittenTyped ==
    ASSUME NEW row, NEW body, TicketBody(body), Outcome(body) = "ok",
           TicketFields \cup {"created_by"} \subseteq DOMAIN row, row.created_by \in Users,
           row.type \in TicketType \/ "type" \in DOMAIN body,
           row.status \in TicketStatus, row.priority \in Priority,
           row.owner \in Users \/ "owner" \in DOMAIN body,
           row.component \in components \/ "component" \in DOMAIN body,
           row.estimation \in Nat \cup {NULL}
    PROVE  TicketRow(Merge(row, Columns(body)), components)
<1> PICK new : new = Merge(row, Columns(body))
  OBVIOUS
<1>1. DOMAIN new = DOMAIN row
  BY DEF Merge
<1>2. \A f \in DOMAIN row :
         new[f] = IF f \in TicketFields /\ f \in DOMAIN body
                    THEN IF f = "estimation" THEN Hours(body[f]) ELSE body[f]
                    ELSE row[f]
  BY Columned
<1>3. new.type \in TicketType /\ new.status \in TicketStatus /\ new.priority \in Priority
  BY <1>2 DEF TicketBody, TicketFields
<1>4. new.created_by \in Users
  BY <1>2 DEF TicketFields
<1>5. new.owner \in Users
  <2>1. "owner" \in DOMAIN body => body.owner \in Users
    BY OutcomeOk DEF Given, TicketBody
  <2> QED
    BY <1>2, <2>1 DEF TicketFields
<1>6. new.component \in components
  <2>1. "component" \in DOMAIN body => body.component \in components
    BY OutcomeOk DEF Given, TicketBody
  <2> QED
    BY <1>2, <2>1 DEF TicketFields
<1>7. new.estimation \in Nat \cup {NULL}
  <2>1. ASSUME "estimation" \in DOMAIN body PROVE Hours(body["estimation"]) \in Nat \cup {NULL}
    <3>1. Hours(body["estimation"]) # Invalid
      BY <2>1, OutcomeOk
    <3>2. body["estimation"] = NULL \/ IsText(body["estimation"])
      BY <2>1 DEF TicketBody
    <3> QED
      BY <3>1, <3>2, EstimationParsed DEF Hours
  <2> QED
    BY <1>2, <2>1 DEF TicketFields
<1> QED
  BY <1>1, <1>3, <1>4, <1>5, <1>6, <1>7 DEF TicketRow

\* The join rows of a body that does not fail refer to what there is.
LEMMA JoinTyped ==
    ASSUME NEW ids, NEW known, NEW table, table \subseteq ids \X known,
           NEW more, ids \subseteq more, NEW t \in more, NEW body, NEW f,
           InsertAll(Given(body, f, <<>>), known) = "ok"
    PROVE  Replaced(table, t, body, f) \subseteq more \X known
<1>1. f \in DOMAIN body => \A i \in DOMAIN body[f] : body[f][i] \in known
  BY InsertedAll DEF Given
<1> QED
  BY <1>1 DEF Replaced

LEMMA TablesInsert ==
    ASSUME TicketsInv, TypesInv, NEW k \in DOMAIN requests, InsertTicket(k) PROVE TablesTyped'
<1> PICK r : r = requests[k]
  OBVIOUS
<1> PICK t : t = NewIndex(tickets)
  OBVIOUS
<1>0. Typed(r) /\ TablesTyped
  BY DEF TypesInv, RequestsTyped
<1>1. CASE UNCHANGED <<tickets, ticket_cc, ticket_milestones, milestones, components>>
  BY <1>0, <1>1 DEF TablesTyped
<1>2. CASE /\ Outcome(r.body) = "ok"
           /\ tickets' = Extended(tickets, NewTicket(r.user, r.body))
           /\ ticket_cc' = Replaced(ticket_cc, t, r.body, "cc")
           /\ ticket_milestones' = Replaced(ticket_milestones, t, r.body, "milestones")
           /\ UNCHANGED <<milestones, components>>
  <2> PICK new : new = NewTicket(r.user, r.body)
    OBVIOUS
  <2> PICK all : all = tickets'
    OBVIOUS
  <2>1. /\ TicketBody(r.body) /\ {"type", "title", "owner", "component"} \subseteq DOMAIN r.body
        /\ r.user \in Users /\ t \in TicketIds
    BY <1>0 DEF InsertTicket, Typed, NewIndex
  <2>2. /\ \A i : i \in DOMAIN all <=> i \in DOMAIN tickets \/ i = t
        /\ all[t] = new /\ \A i \in DOMAIN tickets : all[i] = tickets[i]
    BY <1>2, Appending DEF TicketsInv, Tables
  <2>3. TicketRow(new, components)
    <3> PICK base : base = [type |-> NULL, title |-> NULL, status |-> "new", priority |-> "P3",
                            owner |-> NULL, component |-> NULL, estimation |-> NULL,
                            created_by |-> r.user]
      OBVIOUS
    <3>1. /\ TicketFields \cup {"created_by"} \subseteq DOMAIN base
          /\ base.created_by \in Users /\ base.status \in TicketStatus
          /\ base.priority \in Priority /\ base.estimation \in Nat \cup {NULL}
      BY <2>1 DEF TicketFields, TicketStatus, Priority
    <3>2. new = Merge(base, Columns(r.body))
      BY DEF NewTicket
    <3> QED
      BY <1>2, <2>1, <3>1, <3>2, WrittenTyped
  <2>4. \A i \in DOMAIN all : i \in TicketIds /\ TicketRow(all[i], components)
    BY <1>0, <2>1, <2>2, <2>3 DEF TablesTyped
  <2>5. t \in DOMAIN all /\ DOMAIN tickets \subseteq DOMAIN all
    BY <2>2
  <2>6. ticket_cc' \subseteq (DOMAIN all) \X Users
    <3>1. ticket_cc \subseteq (DOMAIN tickets) \X Users
      BY <1>0 DEF TablesTyped
    <3>2. InsertAll(Given(r.body, "cc", <<>>), Users) = "ok"
      BY <1>2, OutcomeOk
    <3>3. DOMAIN tickets \subseteq DOMAIN all /\ t \in DOMAIN all
      BY <1>0, <2>5
    <3>4. Replaced(ticket_cc, t, r.body, "cc") \subseteq (DOMAIN all) \X Users
      BY ONLY <3>1, <3>2, <3>3, JoinTyped
    <3> QED
      BY <1>2, <3>4
  <2>7. ticket_milestones' \subseteq (DOMAIN all) \X {row.id : row \in milestones}
    <3>0. PICK ids : ids = {row.id : row \in milestones}
      OBVIOUS
    <3>1. ticket_milestones \subseteq (DOMAIN tickets) \X ids
      BY <1>0, <3>0 DEF TablesTyped
    <3>2. InsertAll(Given(r.body, "milestones", <<>>), ids) = "ok"
      BY <1>2, <3>0, OutcomeOk
    <3>3. DOMAIN tickets \subseteq DOMAIN all /\ t \in DOMAIN all
      BY <1>0, <2>5
    <3>4. Replaced(ticket_milestones, t, r.body, "milestones") \subseteq (DOMAIN all) \X ids
      BY ONLY <3>1, <3>2, <3>3, JoinTyped
    <3> QED
      BY <1>2, <3>0, <3>4
  <2> QED
    BY <1>0, <1>2, <2>4, <2>6, <2>7 DEF TablesTyped
<1> QED
  BY <1>1, <1>2 DEF InsertTicket, Extended, NewIndex

LEMMA TablesUpdate ==
    ASSUME TicketsInv, TypesInv, NEW k \in DOMAIN requests, Update(k) PROVE TablesTyped'
<1> PICK r : r = requests[k]
  OBVIOUS
<1> PICK t : t = r.id
  OBVIOUS
<1> PICK new : new = Merge(tickets[t], Columns(r.body))
  OBVIOUS
<1>0. Typed(r) /\ TablesTyped /\ r.pc = "update" /\ t \in DOMAIN tickets /\ TicketBody(r.body)
  <2>1. Typed(r) /\ TablesTyped /\ r.pc = "update"
    BY DEF TypesInv, RequestsTyped, Update
  <2>2. Prepared(r)
    BY DEF TicketsInv
  <2> QED
    BY <2>1, <2>2 DEF Prepared, Typed
<1>1. CASE UNCHANGED <<tickets, ticket_cc, ticket_milestones, milestones, components>>
  BY <1>0, <1>1 DEF TablesTyped
<1>2. CASE /\ Outcome(r.body) = "ok"
           /\ tickets' = [tickets EXCEPT ![t] = new]
           /\ ticket_cc' = Replaced(ticket_cc, t, r.body, "cc")
           /\ ticket_milestones' = Replaced(ticket_milestones, t, r.body, "milestones")
           /\ UNCHANGED <<milestones, components>>
  <2> PICK all : all = tickets'
    OBVIOUS
  <2>1. all = [tickets EXCEPT ![t] = new] /\ IsSequence(tickets) /\ t \in DOMAIN tickets
    BY <1>0, <1>2 DEF TicketsInv, Tables
  <2>2. /\ DOMAIN all = DOMAIN tickets
        /\ all[t] = new /\ \A i \in DOMAIN tickets : i # t => all[i] = tickets[i]
    BY ONLY <2>1, Replacing
  <2>3. TicketRow(new, components)
    <3>1. TicketRow(tickets[t], components)
      BY <1>0 DEF TablesTyped
    <3> QED
      BY <1>0, <1>2, <3>1, WrittenTyped DEF TicketRow
  <2>4. \A i \in DOMAIN all : i \in TicketIds /\ TicketRow(all[i], components)
    BY <1>0, <2>2, <2>3 DEF TablesTyped
  <2>6. ticket_cc' \subseteq (DOMAIN all) \X Users
    <3>1. ticket_cc \subseteq (DOMAIN tickets) \X Users
      BY <1>0 DEF TablesTyped
    <3>2. InsertAll(Given(r.body, "cc", <<>>), Users) = "ok"
      BY <1>2, OutcomeOk
    <3>3. DOMAIN tickets \subseteq DOMAIN all /\ t \in DOMAIN all
      BY <1>0, <2>2
    <3>4. Replaced(ticket_cc, t, r.body, "cc") \subseteq (DOMAIN all) \X Users
      BY ONLY <3>1, <3>2, <3>3, JoinTyped
    <3> QED
      BY <1>2, <3>4
  <2>7. ticket_milestones' \subseteq (DOMAIN all) \X {row.id : row \in milestones}
    <3>0. PICK ids : ids = {row.id : row \in milestones}
      OBVIOUS
    <3>1. ticket_milestones \subseteq (DOMAIN tickets) \X ids
      BY <1>0, <3>0 DEF TablesTyped
    <3>2. InsertAll(Given(r.body, "milestones", <<>>), ids) = "ok"
      BY <1>2, <3>0, OutcomeOk
    <3>3. DOMAIN tickets \subseteq DOMAIN all /\ t \in DOMAIN all
      BY <1>0, <2>2
    <3>4. Replaced(ticket_milestones, t, r.body, "milestones") \subseteq (DOMAIN all) \X ids
      BY ONLY <3>1, <3>2, <3>3, JoinTyped
    <3> QED
      BY <1>2, <3>0, <3>4
  <2> QED
    BY <1>0, <1>2, <2>4, <2>6, <2>7 DEF TablesTyped
<1> QED
  BY <1>1, <1>2 DEF Update, Commit

\* A milestone's row keeps its types when a body is merged into it.
LEMMA MilestoneMerged ==
    ASSUME NEW row, NEW body, MilestoneBody(body), {"id", "name", "status"} \subseteq DOMAIN row,
           row.id \in MilestoneIds, row.name \in Nat, row.status \in MilestoneStatus,
           NEW new, new = Merge(row, body)
    PROVE  MilestoneTyped(new) /\ new.id = row.id
<1>1. new.id = row.id
  BY DEF Merge, MilestoneBody
<1>2. new.name \in Nat
  BY DEF Merge, MilestoneBody
<1>3. new.status \in MilestoneStatus
  BY DEF Merge, MilestoneBody
<1> QED
  BY <1>1, <1>2, <1>3 DEF MilestoneTyped

LEMMA TablesMilestones ==
    ASSUME TicketsInv, TypesInv, NEW k \in DOMAIN requests,
           InsertMilestone(k) \/ WriteMilestone(k) \/ RemoveMilestone(k)
    PROVE  TablesTyped'
<1> PICK r : r = requests[k]
  OBVIOUS
<1>0. Typed(r) /\ TablesTyped
  BY DEF TypesInv, RequestsTyped
<1>1. CASE UNCHANGED <<tickets, ticket_cc, ticket_milestones, milestones, components>>
  BY <1>0, <1>1 DEF TablesTyped
<1>2. ASSUME NEW m \in MilestoneIds, IsNextRowid(milestones, m), r.pc = "insert_ms",
             ~ NameTaken(r.body["name"], 0),
             milestones' = milestones \cup
                {Merge([id |-> m, name |-> 0, description |-> NULL, due_date |-> NULL,
                        status |-> "open"], r.body)},
             UNCHANGED <<tickets, ticket_cc, ticket_milestones, components>>
      PROVE  TablesTyped'
  <2> PICK row : row = [id |-> m, name |-> 0, description |-> NULL, due_date |-> NULL,
                        status |-> "open"]
    OBVIOUS
  <2> PICK new : new = Merge(row, r.body)
    OBVIOUS
  <2>1. MilestoneBody(r.body) /\ "name" \in DOMAIN r.body
    BY <1>0, <1>2 DEF Typed
  <2>2. /\ {"id", "name", "status"} \subseteq DOMAIN row
        /\ row.id \in MilestoneIds /\ row.name \in Nat /\ row.status \in MilestoneStatus
    BY DEF MilestoneStatus
  <2>3. MilestoneTyped(new)
    BY <2>1, <2>2, MilestoneMerged
  <2>4. new.name = r.body["name"]
    BY <2>1 DEF Merge
  <2>5. \A q \in milestones : q.id # 0
    <3>1. MaxMilestones \in Nat
      BY TicketsAssumption
    <3> QED
      BY <1>0, <3>1 DEF TablesTyped, MilestoneTyped, MilestoneIds
  <2>6. \A q \in milestones : q.name # new.name
    BY <1>2, <2>4, <2>5 DEF NameTaken
  <2>7. milestones' = milestones \cup {new}
    BY <1>2
  <2>8. UniqueNames(milestones')
    BY <1>0, <2>6, <2>7 DEF TablesTyped, UniqueNames
  <2>9. \A q \in milestones' : MilestoneTyped(q)
    BY <1>0, <2>3, <2>7 DEF TablesTyped
  <2>10. {q.id : q \in milestones} \subseteq {q.id : q \in milestones'}
    BY <2>7
  <2>11. ticket_milestones' \subseteq (DOMAIN tickets) \X {q.id : q \in milestones'}
    BY <1>0, <1>2, <2>10 DEF TablesTyped
  <2> QED
    BY <1>0, <1>2, <2>8, <2>9, <2>11 DEF TablesTyped
<1>3. ASSUME r.pc = "write_ms",
             NEW new, new = Merge(r.existing, r.body),
             ~ (MilestoneExists(r.id) /\ NameTaken(new.name, r.id)),
             milestones' = {IF row.id = r.id THEN new ELSE row : row \in milestones},
             UNCHANGED <<tickets, ticket_cc, ticket_milestones, components>>
      PROVE  TablesTyped'
  <2>1. MilestoneBody(r.body) /\ MilestoneTyped(r.existing)
    BY <1>0, <1>3 DEF Typed
  <2>2. r.existing.id = r.id /\ {"id", "name", "status"} \subseteq DOMAIN r.existing
    <3>1. Prepared(r)
      BY DEF TicketsInv
    <3> QED
      BY <1>3, <3>1 DEF Prepared, MilestoneFields
  <2>3. MilestoneTyped(new) /\ new.id = r.id
    BY <1>3, <2>1, <2>2, MilestoneMerged DEF MilestoneTyped
  <2>4. ASSUME NEW row \in milestones'
        PROVE  \/ row \in milestones /\ row.id # r.id
               \/ row = new /\ \E old \in milestones : old.id = r.id
    <3>1. PICK old \in milestones : row = IF old.id = r.id THEN new ELSE old
      BY <1>3
    <3>2. CASE old.id = r.id
      BY <3>1, <3>2
    <3>3. CASE old.id # r.id
      BY <3>1, <3>3
    <3> QED
      BY <3>2, <3>3
  <2>5. \A q \in milestones' : MilestoneTyped(q)
    BY <1>0, <2>3, <2>4 DEF TablesTyped
  <2>6. ASSUME NEW old \in milestones, old.id = r.id, NEW row \in milestones, row.id # r.id
        PROVE  row.name # new.name
    BY <1>3, <2>6 DEF MilestoneExists, NameTaken
  <2>7. UniqueNames(milestones')
    <3> SUFFICES ASSUME NEW p \in milestones', NEW q \in milestones', p.name = q.name PROVE p = q
      BY DEF UniqueNames
    <3>1. CASE p \in milestones /\ q \in milestones
      BY <1>0, <3>1 DEF TablesTyped, UniqueNames
    <3>2. CASE p = new /\ q = new
      BY <3>2
    <3>3. CASE p = new /\ q \in milestones /\ q.id # r.id
      <4>1. \E old \in milestones : old.id = r.id
        BY <2>3, <2>4, <3>3
      <4> QED
        BY <2>6, <3>3, <4>1
    <3>4. CASE q = new /\ p \in milestones /\ p.id # r.id
      <4>1. \E old \in milestones : old.id = r.id
        BY <2>3, <2>4, <3>4
      <4> QED
        BY <2>6, <3>4, <4>1
    <3> QED
      BY <2>4, <3>1, <3>2, <3>3, <3>4
  <2>8. {q.id : q \in milestones} \subseteq {q.id : q \in milestones'}
    <3> SUFFICES ASSUME NEW row \in milestones PROVE \E q \in milestones' : q.id = row.id
      OBVIOUS
    <3>1. CASE row.id = r.id
      <4>1. new \in milestones'
        BY <1>3, <3>1
      <4> QED
        BY <2>3, <3>1, <4>1
    <3>2. CASE row.id # r.id
      BY <1>3, <3>2
    <3> QED
      BY <3>1, <3>2
  <2>9. ticket_milestones' \subseteq (DOMAIN tickets) \X {q.id : q \in milestones'}
    BY <1>0, <1>3, <2>8 DEF TablesTyped
  <2> QED
    BY <1>0, <1>3, <2>5, <2>7, <2>9 DEF TablesTyped
<1>4. ASSUME milestones' = {row \in milestones : row.id # r.id},
             ticket_milestones' = {x \in ticket_milestones : x[2] # r.id},
             UNCHANGED <<tickets, ticket_cc, components>>
      PROVE  TablesTyped'
  <2>1. UniqueNames(milestones') /\ \A row \in milestones' : MilestoneTyped(row)
    BY <1>0, <1>4 DEF TablesTyped, UniqueNames
  <2>2. ASSUME NEW x \in ticket_milestones'
        PROVE  x \in (DOMAIN tickets) \X {row.id : row \in milestones'}
    <3>1. x \in (DOMAIN tickets) \X {row.id : row \in milestones} /\ x[2] # r.id
      BY <1>0, <1>4 DEF TablesTyped
    <3>2. PICK row \in milestones : row.id = x[2]
      BY <3>1
    <3>3. row \in milestones'
      BY <1>4, <3>1, <3>2
    <3> QED
      BY <3>1, <3>2, <3>3
  <2> QED
    BY <1>0, <1>4, <2>1, <2>2 DEF TablesTyped
<1>5. ASSUME InsertMilestone(k) PROVE TablesTyped'
  <2>1. CASE NameTaken(r.body["name"], 0)
    BY <1>1, <1>5, <2>1 DEF InsertMilestone
  <2>2. CASE ~ NameTaken(r.body["name"], 0)
    BY <1>2, <1>5, <2>2 DEF InsertMilestone
  <2> QED
    BY <2>1, <2>2
<1>6. ASSUME WriteMilestone(k) PROVE TablesTyped'
  <2> PICK new : new = Merge(r.existing, r.body)
    OBVIOUS
  <2>1. CASE MilestoneExists(r.id) /\ NameTaken(new.name, r.id)
    BY <1>1, <1>6, <2>1 DEF WriteMilestone
  <2>2. CASE ~ (MilestoneExists(r.id) /\ NameTaken(new.name, r.id))
    BY <1>3, <1>6, <2>2 DEF WriteMilestone
  <2> QED
    BY <2>1, <2>2
<1>7. ASSUME RemoveMilestone(k) PROVE TablesTyped'
  BY <1>4, <1>7 DEF RemoveMilestone
<1> QED
  BY <1>5, <1>6, <1>7

LEMMA TablesDeletion ==
    ASSUME TypesInv, NEW c \in Components, DeleteComponent(c) PROVE TablesTyped'
<1>1. TablesTyped
  BY DEF TypesInv
<1>2. ASSUME NEW t \in DOMAIN tickets PROVE TicketRow(tickets[t], components \ {c})
  <2>1. TicketRow(tickets[t], components) /\ tickets[t].component # c
    BY <1>1 DEF TablesTyped, DeleteComponent
  <2> QED
    BY <2>1 DEF TicketRow
<1> QED
  BY <1>1, <1>2 DEF DeleteComponent, TablesTyped

LEMMA TypesInit == Init => TypesInv
<1> SUFFICES ASSUME Init PROVE TypesInv
  OBVIOUS
<1>1. /\ tickets = SeedTickets /\ ticket_cc = {} /\ milestones = SeedMilestones
      /\ ticket_milestones = SeedLinks /\ components = Components /\ requests = <<>> /\ faults = 0
  BY DEF Init
<1>2. MaxTickets \in Nat /\ MaxRequests \in Nat /\ MaxFaults \in Nat
  BY TicketsAssumption
<1>3. \A t \in DOMAIN tickets : t \in TicketIds /\ TicketRow(tickets[t], components)
  <2>1. DOMAIN SeedTickets = 1 .. Len(SeedTickets) /\ Len(SeedTickets) \in Nat
    BY TicketsAssumption, LenProperties DEF IsSequence
  <2>2. Len(SeedTickets) <= MaxTickets
    BY TicketsAssumption
  <2>3. \A t \in DOMAIN SeedTickets : t \in TicketIds
    BY <1>2, <2>1, <2>2 DEF TicketIds
  <2> QED
    BY <1>1, <2>3, TicketsAssumption
<1>4. TablesTyped
  BY <1>1, <1>3, TicketsAssumption DEF TablesTyped, MilestoneTyped
<1>5. RequestsTyped
  BY <1>1 DEF RequestsTyped
<1> QED
  BY <1>1, <1>2, <1>4, <1>5 DEF TypesInv

LEMMA TypesStep == TicketsInv /\ TypesInv /\ [Next]_vars => TypesInv'
<1> SUFFICES ASSUME TicketsInv, TypesInv, [Next]_vars PROVE TypesInv'
  OBVIOUS
<1>0. IsSequence(requests)
  BY DEF TicketsInv
<1>1. ASSUME UNCHANGED <<tickets, ticket_cc, ticket_milestones, milestones, components>>
      PROVE  TablesTyped'
  BY <1>1 DEF TypesInv, TablesTyped
<1>2. CASE (\E u \in Users : Request(u)) \/ Read
  <2>1. UNCHANGED <<tickets, ticket_cc, ticket_milestones, milestones, components, faults>>
    BY <1>2 DEF Request, Read, CreateTicket, UpdateTicket, CreateMilestone, UpdateMilestone,
                DeleteMilestone, GetTicket, ListMilestones
  <2>2. RequestsTyped' /\ Len(requests') <= MaxRequests
    BY <1>0, <1>2, ArrivalsTyped
  <2> QED
    BY <1>1, <2>1, <2>2 DEF TypesInv
<1>3. ASSUME NEW k \in DOMAIN requests, Proceed(k) PROVE TypesInv'
  <2>1. RequestsTyped' /\ Len(requests') = Len(requests)
    BY <1>3, ProceedsTyped
  <2>2. UNCHANGED faults
    BY <1>3 DEF Proceed, InsertTicket, CaptureMilestones, Update, Reread, EnrichCc,
                EnrichComponent, EnrichLinks, EnrichNames, Announce, InsertMilestone,
                WriteMilestone, RereadMilestone, CountAssigned, RemoveMilestone, Stats
  <2>3. \/ UNCHANGED <<tickets, ticket_cc, ticket_milestones, milestones, components>>
        \/ InsertTicket(k) \/ Update(k)
        \/ InsertMilestone(k) \/ WriteMilestone(k) \/ RemoveMilestone(k)
    BY <1>3 DEF Proceed, CaptureMilestones, Reread, EnrichCc, EnrichComponent, EnrichLinks,
                EnrichNames, Announce, RereadMilestone, CountAssigned, Stats
  <2>4. TablesTyped'
    BY <1>1, <2>3, TablesInsert, TablesUpdate, TablesMilestones
  <2> QED
    BY <2>1, <2>2, <2>4 DEF TypesInv
<1>4. CASE (\E k \in DOMAIN requests : StatementFails(k)) \/ Crash
  <2>1. UNCHANGED <<tickets, ticket_cc, ticket_milestones, milestones, components>>
    BY <1>4 DEF StatementFails, Crash
  <2>2. RequestsTyped' /\ Len(requests') = Len(requests) /\ faults' \in 0 .. MaxFaults
    BY <1>4, FailuresTyped
  <2> QED
    BY <1>1, <2>1, <2>2 DEF TypesInv
<1>5. ASSUME NEW c \in Components, DeleteComponent(c) PROVE TypesInv'
  <2>1. TablesTyped'
    BY <1>5, TablesDeletion
  <2>2. UNCHANGED <<requests, faults>>
    BY <1>5 DEF DeleteComponent
  <2> QED
    BY <2>1, <2>2 DEF TypesInv, RequestsTyped
<1>6. CASE UNCHANGED vars
  BY <1>6 DEF vars, TypesInv, TablesTyped, RequestsTyped
<1> QED
  BY <1>2, <1>3, <1>4, <1>5, <1>6 DEF Next

LEMMA TypesAlways == Spec => [](TicketsInv /\ TypesInv)
<1> QED
  BY TicketsInit, TicketsStep, TypesInit, TypesStep, PTL DEF Spec

\* However requests interleave and fail, the rows of tickets have their types and refer to
\* users and components that exist, the join rows refer to tickets, users and milestones that
\* exist, and the statistics of a milestone add up, although they are counted by one query
\* over rows that others write (repos::ticket, repos::milestone, enrich_many).
THEOREM TicketTypes == Spec => []TypeOK
<1>1. TicketsInv /\ TypesInv => TypeOK
  BY DEF TicketsInv, Tables, TypesInv, TablesTyped, RequestsTyped, Typed, MilestoneTyped,
         MilestoneKinds, TypeOK
<1> QED
  BY <1>1, TypesAlways, PTL

-----------------------------------------------------------------------------
(* Updates: what is told.                                                  *)

\* The line an event becomes.
Line(e) == FormatEventLine(e.event_type, e.payload)

LEMMA PairOf == ASSUME NEW x, NEW y, NEW s, s = [i \in 1 .. 2 |-> s[i]], s[1] = x, s[2] = y
                PROVE  s = <<x, y>>
<1> PICK t : t = <<x, y>>
  OBVIOUS
<1>1. t = [i \in 1 .. 2 |-> t[i]] /\ t[1] = x /\ t[2] = y
  OBVIOUS
<1>2. \A i \in 1 .. 2 : s[i] = t[i]
  BY <1>1
<1> QED
  BY <1>1, <1>2

LEMMA Joined ==
    ASSUME NEW S, NEW s \in Seq(S), NEW e \in Seq(S), NEW q, q = s \o e
    PROVE  /\ q \in Seq(S) /\ Len(q) = Len(s) + Len(e)
           /\ \A i \in 1 .. Len(s) : q[i] = s[i]
           /\ \A i \in 1 .. Len(e) : q[Len(s) + i] = e[i]
<1>1. Len(s) \in Nat /\ Len(e) \in Nat
  BY LenProperties
<1>2. \A i \in 1 .. Len(s) + Len(e) : q[i] = IF i <= Len(s) THEN s[i] ELSE e[i - Len(s)]
  BY ConcatProperties
<1>3. ASSUME NEW i \in 1 .. Len(e) PROVE q[Len(s) + i] = e[i]
  <2> PICK j : j = Len(s) + i
    OBVIOUS
  <2>1. j \in 1 .. Len(s) + Len(e) /\ ~ (j <= Len(s)) /\ j - Len(s) = i
    BY <1>1
  <2>2. q[j] = e[j - Len(s)]
    BY <1>2, <2>1
  <2> QED
    BY <2>1, <2>2
<1>4. \A i \in 1 .. Len(s) : q[i] = s[i]
  BY <1>1, <1>2
<1> QED
  BY <1>3, <1>4, ConcatProperties

\* A line is put together from what happened, the values it names, and the actor.
LEMMA LineOfTwo ==
    ASSUME NEW what, NEW x, NEW y, NEW z, NEW s, s = <<x, y>>, NEW line, line = <<what>> \o s \o <<z>>
    PROVE  line = <<what, x, y, z>>
<1> PICK S : S = {what, x, y, z}
  OBVIOUS
<1> PICK a, c : a = <<what>> /\ c = <<z>>
  OBVIOUS
<1>1. /\ a \in Seq(S) /\ Len(a) = 1 /\ a[1] = what
      /\ s \in Seq(S) /\ Len(s) = 2 /\ s[1] = x /\ s[2] = y
      /\ c \in Seq(S) /\ Len(c) = 1 /\ c[1] = z
  OBVIOUS
<1> PICK b : b = a \o s
  OBVIOUS
<1>2. b \in Seq(S) /\ Len(b) = 3 /\ b[1] = what /\ b[2] = x /\ b[3] = y
  BY <1>1, ConcatProperties
<1> PICK d : d = b \o c
  OBVIOUS
<1>3. d \in Seq(S) /\ Len(d) = 4 /\ d[1] = what /\ d[2] = x /\ d[3] = y /\ d[4] = z
  BY <1>1, <1>2, ConcatProperties
<1>4. d = <<what, x, y, z>>
  <2> PICK t : t = <<what, x, y, z>>
    OBVIOUS
  <2>1. t = [i \in 1 .. 4 |-> t[i]] /\ t[1] = what /\ t[2] = x /\ t[3] = y /\ t[4] = z
    OBVIOUS
  <2>2. d = [i \in 1 .. 4 |-> d[i]]
    BY <1>3, LenProperties
  <2>3. ASSUME NEW i \in 1 .. 4 PROVE d[i] = t[i]
    <3>1. i = 1 \/ i = 2 \/ i = 3 \/ i = 4
      OBVIOUS
    <3> QED
      BY <1>3, <2>1, <3>1
  <2> QED
    BY <2>1, <2>2, <2>3
<1> QED
  BY <1>4

LEMMA LineOfOne ==
    ASSUME NEW what, NEW x, NEW z, NEW s, s = <<x>>, NEW line, line = <<what>> \o s \o <<z>>
    PROVE  line = <<what, x, z>>
<1> PICK S : S = {what, x, z}
  OBVIOUS
<1> PICK a, c : a = <<what>> /\ c = <<z>>
  OBVIOUS
<1>1. /\ a \in Seq(S) /\ Len(a) = 1 /\ a[1] = what
      /\ s \in Seq(S) /\ Len(s) = 1 /\ s[1] = x
      /\ c \in Seq(S) /\ Len(c) = 1 /\ c[1] = z
  OBVIOUS
<1> PICK b : b = a \o s
  OBVIOUS
<1>2. b \in Seq(S) /\ Len(b) = 2 /\ b[1] = what /\ b[2] = x
  <2>1. /\ b \in Seq(S) /\ Len(b) = Len(a) + Len(s)
        /\ \A i \in 1 .. Len(a) : b[i] = a[i]
        /\ \A i \in 1 .. Len(s) : b[Len(a) + i] = s[i]
    <3>1. a \in Seq(S) /\ s \in Seq(S)
      BY ONLY <1>1
    <3> QED
      BY ONLY <3>1, b = a \o s, Joined
  <2>2. b[1] = a[1] /\ b[Len(a) + 1] = s[1]
    BY ONLY <1>1, <2>1
  <2>3. Len(a) + 1 = 2 /\ Len(a) + Len(s) = 2
    BY ONLY <1>1
  <2> QED
    BY ONLY <1>1, <2>1, <2>2, <2>3
<1> PICK d : d = b \o c
  OBVIOUS
<1>3. d \in Seq(S) /\ Len(d) = 3 /\ d[1] = what /\ d[2] = x /\ d[3] = z
  <2>1. /\ d \in Seq(S) /\ Len(d) = Len(b) + Len(c)
        /\ \A i \in 1 .. Len(b) : d[i] = b[i]
        /\ \A i \in 1 .. Len(c) : d[Len(b) + i] = c[i]
    <3>1. b \in Seq(S) /\ c \in Seq(S)
      BY ONLY <1>1, <1>2
    <3> QED
      BY ONLY <3>1, d = b \o c, Joined
  <2>2. d[1] = b[1] /\ d[2] = b[2] /\ d[Len(b) + 1] = c[1]
    BY ONLY <1>1, <1>2, <2>1
  <2>3. Len(b) + 1 = 3 /\ Len(b) + Len(c) = 3
    BY ONLY <1>1, <1>2
  <2> QED
    BY ONLY <1>1, <1>2, <2>1, <2>2, <2>3
<1> PICK t : t = <<what, x, z>>
  OBVIOUS
<1>4. t = [i \in 1 .. 3 |-> t[i]] /\ t[1] = what /\ t[2] = x /\ t[3] = z
  OBVIOUS
<1>5. d = [i \in 1 .. 3 |-> d[i]]
  BY <1>3, LenProperties
<1>6. ASSUME NEW i \in 1 .. 3 PROVE d[i] = t[i]
  <2>1. i = 1 \/ i = 2 \/ i = 3
    OBVIOUS
  <2> QED
    BY ONLY <1>3, <1>4, <2>1
<1>7. d = t
  BY ONLY <1>4, <1>5, <1>6
<1> QED
  BY <1>7

LEMMA TwoValues ==
    ASSUME NEW what, NEW old, NEW new, NEW payload, {"actor", old, new} \subseteq DOMAIN payload,
           Given(KeysOf, what, <<>>) = <<old, new>>
    PROVE  FormatEventLine(what, payload) = <<what, payload[old], payload[new], payload["actor"]>>
<1> PICK keys : keys = Given(KeysOf, what, <<>>)
  OBVIOUS
<1> PICK s : s = [i \in DOMAIN keys |-> Given(payload, keys[i], "?")]
  OBVIOUS
<1>1. DOMAIN keys = 1 .. 2 /\ keys[1] = old /\ keys[2] = new
  OBVIOUS
<1>2. /\ Given(payload, old, "?") = payload[old] /\ Given(payload, new, "?") = payload[new]
      /\ Given(payload, "actor", "unknown") = payload["actor"]
  BY DEF Given
<1>3. s = [i \in 1 .. 2 |-> s[i]] /\ s[1] = payload[old] /\ s[2] = payload[new]
  BY <1>1, <1>2
<1>4. s = <<payload[old], payload[new]>>
  BY ONLY <1>3, PairOf
<1>5. FormatEventLine(what, payload) = <<what>> \o s \o <<payload["actor"]>>
  BY <1>2 DEF FormatEventLine
<1> QED
  BY ONLY <1>4, <1>5, LineOfTwo

LEMMA OneValue ==
    ASSUME NEW what, NEW key, NEW payload, {"actor", key} \subseteq DOMAIN payload,
           Given(KeysOf, what, <<>>) = <<key>>
    PROVE  FormatEventLine(what, payload) = <<what, payload[key], payload["actor"]>>
<1> PICK keys : keys = Given(KeysOf, what, <<>>)
  OBVIOUS
<1> PICK s : s = [i \in DOMAIN keys |-> Given(payload, keys[i], "?")]
  OBVIOUS
<1>1. DOMAIN keys = 1 .. 1 /\ keys[1] = key
  OBVIOUS
<1>2. /\ Given(payload, key, "?") = payload[key]
      /\ Given(payload, "actor", "unknown") = payload["actor"]
  BY DEF Given
<1>3. s = [i \in 1 .. 1 |-> payload[key]]
  BY <1>1, <1>2
<1>4. s = <<payload[key]>>
  BY ONLY <1>3
<1>5. FormatEventLine(what, payload) = <<what>> \o s \o <<payload["actor"]>>
  BY <1>2 DEF FormatEventLine
<1> QED
  BY ONLY <1>4, <1>5, LineOfOne

LEMMA StatusLine ==
    ASSUME NEW r, r.user \in Users, r.existing.status \in TicketStatus, r.row.status \in TicketStatus
    PROVE  /\ Line(StatusChanged(r)) =
                 <<"status_changed", r.existing.status, r.row.status, r.user>>
           /\ StatusChanged(r).payload # NULL
<1> PICK payload : payload = [actor |-> r.user, old_status |-> r.existing.status,
                              new_status |-> r.row.status]
  OBVIOUS
<1>1. StatusChanged(r).event_type = "status_changed" /\ StatusChanged(r).payload = payload
  BY DEF StatusChanged, Event
<1>2. payload \in [actor : Users, old_status : TicketStatus, new_status : TicketStatus]
  OBVIOUS
<1>3. Given(KeysOf, "status_changed", <<>>) = <<"old_status", "new_status">>
  BY DEF Given, KeysOf
<1>4. FormatEventLine("status_changed", payload) =
         <<"status_changed", payload["old_status"], payload["new_status"], payload["actor"]>>
  BY <1>3, TwoValues
<1> QED
  BY <1>1, <1>2, <1>4, NullAssumption DEF Line

LEMMA PriorityLine ==
    ASSUME NEW r, r.user \in Users, r.existing.priority \in Priority, r.row.priority \in Priority
    PROVE  /\ Line(PriorityChanged(r)) =
                 <<"priority_changed", r.existing.priority, r.row.priority, r.user>>
           /\ PriorityChanged(r).payload # NULL
<1> PICK payload : payload = [actor |-> r.user, old_priority |-> r.existing.priority,
                              new_priority |-> r.row.priority]
  OBVIOUS
<1>1. PriorityChanged(r).event_type = "priority_changed" /\ PriorityChanged(r).payload = payload
  BY DEF PriorityChanged, Event
<1>2. payload \in [actor : Users, old_priority : Priority, new_priority : Priority]
  OBVIOUS
<1>3. Given(KeysOf, "priority_changed", <<>>) = <<"old_priority", "new_priority">>
  BY DEF Given, KeysOf
<1>4. FormatEventLine("priority_changed", payload) =
         <<"priority_changed", payload["old_priority"], payload["new_priority"], payload["actor"]>>
  BY <1>3, TwoValues
<1> QED
  BY <1>1, <1>2, <1>4, NullAssumption DEF Line

LEMMA OwnerLine ==
    ASSUME NEW r, r.user \in Users, r.existing.owner \in Users, r.row.owner \in Users
    PROVE  /\ Line(OwnerChanged(r)) =
                 <<"owner_changed", r.existing.owner, r.row.owner, r.user>>
           /\ OwnerChanged(r).payload # NULL
<1> PICK payload : payload = [actor |-> r.user, old_owner |-> r.existing.owner,
                              new_owner |-> r.row.owner]
  OBVIOUS
<1>1. OwnerChanged(r).event_type = "owner_changed" /\ OwnerChanged(r).payload = payload
  BY DEF OwnerChanged, Event
<1>2. payload \in [actor : Users, old_owner : Users, new_owner : Users]
  OBVIOUS
<1>3. Given(KeysOf, "owner_changed", <<>>) = <<"old_owner", "new_owner">>
  BY DEF Given, KeysOf
<1>4. FormatEventLine("owner_changed", payload) =
         <<"owner_changed", payload["old_owner"], payload["new_owner"], payload["actor"]>>
  BY <1>3, TwoValues
<1> QED
  BY <1>1, <1>2, <1>4, NullAssumption DEF Line

LEMMA MilestoneLine ==
    ASSUME NEW r, r.user \in Users, NEW name \in Nat
    PROVE  /\ Line(MilestoneAdded(r, name)) = <<"milestone_added", name, r.user>>
           /\ MilestoneAdded(r, name).payload # NULL
<1> PICK payload : payload = [actor |-> r.user, milestone_name |-> name]
  OBVIOUS
<1>1. /\ MilestoneAdded(r, name).event_type = "milestone_added"
      /\ MilestoneAdded(r, name).payload = payload
  BY DEF MilestoneAdded, Event
<1>2. payload \in [actor : Users, milestone_name : Nat]
  OBVIOUS
<1>3. Given(KeysOf, "milestone_added", <<>>) = <<"milestone_name">>
  BY DEF Given, KeysOf
<1>4. FormatEventLine("milestone_added", payload) =
         <<"milestone_added", payload["milestone_name"], payload["actor"]>>
  BY <1>3, OneValue
<1> QED
  BY <1>1, <1>2, <1>4, NullAssumption DEF Line

\* The events say what is in D, each of it once.
Tells(s, D) ==
    /\ IsSequence(s)
    /\ \A i \in DOMAIN s : s[i].payload # NULL
    /\ \A i, j \in DOMAIN s : Line(s[i]) = Line(s[j]) => i = j
    /\ D = {Line(s[i]) : i \in DOMAIN s}

LEMMA TellsNothing == Tells(<<>>, {})
<1> PICK s : s = <<>>
  OBVIOUS
<1>1. IsSequence(s) /\ DOMAIN s = {}
  BY DEF IsSequence
<1> QED
  BY <1>1 DEF Tells

LEMMA TellsOne ==
    ASSUME NEW e, e.payload # NULL PROVE Tells(<<e>>, {Line(e)})
<1> PICK s : s = <<e>>
  OBVIOUS
<1>1. DOMAIN s = {1} /\ s[1] = e
  OBVIOUS
<1>2. s = [i \in 1 .. 1 |-> s[i]]
  OBVIOUS
<1>3. IsSequence(s)
  BY <1>2, Building
<1>4. {Line(s[i]) : i \in DOMAIN s} = {Line(e)}
  BY <1>1
<1> QED
  BY <1>1, <1>3, <1>4 DEF Tells

LEMMA TellsBoth ==
    ASSUME NEW s, NEW D, Tells(s, D), NEW q, NEW E, Tells(q, E), D \cap E = {}
    PROVE  Tells(s \o q, D \cup E)
<1> PICK S : S = {s[i] : i \in DOMAIN s} \cup {q[i] : i \in DOMAIN q}
  OBVIOUS
<1> PICK n, m : n = Len(s) /\ m = Len(q)
  OBVIOUS
<1> PICK p : p = s \o q
  OBVIOUS
<1>1. /\ s \in Seq(S) /\ q \in Seq(S) /\ n \in Nat /\ m \in Nat
      /\ DOMAIN s = 1 .. n /\ DOMAIN q = 1 .. m
  BY SeqMonotonic, LenProperties DEF Tells, IsSequence
<1>2. /\ p \in Seq(S) /\ Len(p) = n + m
      /\ \A i \in 1 .. n : p[i] = s[i]
      /\ \A i \in 1 .. m : p[n + i] = q[i]
  <2>1. s \in Seq(S) /\ q \in Seq(S)
    BY <1>1
  <2> QED
    BY <2>1, Joined
<1>3. DOMAIN p = 1 .. n + m
  BY <1>2, LenProperties
<1>4. IsSequence(p)
  <2>1. p = [i \in 1 .. n + m |-> p[i]] /\ n + m \in Nat
    BY <1>1, <1>2, LenProperties
  <2> QED
    BY <2>1, Building
<1>5. ASSUME NEW i \in DOMAIN p
      PROVE  \/ i \in DOMAIN s /\ p[i] = s[i]
             \/ \E j \in DOMAIN q : i = n + j /\ p[i] = q[j]
  <2>1. CASE i \in 1 .. n
    BY <1>1, <1>2, <2>1
  <2>2. CASE i \notin 1 .. n
    <3> PICK j : j = i - n
      OBVIOUS
    <3>1. j \in 1 .. m /\ i = n + j
      BY <1>1, <1>3, <2>2
    <3> QED
      BY <1>1, <1>2, <3>1
  <2> QED
    BY <2>1, <2>2
<1>6. \A i \in DOMAIN s : i \in DOMAIN p /\ p[i] = s[i]
  BY <1>1, <1>2, <1>3
<1>7. \A j \in DOMAIN q : n + j \in DOMAIN p /\ p[n + j] = q[j]
  BY <1>1, <1>2, <1>3
<1>8. \A i \in DOMAIN p : p[i].payload # NULL
  BY <1>5 DEF Tells
<1>9. ASSUME NEW i \in DOMAIN p, NEW j \in DOMAIN p, Line(p[i]) = Line(p[j]) PROVE i = j
  <2>1. CASE i \in DOMAIN s /\ p[i] = s[i] /\ j \in DOMAIN s /\ p[j] = s[j]
    BY <1>9, <2>1 DEF Tells
  <2>2. CASE /\ \E x \in DOMAIN q : i = n + x /\ p[i] = q[x]
             /\ \E y \in DOMAIN q : j = n + y /\ p[j] = q[y]
    BY <1>9, <2>2 DEF Tells
  <2>3. ASSUME NEW x \in DOMAIN s, NEW y \in DOMAIN q PROVE Line(s[x]) # Line(q[y])
    BY DEF Tells
  <2> QED
    BY <1>5, <1>9, <2>1, <2>2, <2>3
<1> PICK lines : lines = {Line(p[i]) : i \in DOMAIN p}
  OBVIOUS
<1>10. lines = D \cup E
  <2>1. ASSUME NEW l \in D \cup E PROVE l \in lines
    <3>1. (\E i \in DOMAIN s : l = Line(s[i])) \/ (\E j \in DOMAIN q : l = Line(q[j]))
      BY DEF Tells
    <3> QED
      BY <1>6, <1>7, <3>1
  <2>2. ASSUME NEW l \in lines PROVE l \in D \cup E
    <3>1. PICK i \in DOMAIN p : l = Line(p[i])
      OBVIOUS
    <3> QED
      BY <1>5, <3>1 DEF Tells
  <2> QED
    BY ONLY <2>1, <2>2
<1>11. Tells(p, lines)
  BY <1>4, <1>8, <1>9 DEF Tells
<1> QED
  BY ONLY <1>10, <1>11, p = s \o q

LEMMA TellsCount ==
    ASSUME NEW s, NEW D, Tells(s, D)
    PROVE  Len(s) = Cardinality(D)
<1> PICK n : n = Len(s)
  OBVIOUS
<1>1. n \in Nat /\ DOMAIN s = 1 .. n
  BY LenProperties DEF Tells, IsSequence
<1> PICK f : f = [i \in 1 .. n |-> Line(s[i])]
  OBVIOUS
<1>2. f \in Surjection(1 .. n, D)
  <2>1. f \in [1 .. n -> D]
    BY <1>1 DEF Tells
  <2>2. \A l \in D : \E i \in 1 .. n : f[i] = l
    BY <1>1 DEF Tells
  <2> QED
    BY <2>1, <2>2 DEF Surjection
<1>3. f \in Injection(1 .. n, D)
  <2>1. f \in [1 .. n -> D]
    BY <1>2 DEF Surjection
  <2>2. \A i, j \in 1 .. n : f[i] = f[j] => i = j
    BY <1>1 DEF Tells
  <2> QED
    BY <2>1, <2>2 DEF Injection, IsInjective
<1>4. IsFiniteSet(1 .. n) /\ Cardinality(1 .. n) = n
  <2>1. 1 \in Int /\ n \in Int /\ (n - 1) + 1 = n /\ (1 > n => n = 0)
    BY <1>1
  <2>2. /\ IsFiniteSet(1 .. n)
        /\ Cardinality(1 .. n) = IF 1 > n THEN 0 ELSE n - 1 + 1
    BY <2>1, FS_Interval
  <2> QED
    BY <2>1, <2>2
<1> QED
  BY <1>2, <1>3, <1>4, FS_Surjection

\* The mail about the events has their lines.
LEMMA MailTells ==
    ASSUME NEW r, NEW D, Tells(r.said, D)
    PROVE  /\ Range(MailOf(r).body.items) = D
           /\ Len(MailOf(r).body.items) = Cardinality(D)
<1> PICK said : said = r.said
  OBVIOUS
<1> PICK n : n = Len(said)
  OBVIOUS
<1>1. n \in Nat /\ DOMAIN said = 1 .. n
  BY LenProperties DEF Tells, IsSequence
<1> PICK types, payloads : /\ types = [i \in 1 .. n |-> said[i].event_type]
                           /\ payloads = [i \in 1 .. n |-> said[i].payload]
  OBVIOUS
<1>2. Len(types) = n /\ Len(payloads) = n
  <2>1. types = [i \in 1 .. n |-> types[i]] /\ payloads = [i \in 1 .. n |-> payloads[i]]
    OBVIOUS
  <2> QED
    BY <1>1, <2>1, Building
<1> PICK events : events = NotificationEvents(types, payloads)
  OBVIOUS
<1>3. /\ DOMAIN events = 1 .. n
      /\ \A i \in 1 .. n : /\ events[i].event_type = said[i].event_type
                           /\ events[i].payload = said[i].payload
  BY <1>1, <1>2 DEF NotificationEvents, Tells
<1> PICK items : items = MailOf(r).body.items
  OBVIOUS
<1>4. items = [i \in DOMAIN events |-> FormatEventLine(events[i].event_type, events[i].payload)]
  BY <1>1 DEF MailOf, SendNotification, BuildNotificationEmail
<1>5. items = [i \in 1 .. n |-> Line(said[i])]
  BY <1>3, <1>4 DEF Line
<1>6. Len(items) = n
  <2>1. items = [i \in 1 .. n |-> items[i]]
    BY <1>5
  <2> QED
    BY <1>1, <2>1, Building
<1>7. Range(items) = D
  BY <1>1, <1>5 DEF Range, Tells
<1> QED
  BY <1>6, <1>7, TellsCount

\* The ids of a list, each of them once.
Lists(s, D) ==
    /\ IsSequence(s)
    /\ \A i, j \in DOMAIN s : s[i] = s[j] => i = j
    /\ D = {s[i] : i \in DOMAIN s}

LEMMA ListsMore ==
    ASSUME NEW s, NEW D, Lists(s, D), NEW e, e \notin D, NEW q, q = Extended(s, e)
    PROVE  Lists(q, D \cup {e})
<1> PICK n : n = NewIndex(s)
  OBVIOUS
<1>1. /\ IsSequence(q) /\ n \in DOMAIN q /\ n \notin DOMAIN s
      /\ \A i : i \in DOMAIN q <=> i \in DOMAIN s \/ i = n
      /\ q[n] = e /\ \A i \in DOMAIN s : q[i] = s[i]
  BY Appending DEF Lists
<1>2. \A i \in DOMAIN s : s[i] # e
  BY DEF Lists
<1>3. \A i, j \in DOMAIN q : q[i] = q[j] => i = j
  BY <1>1, <1>2 DEF Lists
<1> PICK E : E = {q[i] : i \in DOMAIN q}
  OBVIOUS
<1>4. D \cup {e} = E
  <2>1. ASSUME NEW x \in D \cup {e} PROVE x \in E
    BY <1>1 DEF Lists
  <2>2. ASSUME NEW x \in E PROVE x \in D \cup {e}
    BY <1>1 DEF Lists
  <2> QED
    BY ONLY <2>1, <2>2
<1> QED
  BY <1>1, <1>3, <1>4 DEF Lists

Kept(ids, old) ==
    CHOOSE found : found = [i \in 0 .. Len(ids) |->
                               IF i = 0 THEN <<>>
                               ELSE IF ids[i] \in old THEN found[i - 1] ELSE Append(found[i - 1], ids[i])]

\* The ids that are not in the old set, by the ids up to each place.
LEMMA KeptSteps ==
    ASSUME NEW T, NEW ids \in Seq(T), NEW old
    PROVE  /\ NotIn(ids, old) = Kept(ids, old)[Len(ids)] /\ Kept(ids, old)[0] = <<>>
           /\ \A i \in 1 .. Len(ids) :
                 Kept(ids, old)[i] = IF ids[i] \in old THEN Kept(ids, old)[i - 1]
                                     ELSE Append(Kept(ids, old)[i - 1], ids[i])
<1> PICK n : n = Len(ids)
  OBVIOUS
<1> PICK S : S = Seq(T)
  OBVIOUS
<1>0. n \in Nat /\ \A i \in 1 .. n : ids[i] \in T
  BY LenProperties
<1> PICK step : step = [x \in (1 .. n) \X S |->
                           IF ids[x[1]] \in old THEN x[2] ELSE Append(x[2], ids[x[1]])]
  OBVIOUS
<1>1. step \in [(1 .. n) \X S -> S]
  <2>1. ASSUME NEW x \in (1 .. n) \X S
        PROVE  (IF ids[x[1]] \in old THEN x[2] ELSE Append(x[2], ids[x[1]])) \in S
    <3> PICK i, s : i = x[1] /\ s = x[2]
      OBVIOUS
    <3>1. s \in Seq(T) /\ ids[i] \in T
      BY <1>0
    <3>2. Append(s, ids[i]) \in Seq(T)
      BY <3>1, AppendProperties
    <3> QED
      BY <3>1, <3>2
  <2> QED
    BY <2>1
<1>2. PICK f : f \in [0 .. n -> S] /\ f[0] = <<>> /\ \A i \in 1 .. n : f[i] = step[<<i, f[i - 1]>>]
  <2> PICK base : base = <<>>
    OBVIOUS
  <2>1. base \in S
    BY EmptySeq
  <2>2. \E f : Stepwise(f, n, S, base, step)
    BY <1>0, <1>1, <2>1, StepByStep
  <2> QED
    BY <2>2 DEF Stepwise
<1>3. ASSUME NEW i \in 1 .. n
      PROVE  f[i] = IF ids[i] \in old THEN f[i - 1] ELSE Append(f[i - 1], ids[i])
  <2> PICK x : x = <<i, f[i - 1]>>
    OBVIOUS
  <2>1. x \in (1 .. n) \X S /\ x[1] = i /\ x[2] = f[i - 1]
    <3>1. i - 1 \in 0 .. n
      BY <1>0
    <3> QED
      BY <1>2, <3>1
  <2>2. f[i] = step[x]
    BY <1>2
  <2> QED
    BY <2>1, <2>2
<1>4. f = [i \in 0 .. n |-> IF i = 0 THEN <<>>
                            ELSE IF ids[i] \in old THEN f[i - 1] ELSE Append(f[i - 1], ids[i])]
  <2>1. ASSUME NEW i \in 0 .. n
        PROVE  f[i] = IF i = 0 THEN <<>>
                      ELSE IF ids[i] \in old THEN f[i - 1] ELSE Append(f[i - 1], ids[i])
    <3>1. i = 0 \/ i \in 1 .. n
      BY <1>0
    <3> QED
      BY <1>2, <1>3, <3>1
  <2>2. f = [i \in 0 .. n |-> f[i]]
    BY <1>2
  <2> QED
    BY <2>1, <2>2, Zenon
<1>5. Kept(ids, old) =
         [i \in 0 .. Len(ids) |->
             IF i = 0 THEN <<>>
             ELSE IF ids[i] \in old THEN Kept(ids, old)[i - 1]
             ELSE Append(Kept(ids, old)[i - 1], ids[i])]
  BY <1>4 DEF Kept
<1> PICK kept : kept = Kept(ids, old)
  OBVIOUS
<1>6. kept = [i \in 0 .. n |-> IF i = 0 THEN <<>>
                               ELSE IF ids[i] \in old THEN kept[i - 1] ELSE Append(kept[i - 1], ids[i])]
  BY <1>5
<1>7. /\ kept[0] = <<>>
      /\ \A i \in 1 .. n :
            kept[i] = IF ids[i] \in old THEN kept[i - 1] ELSE Append(kept[i - 1], ids[i])
  <2>1. 0 \in 0 .. n /\ \A i \in 1 .. n : i \in 0 .. n /\ i # 0
    BY <1>0
  <2> QED
    BY <1>6, <2>1
<1>8. NotIn(ids, old) = kept[n]
  BY DEF NotIn, Kept
<1> QED
  BY <1>7, <1>8

LEMMA NotInLists ==
    ASSUME NEW ids, NEW D, Lists(ids, D), NEW old
    PROVE  Lists(NotIn(ids, old), D \ old)
<1> PICK n : n = Len(ids)
  OBVIOUS
<1> PICK T : T = {ids[i] : i \in DOMAIN ids}
  OBVIOUS
<1>1. n \in Nat /\ DOMAIN ids = 1 .. n /\ ids \in Seq(T)
  BY LenProperties DEF Lists, IsSequence
<1> PICK kept : kept = Kept(ids, old)
  OBVIOUS
<1>2. /\ NotIn(ids, old) = kept[n] /\ kept[0] = <<>>
      /\ \A i \in 1 .. n :
            kept[i] = IF ids[i] \in old THEN kept[i - 1] ELSE Append(kept[i - 1], ids[i])
  BY <1>1, KeptSteps
<1> DEFINE New(i) == {ids[j] : j \in 1 .. i} \ old
           P == {i \in Nat : i <= n => Lists(kept[i], New(i))}
<1>3. 0 \in P
  <2>1. New(0) = {}
    OBVIOUS
  <2> PICK s : s = <<>>
    OBVIOUS
  <2>2. IsSequence(s) /\ DOMAIN s = {}
    BY DEF IsSequence
  <2>3. Lists(s, {})
    BY <2>2 DEF Lists
  <2> QED
    BY <1>2, <2>1, <2>3
<1>4. ASSUME NEW i \in P PROVE i + 1 \in P
  <2>0. i \in Nat /\ i + 1 \in Nat
    OBVIOUS
  <2> SUFFICES ASSUME i + 1 <= n PROVE Lists(kept[i + 1], New(i + 1))
    BY <2>0
  <2> PICK j : j = i + 1
    OBVIOUS
  <2>1. Lists(kept[i], New(i)) /\ j \in 1 .. n /\ j - 1 = i
    BY <2>0
  <2>2. kept[j] = IF ids[j] \in old THEN kept[i] ELSE Append(kept[i], ids[j])
    BY <1>2, <2>1
  <2>3. \A x : x \in 1 .. j <=> x \in 1 .. i \/ x = j
    BY <2>0
  <2>4. CASE ids[j] \in old
    <3>1. New(j) = New(i)
      BY <2>3, <2>4
    <3> QED
      BY <2>1, <2>2, <2>4, <3>1
  <2>5. CASE ids[j] \notin old
    <3>1. New(j) = New(i) \cup {ids[j]}
      BY <2>3, <2>5
    <3>2. ids[j] \notin New(i)
      <4> SUFFICES ASSUME NEW x \in 1 .. i, ids[x] = ids[j] PROVE FALSE
        OBVIOUS
      <4>1. x \in DOMAIN ids /\ j \in DOMAIN ids /\ x # j
        BY <1>1, <2>0, <2>1
      <4> QED
        BY <4>1 DEF Lists
    <3>3. kept[j] = Extended(kept[i], ids[j])
      BY <2>2, <2>5 DEF Extended
    <3> HIDE DEF New
    <3>4. Lists(kept[j], New(i) \cup {ids[j]})
      BY <2>1, <3>2, <3>3, ListsMore
    <3> QED
      BY <3>1, <3>4
  <2> QED
    BY <2>4, <2>5
<1> HIDE DEF P
<1>5. P \in SUBSET Nat
  BY DEF P
<1>6. P = Nat
  BY <1>3, <1>4, <1>5, CountingUp
<1>7. Lists(kept[n], New(n))
  <2> HIDE DEF New
  <2>1. n \in P /\ n <= n
    BY <1>1, <1>6
  <2> QED
    BY ONLY <2>1 DEF P
<1>8. New(n) = D \ old
  BY <1>1 DEF Lists
<1> QED
  BY <1>2, <1>7, <1>8

RowTyped(row) == row.status \in TicketStatus /\ row.priority \in Priority /\ row.owner \in Users

\* What the handler has read before its update is the ticket as it was.
Compared(r) ==
    /\ r.user \in Users /\ r.existing = r.before.row /\ RowTyped(r.before.row)
    /\ r.before.links \in SUBSET MilestoneIds

\* So are the milestones it has read, if it had to.
Captured(r) ==
    r.old_milestones = IF "milestones" \in DOMAIN r.body THEN r.before.links ELSE NULL

\* How the ticket its transaction left differs from the one before: in what the body names.
Committed(r) ==
    /\ Compared(r) /\ Captured(r) /\ RowTyped(r.committed.row)
    /\ \A f \in {"status", "priority", "owner"} :
          f \notin DOMAIN r.body => r.committed.row[f] = r.before.row[f]
    /\ IF "milestones" \in DOMAIN r.body THEN Lists(r.body["milestones"], r.committed.links)
       ELSE r.committed.links = r.before.links
    /\ r.committed.names \in [r.committed.links -> Nat]
    /\ \A m, n \in r.committed.links : r.committed.names[m] = r.committed.names[n] => m = n

\* The events of an update, when the milestones still have the names they had.
AddedAs(r) ==
    IF r.old_milestones = NULL THEN <<>>
    ELSE LET new == NotIn(r.body["milestones"], r.old_milestones)
         IN [i \in DOMAIN new |-> MilestoneAdded(r, r.committed.names[new[i]])]

Told(r) ==
    Changed(r, "status", StatusChanged(r)) \o Changed(r, "priority", PriorityChanged(r))
       \o Changed(r, "owner", OwnerChanged(r)) \o AddedAs(r)

LEMMA ChangedTells ==
    ASSUME NEW r, NEW f, NEW event, event.payload # NULL,
           f \notin DOMAIN r.body => r.row[f] = r.existing[f],
           NEW D, D = IF r.existing[f] # r.row[f] THEN {Line(event)} ELSE {}
    PROVE  Tells(Changed(r, f, event), D)
<1>1. CASE r.existing[f] # r.row[f]
  <2>1. Changed(r, f, event) = <<event>>
    BY <1>1 DEF Changed
  <2>2. D = {Line(event)}
    BY <1>1
  <2> QED
    BY <2>1, <2>2, TellsOne
<1>2. CASE r.existing[f] = r.row[f]
  <2>1. Changed(r, f, event) = <<>> /\ D = {}
    BY <1>2 DEF Changed
  <2> QED
    BY <2>1, TellsNothing
<1> QED
  BY <1>1, <1>2

LinesAdded(r) ==
    {<<"milestone_added", r.committed.names[m], r.user>> : m \in r.committed.links \ r.before.links}

LEMMA AddedTells ==
    ASSUME NEW r, Committed(r) PROVE Tells(AddedAs(r), LinesAdded(r))
<1> PICK names, links, old : /\ names = r.committed.names /\ links = r.committed.links
                             /\ old = r.before.links
  OBVIOUS
<1>0. /\ r.user \in Users /\ names \in [links -> Nat] /\ old \in SUBSET MilestoneIds
      /\ \A m, n \in links : names[m] = names[n] => m = n
  BY DEF Committed, Compared
<1>1. CASE "milestones" \notin DOMAIN r.body
  <2>1. AddedAs(r) = <<>> /\ LinesAdded(r) = {}
    BY <1>1 DEF Committed, Captured, AddedAs, LinesAdded
  <2> QED
    BY <2>1, TellsNothing
<1>2. CASE "milestones" \in DOMAIN r.body
  <2> PICK new : new = NotIn(r.body["milestones"], old)
    OBVIOUS
  <2>1. Lists(new, links \ old)
    <3>1. Lists(r.body["milestones"], links)
      BY <1>2 DEF Committed
    <3> QED
      BY <3>1, NotInLists
  <2> PICK s : s = AddedAs(r)
    OBVIOUS
  <2>2. s = [i \in DOMAIN new |-> MilestoneAdded(r, names[new[i]])]
    <3>1. r.old_milestones = old
      BY <1>2 DEF Committed, Captured
    <3>2. old # NULL
      BY <1>0, NullAssumption
    <3> QED
      BY <3>1, <3>2 DEF AddedAs
  <2>3. s = [i \in DOMAIN new |-> s[i]] /\ DOMAIN s = DOMAIN new
    BY <2>2
  <2>4. IsSequence(s)
    BY <2>1, <2>3, Rebuilding DEF Lists
  <2>5. ASSUME NEW i \in DOMAIN new
        PROVE  /\ new[i] \in links \ old /\ names[new[i]] \in Nat
               /\ Line(s[i]) = <<"milestone_added", names[new[i]], r.user>>
               /\ s[i].payload # NULL
    <3>1. new[i] \in links \ old
      BY <2>1 DEF Lists
    <3>2. names[new[i]] \in Nat
      BY <1>0, <3>1
    <3>3. s[i] = MilestoneAdded(r, names[new[i]])
      BY <2>2
    <3> QED
      BY <1>0, <3>1, <3>2, <3>3, MilestoneLine
  <2>6. ASSUME NEW i \in DOMAIN s, NEW j \in DOMAIN s, Line(s[i]) = Line(s[j]) PROVE i = j
    <3> PICK x, y : x = Line(s[i]) /\ y = Line(s[j])
      OBVIOUS
    <3>1. x[2] = names[new[i]] /\ y[2] = names[new[j]]
      BY <2>3, <2>5
    <3>2. new[i] = new[j]
      BY <1>0, <2>3, <2>5, <2>6, <3>1
    <3> QED
      BY <2>1, <2>3, <3>2 DEF Lists
  <2> PICK D : D = {Line(s[i]) : i \in DOMAIN s}
    OBVIOUS
  <2>7. D = LinesAdded(r)
    <3>1. ASSUME NEW l \in D PROVE l \in LinesAdded(r)
      BY <2>3, <2>5 DEF LinesAdded
    <3>2. ASSUME NEW l \in LinesAdded(r) PROVE l \in D
      <4>1. PICK m \in links \ old : l = <<"milestone_added", names[m], r.user>>
        BY DEF LinesAdded
      <4>2. PICK i \in DOMAIN new : new[i] = m
        BY <2>1 DEF Lists
      <4>3. Line(s[i]) = l
        BY <2>5, <4>1, <4>2
      <4> QED
        BY <2>3, <4>3
    <3> QED
      BY ONLY <3>1, <3>2
  <2>8. Tells(s, D)
    BY <2>3, <2>4, <2>5, <2>6 DEF Tells
  <2> QED
    BY ONLY <2>7, <2>8, s = AddedAs(r)
<1> QED
  BY <1>1, <1>2

\* What an update tells of is what it did.
LEMMA ToldTells ==
    ASSUME NEW r, Committed(r), r.row = r.committed.row
    PROVE  Tells(Told(r), Difference(r))
<1> PICK old, new : old = r.before.row /\ new = r.committed.row
  OBVIOUS
<1>0. /\ r.user \in Users /\ r.existing = old /\ r.row = new /\ RowTyped(old) /\ RowTyped(new)
      /\ \A f \in {"status", "priority", "owner"} : f \notin DOMAIN r.body => new[f] = old[f]
  BY DEF Committed, Compared
<1> PICK D1, D2, D3, D4 :
       /\ D1 = IF old["status"] # new["status"]
                 THEN {<<"status_changed", old["status"], new["status"], r.user>>} ELSE {}
       /\ D2 = IF old["priority"] # new["priority"]
                 THEN {<<"priority_changed", old["priority"], new["priority"], r.user>>} ELSE {}
       /\ D3 = IF old["owner"] # new["owner"]
                 THEN {<<"owner_changed", old["owner"], new["owner"], r.user>>} ELSE {}
       /\ D4 = LinesAdded(r)
  OBVIOUS
<1> PICK s1, s2, s3, s4 :
       /\ s1 = Changed(r, "status", StatusChanged(r))
       /\ s2 = Changed(r, "priority", PriorityChanged(r))
       /\ s3 = Changed(r, "owner", OwnerChanged(r))
       /\ s4 = AddedAs(r)
  OBVIOUS
<1>1. Tells(s1, D1)
  <2>1. /\ Line(StatusChanged(r)) = <<"status_changed", old["status"], new["status"], r.user>>
        /\ StatusChanged(r).payload # NULL
    BY <1>0, StatusLine DEF RowTyped
  <2>2. D1 = IF r.existing["status"] # r.row["status"] THEN {Line(StatusChanged(r))} ELSE {}
    BY <1>0, <2>1
  <2> QED
    BY <1>0, <2>1, <2>2, ChangedTells
<1>2. Tells(s2, D2)
  <2>1. /\ Line(PriorityChanged(r)) = <<"priority_changed", old["priority"], new["priority"], r.user>>
        /\ PriorityChanged(r).payload # NULL
    BY <1>0, PriorityLine DEF RowTyped
  <2>2. D2 = IF r.existing["priority"] # r.row["priority"] THEN {Line(PriorityChanged(r))} ELSE {}
    BY <1>0, <2>1
  <2> QED
    BY <1>0, <2>1, <2>2, ChangedTells
<1>3. Tells(s3, D3)
  <2>1. /\ Line(OwnerChanged(r)) = <<"owner_changed", old["owner"], new["owner"], r.user>>
        /\ OwnerChanged(r).payload # NULL
    BY <1>0, OwnerLine DEF RowTyped
  <2>2. D3 = IF r.existing["owner"] # r.row["owner"] THEN {Line(OwnerChanged(r))} ELSE {}
    BY <1>0, <2>1
  <2> QED
    BY <1>0, <2>1, <2>2, ChangedTells
<1>4. Tells(s4, D4)
  BY AddedTells
<1>5. /\ \A l \in D1 : l[1] = "status_changed"
      /\ \A l \in D2 : l[1] = "priority_changed"
      /\ \A l \in D3 : l[1] = "owner_changed"
  OBVIOUS
<1>6. \A l \in D4 : l[1] = "milestone_added"
  BY DEF LinesAdded
<1>7. D1 \cap D2 = {} /\ (D1 \cup D2) \cap D3 = {} /\ ((D1 \cup D2) \cup D3) \cap D4 = {}
  BY ONLY <1>5, <1>6
<1>8. Tells(s1 \o s2, D1 \cup D2)
  BY ONLY <1>1, <1>2, <1>7, TellsBoth
<1>9. Tells((s1 \o s2) \o s3, (D1 \cup D2) \cup D3)
  BY ONLY <1>3, <1>7, <1>8, TellsBoth
<1>10. Tells(((s1 \o s2) \o s3) \o s4, ((D1 \cup D2) \cup D3) \cup D4)
  BY ONLY <1>4, <1>7, <1>9, TellsBoth
<1>11. Told(r) = ((s1 \o s2) \o s3) \o s4
  BY DEF Told
<1>12. Difference(r) = ((D1 \cup D2) \cup D3) \cup D4
  <2> PICK E : E = Difference(r)
    OBVIOUS
  <2>1. E = {<<ToldOf[f], old[f], new[f], r.user>> : f \in {g \in DOMAIN ToldOf : old[g] # new[g]}}
            \cup D4
    BY DEF Difference, LinesAdded
  <2>2. /\ DOMAIN ToldOf = {"status", "priority", "owner"}
        /\ ToldOf["status"] = "status_changed" /\ ToldOf["priority"] = "priority_changed"
        /\ ToldOf["owner"] = "owner_changed"
    BY DEF ToldOf
  <2>3. ASSUME NEW l \in E PROVE l \in ((D1 \cup D2) \cup D3) \cup D4
    <3>1. CASE l \in D4
      BY <3>1
    <3>2. CASE l \notin D4
      <4>1. PICK f \in {"status", "priority", "owner"} :
               old[f] # new[f] /\ l = <<ToldOf[f], old[f], new[f], r.user>>
        BY <2>1, <2>2, <3>2
      <4> QED
        BY <2>2, <4>1
    <3> QED
      BY <3>1, <3>2
  <2>4. ASSUME NEW l \in ((D1 \cup D2) \cup D3) \cup D4 PROVE l \in E
    <3>1. \A f \in {"status", "priority", "owner"} :
             old[f] # new[f] => <<ToldOf[f], old[f], new[f], r.user>> \in E
      BY <2>1, <2>2
    <3>2. D4 \subseteq E
      BY <2>1
    <3>3. l \in D1 => old["status"] # new["status"]
                     /\ l = <<ToldOf["status"], old["status"], new["status"], r.user>>
      BY <2>2
    <3>4. l \in D2 => old["priority"] # new["priority"]
                     /\ l = <<ToldOf["priority"], old["priority"], new["priority"], r.user>>
      BY <2>2
    <3>5. l \in D3 => old["owner"] # new["owner"]
                     /\ l = <<ToldOf["owner"], old["owner"], new["owner"], r.user>>
      BY <2>2
    <3> QED
      BY ONLY <2>4, <3>1, <3>2, <3>3, <3>4, <3>5
  <2> QED
    BY ONLY <2>3, <2>4, E = Difference(r)
<1> QED
  BY <1>10, <1>11, <1>12

-----------------------------------------------------------------------------
(* Updates: the invariant.                                                 *)

\* An update that no other request has raced with so far, and no failure has hit.
Clean(r) == r.kind = "update" /\ r.raced # TRUE /\ r.faulted # TRUE

Shown(r) == r.shown = Response(r.committed.row, r.committed.cc, r.committed.names)

SaidSoFar(r) ==
    /\ IsSequence(r.said) /\ Len(r.said) <= Len(Told(r))
    /\ \A i \in DOMAIN r.said : r.said[i] = Told(r)[i]

\* What its handler holds belongs together, before its transaction, after it and when it is
\* done.
Before(r) ==
    /\ r.committed = NULL /\ r.said = <<>> /\ Compared(r)
    /\ IF r.pc = "milestones" THEN r.old_milestones = NULL /\ "milestones" \in DOMAIN r.body
       ELSE Captured(r)

After(r) ==
    /\ Committed(r)
    /\ r.pc # "reread" => r.row = r.committed.row
    /\ r.pc \notin {"reread", "cc"} => r.cc = r.committed.cc
    /\ r.pc \in {"names", "announce"} => r.links = r.committed.links
    /\ IF r.pc = "announce" THEN Shown(r) /\ SaidSoFar(r) ELSE r.said = <<>>

Finished(r) ==
    \/ r.committed = NULL
    \/ /\ Committed(r) /\ r.row = r.committed.row /\ Shown(r) /\ r.code = 200
       /\ SaidSoFar(r) /\ Len(r.said) = Len(Told(r))

Coherent(r) ==
    \/ r.pc \in {"milestones", "update"} /\ Before(r)
    \/ r.pc \in {"reread", "cc", "component", "links", "names", "announce"} /\ After(r)
    \/ r.pc = "done" /\ Finished(r)

\* The ticket is still as the handler has found it, or as its transaction has left it.
Current(r) ==
    r.pc # "done" =>
       /\ r.id \in DOMAIN tickets
       /\ Snapshot(r.id) = IF r.pc \in {"milestones", "update"} THEN r.before ELSE r.committed

Sound(r) == Clean(r) => Current(r) /\ Coherent(r)

UpdatesInv == \A k \in DOMAIN requests : Sound(requests[k])

\* A ticket, its CC list and its milestones are the same after a step.
Stays(t) == t \in DOMAIN tickets => t \in DOMAIN tickets' /\ Snapshot(t)' = Snapshot(t)

LEMMA StaysSound ==
    ASSUME NEW p, Sound(p), p.kind = "update" /\ p.pc # "done" => Stays(p.id)
    PROVE  Sound(p)'
<1>1. ASSUME Current(p), p.kind = "update" PROVE Current(p)'
  <2>1. CASE p.pc = "done"
    BY <2>1 DEF Current
  <2>2. CASE p.pc # "done"
    <3>1. Stays(p.id)
      BY <1>1, <2>2
    <3> QED
      BY <1>1, <2>2, <3>1 DEF Current, Stays
  <2> QED
    BY <2>1, <2>2
<1> QED
  BY <1>1 DEF Sound, Clean

LEMMA AllStay ==
    ASSUME UNCHANGED <<tickets, ticket_cc, ticket_milestones, milestones>>, NEW t
    PROVE  Stays(t)
BY DEF Stays, Snapshot, Ticket, Cc, Links, Of, MilestoneRow

LEMMA StepSound ==
    ASSUME IsSequence(requests), UpdatesInv, NEW k \in DOMAIN requests, NEW r, Step(k, r), Sound(r)',
           UNCHANGED <<tickets, ticket_cc, ticket_milestones, milestones>>
    PROVE  UpdatesInv'
<1> PICK q : q = requests'
  OBVIOUS
<1>1. /\ DOMAIN q = DOMAIN requests
      /\ q[k] = r /\ \A j \in DOMAIN requests : j # k => q[j] = requests[j]
  BY Replacing DEF Step
<1>2. ASSUME NEW j \in DOMAIN q, NEW p, p = q[j] PROVE Sound(p)'
  <2>1. CASE j = k
    BY <1>1, <1>2, <2>1
  <2>2. CASE j # k
    <3>1. Sound(p)
      BY <1>1, <1>2, <2>2 DEF UpdatesInv
    <3> QED
      BY <3>1, AllStay, StaysSound
  <2> QED
    BY <2>1, <2>2
<1> QED
  BY <1>2 DEF UpdatesInv

LEMMA ArriveSound ==
    ASSUME IsSequence(requests), UpdatesInv, NEW r, Arrive(r), Sound(r)',
           UNCHANGED <<tickets, ticket_cc, ticket_milestones, milestones>>
    PROVE  UpdatesInv'
<1> PICK q : q = requests'
  OBVIOUS
<1>1. q = Extended(requests, r)
  BY DEF Arrive, Extended
<1>2. /\ \A j : j \in DOMAIN q <=> j \in DOMAIN requests \/ j = NewIndex(requests)
      /\ q[NewIndex(requests)] = r /\ \A j \in DOMAIN requests : q[j] = requests[j]
  BY <1>1, Appending
<1>3. ASSUME NEW j \in DOMAIN q, NEW p, p = q[j] PROVE Sound(p)'
  <2>1. CASE j = NewIndex(requests)
    BY <1>2, <1>3, <2>1
  <2>2. CASE j \in DOMAIN requests
    <3>1. Sound(p)
      BY <1>2, <1>3, <2>2 DEF UpdatesInv
    <3> QED
      BY <3>1, AllStay, StaysSound
  <2> QED
    BY <1>2, <2>1, <2>2
<1> QED
  BY <1>3 DEF UpdatesInv

\* A write leaves sound the requests it does not race with, if their tickets stay; of those
\* it races with nothing is said.
LEMMA WriteSound ==
    ASSUME UpdatesInv, RequestsTyped, NEW k \in DOMAIN requests, NEW r, NEW racing,
           StepRacing(k, r, racing), Sound(r)',
           \A j \in DOMAIN requests : \A p :
              p = requests[j] /\ j # k /\ j \notin racing /\ p.kind = "update" /\ p.pc # "done"
                 => Stays(p.id)
    PROVE  UpdatesInv'
<1> PICK q : q = requests'
  OBVIOUS
<1>1. q = [j \in DOMAIN requests |-> IF j = k THEN r
                                   ELSE IF j \in racing THEN [requests[j] EXCEPT !.raced = TRUE]
                                   ELSE requests[j]]
  BY DEF StepRacing
<1>2. ASSUME NEW j \in DOMAIN q, NEW p, p = q[j] PROVE Sound(p)'
  <2>1. CASE j = k
    BY <1>1, <1>2, <2>1
  <2>2. CASE j # k /\ j \in racing
    <3>1. IsRequest(requests[j])
      BY <1>1 DEF RequestsTyped, Typed
    <3>2. p = [requests[j] EXCEPT !.raced = TRUE]
      BY <1>1, <1>2, <2>2
    <3>3. p.raced = TRUE
      BY <3>1, <3>2 DEF IsRequest, RequestFields
    <3> QED
      BY <3>3 DEF Sound, Clean
  <2>3. CASE j # k /\ j \notin racing
    <3>1. p = requests[j] /\ j \in DOMAIN requests
      BY <1>1, <1>2, <2>3
    <3>2. Sound(p)
      BY <3>1 DEF UpdatesInv
    <3> QED
      BY <2>3, <3>1, <3>2, StaysSound
  <2> QED
    BY <2>1, <2>2, <2>3
<1> QED
  BY <1>2 DEF UpdatesInv

\* A request that is no update, or was not sound to speak of, is none afterwards.
LEMMA OtherSound ==
    ASSUME NEW r, Sound(r), NEW q, q.kind = r.kind, q.raced = r.raced \/ q.raced = TRUE,
           q.faulted = r.faulted \/ q.faulted = TRUE,
           \/ r.kind # "update" \/ q.faulted = TRUE
           \/ r.pc \notin {"milestones", "update", "reread", "cc", "component", "links", "names",
                           "announce", "done"}
    PROVE  Sound(q)'
BY DEF Sound, Clean, Coherent

-----------------------------------------------------------------------------
(* Updates: what stays.                                                    *)

\* A ticket stays when another one is written.
LEMMA OthersStay ==
    ASSUME NEW t, NEW body, NEW p, p # t, UNCHANGED milestones,
           p \in DOMAIN tickets => p \in DOMAIN tickets' /\ tickets'[p] = tickets[p],
           ticket_cc' = Replaced(ticket_cc, t, body, "cc"),
           ticket_milestones' = Replaced(ticket_milestones, t, body, "milestones")
    PROVE  Stays(p)
<1>1. ASSUME NEW table, NEW f PROVE Of(Replaced(table, t, body, f), p) = Of(table, p)
  <2> PICK all : all = Replaced(table, t, body, f)
    OBVIOUS
  <2>1. \A x : x \in all /\ x[1] = p => x \in table
    BY DEF Replaced
  <2>2. \A x : x \in table /\ x[1] = p => x \in all
    BY DEF Replaced
  <2> QED
    BY <2>1, <2>2 DEF Of
<1>2. Of(ticket_cc', p) = Of(ticket_cc, p) /\ Of(ticket_milestones', p) = Of(ticket_milestones, p)
  BY <1>1
<1> QED
  BY <1>2 DEF Stays, Snapshot, Ticket, Cc, Links, MilestoneRow

LEMMA TheRow ==
    ASSUME NEW rows, UniqueIds(rows), NEW row \in rows
    PROVE  (CHOOSE q \in rows : q.id = row.id) = row
BY DEF UniqueIds

\* A ticket stays when its milestones do.
LEMMA MilestonesStay ==
    ASSUME UniqueIds(milestones), UniqueIds(milestones'), NEW p, UNCHANGED <<tickets, ticket_cc>>,
           \A m : m \in Of(ticket_milestones', p) <=> m \in Of(ticket_milestones, p),
           \A m \in Of(ticket_milestones, p) :
              \E row \in milestones : row.id = m /\ row \in milestones'
    PROVE  Stays(p)
<1>1. ASSUME NEW m \in Of(ticket_milestones, p) PROVE MilestoneRow(m)' = MilestoneRow(m)
  <2>1. PICK row \in milestones : row.id = m /\ row \in milestones'
    OBVIOUS
  <2>2. (CHOOSE q \in milestones : q.id = m) = row
    BY <2>1, TheRow
  <2>3. (CHOOSE q \in milestones' : q.id = m) = row
    BY <2>1, TheRow
  <2> QED
    BY <2>2, <2>3 DEF MilestoneRow
<1>2. Of(ticket_milestones', p) = Of(ticket_milestones, p)
  OBVIOUS
<1> QED
  BY <1>1, <1>2 DEF Stays, Snapshot, Ticket, Cc, Links

\* The milestones of a ticket are among the rows, and are those it is assigned to.
LEMMA LinksAssigned ==
    ASSUME TicketsInv, TablesTyped, NEW p, NEW m \in Of(ticket_milestones, p)
    PROVE  p \in Assigned(m) /\ m \in MilestoneIds /\ \E row \in milestones : row.id = m
<1>1. PICK x \in ticket_milestones : x[1] = p /\ x[2] = m
  BY DEF Of
<1>2. x = <<p, m>> /\ p \in DOMAIN tickets
  BY <1>1 DEF TicketsInv, Tables
<1>3. m \in {row.id : row \in milestones}
  BY <1>1, <1>2 DEF TablesTyped
<1>4. PICK row \in milestones : row.id = m
  BY <1>3
<1>5. m \in MilestoneIds
  BY <1>4 DEF TablesTyped, MilestoneTyped
<1> QED
  BY <1>1, <1>2, <1>4, <1>5 DEF Assigned

LEMMA TicketOfUpdate ==
    ASSUME NEW j \in DOMAIN requests, NEW p, p = requests[j], p.kind = "update", p.pc # "done",
           NEW ids, j \notin OnTickets(ids)
    PROVE  p.id \notin ids
BY DEF OnTickets, InFlight

LEMMA InsertMilestoneSound ==
    ASSUME TicketsInv, TicketsInv', TypesInv, UpdatesInv, NEW k \in DOMAIN requests,
           InsertMilestone(k)
    PROVE  UpdatesInv'
<1> PICK r : r = requests[k]
  OBVIOUS
<1>0. IsSequence(requests) /\ RequestsTyped /\ TablesTyped /\ IsRequest(r) /\ Sound(r)
  BY DEF TicketsInv, TypesInv, RequestsTyped, Typed, UpdatesInv
<1>1. r.pc = "insert_ms"
  BY DEF InsertMilestone
<1>2. UNCHANGED <<tickets, ticket_cc, ticket_milestones>> /\ milestones \subseteq milestones'
  BY DEF InsertMilestone
<1>3. ASSUME NEW q, IsRequest(q), q.kind = r.kind, q.raced = r.raced, q.faulted = r.faulted,
             Step(k, q)
      PROVE  UpdatesInv'
  <2>1. Sound(q)'
    BY <1>0, <1>1, <1>3, OtherSound
  <2>2. ASSUME NEW p PROVE Stays(p)
    <3>1. UniqueIds(milestones) /\ UniqueIds(milestones')
      BY DEF TicketsInv, Tables
    <3>2. \A m \in Of(ticket_milestones, p) :
             \E row \in milestones : row.id = m /\ row \in milestones'
      BY <1>0, <1>2, LinksAssigned
    <3> QED
      BY <1>2, <3>1, <3>2, MilestonesStay
  <2>3. StepRacing(k, q, {})
    BY <1>3, StepAlone
  <2> QED
    BY <1>0, <2>1, <2>2, <2>3, WriteSound
<1>4. CASE Step(k, Answered(r, "Conflict"))
  <2> PICK q : q = Answered(r, "Conflict")
    OBVIOUS
  <2>1. IsRequest(q) /\ q.kind = r.kind /\ q.raced = r.raced /\ q.faulted = r.faulted
    BY <1>0 DEF Answered, IsRequest, RequestFields
  <2> QED
    BY <1>3, <1>4, <2>1
<1>5. ASSUME NEW m, Step(k, [r EXCEPT !.id = m, !.pc = "reread_ms"]) PROVE UpdatesInv'
  <2> PICK q : q = [r EXCEPT !.id = m, !.pc = "reread_ms"]
    OBVIOUS
  <2>1. IsRequest(q) /\ q.kind = r.kind /\ q.raced = r.raced /\ q.faulted = r.faulted
    BY <1>0 DEF IsRequest, RequestFields
  <2> QED
    BY <1>3, <1>5, <2>1
<1> QED
  BY <1>4, <1>5 DEF InsertMilestone

\* A milestone is written or removed: the tickets of the requests it does not race with have
\* others.
LEMMA MilestoneWriteSound ==
    ASSUME TicketsInv, TicketsInv', TypesInv, UpdatesInv, NEW k \in DOMAIN requests,
           NEW q, Sound(q)', NEW m, NEW racing, OnTickets(Assigned(m)) \subseteq racing,
           StepRacing(k, q, racing), UNCHANGED <<tickets, ticket_cc>>,
           \A row \in milestones : row.id # m => row \in milestones',
           ticket_milestones' \subseteq ticket_milestones,
           \A x \in ticket_milestones : x[2] # m => x \in ticket_milestones'
    PROVE  UpdatesInv'
<1>0. RequestsTyped /\ TablesTyped /\ UniqueIds(milestones) /\ UniqueIds(milestones')
  BY DEF TicketsInv, Tables, TypesInv
<1>1. ASSUME NEW j \in DOMAIN requests, NEW p, p = requests[j], j \notin racing,
             p.kind = "update", p.pc # "done"
      PROVE  Stays(p.id)
  <2>1. p.id \notin Assigned(m)
    BY <1>1, TicketOfUpdate
  <2>2. m \notin Of(ticket_milestones, p.id)
    BY <1>0, <2>1, LinksAssigned
  <2>3. \A n : n \in Of(ticket_milestones', p.id) <=> n \in Of(ticket_milestones, p.id)
    BY <2>2 DEF Of
  <2>4. \A n \in Of(ticket_milestones, p.id) :
           \E row \in milestones : row.id = n /\ row \in milestones'
    BY <1>0, <2>2, LinksAssigned
  <2> QED
    BY <1>0, <2>3, <2>4, MilestonesStay
<1> QED
  BY <1>0, <1>1, WriteSound

LEMMA MilestoneWritesSound ==
    ASSUME TicketsInv, TicketsInv', TypesInv, UpdatesInv, NEW k \in DOMAIN requests,
           WriteMilestone(k) \/ RemoveMilestone(k)
    PROVE  UpdatesInv'
<1> PICK r : r = requests[k]
  OBVIOUS
<1>0. IsSequence(requests) /\ RequestsTyped /\ TablesTyped /\ IsRequest(r) /\ Sound(r)
  BY DEF TicketsInv, TypesInv, RequestsTyped, Typed, UpdatesInv
<1>1. r.pc \in {"write_ms", "delete"}
  BY DEF WriteMilestone, RemoveMilestone
<1>2. ASSUME NEW q, q.kind = r.kind, q.raced = r.raced, q.faulted = r.faulted PROVE Sound(q)'
  BY <1>0, <1>1, <1>2, OtherSound
<1>3. CASE Step(k, Answered(r, "Conflict")) /\ UNCHANGED <<tickets, ticket_cc, ticket_milestones, milestones>>
  <2> PICK q : q = Answered(r, "Conflict")
    OBVIOUS
  <2>1. q.kind = r.kind /\ q.raced = r.raced /\ q.faulted = r.faulted
    BY <1>0 DEF Answered, IsRequest, RequestFields
  <2> QED
    BY <1>0, <1>2, <1>3, <2>1, StepSound
<1> PICK racing : racing = OnMilestones({r.id}) \cup OnTickets(Assigned(r.id))
  OBVIOUS
<1>4. ASSUME NEW changed, StepRacing(k, [r EXCEPT !.pc = "reread_ms", !.changed = changed], racing),
             UNCHANGED <<tickets, ticket_cc, ticket_milestones>>,
             NEW new, milestones' = {IF row.id = r.id THEN new ELSE row : row \in milestones}
      PROVE  UpdatesInv'
  <2> PICK q : q = [r EXCEPT !.pc = "reread_ms", !.changed = changed]
    OBVIOUS
  <2>1. q.kind = r.kind /\ q.raced = r.raced /\ q.faulted = r.faulted
    BY <1>0 DEF IsRequest, RequestFields
  <2>2. Sound(q)'
    BY <1>2, <2>1
  <2>3. StepRacing(k, q, racing) /\ OnTickets(Assigned(r.id)) \subseteq racing
    BY <1>4
  <2>4. \A row \in milestones : row.id # r.id => row \in milestones'
    BY <1>4
  <2> QED
    BY <1>4, <2>2, <2>3, <2>4, MilestoneWriteSound
<1>5. ASSUME NEW code, NEW released,
             StepRacing(k, [r EXCEPT !.pc = "done", !.code = code, !.released = released], racing),
             milestones' = {row \in milestones : row.id # r.id},
             ticket_milestones' = {x \in ticket_milestones : x[2] # r.id},
             UNCHANGED <<tickets, ticket_cc>>
      PROVE  UpdatesInv'
  <2> PICK q : q = [r EXCEPT !.pc = "done", !.code = code, !.released = released]
    OBVIOUS
  <2>1. q.kind = r.kind /\ q.raced = r.raced /\ q.faulted = r.faulted
    BY <1>0 DEF IsRequest, RequestFields
  <2>2. Sound(q)'
    BY <1>2, <2>1
  <2>3. StepRacing(k, q, racing) /\ OnTickets(Assigned(r.id)) \subseteq racing
    BY <1>5
  <2>4. \A row \in milestones : row.id # r.id => row \in milestones'
    BY <1>5
  <2>5. /\ ticket_milestones' \subseteq ticket_milestones
        /\ \A x \in ticket_milestones : x[2] # r.id => x \in ticket_milestones'
    BY <1>5
  <2> QED
    BY <1>5, <2>2, <2>3, <2>4, <2>5, MilestoneWriteSound
<1>6. CASE WriteMilestone(k)
  <2> PICK new : new = Merge(r.existing, r.body)
    OBVIOUS
  <2> PICK changed : changed = {f \in MilestoneFields \ DOMAIN r.body :
                                  \E row \in milestones : row.id = r.id /\ row[f] # new[f]}
    OBVIOUS
  <2>1. CASE MilestoneExists(r.id) /\ NameTaken(new.name, r.id)
    BY <1>3, <1>6, <2>1 DEF WriteMilestone
  <2>2. CASE ~ (MilestoneExists(r.id) /\ NameTaken(new.name, r.id))
    <3>1. /\ StepRacing(k, [r EXCEPT !.pc = "reread_ms", !.changed = changed], racing)
          /\ milestones' = {IF row.id = r.id THEN new ELSE row : row \in milestones}
          /\ UNCHANGED <<tickets, ticket_cc, ticket_milestones>>
      BY <1>6, <2>2 DEF WriteMilestone
    <3> QED
      BY ONLY <1>4, <3>1
  <2> QED
    BY <2>1, <2>2
<1>7. CASE RemoveMilestone(k)
  <2> PICK released : released = {x \in ticket_milestones : x[2] = r.id}
    OBVIOUS
  <2>1. /\ StepRacing(k, [r EXCEPT !.pc = "done", !.code = 204, !.released = released], racing)
        /\ milestones' = {row \in milestones : row.id # r.id}
        /\ ticket_milestones' = {x \in ticket_milestones : x[2] # r.id}
        /\ UNCHANGED <<tickets, ticket_cc>>
    BY <1>7 DEF RemoveMilestone
  <2> QED
    BY ONLY <1>5, <2>1
<1> QED
  BY <1>6, <1>7

\* A ticket that is created is none that an update holds.
LEMMA InsertTicketSound ==
    ASSUME TicketsInv, TypesInv, UpdatesInv, NEW k \in DOMAIN requests, InsertTicket(k)
    PROVE  UpdatesInv'
<1> PICK r : r = requests[k]
  OBVIOUS
<1>0. IsSequence(requests) /\ RequestsTyped /\ TablesTyped /\ IsRequest(r) /\ Sound(r)
  BY DEF TicketsInv, TypesInv, RequestsTyped, Typed, UpdatesInv
<1>1. r.pc = "insert"
  BY DEF InsertTicket
<1>2. ASSUME NEW q, q.kind = r.kind, q.raced = r.raced, q.faulted = r.faulted PROVE Sound(q)'
  BY <1>0, <1>1, <1>2, OtherSound
<1>3. ASSUME NEW error, Step(k, Answered(r, error)),
             UNCHANGED <<tickets, ticket_cc, ticket_milestones, milestones>>
      PROVE  UpdatesInv'
  <2> PICK q : q = Answered(r, error)
    OBVIOUS
  <2>1. q.kind = r.kind /\ q.raced = r.raced /\ q.faulted = r.faulted
    BY <1>0 DEF Answered, IsRequest, RequestFields
  <2> QED
    BY <1>0, <1>2, <1>3, <2>1, StepSound
<1> PICK t : t = NewIndex(tickets)
  OBVIOUS
<1>4. ASSUME NEW new, tickets' = Extended(tickets, new),
             ticket_cc' = Replaced(ticket_cc, t, r.body, "cc"),
             ticket_milestones' = Replaced(ticket_milestones, t, r.body, "milestones"),
             UNCHANGED milestones, NEW committed, NEW racing,
             StepRacing(k, [r EXCEPT !.pc = "reread", !.id = t, !.committed = committed], racing)
      PROVE  UpdatesInv'
  <2> PICK q : q = [r EXCEPT !.pc = "reread", !.id = t, !.committed = committed]
    OBVIOUS
  <2>1. q.kind = r.kind /\ q.raced = r.raced /\ q.faulted = r.faulted
    BY <1>0 DEF IsRequest, RequestFields
  <2>2. Sound(q)'
    BY <1>2, <2>1
  <2> PICK all : all = tickets'
    OBVIOUS
  <2>3. all = Extended(tickets, new) /\ IsSequence(tickets)
    BY <1>4 DEF TicketsInv, Tables
  <2>4. t \notin DOMAIN tickets /\ \A p \in DOMAIN tickets : p \in DOMAIN all /\ all[p] = tickets[p]
    BY <2>3, Appending
  <2>5. ASSUME NEW p PROVE Stays(p)
    <3>1. CASE p = t
      BY <2>4, <3>1 DEF Stays
    <3>2. CASE p # t
      BY <1>4, <2>4, <3>2, OthersStay
    <3> QED
      BY <3>1, <3>2
  <2>6. StepRacing(k, q, racing)
    BY <1>4
  <2> QED
    BY <1>0, <2>2, <2>5, <2>6, WriteSound
<1> QED
  BY <1>3, <1>4 DEF InsertTicket, Extended, NewIndex

-----------------------------------------------------------------------------
(* Updates: requests arrive.                                               *)

LEMMA AnsweredIs ==
    ASSUME NEW r, IsRequest(r), NEW error, NEW q, q = Answered(r, error)
    PROVE  /\ IsRequest(q) /\ q.pc = "done" /\ q.kind = r.kind /\ q.raced = r.raced
           /\ q.faulted = r.faulted /\ q.committed = r.committed
BY DEF Answered, IsRequest, RequestFields

LEMMA OtherArrives ==
    ASSUME IsSequence(requests), UpdatesInv, NEW r, r.kind # "update", Arrive(r),
           UNCHANGED <<tickets, ticket_cc, ticket_milestones, milestones>>
    PROVE  UpdatesInv'
<1>1. Sound(r)'
  BY DEF Sound, Clean
<1> QED
  BY <1>1, ArriveSound

\* The ticket an update finds, as its types tell.
LEMMA SnapshotTyped ==
    ASSUME TicketsInv, TablesTyped, NEW t \in DOMAIN tickets, NEW s, s = Snapshot(t)
    PROVE  /\ s.row = tickets[t] /\ s.cc = Cc(t) /\ s.links = Of(ticket_milestones, t)
           /\ s.names = [m \in s.links |-> MilestoneRow(m).name]
           /\ RowTyped(s.row) /\ s.links \in SUBSET MilestoneIds
<1>1. /\ s.row = tickets[t] /\ s.cc = Cc(t) /\ s.links = Of(ticket_milestones, t)
      /\ s.names = [m \in s.links |-> MilestoneRow(m).name]
  BY DEF Snapshot, Ticket, Links
<1>2. TicketRow(tickets[t], components)
  BY DEF TablesTyped
<1>3. RowTyped(s.row)
  BY <1>1, <1>2 DEF TicketRow, RowTyped
<1>4. \A m \in s.links : m \in MilestoneIds
  BY <1>1, LinksAssigned
<1> QED
  BY <1>1, <1>3, <1>4

LEMMA UpdateArrives ==
    ASSUME TicketsInv, TypesInv, UpdatesInv, NEW u \in Users, NEW t \in TicketIds,
           NEW body, UpdateTicket(u, t, body)
    PROVE  UpdatesInv'
<1> PICK r : r = Blank(u, "update", t, body)
  OBVIOUS
<1> PICK q : q = [r EXCEPT !.existing = tickets[t], !.before = Snapshot(t),
                           !.pc = IF "milestones" \in DOMAIN body THEN "milestones" ELSE "update"]
  OBVIOUS
<1>0. /\ IsSequence(requests) /\ TablesTyped
      /\ UNCHANGED <<tickets, ticket_cc, ticket_milestones, milestones>>
  BY DEF TicketsInv, TypesInv, UpdateTicket
<1>1. /\ IsRequest(r) /\ r.user = u /\ r.kind = "update" /\ r.id = t /\ r.body = body
      /\ r.committed = NULL /\ r.said = <<>> /\ r.old_milestones = NULL
  <2>1. IsRequest(r) /\ r.user = u /\ r.kind = "update" /\ r.id = t /\ r.body = body
    BY BlankTyped
  <2>2. r.committed = NULL /\ r.said = <<>> /\ r.old_milestones = NULL
    BY DEF Blank
  <2> QED
    BY <2>1, <2>2
<1>2. ASSUME NEW error, Arrive(Answered(r, error)) PROVE UpdatesInv'
  <2> PICK p : p = Answered(r, error)
    OBVIOUS
  <2>1. p.pc = "done" /\ p.committed = NULL
    BY <1>1, AnsweredIs
  <2>2. Sound(p)'
    BY <2>1 DEF Sound, Current, Coherent, Finished
  <2> QED
    BY <1>0, <1>2, <2>2, ArriveSound
<1>3. ASSUME Refusal(u, t, body) = "", Arrive(q) PROVE UpdatesInv'
  <2>1. t \in DOMAIN tickets
    <3>1. ~ (t > Len(tickets))
      BY <1>3 DEF Refusal
    <3> QED
      BY <3>1, Found DEF TicketsInv, Tables
  <2> PICK s : s = Snapshot(t)
    OBVIOUS
  <2>2. /\ q.pc = IF "milestones" \in DOMAIN body THEN "milestones" ELSE "update"
        /\ q.user = u /\ q.id = t /\ q.body = body /\ q.existing = tickets[t] /\ q.before = s
        /\ q.committed = NULL /\ q.said = <<>> /\ q.old_milestones = NULL
    BY <1>1 DEF IsRequest, RequestFields
  <2>3. s.row = tickets[t] /\ RowTyped(s.row) /\ s.links \in SUBSET MilestoneIds
    BY <1>0, <2>1, SnapshotTyped
  <2>4. Before(q)
    BY <2>2, <2>3 DEF Before, Compared, Captured
  <2>5. q.pc \in {"milestones", "update"}
    BY <2>2
  <2>6. Sound(q)
    BY <2>1, <2>2, <2>4, <2>5 DEF Sound, Current, Coherent
  <2>7. Sound(q)'
    BY <1>0, <2>6, AllStay, StaysSound
  <2> QED
    BY <1>0, <1>3, <2>7, ArriveSound
<1> QED
  BY <1>2, <1>3 DEF UpdateTicket

LEMMA ArrivalsSound ==
    ASSUME TicketsInv, TypesInv, UpdatesInv, (\E u \in Users : Request(u)) \/ Read
    PROVE  UpdatesInv'
<1>0. IsSequence(requests)
  BY DEF TicketsInv
<1>1. ASSUME NEW u, NEW body, CreateTicket(u, body) PROVE UpdatesInv'
  <2> PICK q : q = IF body["title"] \in BadTitles
                     THEN Answered(Blank(u, "create", 0, body), "Validation")
                     ELSE [Blank(u, "create", 0, body) EXCEPT !.pc = "insert"]
    OBVIOUS
  <2>1. q.kind = "create"
    BY DEF Answered, Blank
  <2> QED
    BY <1>0, <1>1, <2>1, OtherArrives DEF CreateTicket
<1>2. ASSUME NEW u, NEW body, CreateMilestone(u, body) PROVE UpdatesInv'
  <2> PICK r : r = Blank(u, "create_milestone", 0, body)
    OBVIOUS
  <2> PICK q : q = IF body["name"] = 0 THEN Answered(r, "Validation") ELSE [r EXCEPT !.pc = "insert_ms"]
    OBVIOUS
  <2>1. q.kind = "create_milestone"
    BY DEF Answered, Blank
  <2> QED
    BY <1>0, <1>2, <2>1, OtherArrives DEF CreateMilestone
<1>3. ASSUME NEW u, NEW m, NEW body, UpdateMilestone(u, m, body) PROVE UpdatesInv'
  <2> PICK r : r = Blank(u, "update_milestone", m, body)
    OBVIOUS
  <2> PICK q : q = IF MilestoneExists(m)
                     THEN [r EXCEPT !.pc = "write_ms", !.existing = MilestoneRow(m)]
                     ELSE Answered(r, "NotFound")
    OBVIOUS
  <2>1. q.kind = "update_milestone"
    BY DEF Answered, Blank
  <2> QED
    BY <1>0, <1>3, <2>1, OtherArrives DEF UpdateMilestone
<1>4. ASSUME NEW u, NEW m, DeleteMilestone(u, m) PROVE UpdatesInv'
  <2> PICK r : r = Blank(u, "delete_milestone", m, <<>>)
    OBVIOUS
  <2> PICK q : q = IF MilestoneExists(m) THEN [r EXCEPT !.pc = "count"] ELSE Answered(r, "NotFound")
    OBVIOUS
  <2>1. q.kind = "delete_milestone"
    BY DEF Answered, Blank
  <2> QED
    BY <1>0, <1>4, <2>1, OtherArrives DEF DeleteMilestone
<1>5. ASSUME NEW t, GetTicket(t) PROVE UpdatesInv'
  <2> PICK r : r = Blank(NULL, "get", t, <<>>)
    OBVIOUS
  <2> PICK q : q = IF t > Len(tickets) THEN Answered(r, "NotFound")
                   ELSE [r EXCEPT !.pc = "cc", !.row = tickets[t], !.before = Snapshot(t)]
    OBVIOUS
  <2>1. q.kind = "get"
    BY DEF Answered, Blank
  <2> QED
    BY <1>0, <1>5, <2>1, OtherArrives DEF GetTicket
<1>6. ASSUME NEW status, ListMilestones(status) PROVE UpdatesInv'
  <2> DEFINE found == SetToSortSeq({row \in milestones : status \in {NULL, row.status}}, Sooner)
  <2> HIDE DEF found
  <2> PICK q : q = [Blank(NULL, "list_milestones", 0, <<>>) EXCEPT !.pc = "stats", !.row = found]
    OBVIOUS
  <2>1. q.kind = "list_milestones"
    BY DEF Blank
  <2>2. Arrive(q) /\ UNCHANGED <<tickets, ticket_cc, ticket_milestones, milestones>>
    BY <1>6 DEF ListMilestones, found
  <2> QED
    BY <1>0, <2>1, <2>2, OtherArrives
<1> QED
  BY <1>1, <1>2, <1>3, <1>4, <1>5, <1>6, UpdateArrives DEF Request, Read

-----------------------------------------------------------------------------
(* Updates: a handler goes on.                                             *)

\* What a handler holds of its update.
SameUpdate(q, r) ==
    /\ q.user = r.user /\ q.kind = r.kind /\ q.id = r.id /\ q.body = r.body
    /\ q.existing = r.existing /\ q.before = r.before /\ q.committed = r.committed
    /\ q.raced = r.raced /\ q.faulted = r.faulted

LEMMA SoundOn ==
    ASSUME NEW r, Sound(r), NEW q, SameUpdate(q, r),
           Clean(r) /\ Current(r) /\ Coherent(r) => Current(q) /\ Coherent(q)
    PROVE  Sound(q)
BY DEF Sound, Clean, SameUpdate

LEMMA GoesOnSound ==
    ASSUME IsSequence(requests), UpdatesInv, NEW k \in DOMAIN requests,
           NEW q, Step(k, q), Sound(requests[k]) => Sound(q),
           UNCHANGED <<tickets, ticket_cc, ticket_milestones, milestones>>
    PROVE  UpdatesInv'
<1>1. Sound(q)
  BY DEF UpdatesInv
<1>2. Sound(q)'
  BY <1>1, AllStay, StaysSound
<1> QED
  BY <1>2, StepSound

LEMMA CommittedSame ==
    ASSUME NEW r, NEW q, SameUpdate(q, r), q.old_milestones = r.old_milestones, Committed(r)
    PROVE  Committed(q)
BY DEF SameUpdate, Committed, Compared, Captured

LEMMA ToldSame ==
    ASSUME NEW r, NEW q, SameUpdate(q, r), q.old_milestones = r.old_milestones, q.row = r.row
    PROVE  Told(q) = Told(r)
<1>1. AddedAs(q) = AddedAs(r)
  BY DEF SameUpdate, AddedAs, MilestoneAdded
<1>2. /\ Changed(q, "status", StatusChanged(q)) = Changed(r, "status", StatusChanged(r))
      /\ Changed(q, "priority", PriorityChanged(q)) = Changed(r, "priority", PriorityChanged(r))
      /\ Changed(q, "owner", OwnerChanged(q)) = Changed(r, "owner", OwnerChanged(r))
  BY DEF SameUpdate, Changed, StatusChanged, PriorityChanged, OwnerChanged
<1> QED
  BY <1>1, <1>2 DEF Told

LEMMA CaptureSound ==
    ASSUME TicketsInv, TypesInv, UpdatesInv, NEW k \in DOMAIN requests, CaptureMilestones(k)
    PROVE  UpdatesInv'
<1> PICK r : r = requests[k]
  OBVIOUS
<1> PICK q : q = [r EXCEPT !.pc = "update", !.old_milestones = Links(r.id)]
  OBVIOUS
<1>0. /\ IsSequence(requests) /\ TablesTyped /\ IsRequest(r)
      /\ r.pc = "milestones" /\ Step(k, q)
      /\ UNCHANGED <<tickets, ticket_cc, ticket_milestones, milestones>>
  BY DEF TicketsInv, TypesInv, RequestsTyped, Typed, CaptureMilestones
<1>1. /\ SameUpdate(q, r) /\ q.pc = "update" /\ q.old_milestones = Links(r.id)
      /\ q.said = r.said
  BY <1>0 DEF IsRequest, RequestFields, SameUpdate
<1>2. ASSUME Current(r), Coherent(r) PROVE Current(q) /\ Coherent(q)
  <2>1. Before(r) /\ r.id \in DOMAIN tickets /\ Snapshot(r.id) = r.before
    BY <1>0, <1>2 DEF Current, Coherent
  <2>2. r.before.links = Links(r.id)
    BY <1>0, <2>1, SnapshotTyped DEF Links
  <2>3. Before(q)
    BY <1>0, <1>1, <2>1, <2>2 DEF Before, Compared, Captured, SameUpdate
  <2> QED
    BY <1>1, <2>1, <2>3 DEF Current, Coherent, SameUpdate
<1> QED
  <2>1. Sound(r) => Sound(q)
    BY <1>1, <1>2, SoundOn
  <2> QED
    BY <1>0, <2>1, GoesOnSound

LEMMA RereadSound ==
    ASSUME TicketsInv, TypesInv, UpdatesInv, NEW k \in DOMAIN requests, Reread(k)
    PROVE  UpdatesInv'
<1> PICK r : r = requests[k]
  OBVIOUS
<1> PICK q : q = [r EXCEPT !.pc = "cc", !.row = tickets[r.id]]
  OBVIOUS
<1>0. /\ IsSequence(requests) /\ TablesTyped /\ IsRequest(r)
      /\ r.pc = "reread" /\ Step(k, q)
      /\ UNCHANGED <<tickets, ticket_cc, ticket_milestones, milestones>>
  BY DEF TicketsInv, TypesInv, RequestsTyped, Typed, Reread
<1>1. /\ SameUpdate(q, r) /\ q.old_milestones = r.old_milestones
      /\ q.pc = "cc" /\ q.row = tickets[r.id] /\ q.said = r.said
  BY <1>0 DEF IsRequest, RequestFields, SameUpdate
<1>2. ASSUME Current(r), Coherent(r) PROVE Current(q) /\ Coherent(q)
  <2>1. After(r) /\ r.id \in DOMAIN tickets /\ Snapshot(r.id) = r.committed
    BY <1>0, <1>2 DEF Current, Coherent
  <2>2. r.committed.row = tickets[r.id]
    BY <1>0, <2>1, SnapshotTyped
  <2>3. Committed(q)
    <3>1. Committed(r)
      BY <2>1 DEF After
    <3> QED
      BY ONLY <1>1, <3>1, CommittedSame
  <2>4. After(q)
    BY <1>0, <1>1, <2>1, <2>2, <2>3 DEF After, SameUpdate
  <2> QED
    BY <1>1, <2>1, <2>4 DEF Current, Coherent, SameUpdate
<1> QED
  <2>1. Sound(r) => Sound(q)
    BY <1>1, <1>2, SoundOn
  <2> QED
    BY <1>0, <2>1, GoesOnSound

LEMMA EnrichSound ==
    ASSUME TicketsInv, TypesInv, UpdatesInv, NEW k \in DOMAIN requests,
           EnrichCc(k) \/ EnrichLinks(k)
    PROVE  UpdatesInv'
<1> PICK r : r = requests[k]
  OBVIOUS
<1>0. /\ IsSequence(requests) /\ TablesTyped /\ IsRequest(r)
      /\ UNCHANGED <<tickets, ticket_cc, ticket_milestones, milestones>>
  BY DEF TicketsInv, TypesInv, RequestsTyped, Typed, EnrichCc, EnrichLinks
<1>1. ASSUME Current(r), Coherent(r), r.pc \in {"cc", "links"}
      PROVE  /\ After(r) /\ r.id \in DOMAIN tickets /\ Snapshot(r.id) = r.committed
             /\ r.committed.cc = Cc(r.id) /\ r.committed.links = Links(r.id)
  <2>1. After(r) /\ r.id \in DOMAIN tickets /\ Snapshot(r.id) = r.committed
    BY <1>1 DEF Current, Coherent
  <2> QED
    BY <1>0, <2>1, SnapshotTyped DEF Links
<1>2. CASE EnrichCc(k)
  <2> PICK q : q = [r EXCEPT !.pc = "component", !.cc = Cc(r.id)]
    OBVIOUS
  <2>1. /\ SameUpdate(q, r) /\ q.old_milestones = r.old_milestones
        /\ q.pc = "component" /\ q.row = r.row /\ q.cc = Cc(r.id) /\ q.said = r.said
    BY <1>0 DEF IsRequest, RequestFields, SameUpdate
  <2>2. r.pc = "cc" /\ Step(k, q)
    BY <1>2 DEF EnrichCc
  <2>3. ASSUME Current(r), Coherent(r) PROVE Current(q) /\ Coherent(q)
    <3>1. /\ After(r) /\ r.id \in DOMAIN tickets /\ Snapshot(r.id) = r.committed
          /\ r.committed.cc = Cc(r.id)
      BY <1>1, <2>2, <2>3
    <3>2. Committed(q)
      <4>1. Committed(r)
        BY <3>1 DEF After
      <4> QED
        BY ONLY <2>1, <4>1, CommittedSame
    <3>3. After(q)
      BY <2>1, <2>2, <3>1, <3>2 DEF After, SameUpdate
    <3> QED
      BY <2>1, <3>1, <3>3 DEF Current, Coherent, SameUpdate
  <2> QED
    <3>1. Sound(r) => Sound(q)
      BY <2>1, <2>3, SoundOn
    <3> QED
      BY <1>0, <2>2, <3>1, GoesOnSound
<1>3. CASE EnrichLinks(k)
  <2> PICK q : q = [r EXCEPT !.pc = "names", !.links = Links(r.id)]
    OBVIOUS
  <2>1. /\ SameUpdate(q, r) /\ q.old_milestones = r.old_milestones /\ q.pc = "names"
        /\ q.row = r.row /\ q.cc = r.cc /\ q.links = Links(r.id) /\ q.said = r.said
    BY <1>0 DEF IsRequest, RequestFields, SameUpdate
  <2>2. r.pc = "links" /\ Step(k, q)
    BY <1>3 DEF EnrichLinks
  <2>3. ASSUME Current(r), Coherent(r) PROVE Current(q) /\ Coherent(q)
    <3>1. /\ After(r) /\ r.id \in DOMAIN tickets /\ Snapshot(r.id) = r.committed
          /\ r.committed.links = Links(r.id)
      BY <1>1, <2>2, <2>3
    <3>2. Committed(q)
      <4>1. Committed(r)
        BY <3>1 DEF After
      <4> QED
        BY ONLY <2>1, <4>1, CommittedSame
    <3>3. After(q)
      BY <2>1, <2>2, <3>1, <3>2 DEF After, SameUpdate
    <3> QED
      BY <2>1, <3>1, <3>3 DEF Current, Coherent, SameUpdate
  <2> QED
    <3>1. Sound(r) => Sound(q)
      BY <2>1, <2>3, SoundOn
    <3> QED
      BY <1>0, <2>2, <3>1, GoesOnSound
<1> QED
  BY <1>2, <1>3

\* The component of a ticket is never gone.
LEMMA ComponentSound ==
    ASSUME TicketsInv, TypesInv, UpdatesInv, NEW k \in DOMAIN requests, EnrichComponent(k)
    PROVE  UpdatesInv'
<1> PICK r : r = requests[k]
  OBVIOUS
<1> PICK q : q = IF r.row.component \in components THEN [r EXCEPT !.pc = "links"]
                 ELSE Answered(r, "Internal")
  OBVIOUS
<1>0. /\ IsSequence(requests) /\ TablesTyped /\ IsRequest(r)
      /\ r.pc = "component" /\ Step(k, q)
      /\ UNCHANGED <<tickets, ticket_cc, ticket_milestones, milestones>>
  BY DEF TicketsInv, TypesInv, RequestsTyped, Typed, EnrichComponent
<1>1. SameUpdate(q, r)
  <2>1. CASE r.row.component \in components
    BY <1>0, <2>1 DEF IsRequest, RequestFields, SameUpdate
  <2>2. CASE r.row.component \notin components
    BY <1>0, <2>2 DEF Answered, IsRequest, RequestFields, SameUpdate
  <2> QED
    BY <2>1, <2>2
<1>2. ASSUME Current(r), Coherent(r) PROVE Current(q) /\ Coherent(q)
  <2>1. After(r) /\ r.id \in DOMAIN tickets /\ Snapshot(r.id) = r.committed
    BY <1>0, <1>2 DEF Current, Coherent
  <2>2. r.row = tickets[r.id]
    BY <1>0, <2>1, SnapshotTyped DEF After
  <2>3. r.row.component \in components
    BY <1>0, <2>1, <2>2 DEF TablesTyped, TicketRow
  <2>4. /\ SameUpdate(q, r) /\ q.old_milestones = r.old_milestones /\ q.pc = "links"
        /\ q.row = r.row /\ q.cc = r.cc /\ q.said = r.said
    BY <1>0, <2>3 DEF IsRequest, RequestFields, SameUpdate
  <2>5. Committed(q)
    BY <2>1, <2>4, CommittedSame DEF After
  <2>6. After(q)
    BY <1>0, <2>1, <2>4, <2>5 DEF After, SameUpdate
  <2> QED
    BY <2>1, <2>4, <2>6 DEF Current, Coherent, SameUpdate
<1> QED
  <2>1. Sound(r) => Sound(q)
    BY <1>1, <1>2, SoundOn
  <2> QED
    BY <1>0, <2>1, GoesOnSound

\* The milestones of a ticket have the names they had.
LEMMA NamesStill ==
    ASSUME TicketsInv, TablesTyped, NEW t \in DOMAIN tickets, NEW s, s = Snapshot(t)
    PROVE  \A m \in s.links : MilestoneExists(m) /\ NameOf(m) = s.names[m]
<1>1. /\ s.links = Of(ticket_milestones, t)
      /\ s.names = [m \in s.links |-> MilestoneRow(m).name]
  BY SnapshotTyped
<1>2. \A m \in s.links : MilestoneExists(m)
  BY <1>1, LinksAssigned DEF MilestoneExists
<1> QED
  BY <1>1, <1>2 DEF NameOf

LEMMA EventsTold ==
    ASSUME TicketsInv, TablesTyped, NEW r, r.kind = "update", Committed(r),
           r.id \in DOMAIN tickets, Snapshot(r.id) = r.committed
    PROVE  Events(r) = Told(r)
<1>1. Added(r) = AddedAs(r)
  <2>1. CASE "milestones" \notin DOMAIN r.body
    <3>1. r.old_milestones = NULL
      BY <2>1 DEF Committed, Captured
    <3> QED
      BY <3>1 DEF Added, AddedAs
  <2>2. CASE "milestones" \in DOMAIN r.body
    <3> PICK s, old : s = r.committed /\ old = r.before.links
      OBVIOUS
    <3>1. r.old_milestones = old /\ Lists(r.body["milestones"], s.links)
      BY <2>2 DEF Committed, Captured
    <3> PICK new : new = NotIn(r.body["milestones"], old)
      OBVIOUS
    <3>2. Lists(new, s.links \ old)
      BY <3>1, NotInLists
    <3>3. \A i \in DOMAIN new : NameOf(new[i]) = s.names[new[i]]
      <4>1. \A i \in DOMAIN new : new[i] \in s.links
        BY <3>2 DEF Lists
      <4>2. \A m \in s.links : NameOf(m) = s.names[m]
        BY NamesStill
      <4> QED
        BY <4>1, <4>2
    <3>4. Added(r) = IF old = NULL THEN <<>> ELSE [i \in DOMAIN new |-> MilestoneAdded(r, NameOf(new[i]))]
      BY <3>1 DEF Added
    <3>5. AddedAs(r) = IF old = NULL THEN <<>> ELSE [i \in DOMAIN new |-> MilestoneAdded(r, s.names[new[i]])]
      BY <3>1 DEF AddedAs
    <3> QED
      BY <3>3, <3>4, <3>5
  <2> QED
    BY <2>1, <2>2
<1> QED
  BY <1>1 DEF Events, Told

LEMMA NamesSound ==
    ASSUME TicketsInv, TypesInv, UpdatesInv, NEW k \in DOMAIN requests, EnrichNames(k)
    PROVE  UpdatesInv'
<1> PICK r : r = requests[k]
  OBVIOUS
<1> PICK names : names = [m \in {l \in r.links : MilestoneExists(l)} |-> NameOf(m)]
  OBVIOUS
<1> PICK q : q = [r EXCEPT !.pc = "announce", !.shown = Response(r.row, r.cc, names)]
  OBVIOUS
<1>0. /\ IsSequence(requests) /\ TablesTyped /\ IsRequest(r)
      /\ r.pc = "names" /\ Step(k, q)
      /\ UNCHANGED <<tickets, ticket_cc, ticket_milestones, milestones>>
  BY DEF TicketsInv, TypesInv, RequestsTyped, Typed, EnrichNames
<1>1. /\ SameUpdate(q, r) /\ q.old_milestones = r.old_milestones
      /\ q.pc = "announce" /\ q.row = r.row /\ q.cc = r.cc /\ q.links = r.links /\ q.said = r.said
      /\ q.shown = Response(r.row, r.cc, names)
  BY <1>0 DEF IsRequest, RequestFields, SameUpdate
<1>2. ASSUME Current(r), Coherent(r) PROVE Current(q) /\ Coherent(q)
  <2> PICK s : s = r.committed
    OBVIOUS
  <2>1. After(r) /\ r.id \in DOMAIN tickets /\ Snapshot(r.id) = s
    BY <1>0, <1>2 DEF Current, Coherent
  <2>2. Committed(r) /\ r.row = s.row /\ r.cc = s.cc /\ r.links = s.links /\ r.said = <<>>
    BY <1>0, <2>1 DEF After
  <2>3. Committed(q)
    BY ONLY <1>1, <2>2, CommittedSame
  <2>4. names = s.names
    <3>1. s.names = [m \in s.links |-> MilestoneRow(m).name]
      BY <1>0, <2>1, SnapshotTyped
    <3>2. \A m \in s.links : MilestoneExists(m) /\ NameOf(m) = s.names[m]
      BY <1>0, <2>1, NamesStill
    <3> QED
      BY <2>2, <3>1, <3>2
  <2>5. Shown(q)
    BY <1>1, <2>2, <2>4 DEF Shown, SameUpdate
  <2>6. SaidSoFar(q)
    <3> PICK told : told = Told(q)
      OBVIOUS
    <3>1. IsSequence(told)
      <4>1. q.row = q.committed.row
        BY <1>1, <2>2 DEF SameUpdate
      <4> QED
        BY <2>3, <4>1, ToldTells DEF Tells
    <3>2. Len(told) \in Nat
      BY <3>1, LenProperties DEF IsSequence
    <3> PICK said : said = q.said
      OBVIOUS
    <3>3. said = <<>>
      BY <1>1, <2>2
    <3>4. IsSequence(said) /\ Len(said) = 0 /\ DOMAIN said = {}
      BY ONLY <3>3 DEF IsSequence
    <3>5. Len(said) <= Len(told)
      BY ONLY <3>2, <3>4
    <3> QED
      BY ONLY <3>4, <3>5, told = Told(q), said = q.said DEF SaidSoFar
  <2>7. q.row = q.committed.row /\ q.cc = q.committed.cc /\ q.links = q.committed.links
    BY <1>1, <2>2 DEF SameUpdate
  <2>8. After(q)
    BY <1>1, <2>3, <2>5, <2>6, <2>7 DEF After
  <2> QED
    BY <1>1, <2>1, <2>8 DEF Current, Coherent, SameUpdate
<1> QED
  <2>1. Sound(r) => Sound(q)
    BY <1>1, <1>2, SoundOn
  <2> QED
    BY <1>0, <2>1, GoesOnSound

\* The next event in turn, or none is left.
LEMMA AnnounceSound ==
    ASSUME TicketsInv, TypesInv, UpdatesInv, NEW k \in DOMAIN requests, Announce(k)
    PROVE  UpdatesInv'
<1> PICK r : r = requests[k]
  OBVIOUS
<1> PICK n : n = Len(r.said) + 1
  OBVIOUS
<1> PICK told : told = Events(r)
  OBVIOUS
<1> PICK q : q = IF n > Len(told)
                   THEN [r EXCEPT !.pc = "done", !.code = IF r.kind = "create" THEN 201 ELSE 200]
                 ELSE [r EXCEPT !.said = Append(@, told[n])]
  OBVIOUS
<1>0. /\ IsSequence(requests) /\ TablesTyped /\ IsRequest(r)
      /\ r.pc = "announce" /\ Step(k, q)
      /\ UNCHANGED <<tickets, ticket_cc, ticket_milestones, milestones>>
  BY DEF TicketsInv, TypesInv, RequestsTyped, Typed, Announce
<1>1. /\ SameUpdate(q, r) /\ q.old_milestones = r.old_milestones
      /\ q.row = r.row /\ q.cc = r.cc /\ q.links = r.links /\ q.shown = r.shown
  BY <1>0 DEF IsRequest, RequestFields, SameUpdate
<1>2. IF n > Len(told)
        THEN q.pc = "done" /\ q.said = r.said /\ (r.kind = "update" => q.code = 200)
      ELSE q.pc = "announce" /\ q.said = Extended(r.said, told[n])
  BY <1>0 DEF IsRequest, RequestFields, Extended
<1>3. ASSUME r.kind = "update", Current(r), Coherent(r) PROVE Current(q) /\ Coherent(q)
  <2> PICK s : s = r.committed
    OBVIOUS
  <2>1. After(r) /\ r.id \in DOMAIN tickets /\ Snapshot(r.id) = s
    BY <1>0, <1>3 DEF Current, Coherent
  <2>2. /\ Committed(r) /\ r.row = s.row /\ r.cc = s.cc /\ r.links = s.links
        /\ Shown(r) /\ SaidSoFar(r)
    BY <1>0, <2>1 DEF After
  <2>3. Committed(q)
    BY ONLY <1>1, <2>2, CommittedSame
  <2>4. Shown(q)
    BY <1>1, <2>2 DEF Shown, SameUpdate
  <2>5. told = Told(r) /\ Told(q) = told
    <3>1. told = Told(r)
      BY <1>0, <1>3, <2>1, <2>2, EventsTold
    <3>2. Told(q) = Told(r)
      BY ONLY <1>1, ToldSame
    <3> QED
      BY <3>1, <3>2
  <2>6. IsSequence(told) /\ Len(told) \in Nat /\ DOMAIN told = 1 .. Len(told)
    <3>1. IsSequence(told)
      BY <2>2, <2>5, ToldTells DEF Tells
    <3> QED
      BY <3>1, LenProperties DEF IsSequence
  <2> PICK said, more : said = r.said /\ more = q.said
    OBVIOUS
  <2>7. /\ IsSequence(said) /\ Len(said) <= Len(told) /\ \A i \in DOMAIN said : said[i] = told[i]
        /\ n = Len(said) + 1 /\ Len(said) \in Nat /\ DOMAIN said = 1 .. Len(said)
    <3>1. IsSequence(said) /\ Len(said) <= Len(told) /\ \A i \in DOMAIN said : said[i] = told[i]
      BY <2>2, <2>5 DEF SaidSoFar
    <3>2. Len(said) \in Nat /\ DOMAIN said = 1 .. Len(said)
      BY <3>1, LenProperties DEF IsSequence
    <3> QED
      BY <3>1, <3>2
  <2>8. q.row = q.committed.row /\ q.cc = q.committed.cc /\ q.links = q.committed.links
    BY <1>1, <2>2 DEF SameUpdate
  <2>9. CASE n > Len(told)
    <3>1. more = said /\ q.pc = "done" /\ q.code = 200
      BY <1>2, <1>3, <2>9
    <3>2. Len(said) = Len(told)
      BY <2>6, <2>7, <2>9
    <3>3. SaidSoFar(q) /\ Len(q.said) = Len(Told(q))
      BY <2>5, <2>7, <3>1, <3>2 DEF SaidSoFar
    <3>4. Finished(q)
      BY <2>3, <2>4, <2>8, <3>1, <3>3 DEF Finished
    <3> QED
      BY <3>1, <3>4 DEF Current, Coherent
  <2>10. CASE ~ (n > Len(told))
    <3>1. more = Extended(said, told[n]) /\ q.pc = "announce"
      BY <1>2, <2>10
    <3>2. /\ IsSequence(more) /\ \A i : i \in DOMAIN more <=> i \in DOMAIN said \/ i = NewIndex(said)
          /\ more[NewIndex(said)] = told[n] /\ \A i \in DOMAIN said : more[i] = said[i]
      BY ONLY <2>7, <3>1, Appending
    <3>3. NewIndex(said) = n
      BY <2>7 DEF NewIndex
    <3>4. \A i \in DOMAIN more : more[i] = told[i]
      BY <2>7, <3>2, <3>3
    <3>5. Len(more) = n
      BY <2>7, <3>1, AppendProperties DEF Extended, IsSequence
    <3>6. n <= Len(told)
      BY <2>6, <2>7, <2>10
    <3>7. SaidSoFar(q)
      BY ONLY <2>5, <3>2, <3>4, <3>5, <3>6, more = q.said DEF SaidSoFar
    <3>8. After(q)
      BY <2>3, <2>4, <2>8, <3>1, <3>7 DEF After
    <3>9. Coherent(q)
      BY ONLY <3>1, <3>8 DEF Coherent
    <3>10. q.id = r.id /\ q.committed = s
      BY <1>1 DEF SameUpdate
    <3>11. Current(q)
      BY ONLY <2>1, <3>1, <3>10 DEF Current
    <3> QED
      BY <3>9, <3>11
  <2> QED
    BY <2>9, <2>10
<1> QED
  <2>0. Clean(r) => r.kind = "update"
    BY DEF Clean
  <2>1. Sound(r) => Sound(q)
    BY ONLY <1>1, <1>3, <2>0, SoundOn
  <2> QED
    BY <1>0, <2>1, GoesOnSound

\* The other steps of a request, and the failures.
LEMMA OthersGoOn ==
    ASSUME TicketsInv, TypesInv, UpdatesInv, NEW k \in DOMAIN requests,
           RereadMilestone(k) \/ CountAssigned(k) \/ Stats(k)
    PROVE  UpdatesInv'
<1> PICK r : r = requests[k]
  OBVIOUS
<1>0. /\ IsSequence(requests) /\ IsRequest(r) /\ Prepared(r)
      /\ UNCHANGED <<tickets, ticket_cc, ticket_milestones, milestones>>
  BY DEF TicketsInv, Prepared, RereadMilestone, CountAssigned, Stats
<1>1. ASSUME NEW q, q.kind = r.kind, q.raced = r.raced, q.faulted = r.faulted, Step(k, q),
             r.pc \in {"reread_ms", "stats"}
      PROVE  UpdatesInv'
  <2>1. Sound(r) => Sound(q)
    BY <1>1 DEF Sound, Clean, Coherent
  <2> QED
    BY <1>0, <1>1, <2>1, GoesOnSound
<1>2. CASE RereadMilestone(k)
  <2> PICK q : q = IF MilestoneExists(r.id)
                     THEN [r EXCEPT !.pc = "stats", !.row = <<MilestoneRow(r.id)>>]
                     ELSE [r EXCEPT !.pc = "done"]
    OBVIOUS
  <2>1. q.kind = r.kind /\ q.raced = r.raced /\ q.faulted = r.faulted
    BY <1>0 DEF IsRequest, RequestFields
  <2>2. r.pc = "reread_ms" /\ Step(k, q)
    BY <1>2 DEF RereadMilestone
  <2> QED
    BY <1>1, <2>1, <2>2
<1>3. CASE Stats(k)
  <2> PICK shown, code : Step(k, [r EXCEPT !.pc = "done", !.shown = shown, !.code = code])
    BY <1>3 DEF Stats
  <2> PICK q : q = [r EXCEPT !.pc = "done", !.shown = shown, !.code = code]
    OBVIOUS
  <2>1. q.kind = r.kind /\ q.raced = r.raced /\ q.faulted = r.faulted
    BY <1>0 DEF IsRequest, RequestFields
  <2>2. r.pc = "stats" /\ Step(k, q)
    BY <1>3 DEF Stats
  <2> QED
    BY <1>1, <2>1, <2>2
<1>4. CASE CountAssigned(k)
  <2> PICK q : q = IF Assigned(r.id) # {} THEN Answered(r, "Conflict")
                   ELSE [r EXCEPT !.pc = "delete", !.raced = FALSE]
    OBVIOUS
  <2>1. r.pc = "count" /\ Step(k, q)
    BY <1>4 DEF CountAssigned
  <2>2. r.kind = "delete_milestone"
    BY <1>0, <2>1 DEF Prepared
  <2>3. q.kind = "delete_milestone"
    BY <1>0, <2>2 DEF Answered, IsRequest, RequestFields
  <2>4. Sound(q)
    BY <2>3 DEF Sound, Clean
  <2> QED
    BY <1>0, <2>1, <2>4, GoesOnSound
<1> QED
  BY <1>2, <1>3, <1>4

LEMMA FailuresSound ==
    ASSUME TicketsInv, TypesInv, UpdatesInv, (\E k \in DOMAIN requests : StatementFails(k)) \/ Crash
    PROVE  UpdatesInv'
<1>0. IsSequence(requests) /\ UNCHANGED <<tickets, ticket_cc, ticket_milestones, milestones>>
  BY DEF TicketsInv, StatementFails, Crash
<1>1. ASSUME NEW q, q.faulted = TRUE PROVE Sound(q)
  BY <1>1 DEF Sound, Clean
<1>2. ASSUME NEW k \in DOMAIN requests, StatementFails(k) PROVE UpdatesInv'
  <2> PICK r : r = [requests[k] EXCEPT !.faulted = TRUE]
    OBVIOUS
  <2>1. IsRequest(r) /\ r.faulted = TRUE
    <3>1. IsRequest(requests[k])
      BY DEF TicketsInv, Prepared
    <3> QED
      BY <3>1 DEF IsRequest, RequestFields
  <2> PICK q : q = IF r.pc = "milestones" THEN [r EXCEPT !.pc = "update"]
                   ELSE IF r.pc = "announce" /\ Len(r.said) < Len(Events(r))
                     THEN [r EXCEPT !.said = Append(@, NULL)]
                   ELSE Answered(r, "Internal")
    OBVIOUS
  <2>2. Step(k, q)
    BY <1>2 DEF StatementFails
  <2>3. q.faulted = TRUE
    BY <2>1 DEF Answered, IsRequest, RequestFields
  <2>4. Sound(q)
    BY <1>1, <2>3
  <2> QED
    BY <1>0, <1>2, <2>2, <2>4, GoesOnSound
<1>3. CASE Crash
  <2> PICK q : q = requests'
    OBVIOUS
  <2>1. q = [k \in DOMAIN requests |->
                IF requests[k].pc = "done" THEN requests[k]
                ELSE [requests[k] EXCEPT !.pc = "done", !.faulted = TRUE]]
    BY <1>3 DEF Crash
  <2>2. ASSUME NEW j \in DOMAIN q, NEW p, p = q[j] PROVE Sound(p)
    <3>1. CASE requests[j].pc = "done"
      <4>1. p = requests[j] /\ j \in DOMAIN requests
        BY <2>1, <2>2, <3>1
      <4> QED
        BY <4>1 DEF UpdatesInv
    <3>2. CASE requests[j].pc # "done"
      <4>1. p = [requests[j] EXCEPT !.pc = "done", !.faulted = TRUE] /\ j \in DOMAIN requests
        BY <2>1, <2>2, <3>2
      <4>2. IsRequest(requests[j])
        BY <4>1 DEF TicketsInv, Prepared
      <4>3. p.faulted = TRUE
        BY <4>1, <4>2 DEF IsRequest, RequestFields
      <4> QED
        BY <1>1, <4>3
    <3> QED
      BY <3>1, <3>2
  <2>3. ASSUME NEW j \in DOMAIN q, NEW p, p = q[j] PROVE Sound(p)'
    BY <1>0, <2>2, <2>3, AllStay, StaysSound
  <2> QED
    BY <2>3 DEF UpdatesInv
<1> QED
  BY <1>2, <1>3

-----------------------------------------------------------------------------
(* Updates: the transaction.                                               *)

\* Different milestones have different names.
LEMMA NamesTyped ==
    ASSUME TablesTyped, NEW links, \A m \in links : MilestoneExists(m),
           NEW names, names = [m \in links |-> MilestoneRow(m).name]
    PROVE  /\ names \in [links -> Nat]
           /\ \A m, n \in links : names[m] = names[n] => m = n
<1>1. \A m \in links : MilestoneRow(m) \in milestones /\ MilestoneRow(m).id = m
  BY DEF MilestoneExists, MilestoneRow
<1>2. \A m \in links : MilestoneRow(m).name \in Nat
  BY <1>1 DEF TablesTyped, MilestoneTyped
<1>3. ASSUME NEW m \in links, NEW n \in links, names[m] = names[n] PROVE m = n
  <2>1. MilestoneRow(m) = MilestoneRow(n)
    BY <1>1, <1>3 DEF TablesTyped, UniqueNames
  <2> QED
    BY <1>1, <2>1
<1> QED
  BY <1>2, <1>3

\* The milestones of a ticket after a transaction that does not fail: those of the body, each
\* of them once, or those it had.
LEMMA LinksWritten ==
    ASSUME TicketsInv, TablesTyped, NEW t, NEW body, Outcome(body) = "ok",
           "milestones" \in DOMAIN body => IsSequence(body["milestones"]),
           NEW links, links = Of(Replaced(ticket_milestones, t, body, "milestones"), t)
    PROVE  /\ IF "milestones" \in DOMAIN body THEN Lists(body["milestones"], links)
              ELSE links = Of(ticket_milestones, t)
           /\ \A m \in links : MilestoneExists(m)
<1> PICK known : known = {row.id : row \in milestones}
  OBVIOUS
<1>1. \A m \in known : MilestoneExists(m)
  BY DEF MilestoneExists
<1>2. CASE "milestones" \notin DOMAIN body
  <2>1. links = Of(ticket_milestones, t)
    BY <1>2 DEF Replaced
  <2>2. \A m \in links : MilestoneExists(m)
    BY <2>1, LinksAssigned DEF MilestoneExists
  <2> QED
    BY <1>2, <2>1, <2>2
<1>3. CASE "milestones" \in DOMAIN body
  <2> PICK ids : ids = body["milestones"]
    OBVIOUS
  <2>1. IsSequence(ids) /\ Given(body, "milestones", <<>>) = ids
    BY <1>3 DEF Given
  <2>2. \A i \in DOMAIN ids : ids[i] \in known /\ \A j \in 1 .. i - 1 : ids[j] # ids[i]
    <3>1. InsertAll(ids, known) = "ok"
      BY <2>1, OutcomeOk
    <3> QED
      BY ONLY <3>1, InsertedAll
  <2>3. ASSUME NEW i \in DOMAIN ids, NEW j \in DOMAIN ids, ids[i] = ids[j] PROVE i = j
    <3>1. DOMAIN ids = 1 .. Len(ids) /\ Len(ids) \in Nat
      BY <2>1, LenProperties DEF IsSequence
    <3>2. i \in Nat /\ j \in Nat /\ i >= 1 /\ j >= 1
      BY <3>1
    <3>3. i < j => i \in 1 .. j - 1
      BY <3>2
    <3>4. j < i => j \in 1 .. i - 1
      BY <3>2
    <3> QED
      BY <2>2, <2>3, <3>2, <3>3, <3>4
  <2>4. links = {ids[i] : i \in DOMAIN ids}
    <3> PICK all : all = Replaced(ticket_milestones, t, body, "milestones")
      OBVIOUS
    <3>1. all = {x \in ticket_milestones : x[1] # t} \cup {<<t, ids[i]>> : i \in DOMAIN ids}
      BY <1>3 DEF Replaced
    <3>2. ASSUME NEW m \in links PROVE m \in {ids[i] : i \in DOMAIN ids}
      <4>1. PICK x \in all : x[1] = t /\ x[2] = m
        BY DEF Of
      <4>2. PICK i \in DOMAIN ids : x = <<t, ids[i]>>
        BY <3>1, <4>1
      <4> QED
        BY <4>1, <4>2
    <3>3. ASSUME NEW i \in DOMAIN ids PROVE ids[i] \in links
      <4> PICK x : x = <<t, ids[i]>>
        OBVIOUS
      <4>1. x \in all /\ x[1] = t /\ x[2] = ids[i]
        BY <3>1
      <4> QED
        BY <4>1 DEF Of
    <3> QED
      BY ONLY <3>2, <3>3
  <2>5. Lists(ids, links)
    BY <2>1, <2>3, <2>4 DEF Lists
  <2>6. \A m \in links : MilestoneExists(m)
    BY <1>1, <2>2, <2>4
  <2> QED
    BY <1>3, <2>5, <2>6
<1> QED
  BY <1>2, <1>3

LEMMA UpdateSound ==
    ASSUME TicketsInv, TypesInv, UpdatesInv, NEW k \in DOMAIN requests, Update(k)
    PROVE  UpdatesInv'
<1> PICK r : r = requests[k]
  OBVIOUS
<1> PICK t : t = r.id
  OBVIOUS
<1>0. /\ IsSequence(requests) /\ RequestsTyped /\ TablesTyped /\ IsRequest(r) /\ Sound(r)
      /\ r.pc = "update" /\ t \in DOMAIN tickets /\ TicketBody(r.body)
  <2>1. /\ IsSequence(requests) /\ RequestsTyped /\ TablesTyped /\ Typed(r) /\ Prepared(r)
        /\ Sound(r) /\ r.pc = "update"
    BY DEF TicketsInv, TypesInv, RequestsTyped, UpdatesInv, Update
  <2> QED
    BY <2>1 DEF Typed, Prepared
<1>1. ASSUME NEW error, Step(k, Answered(r, error)),
             UNCHANGED <<tickets, ticket_cc, ticket_milestones, milestones>>
      PROVE  UpdatesInv'
  <2> PICK q : q = Answered(r, error)
    OBVIOUS
  <2>1. /\ q.pc = "done" /\ q.kind = r.kind /\ q.raced = r.raced /\ q.faulted = r.faulted
        /\ q.committed = r.committed
    BY <1>0, AnsweredIs
  <2>2. Clean(q) => q.committed = NULL
    BY <1>0, <2>1 DEF Sound, Clean, Coherent, Before
  <2>3. Sound(q)
    BY <2>1, <2>2 DEF Sound, Current, Coherent, Finished
  <2> QED
    BY <1>0, <1>1, <2>3, GoesOnSound
<1> PICK new, cc, links :
       /\ new = Merge(tickets[t], Columns(r.body))
       /\ cc = Replaced(ticket_cc, t, r.body, "cc")
       /\ links = Replaced(ticket_milestones, t, r.body, "milestones")
  OBVIOUS
<1> PICK s, changed, racing :
       /\ s = Ticket(new, Of(cc, t), Of(links, t))
       /\ changed = {f \in TicketFields \ DOMAIN r.body : new[f] # tickets[t][f]}
       /\ racing = OnTickets({t}) \cup OnDeletions(Of(links, t))
  OBVIOUS
<1> PICK q : q = [r EXCEPT !.pc = "reread", !.changed = changed, !.committed = s]
  OBVIOUS
<1>2. CASE /\ Outcome(r.body) = "ok" /\ tickets' = [tickets EXCEPT ![t] = new]
           /\ ticket_cc' = cc /\ ticket_milestones' = links /\ UNCHANGED milestones
           /\ StepRacing(k, q, racing)
  <2> PICK all : all = tickets'
    OBVIOUS
  <2>1. /\ DOMAIN all = DOMAIN tickets
        /\ all[t] = new /\ \A i \in DOMAIN tickets : i # t => all[i] = tickets[i]
    <3>1. all = [tickets EXCEPT ![t] = new] /\ IsSequence(tickets) /\ t \in DOMAIN tickets
      BY <1>0, <1>2 DEF TicketsInv, Tables
    <3> QED
      BY ONLY <3>1, Replacing
  <2>2. /\ q.user = r.user /\ q.kind = r.kind /\ q.id = t /\ q.body = r.body
        /\ q.existing = r.existing /\ q.before = r.before /\ q.old_milestones = r.old_milestones
        /\ q.raced = r.raced /\ q.faulted = r.faulted /\ q.said = r.said
        /\ q.pc = "reread" /\ q.committed = s
    BY <1>0 DEF IsRequest, RequestFields
  <2>3. /\ s.row = new /\ s.cc = Of(cc, t) /\ s.links = Of(links, t)
        /\ s.names = [m \in s.links |-> MilestoneRow(m).name]
    BY DEF Ticket
  <2>4. ASSUME Clean(r) PROVE After(q)
    <3>1. Before(r) /\ r.before = Snapshot(t)
      BY <1>0, <2>4 DEF Sound, Current, Coherent
    <3>2. Compared(r) /\ Captured(r) /\ r.said = <<>>
      BY <1>0, <3>1 DEF Before
    <3>3. Compared(q) /\ Captured(q)
      BY ONLY <2>2, <3>2 DEF Compared, Captured
    <3>4. r.before.row = tickets[t] /\ r.before.links = Of(ticket_milestones, t)
      BY <1>0, <3>1, SnapshotTyped
    <3>5. TicketRow(tickets[t], components)
      BY <1>0 DEF TablesTyped
    <3>6. RowTyped(new)
      <4>1. TicketRow(new, components)
        BY <1>0, <1>2, <3>5, WrittenTyped DEF TicketRow
      <4> QED
        BY <4>1 DEF TicketRow, RowTyped
    <3>7. ASSUME NEW f \in {"status", "priority", "owner"}, f \notin DOMAIN r.body
          PROVE  new[f] = tickets[t][f]
      <4>1. f \in DOMAIN tickets[t]
        BY <3>5 DEF TicketRow, TicketFields
      <4> QED
        BY <3>7, <4>1, Columned
    <3>8. /\ IF "milestones" \in DOMAIN r.body THEN Lists(r.body["milestones"], s.links)
             ELSE s.links = Of(ticket_milestones, t)
          /\ \A m \in s.links : MilestoneExists(m)
      <4>1. "milestones" \in DOMAIN r.body => IsSequence(r.body["milestones"])
        BY <1>0 DEF TicketBody
      <4> QED
        BY <1>0, <1>2, <2>3, <4>1, LinksWritten
    <3>9. /\ s.names \in [s.links -> Nat]
          /\ \A m, n \in s.links : s.names[m] = s.names[n] => m = n
      BY <1>0, <2>3, <3>8, NamesTyped
    <3>10. Committed(q)
      BY ONLY <2>2, <2>3, <3>3, <3>4, <3>6, <3>7, <3>8, <3>9 DEF Committed
    <3> QED
      BY ONLY <2>2, <3>2, <3>10 DEF After
  <2>5. t \in DOMAIN tickets' /\ Snapshot(t)' = s
    <3>1. Ticket(new, Of(cc, t), Of(links, t))' = s
      BY <1>2 DEF Ticket, MilestoneRow
    <3> QED
      BY <1>0, <1>2, <2>1 DEF Snapshot, Ticket, Cc, Links, MilestoneRow
  <2>6. Sound(q)'
    <3>1. Clean(q) => Clean(r)
      BY <2>2 DEF Clean
    <3>2. Clean(q) => Coherent(q)
      BY <2>2, <2>4, <3>1 DEF Coherent
    <3>3. Current(q)'
      BY <2>2, <2>5 DEF Current
    <3> QED
      BY <3>2, <3>3 DEF Sound
  <2>7. ASSUME NEW j \in DOMAIN requests, NEW p, p = requests[j], j \notin racing,
               p.kind = "update", p.pc # "done"
        PROVE  Stays(p.id)
    <3>1. p.id # t
      BY <2>7, TicketOfUpdate
    <3>2. p.id \in DOMAIN tickets => p.id \in DOMAIN tickets' /\ tickets'[p.id] = tickets[p.id]
      BY <2>1, <3>1
    <3> QED
      BY <1>2, <3>1, <3>2, OthersStay
  <2> QED
    BY ONLY UpdatesInv, k \in DOMAIN requests, <1>0, <1>2, <2>6, <2>7, WriteSound
<1>3. CASE Outcome(r.body) = "ok"
  BY <1>2, <1>3 DEF Update, Commit
<1>4. CASE Outcome(r.body) # "ok"
  BY <1>1, <1>4 DEF Update
<1> QED
  BY <1>3, <1>4

LEMMA UpdatesInit == Init => UpdatesInv
BY DEF Init, UpdatesInv

LEMMA UpdatesStep ==
    TicketsInv /\ TicketsInv' /\ TypesInv /\ UpdatesInv /\ [Next]_vars => UpdatesInv'
<1> SUFFICES ASSUME TicketsInv, TicketsInv', TypesInv, UpdatesInv, [Next]_vars PROVE UpdatesInv'
  OBVIOUS
<1>1. CASE (\E u \in Users : Request(u)) \/ Read
  BY <1>1, ArrivalsSound
<1>2. ASSUME NEW k \in DOMAIN requests, Proceed(k) PROVE UpdatesInv'
  <2>1. CASE InsertTicket(k) \/ Update(k)
    BY <2>1, InsertTicketSound, UpdateSound
  <2>2. CASE InsertMilestone(k) \/ WriteMilestone(k) \/ RemoveMilestone(k)
    BY <2>2, InsertMilestoneSound, MilestoneWritesSound
  <2>3. CASE CaptureMilestones(k) \/ Reread(k) \/ EnrichCc(k) \/ EnrichComponent(k)
    BY <2>3, CaptureSound, RereadSound, EnrichSound, ComponentSound
  <2>4. CASE EnrichLinks(k) \/ EnrichNames(k) \/ Announce(k)
    BY <2>4, EnrichSound, NamesSound, AnnounceSound
  <2>5. CASE RereadMilestone(k) \/ CountAssigned(k) \/ Stats(k)
    BY <2>5, OthersGoOn
  <2> QED
    BY <1>2, <2>1, <2>2, <2>3, <2>4, <2>5 DEF Proceed
<1>3. CASE (\E k \in DOMAIN requests : StatementFails(k)) \/ Crash
  BY <1>3, FailuresSound
<1>4. ASSUME UNCHANGED <<tickets, ticket_cc, ticket_milestones, milestones, requests>>
      PROVE  UpdatesInv'
  <2> PICK q : q = requests'
    OBVIOUS
  <2>1. q = requests
    BY <1>4
  <2>2. ASSUME NEW j \in DOMAIN q, NEW p, p = q[j] PROVE Sound(p)'
    <3>1. Sound(p)
      BY <2>1, <2>2 DEF UpdatesInv
    <3> QED
      BY <1>4, <3>1, AllStay, StaysSound
  <2> QED
    BY <2>2 DEF UpdatesInv
<1>5. ASSUME NEW c \in Components, DeleteComponent(c) PROVE UpdatesInv'
  BY <1>4, <1>5 DEF DeleteComponent
<1>6. CASE UNCHANGED vars
  BY <1>4, <1>6 DEF vars
<1> QED
  BY <1>1, <1>2, <1>3, <1>5, <1>6 DEF Next

LEMMA UpdatesAlways == Spec => [](TicketsInv /\ TypesInv /\ UpdatesInv)
<1> QED
  BY TicketsInit, TicketsStep, TypesInit, TypesStep, UpdatesInit, UpdatesStep, PTL DEF Spec

LEMMA SameSequence ==
    ASSUME NEW s, NEW q, IsSequence(s), IsSequence(q), Len(s) = Len(q),
           \A i \in DOMAIN s : s[i] = q[i]
    PROVE  s = q
<1>1. /\ s = [i \in 1 .. Len(s) |-> s[i]] /\ DOMAIN s = 1 .. Len(s)
      /\ q = [i \in 1 .. Len(q) |-> q[i]]
  BY LenProperties DEF IsSequence
<1> QED
  BY <1>1

LEMMA ToldExactly == UpdatesInv => UpdatesToldExactly
<1> SUFFICES ASSUME UpdatesInv, NEW k \in DOMAIN requests, NEW r, r = requests[k],
                    r.kind = "update", r.committed # NULL, Undisturbed(r),
                    NEW lines, lines = MailOf(r).body.items
             PROVE  /\ r.code = 200
                    /\ r.shown = Response(r.committed.row, r.committed.cc, r.committed.names)
                    /\ Range(lines) = Difference(r) /\ Len(lines) = Cardinality(Difference(r))
  BY DEF UpdatesToldExactly
<1>1. r.pc = "done" /\ Clean(r)
  BY DEF Undisturbed, Clean
<1>2. Finished(r)
  BY <1>1 DEF UpdatesInv, Sound, Coherent
<1>3. /\ Committed(r) /\ r.row = r.committed.row /\ Shown(r) /\ r.code = 200
      /\ SaidSoFar(r) /\ Len(r.said) = Len(Told(r))
  BY <1>2 DEF Finished
<1>4. Tells(Told(r), Difference(r))
  BY <1>3, ToldTells
<1>5. r.said = Told(r)
  BY <1>3, <1>4, SameSequence DEF SaidSoFar, Tells
<1>6. Range(lines) = Difference(r) /\ Len(lines) = Cardinality(Difference(r))
  BY <1>4, <1>5, MailTells
<1> QED
  BY <1>3, <1>6 DEF Shown

\* Whatever other requests are made and wherever they come in between, and whatever fails
\* elsewhere: an update that no write has raced with is answered with the ticket as its
\* transaction left it, and what it announces becomes a mail with a line for exactly what the
\* transaction changed, each change once (update_ticket, emit_update_notifications,
\* format_event_line).
THEOREM UpdatesAreTold == Spec => []UpdatesToldExactly
<1> QED
  BY UpdatesAlways, ToldExactly, PTL
=============================================================================
