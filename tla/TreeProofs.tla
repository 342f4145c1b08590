----------------------------- MODULE TreeProofs -----------------------------
(***************************************************************************)
(* Theorems about ComponentTree: which mutations the slug cache shows, for *)
(* every tree, every number of handlers at work and every order of their   *)
(* statements.                                                             *)
(***************************************************************************)
EXTENDS ComponentTree, SequenceTheorems, FiniteSetTheorems, TLAPS

-----------------------------------------------------------------------------
(* A reload is under way for every mutation the cache does not show.       *)

\* What a handler that is about to reload, or to answer, holds.
RequestsShaped ==
    \A r \in requests : r.pc \in {"reread", "load", "resolve"} =>
       r = [n |-> r.n, pc |-> r.pc, id |-> r.id, wrote |-> r.wrote] /\ r.wrote \in Nat

\* What handler r wrote is in the table, and what it loaded is the table of a version.
Knows(r) ==
    /\ r.pc \in {"reread", "load"} => r.wrote <= version
    /\ r.pc = "install" => /\ r.wrote \in Nat /\ r.of \in Nat
                           /\ r.wrote <= r.of /\ r.of <= version
                           /\ r.of = version => r.map = NewCache(components)

\* Handler r goes on to show the cache the table as it is.
WillShow(r) ==
    \/ r.pc = "reread" /\ Exists(r.id)
    \/ r.pc = "load"
    \/ r.pc = "install" /\ r.of = version

Orderly == faults = 0 /\ ~ crossed

Reloading ==
    /\ version \in Nat /\ cached \in Nat /\ told \in Nat /\ cached <= version
    /\ faults \in Nat /\ (faults = 0 => caching)
    /\ RequestsShaped
    /\ \A r \in requests : Knows(r)
    /\ caching /\ cached = version => cache = NewCache(components)
    /\ Orderly /\ cached # version => \E r \in requests : WillShow(r)
    /\ Orderly => told <= cached /\ \A r \in requests : r.pc = "resolve" => r.wrote <= cached

LEMMA ReloadingInit == Init => Reloading
BY DEF Init, Reloading, RequestsShaped, NewCache, Snapshot, Orderly

\* A step of the handlers alone: what r becomes shows the table if r was to.
LEMMA ReloadingHandle ==
    ASSUME Reloading, NEW r, NEW rs, requests' = (requests \ {r}) \cup rs,
           UNCHANGED <<components, cache, caching, version, cached, crossed, told, faults>>,
           \A q \in rs : q.pc \in {"reread", "load", "resolve"} =>
              q = [n |-> q.n, pc |-> q.pc, id |-> q.id, wrote |-> q.wrote] /\ q.wrote \in Nat,
           \A q \in rs : Knows(q),
           \A q \in rs : q.pc = "resolve" /\ Orderly => q.wrote <= cached,
           r \in requests /\ WillShow(r) => \E q \in rs : WillShow(q)
    PROVE  Reloading'
<1>1. \A q : (Knows(q) <=> Knows(q)') /\ (WillShow(q) <=> WillShow(q)')
  BY DEF Knows, WillShow, Exists, NewCache, Snapshot
<1>2. RequestsShaped'
  BY DEF Reloading, RequestsShaped
<1>3. \A q \in requests' : Knows(q)'
  BY <1>1 DEF Reloading
<1>4. Orderly' /\ cached' # version' => \E q \in requests' : WillShow(q)'
  BY <1>1 DEF Reloading, Orderly
<1> QED
  BY <1>2, <1>3, <1>4 DEF Reloading, Orderly, NewCache, Snapshot

\* A handler begins with a statement that writes nothing.
LEMMA ReloadingArrive ==
    ASSUME Reloading, NEW q, q.pc \in {"insert", "list", "enrich"}, requests' = requests \cup {q},
           UNCHANGED <<components, cache, caching, version, cached, crossed, told, faults>>
    PROVE  Reloading'
<1> PICK rs : rs = {q}
  OBVIOUS
<1>1. requests' = (requests \ {q}) \cup rs /\ ~ WillShow(q)
  BY DEF WillShow
<1>2. \A p \in rs : p.pc \notin {"reread", "load", "resolve", "install"} /\ Knows(p)
  BY DEF Knows
<1> QED
  BY <1>1, <1>2, ReloadingHandle

\* A mutation commits, and its handler goes on to reload.
LEMMA ReloadingCommit ==
    ASSUME Reloading, NEW r, NEW q, requests' = (requests \ {r}) \cup {q}, Commits,
           UNCHANGED <<cache, caching, cached, crossed, told, faults>>,
           q.pc \in {"reread", "load"}, q.wrote = version + 1, WillShow(q)',
           q = [n |-> q.n, pc |-> q.pc, id |-> q.id, wrote |-> q.wrote]
    PROVE  Reloading'
<1>1. version' = version + 1 /\ cached # version' /\ cached <= version' /\ version' \in Nat
  BY DEF Commits, Reloading
<1>2. RequestsShaped'
  BY DEF Reloading, RequestsShaped
<1>3. ASSUME NEW p \in requests' PROVE Knows(p)'
  <2>1. CASE p = q
    BY <1>1, <2>1 DEF Knows, Reloading
  <2>2. CASE p \in requests
    <3>1. Knows(p) /\ (p.pc \in {"reread", "load"} => p.wrote \in Nat)
      BY <2>2 DEF Reloading, RequestsShaped
    <3>2. p.pc \in {"reread", "load"} => p.wrote <= version'
      BY <1>1, <3>1 DEF Reloading, Knows
    <3>3. p.pc = "install" => /\ p.wrote \in Nat /\ p.of \in Nat /\ p.wrote <= p.of
                              /\ p.of <= version' /\ p.of # version'
      BY <1>1, <3>1 DEF Reloading, Knows
    <3> QED
      BY <3>2, <3>3 DEF Knows
  <2> QED
    BY <2>1, <2>2
<1>4. \E p \in requests' : WillShow(p)'
  OBVIOUS
<1>5. Orderly' => told' <= cached' /\ \A p \in requests' : p.pc = "resolve" => p.wrote <= cached'
  BY DEF Reloading, Orderly
<1> QED
  BY <1>1, <1>2, <1>3, <1>4, <1>5 DEF Reloading

LEMMA ReloadingInstall ==
    ASSUME Reloading, NEW r \in requests, Install(r)
    PROVE  Reloading'
<1> PICK q : q = [n |-> r.n, pc |-> "resolve", id |-> r.id, wrote |-> r.wrote]
  OBVIOUS
<1>1. /\ r.pc = "install" /\ cache' = r.map /\ cached' = r.of
      /\ crossed' = (crossed \/ r.of < cached) /\ requests' = (requests \ {r}) \cup {q}
      /\ UNCHANGED <<caching, components, faults, version, told>>
  BY DEF Install, Handle, Resolves
<1>2. /\ r.wrote \in Nat /\ r.of \in Nat /\ r.wrote <= r.of /\ r.of <= version
      /\ r.of = version => r.map = NewCache(components)
  BY <1>1 DEF Reloading, Knows
<1>3. q.pc = "resolve" /\ q.wrote = r.wrote /\ q.n = r.n /\ q.id = r.id
  OBVIOUS
<1>4. RequestsShaped'
  BY <1>1, <1>2, <1>3 DEF Reloading, RequestsShaped
<1>5. \A p \in requests' : Knows(p)'
  BY <1>1, <1>3 DEF Reloading, Knows, NewCache, Snapshot
<1>6. cached' = version' => cache' = NewCache(components)'
  BY <1>1, <1>2 DEF NewCache, Snapshot
<1>7. ASSUME Orderly', cached' # version' PROVE \E p \in requests' : WillShow(p)'
  <2>1. Orderly /\ ~ (r.of < cached)
    BY <1>1, <1>7, Zenon DEF Orderly
  <2>4. cached # version
    BY <1>1, <1>2, <1>7, <2>1 DEF Reloading
  <2>2. PICK p \in requests : WillShow(p)
    BY <2>1, <2>4 DEF Reloading
  <2>3. p # r
    BY <1>1, <1>7, <2>2 DEF WillShow
  <2> QED
    BY <1>1, <2>2, <2>3 DEF WillShow, Exists
<1>8. ASSUME Orderly'
      PROVE  told' <= cached' /\ \A p \in requests' : p.pc = "resolve" => p.wrote <= cached'
  <2>3. Orderly /\ ~ (r.of < cached)
    BY <1>1, <1>8, Zenon DEF Orderly
  <2>1. Orderly /\ cached <= r.of
    BY <1>2, <2>3 DEF Reloading
  <2>2. \A p \in requests : p.pc = "resolve" => p.wrote \in Nat /\ p.wrote <= cached
    BY <2>1 DEF Reloading, RequestsShaped
  <2> QED
    BY <1>1, <1>2, <1>3, <2>1, <2>2 DEF Reloading
<1> QED
  BY <1>1, <1>2, <1>4, <1>5, <1>6, <1>7, <1>8 DEF Reloading

\* Every action keeps the invariant.
LEMMA ReloadingStep == Reloading /\ [Next]_vars => Reloading'
<1> SUFFICES ASSUME Reloading, [Next]_vars PROVE Reloading'
  OBVIOUS
<1>1. CASE UNCHANGED vars
  BY <1>1 DEF vars, Reloading, RequestsShaped, Knows, WillShow, Exists, NewCache, Snapshot, Orderly
<1>2. ASSUME NEW name, NEW parent, NEW slug, ReadParent(name, parent, slug) PROVE Reloading'
  <2>0. PICK q : q = [n |-> began', pc |-> "insert", name |-> name, parent |-> parent,
                    slug |-> slug,
                    path |-> IF parent = Root THEN <<name>> ELSE Append(Row(parent).path, name)]
    OBVIOUS
  <2>1. q.pc \in {"insert", "list", "enrich"}
    BY <2>0
  <2>2. /\ requests' = requests \cup {q}
        /\ UNCHANGED <<components, cache, caching, version, cached, crossed, told, faults>>
    BY <1>2, <2>0 DEF ReadParent
  <2> QED
    BY <2>1, <2>2, ReloadingArrive
<1>3. ASSUME NEW r \in requests, InsertComponent(r) PROVE Reloading'
  <2>1. CASE Handle(r, {}) /\ UNCHANGED <<components, version>>
    <3> PICK rs : rs = {}
      OBVIOUS
    <3>1. /\ requests' = (requests \ {r}) \cup rs
          /\ UNCHANGED <<components, cache, caching, version, cached, crossed, told, faults>>
      BY <1>3, <2>1 DEF InsertComponent, Handle
    <3>2. ~ WillShow(r)
      BY <1>3 DEF InsertComponent, WillShow
    <3> QED
      BY <3>1, <3>2, ReloadingHandle
  <2>2. CASE ~ (Handle(r, {}) /\ UNCHANGED <<components, version>>)
    <3> PICK id \in Ids : \E row : /\ row.id = id /\ components' = components \cup {row} /\ Commits
                                   /\ Handle(r, Goes(r.n, "reread", id))
      BY <1>3, <2>2 DEF InsertComponent
    <3> PICK row : /\ row.id = id /\ components' = components \cup {row} /\ Commits
                   /\ Handle(r, Goes(r.n, "reread", id))
      OBVIOUS
    <3> PICK q : q = [n |-> r.n, pc |-> "reread", id |-> id, wrote |-> version + 1]
      OBVIOUS
    <3>1. requests' = (requests \ {r}) \cup {q}
      BY DEF Handle, Goes
    <3>2. WillShow(q)'
      BY DEF WillShow, Exists
    <3> QED
      BY <1>3, <3>1, <3>2, ReloadingCommit DEF InsertComponent
  <2> QED
    BY <2>1, <2>2
<1>4. ASSUME NEW c \in components, NEW name, NEW parent, NEW slug, Update(c, name, parent, slug)
      PROVE  Reloading'
  <2> PICK q : q = [n |-> began', pc |-> "reread", id |-> c.id, wrote |-> version + 1]
    OBVIOUS
  <2>1. requests' = (requests \ {q}) \cup {q}
    BY <1>4 DEF Update, Goes
  <2>2. \E d \in components' : d.id = c.id
    <3> PICK new : new = IF parent = Root THEN <<name>> ELSE Append(Row(parent).path, name)
      OBVIOUS
    <3> PICK row : row = [c EXCEPT !.name = name, !.parent = parent, !.path = new, !.slug = slug]
      OBVIOUS
    <3> PICK set : set = (components \ {c}) \cup {row}
      OBVIOUS
    <3>1. row.id = c.id /\ row \in set
      OBVIOUS
    <3>2. components' = set \/ components' = Cascade(set, c.id, c.path, new)
      BY <1>4, Zenon DEF Update
    <3>3. ASSUME components' = Cascade(set, c.id, c.path, new) PROVE row \in components'
      BY <3>1, <3>3, Zenon DEF Cascade
    <3> QED
      BY <3>1, <3>2, <3>3
  <2>3. WillShow(q)'
    BY <2>2 DEF WillShow, Exists
  <2> QED
    BY <1>4, <2>1, <2>3, ReloadingCommit DEF Update
<1>5. ASSUME NEW c \in components, Delete(c) PROVE Reloading'
  <2> PICK q : q = [n |-> began', pc |-> "load", id |-> Root, wrote |-> version + 1]
    OBVIOUS
  <2>1. requests' = (requests \ {q}) \cup {q}
    BY <1>5 DEF Delete, Goes
  <2>2. WillShow(q)'
    BY DEF WillShow
  <2> QED
    BY <1>5, <2>1, <2>2, ReloadingCommit DEF Delete
<1>6. ASSUME NEW r \in requests, RereadComponent(r) PROVE Reloading'
  <2>1. r = [n |-> r.n, pc |-> r.pc, id |-> r.id, wrote |-> r.wrote] /\ r.wrote \in Nat
        /\ r.wrote <= version /\ r.pc = "reread"
    BY <1>6 DEF RereadComponent, Reloading, RequestsShaped, Knows
  <2>2. CASE Exists(r.id)
    <3> PICK q : q = [n |-> r.n, pc |-> "load", id |-> r.id, wrote |-> r.wrote]
      OBVIOUS
    <3>1. requests' = (requests \ {r}) \cup {q}
      BY <1>6, <2>1, <2>2 DEF RereadComponent, Handle
    <3>2. Knows(q) /\ WillShow(q) /\ q.pc = "load" /\ q.wrote \in Nat
          /\ q = [n |-> q.n, pc |-> q.pc, id |-> q.id, wrote |-> q.wrote]
      BY <2>1 DEF Knows, WillShow
    <3>3. UNCHANGED <<components, cache, caching, version, cached, crossed, told, faults>>
      BY <1>6 DEF RereadComponent
    <3> PICK rs : rs = {q}
      OBVIOUS
    <3> QED
      BY <3>1, <3>2, <3>3, ReloadingHandle
  <2>3. CASE ~ Exists(r.id)
    <3>1. ~ WillShow(r)
      BY <2>1, <2>3 DEF WillShow
    <3> PICK rs : rs = {}
      OBVIOUS
    <3>2. /\ requests' = (requests \ {r}) \cup rs
          /\ UNCHANGED <<components, cache, caching, version, cached, crossed, told, faults>>
      BY <1>6, <2>3 DEF RereadComponent, Handle
    <3> QED
      BY <3>1, <3>2, ReloadingHandle
  <2> QED
    BY <2>2, <2>3
<1>7. ASSUME NEW r \in requests, LoadFromDb(r) PROVE Reloading'
  <2>1. r.wrote \in Nat /\ r.wrote <= version /\ version \in Nat /\ r.pc = "load"
    BY <1>7 DEF LoadFromDb, Reloading, RequestsShaped, Knows
  <2>0. PICK q : q = [n |-> r.n, pc |-> "install", id |-> r.id, wrote |-> r.wrote,
                    map |-> Snapshot(components), of |-> version]
    OBVIOUS
  <2>2. requests' = (requests \ {r}) \cup {q}
    BY <1>7, <2>0 DEF LoadFromDb, Handle
  <2>3. Knows(q) /\ WillShow(q) /\ q.pc = "install"
    BY <2>0, <2>1 DEF Knows, WillShow, NewCache
  <2>4. UNCHANGED <<components, cache, caching, version, cached, crossed, told, faults>>
    BY <1>7 DEF LoadFromDb
  <2> PICK rs : rs = {q}
    OBVIOUS
  <2> QED
    BY <2>2, <2>3, <2>4, ReloadingHandle
<1>8. ASSUME NEW r \in requests, LoadFails(r) PROVE Reloading'
  <2> PICK q : q = [n |-> r.n, pc |-> "resolve", id |-> r.id, wrote |-> r.wrote]
    OBVIOUS
  <2>1. /\ requests' = (requests \ {r}) \cup {q} /\ r.wrote \in Nat
        /\ UNCHANGED <<caching, components, cache, version, cached, told, crossed>>
        /\ faults' \in Nat /\ faults' # 0
    BY <1>8 DEF LoadFails, Handle, Resolves, Reloading, RequestsShaped
  <2>2. RequestsShaped'
    BY <2>1 DEF Reloading, RequestsShaped
  <2>3. \A p \in requests' : Knows(p)'
    BY <2>1 DEF Reloading, Knows, NewCache, Snapshot
  <2> QED
    BY <2>1, <2>2, <2>3 DEF Reloading, Orderly, NewCache, Snapshot
<1>9. ASSUME NEW r \in requests, Install(r) PROVE Reloading'
  BY <1>9, ReloadingInstall
<1>10. ASSUME NEW r \in requests, Answer(r) PROVE Reloading'
  <2>1. /\ r.pc = "resolve" /\ requests' \subseteq requests /\ requests' = requests \ {r}
        /\ told' \in {told, r.wrote} /\ r.wrote \in Nat
        /\ UNCHANGED <<caching, components, cache, faults, version, cached, crossed>>
    BY <1>10 DEF Answer, Handle, Reloading, RequestsShaped
  <2>2. \A q \in requests' : Knows(q)'
    BY <2>1 DEF Reloading, Knows, NewCache, Snapshot
  <2>3. Orderly' /\ cached' # version' => \E q \in requests' : WillShow(q)'
    BY <2>1 DEF Reloading, Orderly, WillShow, Exists
  <2>4. Orderly' => told' <= cached' /\ \A q \in requests' : q.pc = "resolve" => q.wrote <= cached'
    BY <2>1 DEF Reloading, Orderly
  <2> QED
    BY <2>1, <2>2, <2>3, <2>4 DEF Reloading, RequestsShaped, NewCache, Snapshot
<1>11. ASSUME ListComponents PROVE Reloading'
  <2> PICK rows \in Sorted(components) :
         requests' = requests \cup {[n |-> began', pc |-> "list", rows |-> rows,
                                     since |-> version, items |-> <<>>]}
    BY <1>11 DEF ListComponents
  <2>0. PICK q : q = [n |-> began', pc |-> "list", rows |-> rows,
                      since |-> version, items |-> <<>>]
    OBVIOUS
  <2>1. q.pc \in {"insert", "list", "enrich"}
    BY <2>0
  <2>2. /\ requests' = requests \cup {q}
        /\ UNCHANGED <<components, cache, caching, version, cached, crossed, told, faults>>
    BY <1>11, <2>0 DEF ListComponents
  <2> QED
    BY <2>1, <2>2, ReloadingArrive
<1>12. ASSUME NEW rows, ListTickets(rows) PROVE Reloading'
  <2>0. PICK q : q = [n |-> began', pc |-> "enrich", rows |-> rows, since |-> version]
    OBVIOUS
  <2>1. q.pc \in {"insert", "list", "enrich"}
    BY <2>0
  <2>2. /\ requests' = requests \cup {q}
        /\ UNCHANGED <<components, cache, caching, version, cached, crossed, told, faults>>
    BY <1>12, <2>0 DEF ListTickets
  <2> QED
    BY <2>1, <2>2, ReloadingArrive
<1>13. ASSUME NEW r \in requests, ListNext(r) PROVE Reloading'
  <2> PICK q : q = [r EXCEPT !.items = Append(@,
                       ComponentResponse(r.rows[Len(r.items) + 1],
                          ResolveEffectiveSlug(r.rows[Len(r.items) + 1].id), Calm(r)))]
    OBVIOUS
  <2>1. /\ r.pc = "list"
        /\ Handle(r, IF Len(r.items) + 1 > Len(r.rows) THEN {} ELSE {q})
        /\ UNCHANGED <<components, cache, caching, version, cached, crossed, told, faults>>
    BY <1>13, Zenon DEF ListNext
  <2>2. q.pc = "list"
    BY <2>1
  <2>3. PICK rs : requests' = (requests \ {r}) \cup rs /\ rs \subseteq {q}
    <3>1. requests' = (requests \ {r}) \cup {q} \/ requests' = (requests \ {r}) \cup {}
      BY <2>1 DEF Handle
    <3> DEFINE Leaves(rs) == requests' = (requests \ {r}) \cup rs /\ rs \subseteq {q}
    <3>2. Leaves({q}) \/ Leaves({})
      BY <3>1
    <3> HIDE DEF Leaves
    <3>3. \E rs : Leaves(rs)
      BY <3>2, Zenon
    <3> QED
      BY <3>3 DEF Leaves
  <2>4. ~ WillShow(r) /\ \A p \in rs : p.pc = "list" /\ Knows(p)
    BY <2>1, <2>2, <2>3 DEF WillShow, Knows
  <2> QED
    BY <2>1, <2>3, <2>4, ReloadingHandle
<1>14. ASSUME NEW r \in requests, EnrichWithSlugs(r) PROVE Reloading'
  <2> PICK q : q = [n |-> r.n, pc |-> "page", rows |-> r.rows, calm |-> Calm(r),
                    slugs |-> ResolveMany(cache, {c.id : c \in r.rows})]
    OBVIOUS
  <2>1. /\ r.pc \in {"enrich", "page"} /\ (Handle(r, {q}) \/ Handle(r, {}))
        /\ UNCHANGED <<components, cache, caching, version, cached, crossed, told, faults>>
    BY <1>14, Zenon DEF EnrichWithSlugs
  <2>2. q.pc = "page"
    OBVIOUS
  <2>3. PICK rs : requests' = (requests \ {r}) \cup rs /\ rs \subseteq {q}
    <3>1. requests' = (requests \ {r}) \cup {q} \/ requests' = (requests \ {r}) \cup {}
      BY <2>1 DEF Handle
    <3> DEFINE Leaves(rs) == requests' = (requests \ {r}) \cup rs /\ rs \subseteq {q}
    <3>2. Leaves({q}) \/ Leaves({})
      BY <3>1
    <3> HIDE DEF Leaves
    <3>3. \E rs : Leaves(rs)
      BY <3>2, Zenon
    <3> QED
      BY <3>3 DEF Leaves
  <2>4. ~ WillShow(r) /\ \A p \in rs : p.pc = "page" /\ Knows(p)
    BY <2>1, <2>2, <2>3 DEF WillShow, Knows
  <2> QED
    BY <2>1, <2>3, <2>4, ReloadingHandle
<1>15. CASE Restart
  <2>1. /\ requests' = {} /\ version' = version /\ cached' = version /\ told' = told
        /\ faults' = faults + 1
    BY <1>15 DEF Restart
  <2>2. faults' \in Nat /\ faults' # 0 /\ ~ Orderly'
    BY <2>1 DEF Reloading, Orderly
  <2>3. version' \in Nat /\ cached' \in Nat /\ told' \in Nat /\ cached' <= version'
    BY <2>1 DEF Reloading
  <2>4. caching' => cache' = NewCache(components)'
    BY <1>15 DEF Restart, NewCache, Snapshot
  <2> QED
    BY <2>1, <2>2, <2>3, <2>4 DEF Reloading, RequestsShaped
<1> QED
  BY <1>1, <1>2, <1>3, <1>4, <1>5, <1>6, <1>7, <1>8, <1>9, <1>10, <1>11, <1>12, <1>13, <1>14, <1>15 DEF Next

\* With no handler left to refresh it, the cache shows the table, unless a reload failed or
\* two of them crossed.
THEOREM CacheSettles == Spec => []StaleOnlyByCrossing
<1>1. Reloading => StaleOnlyByCrossing
  BY DEF Reloading, Orderly, WillShow, StaleOnlyByCrossing
<1> QED
  BY <1>1, ReloadingInit, ReloadingStep, PTL DEF Spec

\* What a client was told of, the cache shows, with the same two exceptions.
AnswersShown == faults = 0 /\ ~ crossed => told <= cached

\* The answered mutations are in the cache by the time their answers are sent.
THEOREM ToldIsCached == Spec => []AnswersShown
<1>1. Reloading => AnswersShown
  BY DEF Reloading, Orderly, AnswersShown
<1> QED
  BY <1>1, ReloadingInit, ReloadingStep, PTL DEF Spec

-----------------------------------------------------------------------------
(* The paths: a mutation keeps a tree that is spelled right.               *)

LEMMA LeastOf == ASSUME NEW S \in SUBSET Nat, S # {} PROVE \E n \in S : \A m \in S : n <= m
<1> DEFINE R == {ss \in Nat \X Nat : ss[1] < ss[2]}
<1>1. IsWellFoundedOn(R, Nat)
  BY NatLessThanWellFounded DEF OpToRel
<1>2. \A x, y \in Nat : <<y, x>> \in R <=> y < x
  OBVIOUS
<1> HIDE DEF R
<1>3. PICK x \in S : \A y \in S : ~ (<<y, x>> \in R)
  BY <1>1, WFMin
<1>4. ASSUME NEW y \in S PROVE x <= y
  <2>1. x \in Nat /\ y \in Nat
    OBVIOUS
  <2>2. ~ (<<y, x>> \in R)
    BY <1>3
  <2> QED
    BY <1>2, <2>1, <2>2
<1> QED
  BY <1>4

LEMMA PathsAre ==
    ASSUME NEW rows \in SUBSET Component, SpellTheTree(rows), NEW c \in rows
    PROVE  c.path \in Seq(Names) /\ c.name \in Names /\ Len(c.path) \in Nat \ {0}
<1>1. c.path \in Seq(Names) /\ c.name \in Names
  BY DEF Component
<1>2. CASE c.parent = Root
  <2>1. c.path = <<c.name>>
    BY <1>2 DEF SpellTheTree
  <2> QED
    BY <1>1, <2>1
<1>3. CASE c.parent # Root
  <2> PICK p \in rows : c.path = Append(p.path, c.name)
    BY <1>3 DEF SpellTheTree
  <2>1. p.path \in Seq(Names)
    BY DEF Component
  <2> QED
    BY <1>1, <2>1
<1> QED
  BY <1>2, <1>3

\* Above a path that only LIKE takes for a descendant of c there is one as long as c's.
LEMMA LookalikeAbove ==
    ASSUME NEW rows \in SUBSET Component, SpellTheTree(rows), NEW c \in rows, NEW d \in rows,
           Like(d.path, c.path), ~ StartsWith(d.path, c.path)
    PROVE  \E e \in rows : e # c /\ Like(e.path, c.path) /\ Len(e.path) = Len(c.path)
<1> DEFINE Alike == {e \in rows : Like(e.path, c.path) /\ ~ StartsWith(e.path, c.path)}
           Lengths == {Len(e.path) : e \in Alike}
<1>1. \A e \in rows : e.path \in Seq(Names) /\ e.name \in Names /\ Len(e.path) \in Nat \ {0}
  BY PathsAre
<1>2. Lengths \in SUBSET Nat /\ Lengths # {}
  BY <1>1
<1> HIDE DEF Lengths
<1>3. PICK n \in Lengths : \A m \in Lengths : n <= m
  BY <1>2, LeastOf
<1>4. PICK e \in Alike : n = Len(e.path)
  BY DEF Lengths
<1>5. e # c
  BY <1>1 DEF StartsWith
<1>6. Len(c.path) <= Len(e.path)
  BY DEF Like
<1>7. ASSUME Len(e.path) # Len(c.path) PROVE FALSE
  <2>1. Len(e.path) > Len(c.path) /\ Len(e.path) > 1
    BY <1>1, <1>6, <1>7
  <2>2. e.parent # Root
    BY <1>1, <2>1 DEF SpellTheTree
  <2>3. PICK p \in rows : e.path = Append(p.path, e.name)
    BY <2>2 DEF SpellTheTree
  <2>4. /\ Len(e.path) = Len(p.path) + 1 /\ Len(c.path) <= Len(p.path)
        /\ \A i \in 1 .. Len(c.path) : e.path[i] = p.path[i]
    BY <1>1, <2>1, <2>3
  <2>5. Like(p.path, c.path) /\ ~ StartsWith(p.path, c.path)
    BY <2>4 DEF Like, StartsWith
  <2>6. Len(p.path) \in Lengths
    BY <2>5 DEF Lengths
  <2> QED
    BY <1>1, <1>3, <1>4, <2>4, <2>6
<1> QED
  BY <1>5, <1>7

\* What the cascade of Update makes of one row.
Moved(d, id, old, new) ==
    IF d.id # id /\ Like(d.path, old)
      THEN [d EXCEPT !.path = new \o SubSeq(d.path, Len(old) + 1, Len(d.path))]
      ELSE d

LEMMA CascadeMoves ==
    ASSUME NEW rows, NEW id, NEW old, NEW new
    PROVE  Cascade(rows, id, old, new) = {Moved(d, id, old, new) : d \in rows}
BY DEF Cascade, Moved

LEMMA MovedFields ==
    ASSUME NEW d \in Component, NEW id, NEW old \in Seq(Names), NEW new \in Seq(Names)
    PROVE  /\ Moved(d, id, old, new) \in Component
           /\ Moved(d, id, old, new).id = d.id /\ Moved(d, id, old, new).name = d.name
           /\ Moved(d, id, old, new).parent = d.parent
           /\ Moved(d, id, old, new).slug = d.slug
<1>1. CASE d.id # id /\ Like(d.path, old)
  <2> PICK path : path = new \o SubSeq(d.path, Len(old) + 1, Len(d.path))
    OBVIOUS
  <2>1. d.path \in Seq(Names)
    BY DEF Component
  <2>2. Len(old) <= Len(d.path) /\ Len(old) \in Nat /\ Len(d.path) \in Nat
    BY <1>1, <2>1 DEF Like
  <2>3. SubSeq(d.path, Len(old) + 1, Len(d.path)) \in Seq(Names)
    BY <2>1, <2>2
  <2>4. path \in Seq(Names)
    BY <2>3
  <2>5. Moved(d, id, old, new) = [d EXCEPT !.path = path]
    BY <1>1 DEF Moved
  <2> QED
    BY <2>4, <2>5 DEF Component
<1>2. CASE ~ (d.id # id /\ Like(d.path, old))
  BY <1>2 DEF Moved
<1> QED
  BY <1>1, <1>2

LEMMA PathFrom ==
    ASSUME NEW s \in Seq(Names), NEW n \in Nat, n <= Len(s)
    PROVE  /\ SubSeq(s, n + 1, Len(s)) \in Seq(Names)
           /\ Len(SubSeq(s, n + 1, Len(s))) = Len(s) - n
           /\ \A i \in 1 .. Len(s) - n : SubSeq(s, n + 1, Len(s))[i] = s[n + i]
<1>1. Len(s) \in Nat /\ \A i \in n + 1 .. Len(s) : s[i] \in Names
  OBVIOUS
<1> PICK m \in Int, k \in Int : m = n + 1 /\ k = Len(s)
  BY <1>1
<1>2. \A i \in m .. k : s[i] \in Names
  BY <1>1
<1>3. /\ SubSeq(s, m, k) \in Seq(Names)
      /\ Len(SubSeq(s, m, k)) = IF m <= k THEN k - m + 1 ELSE 0
      /\ \A i \in 1 .. k - m + 1 : SubSeq(s, m, k)[i] = s[m + i - 1]
  BY <1>2, SubSeqProperties
<1> PICK t : t = SubSeq(s, m, k)
  OBVIOUS
<1>4. Len(t) = Len(s) - n
  BY <1>1, <1>3
<1>5. \A i \in 1 .. Len(s) - n : t[i] = s[n + i]
  <2> SUFFICES ASSUME NEW i \in 1 .. Len(s) - n PROVE t[i] = s[n + i]
    OBVIOUS
  <2>1. i \in 1 .. k - m + 1 /\ m + i - 1 = n + i
    BY <1>1
  <2> QED
    BY <1>3, <2>1
<1> QED
  BY <1>3, <1>4, <1>5

\* A path below old has become one below new.
Carried(path, from, old, new) ==
    /\ path \in Seq(Names) /\ Len(path) = Len(new) + (Len(from) - Len(old))
    /\ \A i \in 1 .. Len(new) : path[i] = new[i]
    /\ \A i \in 1 .. Len(from) - Len(old) : path[Len(new) + i] = from[Len(old) + i]

\* The path of a descendant after the cascade.
LEMMA MovedPath ==
    ASSUME NEW d \in Component, NEW id, NEW old \in Seq(Names), NEW new \in Seq(Names),
           d.id # id, Like(d.path, old)
    PROVE  Carried(Moved(d, id, old, new).path, d.path, old, new)
<1> PICK path : path = new \o SubSeq(d.path, Len(old) + 1, Len(d.path))
  OBVIOUS
<1> PICK tail : tail = SubSeq(d.path, Len(old) + 1, Len(d.path))
  OBVIOUS
<1>1. d.path \in Seq(Names) /\ Len(old) \in Nat /\ Len(d.path) \in Nat /\ Len(new) \in Nat
  BY DEF Component
<1>2. Len(old) <= Len(d.path)
  BY DEF Like
<1>3. /\ tail \in Seq(Names) /\ Len(tail) = Len(d.path) - Len(old)
      /\ \A i \in 1 .. Len(d.path) - Len(old) : tail[i] = d.path[Len(old) + i]
  BY <1>1, <1>2, PathFrom
<1>4. path = new \o tail
  OBVIOUS
<1>5. Moved(d, id, old, new).path = path
  BY DEF Moved, Component
<1>6. /\ path \in Seq(Names) /\ Len(path) = Len(new) + Len(tail)
      /\ \A i \in 1 .. Len(new) + Len(tail) :
            path[i] = IF i <= Len(new) THEN new[i] ELSE tail[i - Len(new)]
  BY <1>3, <1>4, ConcatProperties
<1>7. \A i \in 1 .. Len(d.path) - Len(old) : path[Len(new) + i] = d.path[Len(old) + i]
  <2> SUFFICES ASSUME NEW i \in 1 .. Len(d.path) - Len(old)
               PROVE  path[Len(new) + i] = d.path[Len(old) + i]
    OBVIOUS
  <2>1. /\ Len(new) + i \in 1 .. Len(new) + Len(tail) /\ ~ (Len(new) + i <= Len(new))
        /\ (Len(new) + i) - Len(new) = i
    BY <1>1, <1>3
  <2> QED
    BY <1>3, <1>6, <2>1
<1>8. \A i \in 1 .. Len(new) : path[i] = new[i]
  BY <1>1, <1>3, <1>6
<1>9. Len(path) = Len(new) + (Len(d.path) - Len(old))
  BY <1>3, <1>6
<1> QED
  BY <1>5, <1>6, <1>7, <1>8, <1>9 DEF Carried

LEMMA Extends ==
    ASSUME NEW s \in Seq(Names), NEW t \in Seq(Names), NEW name \in Names,
           Len(t) = Len(s) + 1, \A i \in 1 .. Len(s) : t[i] = s[i], t[Len(s) + 1] = name
    PROVE  t = Append(s, name)
<1> PICK u : u = Append(s, name)
  OBVIOUS
<1>1. /\ u \in Seq(Names) /\ Len(u) = Len(s) + 1 /\ u[Len(s) + 1] = name
      /\ \A i \in 1 .. Len(s) : u[i] = s[i]
  BY AppendProperties
<1>2. \A i \in 1 .. Len(t) : t[i] = u[i]
  <2> SUFFICES ASSUME NEW i \in 1 .. Len(t) PROVE t[i] = u[i]
    OBVIOUS
  <2>1. i \in 1 .. Len(s) \/ i = Len(s) + 1
    OBVIOUS
  <2> QED
    BY <1>1, <2>1
<1>3. t = u
  BY <1>1, <1>2, SeqEqual
<1> QED
  BY <1>3

\* What becomes of a child's path, by what becomes of its parent's.
LEMMA CarriedFirst ==
    ASSUME NEW old \in Seq(Names), NEW new \in Seq(Names), NEW name \in Names,
           NEW path, Carried(path, Append(old, name), old, new)
    PROVE  path = Append(new, name)
<1> PICK d : d = Append(old, name)
  OBVIOUS
<1> PICK k \in Nat, n \in Nat : k = Len(old) /\ n = Len(new)
  OBVIOUS
<1>1. Len(d) = k + 1 /\ d[k + 1] = name
  BY AppendProperties
<1>2. /\ path \in Seq(Names) /\ Len(path) = n + ((k + 1) - k)
      /\ \A i \in 1 .. n : path[i] = new[i]
      /\ \A i \in 1 .. (k + 1) - k : path[n + i] = d[k + i]
  BY <1>1 DEF Carried
<1>3. (k + 1) - k = 1 /\ 1 \in 1 .. 1
  OBVIOUS
<1>4. Len(path) = n + 1 /\ path[n + 1] = name
  BY <1>1, <1>2, <1>3
<1> QED
  BY <1>2, <1>4, Extends

LEMMA CarriedNext ==
    ASSUME NEW old \in Seq(Names), NEW new \in Seq(Names), NEW name \in Names,
           NEW p \in Seq(Names), Len(old) <= Len(p), NEW above, Carried(above, p, old, new),
           NEW path, Carried(path, Append(p, name), old, new)
    PROVE  path = Append(above, name)
<1> PICK d : d = Append(p, name)
  OBVIOUS
<1> PICK k \in Nat, n \in Nat, l \in Nat : k = Len(old) /\ n = Len(new) /\ l = Len(p)
  OBVIOUS
<1>1. k <= l
  OBVIOUS
<1> PICK j \in Nat : j = l - k
  <2>1. l - k \in Nat
    BY <1>1
  <2> QED
    BY <2>1
<1>2. l = k + j
  OBVIOUS
<1>3. Len(d) = l + 1 /\ d[l + 1] = name /\ \A i \in 1 .. l : d[i] = p[i]
  BY AppendProperties
<1>4. /\ above \in Seq(Names) /\ Len(above) = n + j
      /\ \A i \in 1 .. n : above[i] = new[i]
      /\ \A i \in 1 .. j : above[n + i] = p[k + i]
  BY DEF Carried
<1>5. /\ path \in Seq(Names) /\ Len(path) = n + ((l + 1) - k)
      /\ \A i \in 1 .. n : path[i] = new[i]
      /\ \A i \in 1 .. (l + 1) - k : path[n + i] = d[k + i]
  BY <1>3 DEF Carried
<1> HIDE DEF Carried
<1>6. (l + 1) - k = j + 1
  BY <1>2
<1>7. Len(path) = Len(above) + 1
  BY <1>4, <1>5, <1>6
<1>8. ASSUME NEW i \in 1 .. n + j PROVE path[i] = above[i]
  <2>1. CASE i \in 1 .. n
    BY <1>4, <1>5, <2>1
  <2>2. CASE i \notin 1 .. n
    <3> PICK h \in 1 .. j : i = n + h
      <4>1. i - n \in 1 .. j /\ i = n + (i - n)
        BY <2>2
      <4> QED
        BY <4>1
    <3>1. h \in 1 .. j + 1 /\ k + h \in 1 .. l
      BY <1>2
    <3> QED
      BY <1>3, <1>4, <1>5, <1>6, <3>1
  <2> QED
    BY <2>1, <2>2
<1>9. path[(n + j) + 1] = name
  <2>1. (n + j) + 1 = n + (j + 1) /\ l + 1 = k + (j + 1) /\ j + 1 \in 1 .. j + 1
    BY <1>2
  <2>2. path[n + (j + 1)] = d[k + (j + 1)]
    BY <1>5, <1>6, <2>1
  <2> QED
    BY <1>3, <2>1, <2>2
<1>10. \A i \in 1 .. Len(above) : path[i] = above[i]
  BY <1>4, <1>8
<1>11. path[Len(above) + 1] = name
  BY <1>4, <1>9
<1> QED
  BY <1>4, <1>5, <1>7, <1>10, <1>11, Extends

\* A transaction that the constraints accept moves a subtree, and nothing but the subtree:
\* a row that only LIKE takes for a descendant would end up on the path of another.
LEMMA CascadeTakesSubtree ==
    ASSUME NEW rows \in SUBSET Component, UniqueIds(rows), SpellTheTree(rows), NEW c \in rows,
           NEW new \in Seq(Names), NEW row \in Component, row.id = c.id, row.path = new,
           Accepted(Cascade((rows \ {c}) \cup {row}, c.id, c.path, new))
    PROVE  \A d \in rows : d # c /\ Like(d.path, c.path) =>
              StartsWith(d.path, c.path) /\ Len(d.path) > Len(c.path)
<1> DEFINE M(d) == Moved(d, c.id, c.path, new)
           result == {M(d) : d \in (rows \ {c}) \cup {row}}
<1>1. Accepted(result)
  BY CascadeMoves
<1>2. c.path \in Seq(Names) /\ \A d \in rows : d.path \in Seq(Names) /\ Len(d.path) \in Nat
  BY PathsAre
<1>3. M(row) = row /\ row \in result
  BY DEF Moved
<1>4. ASSUME NEW e \in rows, e # c, Like(e.path, c.path) PROVE Len(e.path) # Len(c.path)
  <2>1. e \in Component /\ e.id # c.id /\ M(e) \in result
    BY <1>4 DEF UniqueIds
  <2>2. M(e).id # row.id
    BY <1>2, <2>1, MovedFields
  <2> SUFFICES ASSUME Len(e.path) = Len(c.path) PROVE FALSE
    OBVIOUS
  <2>3. /\ M(e).path \in Seq(Names) /\ Len(M(e).path) = Len(new)
        /\ \A i \in 1 .. Len(new) : M(e).path[i] = new[i]
    <3>1. Carried(M(e).path, e.path, c.path, new)
      BY <1>2, <1>4, <2>1, MovedPath
    <3> HIDE DEF M
    <3> QED
      BY <1>2, <3>1 DEF Carried
  <2> HIDE DEF M
  <2>4. M(e).path = new
    BY <2>3, SeqEqual
  <2> HIDE DEF result
  <2> QED
    BY <1>1, <1>3, <2>1, <2>2, <2>4 DEF Accepted
<1>5. ASSUME NEW d \in rows, d # c, Like(d.path, c.path)
      PROVE  StartsWith(d.path, c.path)
  BY <1>4, <1>5, LookalikeAbove
<1> QED
  BY <1>2, <1>4, <1>5 DEF Like

LEMMA CascadeSpells ==
    ASSUME NEW rows \in SUBSET Component, UniqueIds(rows), SpellTheTree(rows), NEW c \in rows,
           NEW new \in Seq(Names), NEW row \in Component,
           row.id = c.id, row.path = new,
           NEW set, set = (rows \ {c}) \cup {row},
           Accepted(Cascade(set, c.id, c.path, new)),
           row.parent = Root => new = <<row.name>>,
           row.parent # Root => \E p \in rows : /\ p.id = row.parent /\ ~ StartsWith(p.path, c.path)
                                                /\ new = Append(p.path, row.name)
    PROVE  SpellTheTree(Cascade(set, c.id, c.path, new))
<1> DEFINE M(d) == Moved(d, c.id, c.path, new)
           result == {M(d) : d \in set}
<1>1. Cascade(set, c.id, c.path, new) = result
  BY CascadeMoves
<1>2. \A d \in rows : d.path \in Seq(Names) /\ d.name \in Names /\ Len(d.path) \in Nat \ {0}
  BY PathsAre
<1>3. \A d \in rows : d # c /\ Like(d.path, c.path) =>
              StartsWith(d.path, c.path) /\ Len(d.path) > Len(c.path)
  BY CascadeTakesSubtree
<1>4. \A d \in rows : d # c => d.id # c.id
  BY DEF UniqueIds
<1>5. /\ M(row) = row
      /\ \A d \in rows : ~ Like(d.path, c.path) => M(d) = d
      /\ \A d \in rows : M(d).id = d.id /\ M(d).name = d.name /\ M(d).parent = d.parent
  BY <1>2, MovedFields DEF Moved
<1>6. \A d \in rows : d # c /\ Like(d.path, c.path) => Carried(M(d).path, d.path, c.path, new)
  BY <1>2, <1>4, MovedPath
<1>7. Like(c.path, c.path) /\ StartsWith(c.path, c.path)
  BY <1>2 DEF Like, StartsWith
<1> HIDE DEF M
<1>8. row \in result /\ \A d \in rows : d # c => M(d) \in result
  BY <1>5
<1>9. SpellTheTree(result)
  <2> SUFFICES ASSUME NEW x \in result
               PROVE  IF x.parent = Root THEN x.path = <<x.name>>
                      ELSE \E p \in result : p.id = x.parent /\ x.path = Append(p.path, x.name)
    BY DEF SpellTheTree
  <2>1. CASE x = row
    <3>1. CASE row.parent # Root
      <4> PICK p \in rows : /\ p.id = row.parent /\ ~ StartsWith(p.path, c.path)
                            /\ new = Append(p.path, row.name)
        BY <3>1
      <4>1. p # c /\ ~ Like(p.path, c.path)
        BY <1>3, <1>7
      <4>2. p \in result
        BY <1>5, <1>8, <4>1
      <4> QED
        BY <2>1, <3>1, <4>2
    <3> QED
      BY <2>1, <3>1
  <2>2. CASE x # row
    <3> PICK d \in rows : d # c /\ x = M(d)
      BY <1>5, <2>2
    <3> PICK k \in Nat, m \in Nat, n \in Nat : k = Len(c.path) /\ m = Len(d.path) /\ n = Len(new)
      BY <1>2
    <3>0. /\ d.path \in Seq(Names) /\ d.name \in Names /\ m # 0 /\ k # 0
          /\ x.name = d.name /\ x.parent = d.parent /\ x.id = d.id
          /\ Like(d.path, c.path) => m > k /\ Carried(x.path, d.path, c.path, new)
      BY <1>2, <1>3, <1>5, <1>6
    <3>1. CASE d.parent = Root
      <4>1. d.path = <<d.name>>
        BY <3>1 DEF SpellTheTree
      <4>2. m = 1
        BY <4>1
      <4>3. ~ Like(d.path, c.path)
        BY <3>0, <4>2
      <4> QED
        BY <1>5, <3>1, <4>1, <4>3
    <3>2. CASE d.parent # Root
      <4> PICK p \in rows : p.id = d.parent /\ d.path = Append(p.path, d.name)
        BY <3>2 DEF SpellTheTree
      <4>1. /\ Len(d.path) = Len(p.path) + 1 /\ d.path[Len(p.path) + 1] = d.name
            /\ \A i \in 1 .. Len(p.path) : d.path[i] = p.path[i]
        BY <1>2, AppendProperties
      <4>2. CASE ~ Like(d.path, c.path)
        <5>1. ~ Like(p.path, c.path)
          BY <1>2, <4>1, <4>2 DEF Like
        <5>2. p # c /\ p \in result /\ x = d
          BY <1>5, <1>7, <1>8, <4>2, <5>1
        <5> QED
          BY <3>2, <5>2
      <4>3. CASE Like(d.path, c.path) /\ p = c
        <5>1. x.path = Append(new, d.name)
          BY <3>0, <4>3, CarriedFirst
        <5> QED
          BY <1>8, <3>0, <3>2, <4>3, <5>1
      <4>4. CASE Like(d.path, c.path) /\ p # c
        <5>1. m > k /\ Carried(x.path, d.path, c.path, new)
          BY <3>0, <4>4
        <5>2. k <= Len(p.path) /\ \A i \in 1 .. k : p.path[i] = d.path[i]
          BY <1>2, <4>1, <5>1
        <5>3. Like(p.path, c.path)
          BY <4>4, <5>2 DEF Like
        <5>4. Carried(M(p).path, p.path, c.path, new)
          BY <1>6, <4>4, <5>3
        <5>9. x.path = Append(M(p).path, d.name)
          <6>1. Len(c.path) <= Len(p.path) /\ Carried(x.path, Append(p.path, d.name), c.path, new)
            BY <5>1, <5>2
          <6> QED
            BY <1>2, <3>0, <5>4, <6>1, CarriedNext
        <5>10. M(p) \in result /\ M(p).id = p.id
          BY <1>5, <1>8, <4>4
        <5> QED
          BY <3>0, <3>2, <5>9, <5>10
      <4> QED
        BY <4>2, <4>3, <4>4
    <3> QED
      BY <3>1, <3>2
  <2> QED
    BY <2>1, <2>2
<1> QED
  BY <1>1, <1>9

-----------------------------------------------------------------------------
(* The walk: what the cache answers is the slug of the nearest component.  *)

\* Induction over the numbers that are in a set.
LEMMA CountingUp ==
    ASSUME NEW S \in SUBSET Nat, 0 \in S, \A n \in S : n + 1 \in S
    PROVE  S = Nat
<1> SUFFICES ASSUME S # Nat PROVE FALSE
  OBVIOUS
<1>1. Nat \ S # {}
  OBVIOUS
<1>2. PICK n \in Nat \ S : \A m \in Nat \ S : n <= m
  BY <1>1, LeastOf
<1>3. n # 0 /\ n - 1 \in Nat /\ n - 1 \in S
  BY <1>2
<1>4. (n - 1) + 1 \in S
  BY <1>3
<1> QED
  BY <1>2, <1>4

\* The slugs found within n hops from each component, by those found within one hop less.
Entry(map, i) == CHOOSE e \in map : e.id = i
Hop(map, walk, n) ==
    [i \in Parents |-> IF n = 0 \/ \A e \in map : e.id # i THEN NoSlug
                       ELSE IF Entry(map, i).slug # NoSlug THEN Entry(map, i).slug
                       ELSE walk[n - 1][Entry(map, i).parent]]
Walking(map) == CHOOSE walk : walk = [n \in 0 .. MaxDepth |-> Hop(map, walk, n)]

LEMMA WalkIs == ASSUME NEW map, NEW id PROVE WalkSlug(map, id) = Walking(map)[MaxDepth][id]
BY DEF WalkSlug, Walking, Hop, Entry

LEMMA HopsAgree ==
    ASSUME NEW map, NEW v, NEW w, NEW n, n # 0 => v[n - 1] = w[n - 1]
    PROVE  Hop(map, v, n) = Hop(map, w, n)
BY DEF Hop

\* There is a function as the recursive definition of the walk describes it.
LEMMA WalkDefined ==
    ASSUME NEW map
    PROVE  Walking(map) = [n \in 0 .. MaxDepth |-> Hop(map, Walking(map), n)]
<1> DEFINE Walks(w, m) == w = [n \in 0 .. m |-> Hop(map, w, n)]
           P == {m \in Nat : \E w : Walks(w, m)}
<1>1. 0 \in P
  <2> PICK w : w = [n \in 0 .. 0 |-> Hop(map, <<>>, n)]
    OBVIOUS
  <2>1. \A n \in 0 .. 0 : Hop(map, w, n) = Hop(map, <<>>, n)
    BY HopsAgree
  <2>2. w = [n \in 0 .. 0 |-> Hop(map, w, n)]
    BY <2>1
  <2> QED
    BY <2>2
<1>2. ASSUME NEW m \in P PROVE m + 1 \in P
  <2> PICK v : Walks(v, m)
    OBVIOUS
  <2> PICK w : w = [n \in 0 .. m + 1 |-> Hop(map, v, n)]
    OBVIOUS
  <2>1. ASSUME NEW n \in 0 .. m + 1 PROVE Hop(map, w, n) = Hop(map, v, n)
    <3>1. CASE n = 0
      BY <3>1, HopsAgree
    <3>2. CASE n # 0
      <4>1. n - 1 \in 0 .. m /\ n - 1 \in 0 .. m + 1
        BY <3>2
      <4>2. v[n - 1] = w[n - 1]
        BY <4>1
      <4> QED
        BY <4>2, HopsAgree
    <3> QED
      BY <3>1, <3>2
  <2>2. w = [n \in 0 .. m + 1 |-> Hop(map, w, n)]
    BY <2>1
  <2>3. m + 1 \in Nat
    <3> m \in Nat
      OBVIOUS
    <3> HIDE DEF Walks
    <3> QED
      OBVIOUS
  <2>4. Walks(w, m + 1)
    BY <2>2
  <2> HIDE DEF Walks
  <2> QED
    BY <2>3, <2>4
<1>3. P = Nat
  <2> HIDE DEF P
  <2>1. P \in SUBSET Nat
    BY DEF P
  <2> QED
    BY <1>1, <1>2, <2>1, CountingUp
<1>4. \E w : Walks(w, MaxDepth)
  BY <1>3, TreeAssumption
<1> QED
  BY <1>4 DEF Walking

LEMMA WalkHops ==
    ASSUME NEW map, NEW n \in 0 .. MaxDepth
    PROVE  Walking(map)[n] = Hop(map, Walking(map), n)
BY WalkDefined, Zenon

\* A walk yields a slug or none.
LEMMA WalkTyped ==
    ASSUME NEW map \in SUBSET CachedComponent, NEW id \in Parents
    PROVE  WalkSlug(map, id) \in Slugs \cup {NoSlug}
<1> DEFINE P == {m \in Nat : m <= MaxDepth =>
                    \A i \in Parents : Walking(map)[m][i] \in Slugs \cup {NoSlug}}
<1>0. MaxDepth \in Nat
  BY TreeAssumption
<1>1. \A i \in Parents : (\E e \in map : e.id = i) =>
         /\ Entry(map, i) \in map /\ Entry(map, i).slug \in Slugs \cup {NoSlug}
         /\ Entry(map, i).parent \in Parents
  BY DEF Entry, CachedComponent
<1>2. 0 \in P
  <2>1. Walking(map)[0] = Hop(map, Walking(map), 0)
    BY <1>0, WalkHops
  <2>2. \A i \in Parents : Walking(map)[0][i] = NoSlug
    BY <2>1 DEF Hop
  <2> QED
    BY <2>2
<1>3. ASSUME NEW m \in P PROVE m + 1 \in P
  <2> SUFFICES ASSUME m + 1 <= MaxDepth, NEW i \in Parents
               PROVE  Walking(map)[m + 1][i] \in Slugs \cup {NoSlug}
    OBVIOUS
  <2>1. m + 1 \in 0 .. MaxDepth /\ m + 1 # 0 /\ (m + 1) - 1 = m /\ m <= MaxDepth
    BY <1>0
  <2>2. Walking(map)[m + 1] = Hop(map, Walking(map), m + 1)
    BY <2>1, WalkHops
  <2>3. \A j \in Parents : Walking(map)[m][j] \in Slugs \cup {NoSlug}
    BY <2>1
  <2>4. Walking(map)[m + 1][i] =
           IF m + 1 = 0 \/ \A e \in map : e.id # i THEN NoSlug
           ELSE IF Entry(map, i).slug # NoSlug THEN Entry(map, i).slug
           ELSE Walking(map)[(m + 1) - 1][Entry(map, i).parent]
    BY <2>2 DEF Hop
  <2> QED
    BY <1>1, <2>1, <2>3, <2>4
<1>4. P = Nat
  <2> HIDE DEF P
  <2>1. P \in SUBSET Nat
    BY DEF P
  <2> QED
    BY <1>2, <1>3, <2>1, CountingUp
<1> QED
  BY <1>0, <1>4, WalkIs

\* The components with a slug on the way up from a path, less than n away.
Above(rows, path, n) ==
    {c \in rows : c.slug # NoSlug /\ StartsWith(path, c.path) /\ Len(path) - Len(c.path) < n}

SlugOfDeepest(above) ==
    IF above = {} THEN NoSlug
    ELSE (CHOOSE c \in above : \A d \in above : Len(d.path) <= Len(c.path)).slug

NearestWithin(rows, path, n) == SlugOfDeepest(Above(rows, path, n))

LEMMA NearestIs ==
    ASSUME NEW rows, NEW path PROVE Nearest(rows, path) = NearestWithin(rows, path, MaxDepth)
BY DEF Nearest, NearestWithin, SlugOfDeepest, Above

LEMMA SnapshotEntry ==
    ASSUME NEW rows, UniqueIds(rows), NEW c \in rows
    PROVE  /\ \E e \in Snapshot(rows) : e.id = c.id
           /\ Entry(Snapshot(rows), c.id) = [id |-> c.id, parent |-> c.parent, slug |-> c.slug]
<1> PICK f : f = [id |-> c.id, parent |-> c.parent, slug |-> c.slug]
  OBVIOUS
<1>1. f \in Snapshot(rows) /\ f.id = c.id
  BY DEF Snapshot
<1>2. \A e \in Snapshot(rows) : e.id = c.id => e = f
  BY DEF Snapshot, UniqueIds
<1> QED
  BY <1>1, <1>2 DEF Entry

\* Of two components, one on the other's way up is shorter.
LEMMA OnTheWayUp ==
    ASSUME NEW rows \in SUBSET Component, Accepted(rows), SpellTheTree(rows),
           NEW c \in rows, NEW d \in rows, StartsWith(c.path, d.path), d # c
    PROVE  Len(d.path) < Len(c.path)
<1>1. /\ c.path \in Seq(Names) /\ d.path \in Seq(Names)
      /\ Len(c.path) \in Nat /\ Len(d.path) \in Nat
  BY PathsAre
<1>2. Len(d.path) <= Len(c.path) /\ \A i \in 1 .. Len(d.path) : c.path[i] = d.path[i]
  BY DEF StartsWith
<1>3. c.path # d.path
  BY DEF Accepted
<1>4. Len(d.path) # Len(c.path)
  BY <1>1, <1>2, <1>3, SeqEqual
<1> QED
  BY <1>1, <1>2, <1>4

LEMMA Distances ==
    \A a, b, m \in Nat :
       /\ a <= b => ~ (b - a < 0)
       /\ a < b + 1 /\ (b + 1) - a < m + 1 => a <= b /\ b - a < m
       /\ a <= b /\ b - a < m => a <= b + 1 /\ (b + 1) - a < m + 1
OBVIOUS

LEMMA WalkFinds ==
    ASSUME NEW rows \in SUBSET Component, UniqueIds(rows), Accepted(rows), SpellTheTree(rows),
           NEW c \in rows
    PROVE  WalkSlug(Snapshot(rows), c.id) = Nearest(rows, c.path)
<1> DEFINE map == Snapshot(rows)
           P == {m \in Nat : m <= MaxDepth => \A d \in rows :
                    Walking(map)[m][d.id] = NearestWithin(rows, d.path, m)}
<1>0. MaxDepth \in Nat
  BY TreeAssumption
<1>1. \A d \in rows : /\ d.path \in Seq(Names) /\ Len(d.path) \in Nat \ {0}
                      /\ d.id \in Parents /\ d.id # Root /\ d.parent \in Parents
  <2>1. \A d \in rows : d.id \in Ids /\ d.parent \in Parents
    BY DEF Component
  <2> QED
    BY <2>1, PathsAre, TreeAssumption DEF Parents, Root
<1>2. \A d \in rows : /\ \E e \in map : e.id = d.id
                      /\ Entry(map, d.id).slug = d.slug /\ Entry(map, d.id).parent = d.parent
  <2> TAKE d \in rows
  <2> PICK e : e = [id |-> d.id, parent |-> d.parent, slug |-> d.slug]
    OBVIOUS
  <2>1. Entry(map, d.id) = e /\ \E x \in map : x.id = d.id
    BY SnapshotEntry
  <2> QED
    BY <2>1
<1>3. \A e \in map : e.id # Root
  BY <1>1 DEF Snapshot
<1>4. \A d \in rows : StartsWith(d.path, d.path)
  BY <1>1 DEF StartsWith
<1> HIDE DEF map
<1>5. 0 \in P
  <2>1. Walking(map)[0] = Hop(map, Walking(map), 0)
    BY <1>0, WalkHops
  <2>2. \A d \in rows : Walking(map)[0][d.id] = NoSlug
    BY <1>1, <2>1 DEF Hop
  <2>3. ASSUME NEW d \in rows PROVE Above(rows, d.path, 0) = {}
    <3> SUFFICES ASSUME NEW e \in Above(rows, d.path, 0) PROVE FALSE
      OBVIOUS
    <3>1. e \in rows /\ Len(e.path) <= Len(d.path) /\ Len(d.path) - Len(e.path) < 0
      BY DEF Above, StartsWith
    <3>2. Len(e.path) \in Nat /\ Len(d.path) \in Nat
      BY <1>1, <3>1
    <3> QED
      BY <3>1, <3>2, Distances, Zenon
  <2> QED
    BY <2>2, <2>3 DEF NearestWithin, SlugOfDeepest
<1>6. ASSUME NEW m \in P PROVE m + 1 \in P
  <2> SUFFICES ASSUME m + 1 <= MaxDepth, NEW d \in rows
               PROVE  Walking(map)[m + 1][d.id] = NearestWithin(rows, d.path, m + 1)
    OBVIOUS
  <2>1. /\ m + 1 \in 0 .. MaxDepth /\ m \in 0 .. MaxDepth /\ m + 1 # 0 /\ (m + 1) - 1 = m
        /\ m <= MaxDepth
    BY <1>0
  <2>2. \A e \in rows : Walking(map)[m][e.id] = NearestWithin(rows, e.path, m)
    BY <2>1
  <2>3. Walking(map)[m + 1] = Hop(map, Walking(map), m + 1)
    BY <2>1, WalkHops
  <2>4. Walking(map)[m + 1][d.id] = IF d.slug # NoSlug THEN d.slug ELSE Walking(map)[m][d.parent]
    BY <1>1, <1>2, <2>1, <2>3 DEF Hop
  <2>5. CASE d.slug # NoSlug
    <3> DEFINE near == Above(rows, d.path, m + 1)
    <3>1. d \in near
      BY <1>1, <1>4, <2>5 DEF Above
    <3>2. \A e \in near : e # d => Len(e.path) < Len(d.path)
      BY OnTheWayUp DEF Above
    <3>3. \A e \in near : Len(e.path) \in Nat /\ Len(d.path) \in Nat
      BY <1>1 DEF Above
    <3> HIDE DEF near
    <3>4. \A e \in near : Len(e.path) <= Len(d.path)
      BY <3>2, <3>3
    <3>5. \A e \in near : (\A x \in near : Len(x.path) <= Len(e.path)) => e = d
      BY <3>1, <3>2, <3>3
    <3>6. (CHOOSE e \in near : \A x \in near : Len(x.path) <= Len(e.path)) = d
      BY <3>1, <3>4, <3>5
    <3>7. NearestWithin(rows, d.path, m + 1) = d.slug
      BY <3>1, <3>6 DEF NearestWithin, SlugOfDeepest, near
    <3> QED
      BY <2>4, <2>5, <3>7
  <2>6. CASE d.slug = NoSlug /\ d.parent = Root
    <3>1. Walking(map)[m] = Hop(map, Walking(map), m)
      BY <2>1, WalkHops
    <3>2. Walking(map)[m][Root] = NoSlug
      BY <1>3, <3>1 DEF Hop, Parents
    <3>3. Len(d.path) = 1
      <4>1. d.path = <<d.name>>
        BY <2>6 DEF SpellTheTree
      <4> QED
        BY <4>1
    <3>4. Above(rows, d.path, m + 1) = {}
      <4> SUFFICES ASSUME NEW e \in Above(rows, d.path, m + 1) PROVE FALSE
        OBVIOUS
      <4>1. e \in rows /\ e # d /\ StartsWith(d.path, e.path)
        BY <2>6 DEF Above
      <4>2. Len(e.path) < Len(d.path)
        BY <4>1, OnTheWayUp
      <4> QED
        BY <1>1, <3>3, <4>1, <4>2
    <3> QED
      BY <2>4, <2>6, <3>2, <3>4 DEF NearestWithin, SlugOfDeepest
  <2>7. CASE d.slug = NoSlug /\ d.parent # Root
    <3> PICK p \in rows : p.id = d.parent /\ d.path = Append(p.path, d.name)
      BY <2>7 DEF SpellTheTree
    <3>1. d.name \in Names
      BY PathsAre
    <3>2. Len(d.path) = Len(p.path) + 1 /\ \A i \in 1 .. Len(p.path) : d.path[i] = p.path[i]
      BY <1>1, <3>1, AppendProperties
    <3>3. ASSUME NEW e \in Above(rows, d.path, m + 1) PROVE e \in Above(rows, p.path, m)
      <4>1. e \in rows /\ e.slug # NoSlug /\ StartsWith(d.path, e.path)
            /\ Len(d.path) - Len(e.path) < m + 1
        BY <3>3 DEF Above
      <4>2. Len(e.path) < Len(d.path)
        BY <2>7, <4>1, OnTheWayUp
      <4>0. Len(e.path) \in Nat /\ Len(d.path) \in Nat /\ Len(p.path) \in Nat /\ m \in Nat
        BY <1>1, <4>1
      <4>3. Len(e.path) <= Len(p.path) /\ Len(p.path) - Len(e.path) < m
        <5>1. Len(e.path) < Len(p.path) + 1 /\ (Len(p.path) + 1) - Len(e.path) < m + 1
          BY <3>2, <4>1, <4>2, Zenon
        <5> QED
          BY <4>0, <5>1, Distances, Zenon
      <4>4. StartsWith(p.path, e.path)
        BY <1>1, <3>2, <4>1, <4>3 DEF StartsWith
      <4> QED
        BY <4>1, <4>3, <4>4 DEF Above
    <3>4. ASSUME NEW e \in Above(rows, p.path, m) PROVE e \in Above(rows, d.path, m + 1)
      <4>1. e \in rows /\ e.slug # NoSlug /\ StartsWith(p.path, e.path)
            /\ Len(p.path) - Len(e.path) < m
        BY <3>4 DEF Above
      <4>0. /\ Len(e.path) \in Nat /\ Len(d.path) \in Nat /\ Len(p.path) \in Nat /\ m \in Nat
            /\ Len(e.path) <= Len(p.path)
        BY <1>1, <4>1 DEF StartsWith
      <4>2. Len(e.path) <= Len(d.path) /\ Len(d.path) - Len(e.path) < m + 1
        <5>1. Len(e.path) <= Len(p.path) + 1 /\ (Len(p.path) + 1) - Len(e.path) < m + 1
          BY <4>0, <4>1, Distances, Zenon
        <5> QED
          BY <3>2, <5>1, Zenon
      <4>3. StartsWith(d.path, e.path)
        BY <1>1, <3>2, <4>1, <4>2 DEF StartsWith
      <4> QED
        BY <4>1, <4>2, <4>3 DEF Above
    <3>5. Above(rows, d.path, m + 1) = Above(rows, p.path, m)
      BY <3>3, <3>4
    <3>6. NearestWithin(rows, d.path, m + 1) = NearestWithin(rows, p.path, m)
      BY <3>5 DEF NearestWithin
    <3> QED
      BY <2>2, <2>4, <2>7, <3>6
  <2> QED
    BY <2>5, <2>6, <2>7
<1>7. P = Nat
  <2> HIDE DEF P
  <2>1. P \in SUBSET Nat
    BY DEF P
  <2> QED
    BY <1>5, <1>6, <2>1, CountingUp
<1>8. Walking(map)[MaxDepth][c.id] = NearestWithin(rows, c.path, MaxDepth)
  BY <1>0, <1>7
<1> QED
  BY <1>8, WalkIs, NearestIs DEF map

-----------------------------------------------------------------------------
(* The types, and what the constraints of the table keep true of its rows. *)

RowsInv ==
    /\ components \subseteq Component /\ \A c \in components : ValidateSlug(c.slug)
    /\ IsFiniteSet(components) /\ UniqueIds(components) /\ Accepted(components)

\* The handlers that may still insert: each of them, and each mutation, had its request.
Inserting(rs) == {r \in rs : r.pc = "insert"}

CountsInv ==
    /\ began \in 0 .. MaxRequests /\ version \in Nat
    /\ IsFiniteSet(requests) /\ version + Cardinality(Inserting(requests)) <= began

VarsTyped ==
    /\ cache \subseteq CachedComponent /\ caching \in BOOLEAN /\ faults \in 0 .. MaxFaults
    /\ cached \in Versions /\ told \in Versions /\ crossed \in BOOLEAN

RequestsTyped ==
    /\ requests \subseteq Request
    /\ \A r \in requests : r.pc = "insert" => ValidateSlug(r.slug)

TypesInv == RowsInv /\ RequestsTyped /\ CountsInv /\ VarsTyped

LEMMA TypesAre == TypesInv => TypeOK
<1> SUFFICES ASSUME TypesInv PROVE TypeOK
  OBVIOUS
<1>1. IsFiniteSet(Inserting(requests))
  BY FS_Subset DEF TypesInv, CountsInv, Inserting
<1>2. Cardinality(Inserting(requests)) \in Nat
  BY <1>1, FS_CardinalityType
<1>3. version \in Versions
  BY <1>2, TreeAssumption DEF TypesInv, CountsInv, Versions
<1> QED
  BY <1>3 DEF TypeOK, TypesInv, RowsInv, RequestsTyped, CountsInv, VarsTyped

LEMMA RequestFields ==
    ASSUME NEW r \in Request
    PROVE  /\ r.n \in 1 .. MaxRequests
           /\ r.pc = "insert" => /\ r.name \in Names /\ r.parent \in Parents
                                 /\ r.slug \in Slugs \cup {NoSlug} /\ r.path \in Seq(Names)
           /\ r.pc \in {"reread", "load", "resolve"} =>
                 /\ r \in [n : 1 .. MaxRequests, pc : {"reread", "load", "resolve"}, id : Parents,
                           wrote : Versions]
                 /\ r.id \in Parents /\ r.wrote \in Versions
           /\ r.pc = "install" => /\ r.id \in Parents /\ r.wrote \in Versions /\ r.of \in Versions
                                  /\ r.map \in SUBSET CachedComponent
           /\ r.pc = "list" => /\ r.rows \in Seq(Component) /\ r.since \in Versions
                               /\ r.items \in Seq([row : Component, calm : BOOLEAN,
                                                   effective_slug : Slugs \cup {NoSlug}])
           /\ r.pc = "enrich" => r.rows \in SUBSET Component /\ r.since \in Versions
           /\ r.pc = "page" => r.rows \in SUBSET Component
BY DEF Request

LEMMA FewerInserting ==
    ASSUME NEW S, IsFiniteSet(S), NEW q, q.pc # "insert", NEW T \in SUBSET (S \cup {q})
    PROVE  /\ IsFiniteSet(T)
           /\ Cardinality(Inserting(T)) \in Nat /\ Cardinality(Inserting(S)) \in Nat
           /\ Cardinality(Inserting(T)) <= Cardinality(Inserting(S))
<1>1. IsFiniteSet(T)
  <2>1. IsFiniteSet(S \cup {q})
    BY FS_AddElement
  <2> QED
    BY <2>1, FS_Subset
<1>2. IsFiniteSet(Inserting(S))
  BY FS_Subset DEF Inserting
<1>3. Inserting(T) \in SUBSET Inserting(S)
  BY DEF Inserting
<1>4. IsFiniteSet(Inserting(T)) /\ Cardinality(Inserting(T)) <= Cardinality(Inserting(S))
  BY <1>2, <1>3, FS_Subset
<1> QED
  BY <1>1, <1>2, <1>4, FS_CardinalityType

LEMMA OneMoreInserting ==
    ASSUME NEW S, IsFiniteSet(S), NEW q
    PROVE  /\ IsFiniteSet(S \cup {q})
           /\ Cardinality(Inserting(S \cup {q})) \in Nat /\ Cardinality(Inserting(S)) \in Nat
           /\ Cardinality(Inserting(S \cup {q})) <= Cardinality(Inserting(S)) + 1
<1>1. IsFiniteSet(S \cup {q})
  BY FS_AddElement
<1>2. IsFiniteSet(Inserting(S))
  BY FS_Subset DEF Inserting
<1>3. IsFiniteSet(Inserting(S) \cup {q})
  BY <1>2, FS_AddElement
<1>4. Inserting(S \cup {q}) \in SUBSET (Inserting(S) \cup {q})
  BY DEF Inserting
<1>5. Cardinality(Inserting(S) \cup {q}) <= Cardinality(Inserting(S)) + 1
  <2>1. Cardinality(Inserting(S)) \in Nat
    BY <1>2, FS_CardinalityType
  <2>2. Cardinality(Inserting(S) \cup {q}) \in {Cardinality(Inserting(S)), Cardinality(Inserting(S)) + 1}
    BY <1>2, FS_AddElement
  <2> QED
    BY <2>1, <2>2
<1>6. /\ IsFiniteSet(Inserting(S \cup {q}))
      /\ Cardinality(Inserting(S \cup {q})) <= Cardinality(Inserting(S) \cup {q})
  BY <1>3, <1>4, FS_Subset
<1>7. /\ Cardinality(Inserting(S \cup {q})) \in Nat /\ Cardinality(Inserting(S)) \in Nat
      /\ Cardinality(Inserting(S) \cup {q}) \in Nat
  BY <1>2, <1>3, <1>6, FS_CardinalityType
<1> QED
  BY <1>1, <1>5, <1>6, <1>7

LEMMA OneLessInserting ==
    ASSUME NEW S, IsFiniteSet(S), NEW r \in S, r.pc = "insert", NEW q, q.pc # "insert"
    PROVE  /\ IsFiniteSet((S \ {r}) \cup {q})
           /\ Cardinality(Inserting((S \ {r}) \cup {q})) \in Nat
           /\ Cardinality(Inserting(S)) = Cardinality(Inserting((S \ {r}) \cup {q})) + 1
<1>1. IsFiniteSet((S \ {r}) \cup {q})
  BY FS_RemoveElement, FS_AddElement
<1>2. IsFiniteSet(Inserting(S)) /\ r \in Inserting(S)
  BY FS_Subset DEF Inserting
<1>3. Inserting((S \ {r}) \cup {q}) = Inserting(S) \ {r}
  BY DEF Inserting
<1>4. /\ IsFiniteSet(Inserting(S) \ {r})
      /\ Cardinality(Inserting(S) \ {r}) = Cardinality(Inserting(S)) - 1
  BY <1>2, FS_RemoveElement
<1>5. Cardinality(Inserting(S)) \in Nat /\ Cardinality(Inserting(S) \ {r}) \in Nat
  BY <1>2, <1>4, FS_CardinalityType
<1> QED
  BY <1>1, <1>3, <1>4, <1>5

\* A handler's step that is no mutation.
LEMMA CountsHandle ==
    ASSUME CountsInv, NEW q, q.pc # "insert", requests' \subseteq requests \cup {q},
           version' = version, began' \in {began, began + 1}, began' \in 0 .. MaxRequests
    PROVE  CountsInv'
<1>1. requests' \in SUBSET (requests \cup {q}) /\ IsFiniteSet(requests)
  BY DEF CountsInv
<1>2. /\ IsFiniteSet(requests')
      /\ Cardinality(Inserting(requests')) \in Nat /\ Cardinality(Inserting(requests)) \in Nat
      /\ Cardinality(Inserting(requests')) <= Cardinality(Inserting(requests))
  BY <1>1, FewerInserting
<1>3. version \in Nat /\ began \in Nat /\ version + Cardinality(Inserting(requests)) <= began
  BY DEF CountsInv
<1>4. began' \in Nat /\ began <= began'
  BY <1>3
<1>5. version + Cardinality(Inserting(requests')) <= began'
  BY <1>2, <1>3, <1>4
<1> QED
  BY <1>2, <1>3, <1>5 DEF CountsInv

LEMMA RowFound ==
    ASSUME NEW id, Exists(id) PROVE Row(id) \in components /\ Row(id).id = id
BY DEF Exists, Row

\* What an update does to the table.
Updated(c, name, parent, slug, new, row) ==
    /\ row.id = c.id /\ row.path = new /\ row.parent = parent /\ row.name = name
    /\ row.slug = slug /\ ValidateSlug(slug)
    /\ parent = Root => new = <<name>>
    /\ parent # Root => \E p \in components : /\ p.id = parent /\ new = Append(p.path, name)
                                              /\ ~ StartsWith(p.path, c.path)
    /\ components' = IF new = c.path THEN (components \ {c}) \cup {row}
                     ELSE Cascade((components \ {c}) \cup {row}, c.id, c.path, new)
    /\ Accepted(components')

LEMMA UpdateParts ==
    ASSUME RowsInv, NEW c \in components, NEW name \in Names, NEW parent \in Parents,
           NEW slug \in Slugs \cup {NoSlug}, Update(c, name, parent, slug)
    PROVE  \E new \in Seq(Names), row \in Component : Updated(c, name, parent, slug, new, row)
<1> PICK new : new = IF parent = Root THEN <<name>> ELSE Append(Row(parent).path, name)
  OBVIOUS
<1> PICK row : row = [c EXCEPT !.name = name, !.parent = parent, !.path = new, !.slug = slug]
  OBVIOUS
<1> PICK set : set = (components \ {c}) \cup {row}
  OBVIOUS
<1>1. /\ components' = IF new = c.path THEN set ELSE Cascade(set, c.id, c.path, new)
      /\ Accepted(IF new = c.path THEN set ELSE Cascade(set, c.id, c.path, new))
      /\ ValidateSlug(slug) /\ (parent # Root => Exists(parent) /\ ~ Circular(c, parent))
  BY Zenon DEF Update
<1>2. parent # Root => \E p \in components : /\ p.id = parent /\ new = Append(p.path, name)
                                             /\ ~ StartsWith(p.path, c.path)
  BY <1>1, RowFound DEF Circular
<1>3. parent = Root => new = <<name>>
  OBVIOUS
<1>4. c \in Component /\ \A p \in components : p.path \in Seq(Names)
  BY DEF RowsInv, Component
<1>5. new \in Seq(Names)
  <2>1. CASE parent = Root
    BY <1>3, <2>1
  <2>2. CASE parent # Root
    BY <1>2, <1>4, <2>2, AppendProperties
  <2> QED
    BY <2>1, <2>2
<1>6. /\ row \in Component /\ row.id = c.id /\ row.path = new /\ row.parent = parent
      /\ row.name = name /\ row.slug = slug
  BY <1>4, <1>5 DEF Component
<1>7. Accepted(components')
  BY <1>1
<1>8. Updated(c, name, parent, slug, new, row)
  BY <1>1, <1>2, <1>3, <1>6, <1>7 DEF Updated
<1> QED
  BY <1>5, <1>6, <1>8

LEMMA CascadeFinite ==
    ASSUME NEW rows, IsFiniteSet(rows), NEW id, NEW old, NEW new
    PROVE  IsFiniteSet(Cascade(rows, id, old, new))
<1> DEFINE M(d) == Moved(d, id, old, new)
           result == {M(d) : d \in rows}
           f == [d \in rows |-> M(d)]
<1>1. f \in Surjection(rows, result)
  BY DEF Surjection
<1> HIDE DEF result, f
<1>2. IsFiniteSet(result)
  BY <1>1, FS_Surjection
<1> QED
  BY <1>2, CascadeMoves DEF result

LEMMA RowsUpdate ==
    ASSUME RowsInv, NEW c \in components, NEW name \in Names, NEW parent \in Parents,
           NEW slug \in Slugs \cup {NoSlug}, Update(c, name, parent, slug)
    PROVE  RowsInv'
<1>0. PICK new \in Seq(Names), row \in Component : Updated(c, name, parent, slug, new, row)
  BY UpdateParts
<1>5. /\ row.id = c.id /\ row.slug = slug /\ ValidateSlug(slug)
      /\ components' = IF new = c.path THEN (components \ {c}) \cup {row}
                       ELSE Cascade((components \ {c}) \cup {row}, c.id, c.path, new)
      /\ Accepted(components')
  BY <1>0, Zenon DEF Updated
<1> DEFINE set == (components \ {c}) \cup {row}
           M(d) == Moved(d, c.id, c.path, new)
<1>1. /\ set \subseteq Component /\ UniqueIds(set) /\ \A d \in set : ValidateSlug(d.slug)
  BY <1>5 DEF RowsInv, UniqueIds
<1>2. IsFiniteSet(set)
  BY FS_RemoveElement, FS_AddElement DEF RowsInv
<1>3. CASE components' = set
  BY <1>1, <1>2, <1>3, <1>5 DEF RowsInv
<1>4. CASE components' = Cascade(set, c.id, c.path, new)
  <2>1. components' = {M(d) : d \in set}
    BY <1>4, CascadeMoves
  <2>2. c.path \in Seq(Names)
    BY DEF RowsInv, Component
  <2>3. \A d \in set : M(d) \in Component /\ M(d).id = d.id /\ M(d).slug = d.slug
    BY <1>1, <2>2, MovedFields
  <2>4. IsFiniteSet(components')
    BY <1>2, <1>4, CascadeFinite
  <2> HIDE DEF M, set
  <2>5. UniqueIds(components')
    <3> SUFFICES ASSUME NEW x \in components', NEW y \in components', x.id = y.id PROVE x = y
      BY DEF UniqueIds
    <3>1. PICK d \in set : x = M(d)
      BY <2>1
    <3>2. PICK e \in set : y = M(e)
      BY <2>1
    <3>3. d = e
      BY <1>1, <2>3, <3>1, <3>2 DEF UniqueIds
    <3> QED
      BY <3>1, <3>2, <3>3
  <2> QED
    BY <1>1, <1>5, <2>1, <2>3, <2>4, <2>5 DEF RowsInv
<1> QED
  BY <1>3, <1>4, <1>5

LEMMA RowsInsert ==
    ASSUME RowsInv, NEW row \in Component, ValidateSlug(row.slug), IsNextRowid(components, row.id),
           Accepted(components \cup {row}), components' = components \cup {row}
    PROVE  RowsInv'
<1>1. \A d \in components : d.id # row.id
  <2>1. \A d \in components : d.id \in Nat
    BY TreeAssumption DEF RowsInv, Component
  <2> QED
    BY <2>1 DEF IsNextRowid
<1>2. UniqueIds(components')
  BY <1>1 DEF RowsInv, UniqueIds
<1>3. IsFiniteSet(components')
  BY FS_AddElement DEF RowsInv
<1> QED
  BY <1>2, <1>3 DEF RowsInv

LEMMA TypesHandle ==
    ASSUME TypesInv, NEW q \in Request, q.pc # "insert", requests' \subseteq requests \cup {q},
           UNCHANGED <<components, version>>, began' \in {began, began + 1},
           began' \in 0 .. MaxRequests, VarsTyped'
    PROVE  TypesInv'
<1>1. CountsInv'
  BY CountsHandle DEF TypesInv
<1>2. RequestsTyped'
  BY DEF TypesInv, RequestsTyped
<1> QED
  BY <1>1, <1>2 DEF TypesInv, RowsInv

\* A handler whose request ends is one that becomes any other.
LEMMA TypesEnd ==
    ASSUME TypesInv, requests' \subseteq requests, UNCHANGED <<components, version, began>>, VarsTyped'
    PROVE  TypesInv'
<1>1. began \in 0 .. MaxRequests /\ IsFiniteSet(requests) /\ version \in Nat
  BY DEF TypesInv, CountsInv
<1> PICK q : q = [pc |-> "ended"]
  OBVIOUS
<1>2. CountsInv'
  <2>1. q.pc # "insert" /\ requests' \subseteq requests \cup {q}
    OBVIOUS
  <2>2. began' \in {began, began + 1} /\ began' \in 0 .. MaxRequests /\ version' = version
    BY <1>1
  <2>3. CountsInv
    BY DEF TypesInv
  <2> QED
    BY <2>1, <2>2, <2>3, CountsHandle
<1>3. RequestsTyped'
  BY DEF TypesInv, RequestsTyped
<1> QED
  BY <1>2, <1>3 DEF TypesInv, RowsInv

LEMMA MayBegin ==
    ASSUME TypesInv, Begin PROVE began' = began + 1 /\ began' \in 0 .. MaxRequests
                                 /\ began' \in 1 .. MaxRequests
BY TreeAssumption DEF TypesInv, CountsInv, Begin

LEMMA TypesReadParent ==
    ASSUME TypesInv, NEW name \in Names, NEW parent \in Parents, NEW slug \in Slugs \cup {NoSlug},
           ReadParent(name, parent, slug)
    PROVE  TypesInv'
<1> PICK path : path = IF parent = Root THEN <<name>> ELSE Append(Row(parent).path, name)
  OBVIOUS
<1> PICK q : q = [n |-> began', pc |-> "insert", name |-> name, parent |-> parent, slug |-> slug,
                  path |-> path]
  OBVIOUS
<1>1. /\ requests' = requests \cup {q} /\ ValidateSlug(slug) /\ (parent # Root => Exists(parent))
      /\ UNCHANGED <<caching, components, cache, faults, version, cached, told, crossed>>
      /\ Begin
  BY DEF ReadParent
<1>2. began' = began + 1 /\ began' \in 0 .. MaxRequests /\ began' \in 1 .. MaxRequests
  BY <1>1, MayBegin
<1>3. path \in Seq(Names)
  <2>1. CASE parent = Root
    BY <2>1
  <2>2. CASE parent # Root
    <3>1. Row(parent).path \in Seq(Names)
      BY <1>1, <2>2, RowFound DEF TypesInv, RowsInv, Component
    <3> QED
      BY <2>2, <3>1, AppendProperties
  <2> QED
    BY <2>1, <2>2
<1>4. q \in Request
  BY <1>2, <1>3 DEF Request
<1>5. RequestsTyped'
  <2>1. q.slug = slug
    OBVIOUS
  <2>2. requests \subseteq Request /\ \A r \in requests : r.pc = "insert" => ValidateSlug(r.slug)
    BY DEF TypesInv, RequestsTyped
  <2> QED
    BY <1>1, <1>4, <2>1, <2>2, Zenon DEF RequestsTyped
<1>6. CountsInv'
  <2>1. /\ IsFiniteSet(requests) /\ version \in Nat /\ began \in Nat
        /\ version + Cardinality(Inserting(requests)) <= began
    BY DEF TypesInv, CountsInv
  <2>2. /\ IsFiniteSet(requests')
        /\ Cardinality(Inserting(requests')) \in Nat /\ Cardinality(Inserting(requests)) \in Nat
        /\ Cardinality(Inserting(requests')) <= Cardinality(Inserting(requests)) + 1
    BY <1>1, <2>1, OneMoreInserting
  <2>3. version + Cardinality(Inserting(requests')) <= began + 1
    BY <2>1, <2>2
  <2> QED
    BY <1>1, <1>2, <2>1, <2>2, <2>3 DEF CountsInv
<1>7. RowsInv' /\ VarsTyped'
  BY <1>1 DEF TypesInv, RowsInv, VarsTyped
<1> QED
  BY <1>5, <1>6, <1>7 DEF TypesInv

\* Every mutation had a request of its own.
LEMMA CountsInsert ==
    ASSUME CountsInv, NEW r \in requests, r.pc = "insert", NEW q, q.pc # "insert",
           requests' = (requests \ {r}) \cup {q}, version' = version + 1, began' = began
    PROVE  CountsInv'
<1>1. /\ IsFiniteSet(requests) /\ version \in Nat /\ began \in Nat
      /\ version + Cardinality(Inserting(requests)) <= began
  BY DEF CountsInv
<1>2. /\ IsFiniteSet(requests') /\ Cardinality(Inserting(requests')) \in Nat
      /\ Cardinality(Inserting(requests)) = Cardinality(Inserting(requests')) + 1
  BY <1>1, OneLessInserting
<1>3. (version + 1) + Cardinality(Inserting(requests')) <= began
  BY <1>1, <1>2
<1> QED
  BY <1>1, <1>2, <1>3 DEF CountsInv

LEMMA CountsMutate ==
    ASSUME CountsInv, NEW q, q.pc # "insert", requests' = requests \cup {q},
           version' = version + 1, began' = began + 1, began' \in 0 .. MaxRequests
    PROVE  CountsInv'
<1>1. /\ IsFiniteSet(requests) /\ version \in Nat /\ began \in Nat
      /\ version + Cardinality(Inserting(requests)) <= began
  BY DEF CountsInv
<1>2. requests' \in SUBSET (requests \cup {q})
  OBVIOUS
<1>3. /\ IsFiniteSet(requests') /\ Cardinality(Inserting(requests')) \in Nat
      /\ Cardinality(Inserting(requests)) \in Nat
      /\ Cardinality(Inserting(requests')) <= Cardinality(Inserting(requests))
  BY <1>1, <1>2, FewerInserting
<1>4. (version + 1) + Cardinality(Inserting(requests')) <= began + 1
  BY <1>1, <1>3
<1> QED
  BY <1>1, <1>3, <1>4 DEF CountsInv

\* The version a mutation commits is one of the versions.
LEMMA NextVersion ==
    ASSUME CountsInv, began < MaxRequests \/ Inserting(requests) # {}
    PROVE  version + 1 \in Versions
<1>1. /\ IsFiniteSet(requests) /\ version \in Nat /\ began \in Nat /\ began <= MaxRequests
      /\ version + Cardinality(Inserting(requests)) <= began
  BY TreeAssumption DEF CountsInv
<1>2. IsFiniteSet(Inserting(requests))
  BY <1>1, FS_Subset DEF Inserting
<1>3. /\ Cardinality(Inserting(requests)) \in Nat
      /\ Inserting(requests) # {} => Cardinality(Inserting(requests)) # 0
  BY <1>2, FS_CardinalityType, FS_EmptySet
<1>4. MaxRequests \in Nat
  BY TreeAssumption
<1> QED
  BY <1>1, <1>3, <1>4 DEF Versions

LEMMA GoesTyped ==
    ASSUME NEW n \in 1 .. MaxRequests, NEW pc \in {"reread", "load"}, NEW id \in Parents,
           version + 1 \in Versions
    PROVE  \E q \in Request : Goes(n, pc, id) = {q} /\ q.pc # "insert"
<1> PICK q : q = [n |-> n, pc |-> pc, id |-> id, wrote |-> version + 1]
  OBVIOUS
<1>1. q \in Request /\ q.pc = pc
  BY DEF Request
<1> QED
  BY <1>1 DEF Goes

LEMMA TypesInsert ==
    ASSUME TypesInv, NEW r \in requests, InsertComponent(r)
    PROVE  TypesInv'
<1>1. VarsTyped'
  BY DEF InsertComponent, TypesInv, VarsTyped
<1>2. r \in Request /\ r.pc = "insert"
  BY DEF InsertComponent, TypesInv, RequestsTyped
<1>3. CASE Handle(r, {}) /\ UNCHANGED <<components, version>>
  BY <1>1, <1>3, TypesEnd DEF InsertComponent, Handle
<1>4. CASE ~ (Handle(r, {}) /\ UNCHANGED <<components, version>>)
  <2> DEFINE NewRow(id) == [id |-> id, name |-> r.name, parent |-> r.parent, path |-> r.path,
                            slug |-> r.slug]
  <2>1. PICK id \in Ids : /\ IsNextRowid(components, id)
                          /\ Accepted(components \cup {NewRow(id)})
                          /\ components' = components \cup {NewRow(id)}
                          /\ Commits /\ Handle(r, Goes(r.n, "reread", id))
    BY <1>4 DEF InsertComponent
  <2>2. /\ r.n \in 1 .. MaxRequests /\ r.name \in Names /\ r.parent \in Parents
        /\ r.slug \in Slugs \cup {NoSlug} /\ r.path \in Seq(Names) /\ ValidateSlug(r.slug)
    BY <1>2, RequestFields DEF TypesInv, RequestsTyped
  <2>3. NewRow(id) \in Component /\ NewRow(id).id = id /\ NewRow(id).slug = r.slug
    BY <2>2 DEF Component
  <2> HIDE DEF NewRow
  <2>4. RowsInv'
    BY <2>1, <2>2, <2>3, RowsInsert DEF TypesInv
  <2>5. version + 1 \in Versions
    <3>1. r \in Inserting(requests)
      BY <1>2 DEF Inserting
    <3> QED
      BY <3>1, NextVersion DEF TypesInv
  <2>6. PICK q \in Request : Goes(r.n, "reread", id) = {q} /\ q.pc # "insert"
    BY <2>2, <2>5, GoesTyped DEF Parents
  <2>7. requests' = (requests \ {r}) \cup {q} /\ version' = version + 1 /\ began' = began
    BY <2>1, <2>6 DEF Handle, Commits, InsertComponent
  <2>8. CountsInv'
    BY <1>2, <2>6, <2>7, CountsInsert DEF TypesInv
  <2>9. RequestsTyped'
    BY <2>6, <2>7 DEF TypesInv, RequestsTyped
  <2> QED
    BY <1>1, <2>4, <2>8, <2>9 DEF TypesInv
<1> QED
  BY <1>3, <1>4

LEMMA TypesUpdate ==
    ASSUME TypesInv, NEW c \in components, NEW name \in Names, NEW parent \in Parents,
           NEW slug \in Slugs \cup {NoSlug}, Update(c, name, parent, slug)
    PROVE  TypesInv'
<1>1. RowsInv'
  BY RowsUpdate DEF TypesInv
<1>2. /\ Begin /\ Commits /\ requests' = requests \cup Goes(began', "reread", c.id)
      /\ UNCHANGED <<caching, cache, faults, cached, told, crossed>>
  BY DEF Update
<1>3. /\ began' = began + 1 /\ began' \in 0 .. MaxRequests /\ began' \in 1 .. MaxRequests
      /\ version + 1 \in Versions
  BY <1>2, MayBegin, NextVersion DEF Begin, TypesInv
<1>4. c.id \in Parents
  BY DEF TypesInv, RowsInv, Component, Parents
<1>5. PICK q \in Request : Goes(began', "reread", c.id) = {q} /\ q.pc # "insert"
  BY <1>3, <1>4, GoesTyped
<1>6. CountsInv'
  BY <1>2, <1>3, <1>5, CountsMutate DEF TypesInv, Commits
<1>7. RequestsTyped' /\ VarsTyped'
  BY <1>2, <1>5 DEF TypesInv, RequestsTyped, VarsTyped
<1> QED
  BY <1>1, <1>6, <1>7 DEF TypesInv

LEMMA TypesDelete ==
    ASSUME TypesInv, NEW c \in components, Delete(c)
    PROVE  TypesInv'
<1>1. /\ Begin /\ Commits /\ requests' = requests \cup Goes(began', "load", Root)
      /\ components' = components \ {c}
      /\ UNCHANGED <<caching, cache, faults, cached, told, crossed>>
  BY DEF Delete
<1>2. RowsInv'
  <2>1. IsFiniteSet(components')
    BY <1>1, FS_RemoveElement DEF TypesInv, RowsInv
  <2> QED
    BY <1>1, <2>1 DEF TypesInv, RowsInv, UniqueIds, Accepted
<1>3. /\ began' = began + 1 /\ began' \in 0 .. MaxRequests /\ began' \in 1 .. MaxRequests
      /\ version + 1 \in Versions
  BY <1>1, MayBegin, NextVersion DEF Begin, TypesInv
<1>5. PICK q \in Request : Goes(began', "load", Root) = {q} /\ q.pc # "insert"
  BY <1>3, GoesTyped DEF Parents
<1>6. CountsInv'
  BY <1>1, <1>3, <1>5, CountsMutate DEF TypesInv, Commits
<1>7. RequestsTyped' /\ VarsTyped'
  BY <1>1, <1>5 DEF TypesInv, RequestsTyped, VarsTyped
<1> QED
  BY <1>2, <1>6, <1>7 DEF TypesInv

LEMMA SnapshotTyped ==
    ASSUME NEW rows \in SUBSET Component PROVE Snapshot(rows) \in SUBSET CachedComponent
BY DEF Snapshot, CachedComponent, Component

\* The slugs of a page: of all its components, or of none.
LEMMA ResolvedTyped ==
    ASSUME NEW map \in SUBSET CachedComponent, NEW ids \in SUBSET Ids
    PROVE  ResolveMany(map, ids) \in UNION {[is -> Slugs \cup {NoSlug}] : is \in SUBSET Ids}
<1>1. CASE \E i \in ids : WalkSlug(map, i) = NoSlug
  <2>1. ResolveMany(map, ids) = <<>>
    BY <1>1 DEF ResolveMany
  <2>2. <<>> \in [{} -> Slugs \cup {NoSlug}]
    OBVIOUS
  <2> QED
    BY <2>1, <2>2
<1>2. CASE ~ \E i \in ids : WalkSlug(map, i) = NoSlug
  <2>1. \A i \in ids : WalkSlug(map, i) \in Slugs \cup {NoSlug}
    BY WalkTyped DEF Parents
  <2>2. ResolveMany(map, ids) \in [ids -> Slugs \cup {NoSlug}]
    BY <1>2, <2>1 DEF ResolveMany
  <2> QED
    BY <2>2
<1> QED
  BY <1>1, <1>2

\* One more row of a listing has been resolved.
ListItems == Seq([row : Component, calm : BOOLEAN, effective_slug : Slugs \cup {NoSlug}])

LEMMA ListRequest ==
    ASSUME NEW r \in Request, r.pc = "list", NEW items \in ListItems
    PROVE  /\ [r EXCEPT !.items = items] \in Request /\ [r EXCEPT !.items = items].pc = "list"
           /\ [r EXCEPT !.items = items].rows = r.rows /\ [r EXCEPT !.items = items].since = r.since
           /\ [r EXCEPT !.items = items].items = items
<1> DEFINE Rows == Seq(Component)
           Items == ListItems
           Listed == [n : 1 .. MaxRequests, pc : {"list"}, rows : Rows, since : Versions, items : Items]
<1>1. Listed \subseteq Request
  BY DEF Request, ListItems
<1>2. r \in Listed
  BY DEF Request, ListItems
<1> HIDE DEF Rows, Items
<1>3. [r EXCEPT !.items = items] \in Listed
  BY <1>2 DEF Items
<1> QED
  BY <1>1, <1>2, <1>3

LEMMA TypesList ==
    ASSUME TypesInv, NEW r \in requests, ListNext(r)
    PROVE  TypesInv'
<1>1. VarsTyped' /\ UNCHANGED <<components, version, began>>
  BY DEF ListNext, TypesInv, VarsTyped
<1> DEFINE next == Len(r.items) + 1
           item == ComponentResponse(r.rows[next], ResolveEffectiveSlug(r.rows[next].id), Calm(r))
<1>2. /\ r.pc = "list"
      /\ Handle(r, IF next > Len(r.rows) THEN {} ELSE {[r EXCEPT !.items = Append(r.items, item)]})
  BY DEF ListNext
<1>3. r \in Request /\ r.rows \in Seq(Component) /\ r.items \in ListItems
  <2>1. r \in Request
    BY DEF TypesInv, RequestsTyped
  <2> QED
    BY <1>2, <2>1, RequestFields DEF ListItems
<1>4. CASE next > Len(r.rows)
  BY <1>1, <1>2, <1>4, TypesEnd DEF Handle
<1>5. CASE ~ (next > Len(r.rows))
  <2>1. r.rows[next] \in Component
    BY <1>3, <1>5 DEF ListItems
  <2>2. ResolveEffectiveSlug(r.rows[next].id) \in Slugs \cup {NoSlug}
    <3>1. r.rows[next].id \in Parents
      BY <2>1 DEF Component, Parents
    <3>2. cache \in SUBSET CachedComponent
      BY DEF TypesInv, VarsTyped
    <3> QED
      BY <3>1, <3>2, WalkTyped DEF ResolveEffectiveSlug
  <2>3. Calm(r) \in BOOLEAN
    BY DEF Calm, TypesInv, VarsTyped
  <2>4. item \in [row : Component, calm : BOOLEAN, effective_slug : Slugs \cup {NoSlug}]
    BY <2>1, <2>2, <2>3, Zenon DEF ComponentResponse
  <2> HIDE DEF item, next
  <2>5. Append(r.items, item) \in ListItems
    BY <1>3, <2>4, AppendProperties DEF ListItems
  <2> PICK q : q = [r EXCEPT !.items = Append(r.items, item)]
    OBVIOUS
  <2>6. q \in Request /\ q.pc # "insert"
    BY <1>2, <1>3, <2>5, ListRequest
  <2>7. requests' \subseteq requests \cup {q}
    BY <1>2, <1>5 DEF Handle
  <2>8. began' \in {began, began + 1} /\ began' \in 0 .. MaxRequests
    BY <1>1 DEF TypesInv, CountsInv
  <2> QED
    BY <1>1, <2>6, <2>7, <2>8, TypesHandle
<1> QED
  BY <1>4, <1>5

LEMMA TypesListComponents ==
    ASSUME TypesInv, ListComponents
    PROVE  TypesInv'
<1> PICK rows \in Sorted(components) :
       requests' = requests \cup {[n |-> began', pc |-> "list", rows |-> rows,
                                   since |-> version, items |-> <<>>]}
  BY DEF ListComponents
<1>1. /\ Begin /\ VarsTyped' /\ UNCHANGED <<components, version>>
  BY DEF ListComponents, TypesInv, VarsTyped
<1>2. began' = began + 1 /\ began' \in 0 .. MaxRequests /\ began' \in 1 .. MaxRequests
  BY <1>1, MayBegin
<1>3. version \in Versions
  BY TypesAre DEF TypeOK
<1>4. rows \in Seq(Component)
  <2>1. components \subseteq Component /\ Cardinality(components) \in Nat
    BY FS_CardinalityType DEF TypesInv, RowsInv
  <2>2. rows \in [1 .. Cardinality(components) -> components]
    BY DEF Sorted
  <2> QED
    BY <2>1, <2>2
<1> PICK q : q = [n |-> began', pc |-> "list", rows |-> rows, since |-> version, items |-> <<>>]
  OBVIOUS
<1>5. q \in Request /\ q.pc # "insert"
  BY <1>2, <1>3, <1>4 DEF Request
<1>6. requests' \subseteq requests \cup {q} /\ began' \in {began, began + 1}
  BY <1>2
<1> QED
  BY <1>1, <1>2, <1>5, <1>6, TypesHandle

LEMMA TypesListTickets ==
    ASSUME TypesInv, NEW rows \in SUBSET components, ListTickets(rows)
    PROVE  TypesInv'
<1>1. /\ Begin /\ VarsTyped' /\ UNCHANGED <<components, version>>
      /\ requests' = requests \cup {[n |-> began', pc |-> "enrich", rows |-> rows, since |-> version]}
  BY DEF ListTickets, TypesInv, VarsTyped
<1>2. began' = began + 1 /\ began' \in 0 .. MaxRequests /\ began' \in 1 .. MaxRequests
  BY <1>1, MayBegin
<1>3. version \in Versions /\ rows \in SUBSET Component
  BY TypesAre DEF TypeOK
<1> PICK q : q = [n |-> began', pc |-> "enrich", rows |-> rows, since |-> version]
  OBVIOUS
<1>5. q \in Request /\ q.pc # "insert"
  BY <1>2, <1>3 DEF Request
<1>6. requests' \subseteq requests \cup {q} /\ began' \in {began, began + 1}
  BY <1>1, <1>2
<1> QED
  BY <1>1, <1>2, <1>5, <1>6, TypesHandle

\* A request that goes on as q, in a step that leaves the table alone.
LEMMA TypesNext ==
    ASSUME TypesInv, NEW r, NEW q \in Request, q.pc # "insert", Handle(r, {q}),
           UNCHANGED <<components, version, began>>, VarsTyped'
    PROVE  TypesInv'
<1>1. requests' \subseteq requests \cup {q}
  BY DEF Handle
<1>2. began' \in {began, began + 1} /\ began' \in 0 .. MaxRequests
  BY DEF TypesInv, CountsInv
<1> QED
  BY <1>1, <1>2, TypesHandle

LEMMA ResolvesTyped ==
    ASSUME NEW r \in Request, r.pc \in {"load", "install"}
    PROVE  \E q \in Request : Resolves(r) = {q} /\ q.pc # "insert"
<1> PICK q : q = [n |-> r.n, pc |-> "resolve", id |-> r.id, wrote |-> r.wrote]
  OBVIOUS
<1>1. r.n \in 1 .. MaxRequests /\ r.id \in Parents /\ r.wrote \in Versions
  BY RequestFields
<1>2. q \in Request /\ q.pc # "insert"
  BY <1>1 DEF Request
<1> QED
  BY <1>2 DEF Resolves

LEMMA TypesStep == TypesInv /\ [Next]_vars => TypesInv'
<1> SUFFICES ASSUME TypesInv, [Next]_vars PROVE TypesInv'
  OBVIOUS
<1>0. requests \subseteq Request /\ version \in Versions
  BY TypesAre DEF TypeOK
<1>1. CASE UNCHANGED vars
  BY <1>1 DEF vars, TypesInv, RowsInv, RequestsTyped, CountsInv, VarsTyped
<1>2. ASSUME NEW name \in Names, NEW parent \in Parents, NEW slug \in Slugs \cup {NoSlug},
             ReadParent(name, parent, slug)
      PROVE  TypesInv'
  BY <1>2, TypesReadParent
<1>3. ASSUME NEW r \in requests, InsertComponent(r) PROVE TypesInv'
  BY <1>3, TypesInsert
<1>4. ASSUME NEW c \in components, NEW name \in Names, NEW parent \in Parents,
             NEW slug \in Slugs \cup {NoSlug}, Update(c, name, parent, slug)
      PROVE  TypesInv'
  BY <1>4, TypesUpdate
<1>5. ASSUME NEW c \in components, Delete(c) PROVE TypesInv'
  BY <1>5, TypesDelete
<1>6. ASSUME NEW r \in requests, RereadComponent(r) PROVE TypesInv'
  <2>1. UNCHANGED <<components, version, began>> /\ VarsTyped' /\ r.pc = "reread"
    BY <1>6 DEF RereadComponent, TypesInv, VarsTyped
  <2>2. CASE Exists(r.id)
    <3> PICK q : q = [r EXCEPT !.pc = "load"]
      OBVIOUS
    <3>1. r \in [n : 1 .. MaxRequests, pc : {"reread", "load", "resolve"}, id : Parents,
                 wrote : Versions]
      BY <1>0, <2>1, RequestFields
    <3>2. /\ q \in [n : 1 .. MaxRequests, pc : {"reread", "load", "resolve"}, id : Parents,
                    wrote : Versions]
          /\ q.pc = "load"
      BY <3>1
    <3>3. q \in Request
      BY <3>2 DEF Request
    <3>4. Handle(r, {q})
      BY <1>6, <2>2 DEF RereadComponent
    <3> QED
      BY <2>1, <3>2, <3>3, <3>4, TypesNext
  <2>3. CASE ~ Exists(r.id)
    BY <1>6, <2>1, <2>3, TypesEnd DEF RereadComponent, Handle
  <2> QED
    BY <2>2, <2>3
<1>7. ASSUME NEW r \in requests, LoadFromDb(r) PROVE TypesInv'
  <2> PICK q : q = [n |-> r.n, pc |-> "install", id |-> r.id, wrote |-> r.wrote,
                    map |-> Snapshot(components), of |-> version]
    OBVIOUS
  <2>1. UNCHANGED <<components, version, began>> /\ VarsTyped' /\ r.pc = "load" /\ Handle(r, {q})
    BY <1>7 DEF LoadFromDb, TypesInv, VarsTyped
  <2>2. r.n \in 1 .. MaxRequests /\ r.id \in Parents /\ r.wrote \in Versions
    BY <1>0, <2>1, RequestFields
  <2>3. Snapshot(components) \in SUBSET CachedComponent
    BY SnapshotTyped DEF TypesInv, RowsInv
  <2>4. q \in Request /\ q.pc # "insert"
    BY <1>0, <2>2, <2>3 DEF Request
  <2> QED
    BY <2>1, <2>4, TypesNext
<1>8. ASSUME NEW r \in requests, LoadFails(r) PROVE TypesInv'
  <2>1. UNCHANGED <<components, version, began>> /\ r.pc = "load" /\ Handle(r, Resolves(r))
    BY <1>8 DEF LoadFails
  <2>2. VarsTyped'
    <3>1. faults' \in 0 .. MaxFaults
      BY <1>8, TreeAssumption DEF LoadFails, TypesInv, VarsTyped
    <3> QED
      BY <1>8, <3>1 DEF LoadFails, TypesInv, VarsTyped
  <2>3. PICK q \in Request : Resolves(r) = {q} /\ q.pc # "insert"
    BY <1>0, <2>1, ResolvesTyped
  <2> QED
    BY <2>1, <2>2, <2>3, TypesNext
<1>9. ASSUME NEW r \in requests, Install(r) PROVE TypesInv'
  <2>1. UNCHANGED <<components, version, began>> /\ r.pc = "install" /\ Handle(r, Resolves(r))
    BY <1>9 DEF Install
  <2>2. VarsTyped'
    <3>1. r.map \in SUBSET CachedComponent /\ r.of \in Versions
      BY <1>0, <2>1, RequestFields
    <3>2. crossed' \in BOOLEAN
      BY <1>9, Zenon DEF Install
    <3> QED
      BY <1>9, <3>1, <3>2 DEF Install, TypesInv, VarsTyped
  <2>3. PICK q \in Request : Resolves(r) = {q} /\ q.pc # "insert"
    BY <1>0, <2>1, ResolvesTyped
  <2> QED
    BY <2>1, <2>2, <2>3, TypesNext
<1>10. ASSUME NEW r \in requests, Answer(r) PROVE TypesInv'
  <2>1. /\ UNCHANGED <<components, version, began>> /\ r.pc = "resolve" /\ requests' \subseteq requests
        /\ told' \in {told, r.wrote}
    BY <1>10 DEF Answer, Handle
  <2>2. r.wrote \in Versions
    BY <1>0, <2>1, RequestFields
  <2>3. VarsTyped'
    BY <1>10, <2>1, <2>2 DEF Answer, TypesInv, VarsTyped
  <2> QED
    BY <2>1, <2>3, TypesEnd
<1>11. ASSUME ListComponents PROVE TypesInv'
  BY <1>11, TypesListComponents
<1>12. ASSUME NEW rows \in SUBSET components, ListTickets(rows) PROVE TypesInv'
  BY <1>12, TypesListTickets
<1>13. ASSUME NEW r \in requests, ListNext(r) PROVE TypesInv'
  BY <1>13, TypesList
<1>14. ASSUME NEW r \in requests, EnrichWithSlugs(r) PROVE TypesInv'
  <2>1. UNCHANGED <<components, version, began>> /\ VarsTyped'
    BY <1>14 DEF EnrichWithSlugs, TypesInv, VarsTyped
  <2>2. CASE r.pc = "page" /\ Handle(r, {})
    BY <2>1, <2>2, TypesEnd DEF Handle
  <2>3. CASE r.pc = "enrich"
    <3> PICK slugs : slugs = ResolveMany(cache, {c.id : c \in r.rows})
      OBVIOUS
    <3>1. PICK calm : calm = Calm(r)
      OBVIOUS
    <3>2. calm \in BOOLEAN
      BY <3>1 DEF Calm, TypesInv, VarsTyped
    <3> PICK q : q = [n |-> r.n, pc |-> "page", rows |-> r.rows, calm |-> calm, slugs |-> slugs]
      OBVIOUS
    <3>3. Handle(r, {q})
      BY <1>14, <2>3, <3>1, Zenon DEF EnrichWithSlugs
    <3>4. r.n \in 1 .. MaxRequests /\ r.rows \in SUBSET Component
      BY <1>0, <2>3, RequestFields
    <3>5. slugs \in UNION {[is -> Slugs \cup {NoSlug}] : is \in SUBSET Ids}
      <4>1. {c.id : c \in r.rows} \in SUBSET Ids
        BY <3>4 DEF Component
      <4>2. cache \in SUBSET CachedComponent
        BY DEF TypesInv, VarsTyped
      <4> QED
        BY <4>1, <4>2, ResolvedTyped
    <3>6. q \in [n : 1 .. MaxRequests, pc : {"page"}, rows : SUBSET Component, calm : BOOLEAN,
                 slugs : UNION {[is -> Slugs \cup {NoSlug}] : is \in SUBSET Ids}]
      <4> DEFINE Maps == UNION {[is -> Slugs \cup {NoSlug}] : is \in SUBSET Ids}
      <4> HIDE DEF Maps
      <4>1. slugs \in Maps
        BY <3>5 DEF Maps
      <4>2. q \in [n : 1 .. MaxRequests, pc : {"page"}, rows : SUBSET Component, calm : BOOLEAN,
                   slugs : Maps]
        BY <3>2, <3>4, <4>1, Zenon
      <4> QED
        BY <4>2 DEF Maps
    <3>7. q \in Request
      BY <3>6, Zenon DEF Request
    <3>8. q.pc # "insert"
      OBVIOUS
    <3> QED
      BY <2>1, <3>3, <3>7, <3>8, TypesNext
  <2> QED
    BY <1>14, <2>2, <2>3 DEF EnrichWithSlugs
<1>15. CASE Restart
  <2>1. requests' = {} /\ UNCHANGED <<components, version, began>>
    BY <1>15 DEF Restart
  <2>2. cache' \subseteq CachedComponent
    <3>1. Snapshot(components) \in SUBSET CachedComponent
      BY SnapshotTyped DEF TypesInv, RowsInv
    <3> QED
      BY <1>15, <3>1 DEF Restart, NewCache
  <2>3. faults' \in 0 .. MaxFaults
    BY <1>15, TreeAssumption DEF Restart, TypesInv, VarsTyped
  <2>4. VarsTyped'
    BY <1>0, <1>15, <2>2, <2>3 DEF Restart, TypesInv, VarsTyped
  <2> QED
    BY <2>1, <2>4, TypesEnd
<1> QED
  BY <1>1, <1>2, <1>3, <1>4, <1>5, <1>6, <1>7, <1>8, <1>9, <1>10, <1>11, <1>12, <1>13, <1>14, <1>15 DEF Next

LEMMA TypesInit == Init => TypesInv
<1> SUFFICES ASSUME Init PROVE TypesInv
  OBVIOUS
<1>1. IsFiniteSet({}) /\ Cardinality({}) = 0 /\ Inserting({}) = {}
  BY FS_EmptySet DEF Inserting
<1>2. CountsInv
  <2>1. requests = {} /\ began = 0 /\ version = 0
    BY DEF Init
  <2>2. 0 \in 0 .. MaxRequests
    BY TreeAssumption
  <2>3. Cardinality(Inserting(requests)) = 0
    BY <1>1, <2>1
  <2> QED
    BY <1>1, <2>1, <2>2, <2>3 DEF CountsInv
<1>3. RowsInv
  BY <1>1 DEF Init, RowsInv, UniqueIds, Accepted
<1>4. RequestsTyped /\ VarsTyped
  <2>1. 0 \in Versions /\ 0 \in 0 .. MaxFaults
    BY TreeAssumption DEF Versions
  <2>2. RequestsTyped
    BY DEF Init, RequestsTyped
  <2>3. VarsTyped
    BY <2>1 DEF Init, VarsTyped
  <2> QED
    BY <2>2, <2>3
<1> QED
  BY <1>2, <1>3, <1>4 DEF TypesInv

\* The variables have their types, and the version stays within its bound.
THEOREM TreeTypes == Spec => []TypeOK
<1> QED
  BY TypesInit, TypesStep, TypesAre, PTL DEF Spec

\* Every mutation leaves the paths spelling the tree, if they did and no create was overtaken.
THEOREM PathsKept == Spec => MutationsKeepPaths
<1> DEFINE Kept == PathsSpellTheTree /\ (\A r \in requests : Undisturbed(r)) => PathsSpellTheTree'
<1>1. TypesInv /\ [Next]_vars => [Kept]_vars
  <2> SUFFICES ASSUME TypesInv, Next, PathsSpellTheTree, \A r \in requests : Undisturbed(r)
               PROVE  PathsSpellTheTree'
    OBVIOUS
  <2>0. components \in SUBSET Component /\ UniqueIds(components) /\ SpellTheTree(components)
    BY DEF TypesInv, RowsInv, PathsSpellTheTree
  <2>1. CASE UNCHANGED components
    BY <2>1 DEF PathsSpellTheTree
  <2>2. ASSUME NEW r \in requests, InsertComponent(r), ~ UNCHANGED components
        PROVE  PathsSpellTheTree'
    <3> DEFINE NewRow(id) == [id |-> id, name |-> r.name, parent |-> r.parent, path |-> r.path,
                              slug |-> r.slug]
    <3>1. PICK id \in Ids : components' = components \cup {NewRow(id)}
      BY <2>2 DEF InsertComponent
    <3>2. /\ NewRow(id).id = id /\ NewRow(id).name = r.name /\ NewRow(id).parent = r.parent
          /\ NewRow(id).path = r.path
      OBVIOUS
    <3> HIDE DEF NewRow
    <3>3. IF r.parent = Root THEN r.path = <<r.name>>
          ELSE \E p \in components : p.id = r.parent /\ r.path = Append(p.path, r.name)
      BY <2>2 DEF InsertComponent, Undisturbed
    <3>4. SpellTheTree(components')
      BY <2>0, <3>1, <3>2, <3>3 DEF SpellTheTree
    <3> QED
      BY <3>4 DEF PathsSpellTheTree
  <2>3. ASSUME NEW c \in components, NEW name \in Names, NEW parent \in Parents,
               NEW slug \in Slugs \cup {NoSlug}, Update(c, name, parent, slug)
        PROVE  PathsSpellTheTree'
    <3>1. PICK new \in Seq(Names), row \in Component : Updated(c, name, parent, slug, new, row)
      BY <2>3, UpdateParts DEF TypesInv
    <3> DEFINE set == (components \ {c}) \cup {row}
    <3>2. /\ row.id = c.id /\ row.path = new /\ row.parent = parent /\ row.name = name
          /\ Accepted(components')
          /\ components' = IF new = c.path THEN set ELSE Cascade(set, c.id, c.path, new)
          /\ parent = Root => new = <<name>>
          /\ parent # Root => \E p \in components : /\ p.id = parent /\ new = Append(p.path, name)
                                                    /\ ~ StartsWith(p.path, c.path)
      BY <3>1, Zenon DEF Updated
    <3>3. CASE new = c.path
      <4>1. components' = set /\ c.path \in Seq(Names)
        BY <2>0, <3>2, <3>3 DEF Component
      <4>2. \A d \in components : d # c => d.id # c.id
        BY <2>0 DEF UniqueIds
      <4>3. StartsWith(c.path, c.path)
        BY <4>1 DEF StartsWith
      <4>4. SpellTheTree(set)
        <5> SUFFICES ASSUME NEW x \in set
                     PROVE  IF x.parent = Root THEN x.path = <<x.name>>
                            ELSE \E p \in set : p.id = x.parent /\ x.path = Append(p.path, x.name)
          BY DEF SpellTheTree
        <5>1. CASE x = row
          BY <3>2, <4>3, <5>1
        <5>2. CASE x # row
          <6>1. x \in components
            BY <5>2
          <6>2. CASE x.parent # Root
            <7>1. PICK p \in components : p.id = x.parent /\ x.path = Append(p.path, x.name)
              BY <2>0, <6>1, <6>2 DEF SpellTheTree
            <7>2. CASE p = c
              BY <3>2, <3>3, <6>2, <7>1, <7>2
            <7>3. CASE p # c
              BY <6>2, <7>1, <7>3
            <7> QED
              BY <7>2, <7>3
          <6>3. CASE x.parent = Root
            BY <2>0, <6>1, <6>3 DEF SpellTheTree
          <6> QED
            BY <6>2, <6>3
        <5> QED
          BY <5>1, <5>2
      <4> QED
        BY <4>1, <4>4 DEF PathsSpellTheTree
    <3>4. CASE new # c.path
      <4> PICK s : s = set
        OBVIOUS
      <4>1. components' = Cascade(s, c.id, c.path, new) /\ s = (components \ {c}) \cup {row}
        BY <3>2, <3>4
      <4>2. Accepted(Cascade(s, c.id, c.path, new))
        BY <3>2, <4>1
      <4>3. /\ row.parent = Root => new = <<row.name>>
            /\ row.parent # Root =>
                  \E p \in components : /\ p.id = row.parent /\ ~ StartsWith(p.path, c.path)
                                        /\ new = Append(p.path, row.name)
        BY <3>2
      <4>4. SpellTheTree(Cascade(s, c.id, c.path, new))
        BY <2>0, <3>2, <4>1, <4>2, <4>3, CascadeSpells
      <4> QED
        BY <4>1, <4>4 DEF PathsSpellTheTree
    <3> QED
      BY <3>3, <3>4
  <2>4. ASSUME NEW c \in components, Delete(c) PROVE PathsSpellTheTree'
    <3>1. components' = components \ {c} /\ \A d \in components : d.parent # c.id
      BY <2>4 DEF Delete
    <3>2. SpellTheTree(components')
      BY <2>0, <3>1 DEF SpellTheTree
    <3> QED
      BY <3>2 DEF PathsSpellTheTree
  <2>5. ASSUME NEW r \in requests,
               \/ RereadComponent(r) \/ LoadFromDb(r) \/ LoadFails(r) \/ Install(r)
               \/ Answer(r) \/ ListNext(r) \/ EnrichWithSlugs(r)
        PROVE  UNCHANGED components
    BY <2>5 DEF RereadComponent, LoadFromDb, LoadFails, Install, Answer, ListNext, EnrichWithSlugs
  <2>6. ASSUME NEW name, NEW parent, NEW slug, ReadParent(name, parent, slug)
        PROVE  UNCHANGED components
    BY <2>6 DEF ReadParent
  <2>7. ListComponents \/ (\E rows \in SUBSET components : ListTickets(rows)) \/ Restart
           => UNCHANGED components
    BY DEF ListComponents, ListTickets, Restart
  <2> QED
    BY <2>1, <2>2, <2>3, <2>4, <2>5, <2>6, <2>7 DEF Next
<1> QED
  BY <1>1, TypesInit, TypesStep, PTL DEF Spec, MutationsKeepPaths

-----------------------------------------------------------------------------
(* What a client reads: rows from the table, slugs from the cache.         *)

ItemsRight(r) ==
    SpellTheTree(Range(r.rows)) =>
       \A i \in DOMAIN r.items :
          r.items[i].calm => r.items[i].effective_slug = Nearest(Range(r.rows), r.rows[i].path)

PageRight(r) ==
    r.calm /\ (\A c \in r.rows : c.slug # NoSlug) =>
       \A c \in r.rows : c.id \in DOMAIN r.slugs /\ r.slugs[c.id] = c.slug

\* The rows a reader holds are those of the version it read, as long as this is the version.
ReadRight(r) ==
    /\ r.pc = "list" => /\ r.since <= version /\ (r.since = version => Range(r.rows) = components)
                        /\ ItemsRight(r)
    /\ r.pc = "enrich" => r.since <= version /\ (r.since = version => r.rows \subseteq components)
    /\ r.pc = "page" => PageRight(r)

ReadsInv == \A r \in requests : ReadRight(r)

\* A component's own slug is found at once.
LEMMA WalkOwn ==
    ASSUME NEW rows \in SUBSET Component, UniqueIds(rows), NEW c \in rows, c.slug # NoSlug
    PROVE  WalkSlug(Snapshot(rows), c.id) = c.slug
<1> PICK f : f = [id |-> c.id, parent |-> c.parent, slug |-> c.slug]
  OBVIOUS
<1> DEFINE map == Snapshot(rows)
<1>1. Entry(map, c.id) = f /\ \E e \in map : e.id = c.id
  BY SnapshotEntry
<1>2. MaxDepth \in 0 .. MaxDepth /\ MaxDepth # 0
  BY TreeAssumption
<1>3. c.id \in Parents
  BY DEF Component, Parents
<1> HIDE DEF map
<1>4. Walking(map)[MaxDepth] = Hop(map, Walking(map), MaxDepth)
  BY <1>2, WalkHops
<1>5. Walking(map)[MaxDepth][c.id] = c.slug
  BY <1>1, <1>2, <1>3, <1>4 DEF Hop
<1> QED
  BY <1>5, WalkIs DEF map

LEMMA ReadsStay ==
    ASSUME TypesInv, ReadsInv, NEW q, requests' \subseteq requests \cup {q}, ReadRight(q)',
           UNCHANGED <<components, version>> \/ version' = version + 1
    PROVE  ReadsInv'
<1> SUFFICES ASSUME NEW r \in requests PROVE ReadRight(r)'
  BY DEF ReadsInv
<1>1. ReadRight(r) /\ r \in Request /\ version \in Nat
  BY DEF ReadsInv, TypesInv, RequestsTyped, CountsInv
<1>2. r.pc \in {"list", "enrich"} => r.since \in Nat
  BY <1>1, RequestFields DEF Versions
<1> QED
  BY <1>1, <1>2 DEF ReadRight

\* A handler that does not read is right whatever it holds.
LEMMA NoReader == ASSUME NEW q, q.pc \notin {"list", "enrich", "page"} PROVE ReadRight(q)'
BY DEF ReadRight

LEMMA ReadsList ==
    ASSUME TypesInv, Reloading, ReadsInv, NEW r \in requests, ListNext(r)
    PROVE  ReadsInv'
<1> DEFINE next == Len(r.items) + 1
           slug == ResolveEffectiveSlug(r.rows[next].id)
           item == ComponentResponse(r.rows[next], slug, Calm(r))
           went == [r EXCEPT !.items = Append(r.items, item)]
<1>1. /\ r.pc = "list" /\ UNCHANGED <<components, version>>
      /\ Handle(r, IF next > Len(r.rows) THEN {} ELSE {went})
  BY DEF ListNext
<1>2. r \in Request /\ r.rows \in Seq(Component) /\ r.items \in ListItems /\ ReadRight(r)
  <2>1. r \in Request /\ ReadRight(r)
    BY DEF TypesInv, RequestsTyped, ReadsInv
  <2> QED
    BY <1>1, <2>1, RequestFields DEF ListItems
<1>3. CASE next > Len(r.rows)
  <2>1. requests' \subseteq requests \cup {r} /\ ReadRight(r)'
    BY <1>1, <1>2, <1>3 DEF Handle, ReadRight
  <2> QED
    BY <1>1, <2>1, ReadsStay
<1>4. CASE ~ (next > Len(r.rows))
  <2>1. next \in 1 .. Len(r.rows) /\ next \in Nat /\ r.rows[next] \in Range(r.rows)
        /\ r.rows[next] \in Component
    BY <1>2, <1>4 DEF ListItems, Range
  <2>2. slug \in Slugs \cup {NoSlug}
    <3>1. r.rows[next].id \in Parents
      BY <2>1 DEF Component, Parents
    <3>2. cache \in SUBSET CachedComponent
      BY DEF TypesInv, VarsTyped
    <3> QED
      BY <3>1, <3>2, WalkTyped DEF ResolveEffectiveSlug
  <2>3. Calm(r) \in BOOLEAN
    BY DEF Calm, TypesInv, VarsTyped
  <2>4. ASSUME Calm(r), SpellTheTree(Range(r.rows)) PROVE slug = Nearest(Range(r.rows), r.rows[next].path)
    <3>1. caching /\ version = r.since /\ cached = version
      BY <2>4 DEF Calm
    <3>2. Range(r.rows) = components
      BY <1>1, <1>2, <3>1 DEF ReadRight
    <3>3. cache = Snapshot(components)
      BY <3>1 DEF Reloading, NewCache
    <3>4. components \in SUBSET Component /\ UniqueIds(components) /\ Accepted(components)
      BY DEF TypesInv, RowsInv
    <3>5. WalkSlug(Snapshot(components), r.rows[next].id) = Nearest(components, r.rows[next].path)
      BY <2>1, <2>4, <3>2, <3>4, WalkFinds
    <3> QED
      BY <3>2, <3>3, <3>5 DEF ResolveEffectiveSlug
  <2>5. item \in [row : Component, calm : BOOLEAN, effective_slug : Slugs \cup {NoSlug}]
    <3> HIDE DEF slug, next
    <3> QED
      BY <2>1, <2>2, <2>3, Zenon DEF ComponentResponse
  <2>6. item.effective_slug = slug /\ (item.calm => Calm(r))
    <3> HIDE DEF slug
    <3> QED
      BY Zenon DEF ComponentResponse
  <2> HIDE DEF item, slug
  <2> PICK items : items = Append(r.items, item)
    OBVIOUS
  <2>7. /\ items \in ListItems /\ Len(items) = Len(r.items) + 1 /\ items[next] = item
        /\ \A i \in 1 .. Len(r.items) : items[i] = r.items[i]
    BY <1>2, <2>5, AppendProperties DEF ListItems
  <2> HIDE DEF next
  <2> PICK q : q = went
    OBVIOUS
  <2>8. /\ q \in Request /\ q.pc = "list" /\ q.rows = r.rows /\ q.since = r.since
        /\ q.items = items
    BY <1>1, <1>2, <2>7, ListRequest
  <2> HIDE DEF went
  <2>9. ItemsRight(q)
    <3> SUFFICES ASSUME SpellTheTree(Range(r.rows)), NEW i \in DOMAIN items, items[i].calm
                 PROVE  items[i].effective_slug = Nearest(Range(r.rows), r.rows[i].path)
      BY <2>8 DEF ItemsRight
    <3>1. i \in 1 .. Len(r.items) \/ i = next
      BY <1>2, <2>7 DEF ListItems, next
    <3>2. CASE i = next
      BY <2>4, <2>6, <2>7, <3>2, Zenon
    <3>3. CASE i \in 1 .. Len(r.items)
      <4>1. i \in DOMAIN r.items /\ items[i] = r.items[i]
        BY <1>2, <2>7, <3>3 DEF ListItems
      <4>2. ItemsRight(r)
        BY <1>1, <1>2 DEF ReadRight
      <4> QED
        BY <4>1, <4>2, Zenon DEF ItemsRight
    <3> QED
      BY <3>1, <3>2, <3>3
  <2>10. ReadRight(q)'
    BY <1>1, <1>2, <2>8, <2>9 DEF ReadRight
  <2>11. requests' \subseteq requests \cup {q}
    BY <1>1, <1>4 DEF Handle, next
  <2> QED
    BY <1>1, <2>10, <2>11, ReadsStay
<1> QED
  BY <1>3, <1>4

LEMMA ReadsEnrich ==
    ASSUME TypesInv, Reloading, ReadsInv, NEW r \in requests, EnrichWithSlugs(r)
    PROVE  ReadsInv'
<1>1. UNCHANGED <<components, version>>
  BY DEF EnrichWithSlugs
<1>2. r \in Request /\ ReadRight(r)
  BY DEF TypesInv, RequestsTyped, ReadsInv
<1>3. CASE r.pc = "page" /\ Handle(r, {})
  <2>1. requests' \subseteq requests \cup {r} /\ ReadRight(r)'
    BY <1>1, <1>2, <1>3 DEF Handle, ReadRight
  <2> QED
    BY <1>1, <2>1, ReadsStay
<1>4. CASE r.pc = "enrich"
  <2> DEFINE ids == {c.id : c \in r.rows}
  <2> PICK slugs : slugs = ResolveMany(cache, ids)
    OBVIOUS
  <2>1. PICK calm : calm = Calm(r)
    OBVIOUS
  <2> PICK q : q = [n |-> r.n, pc |-> "page", rows |-> r.rows, calm |-> calm, slugs |-> slugs]
    OBVIOUS
  <2>2. Handle(r, {q})
    BY <1>4, <2>1, Zenon DEF EnrichWithSlugs
  <2>3. q.pc = "page" /\ q.rows = r.rows /\ q.slugs = slugs /\ q.calm = calm
    OBVIOUS
  <2>4. ASSUME Calm(r), \A c \in r.rows : c.slug # NoSlug
        PROVE  \A c \in r.rows : c.id \in DOMAIN slugs /\ slugs[c.id] = c.slug
    <3>1. caching /\ version = r.since /\ cached = version
      BY <2>4 DEF Calm
    <3>2. r.rows \subseteq components
      BY <1>2, <1>4, <3>1 DEF ReadRight
    <3>3. cache = Snapshot(components)
      BY <3>1 DEF Reloading, NewCache
    <3>4. components \in SUBSET Component /\ UniqueIds(components)
      BY DEF TypesInv, RowsInv
    <3>5. \A c \in r.rows : WalkSlug(cache, c.id) = c.slug
      BY <2>4, <3>2, <3>3, <3>4, WalkOwn
    <3>6. \A i \in ids : WalkSlug(cache, i) # NoSlug
      BY <2>4, <3>5
    <3>7. slugs = [i \in ids |-> WalkSlug(cache, i)]
      BY <3>6 DEF ResolveMany
    <3> QED
      BY <3>5, <3>7
  <2>5. PageRight(q)
    BY <2>1, <2>3, <2>4, Zenon DEF PageRight
  <2>6. ReadRight(q)' /\ requests' \subseteq requests \cup {q}
    BY <2>2, <2>3, <2>5 DEF ReadRight, Handle
  <2> QED
    BY <1>1, <2>6, ReadsStay
<1> QED
  BY <1>3, <1>4 DEF EnrichWithSlugs

LEMMA ReadsStep == TypesInv /\ Reloading /\ ReadsInv /\ [Next]_vars => ReadsInv'
<1> SUFFICES ASSUME TypesInv, Reloading, ReadsInv, [Next]_vars PROVE ReadsInv'
  OBVIOUS
<1>0. PICK none : none = [pc |-> "none"]
  OBVIOUS
<1>00. ReadRight(none)'
  BY <1>0, NoReader
<1>1. CASE UNCHANGED vars
  BY <1>1 DEF vars, ReadsInv, ReadRight
<1>2. ASSUME NEW name, NEW parent, NEW slug, ReadParent(name, parent, slug) PROVE ReadsInv'
  <2>0. PICK q : q = [n |-> began', pc |-> "insert", name |-> name, parent |-> parent,
                    slug |-> slug,
                    path |-> IF parent = Root THEN <<name>> ELSE Append(Row(parent).path, name)]
    OBVIOUS
  <2>1. q.pc = "insert"
    BY <2>0
  <2>2. requests' = requests \cup {q} /\ UNCHANGED <<components, version>>
    BY <1>2, <2>0 DEF ReadParent
  <2> QED
    BY <2>1, <2>2, NoReader, ReadsStay
<1>3. ASSUME NEW r \in requests, InsertComponent(r) PROVE ReadsInv'
  <2>1. CASE Handle(r, {}) /\ UNCHANGED <<components, version>>
    <3>1. requests' \subseteq requests \cup {none}
      BY <2>1 DEF Handle
    <3> QED
      BY <1>00, <2>1, <3>1, ReadsStay
  <2>2. CASE ~ (Handle(r, {}) /\ UNCHANGED <<components, version>>)
    <3>1. PICK id \in Ids : Commits /\ Handle(r, Goes(r.n, "reread", id))
      BY <1>3, <2>2 DEF InsertComponent
    <3> PICK q : q = [n |-> r.n, pc |-> "reread", id |-> id, wrote |-> version + 1]
      OBVIOUS
    <3>2. requests' \subseteq requests \cup {q} /\ version' = version + 1 /\ q.pc = "reread"
      BY <3>1 DEF Handle, Goes, Commits
    <3> QED
      BY <3>2, NoReader, ReadsStay
  <2> QED
    BY <2>1, <2>2
<1>4. ASSUME NEW c, NEW name, NEW parent, NEW slug, Update(c, name, parent, slug) PROVE ReadsInv'
  <2> PICK q : q = [n |-> began', pc |-> "reread", id |-> c.id, wrote |-> version + 1]
    OBVIOUS
  <2>1. requests' \subseteq requests \cup {q} /\ version' = version + 1 /\ q.pc = "reread"
    BY <1>4 DEF Update, Goes, Commits
  <2> QED
    BY <2>1, NoReader, ReadsStay
<1>5. ASSUME NEW c, Delete(c) PROVE ReadsInv'
  <2> PICK q : q = [n |-> began', pc |-> "load", id |-> Root, wrote |-> version + 1]
    OBVIOUS
  <2>1. requests' \subseteq requests \cup {q} /\ version' = version + 1 /\ q.pc = "load"
    BY <1>5 DEF Delete, Goes, Commits
  <2> QED
    BY <2>1, NoReader, ReadsStay
<1>6. ASSUME NEW r \in requests, RereadComponent(r) PROVE ReadsInv'
  <2>1. r.pc = "reread" /\ UNCHANGED <<components, version>> /\ r \in Request
    BY <1>6 DEF RereadComponent, TypesInv, RequestsTyped
  <2> PICK q : q = [r EXCEPT !.pc = "load"]
    OBVIOUS
  <2>2. q.pc = "load"
    <3>1. r \in [n : 1 .. MaxRequests, pc : {"reread", "load", "resolve"}, id : Parents,
                 wrote : Versions]
      BY <2>1, RequestFields
    <3> QED
      BY <3>1
  <2>3. requests' \subseteq requests \cup {q}
    BY <1>6 DEF RereadComponent, Handle
  <2> QED
    BY <2>1, <2>2, <2>3, NoReader, ReadsStay
<1>7. ASSUME NEW r \in requests, LoadFromDb(r) PROVE ReadsInv'
  <2> PICK q : q = [n |-> r.n, pc |-> "install", id |-> r.id, wrote |-> r.wrote,
                    map |-> Snapshot(components), of |-> version]
    OBVIOUS
  <2>1. requests' \subseteq requests \cup {q} /\ q.pc = "install" /\ UNCHANGED <<components, version>>
    BY <1>7 DEF LoadFromDb, Handle
  <2> QED
    BY <2>1, NoReader, ReadsStay
<1>8. ASSUME NEW r \in requests, LoadFails(r) \/ Install(r) PROVE ReadsInv'
  <2> PICK q : q = [n |-> r.n, pc |-> "resolve", id |-> r.id, wrote |-> r.wrote]
    OBVIOUS
  <2>1. requests' \subseteq requests \cup {q} /\ q.pc = "resolve" /\ UNCHANGED <<components, version>>
    BY <1>8 DEF LoadFails, Install, Handle, Resolves
  <2> QED
    BY <2>1, NoReader, ReadsStay
<1>10. ASSUME NEW r \in requests, Answer(r) PROVE ReadsInv'
  <2>1. requests' \subseteq requests \cup {none} /\ UNCHANGED <<components, version>>
    BY <1>10 DEF Answer, Handle
  <2> QED
    BY <1>00, <2>1, ReadsStay
<1>11. ASSUME ListComponents PROVE ReadsInv'
  <2>1. PICK rows \in Sorted(components) :
           requests' = requests \cup {[n |-> began', pc |-> "list", rows |-> rows,
                                       since |-> version, items |-> <<>>]}
    BY <1>11 DEF ListComponents
  <2> PICK q : q = [n |-> began', pc |-> "list", rows |-> rows, since |-> version, items |-> <<>>]
    OBVIOUS
  <2>2. requests' \subseteq requests \cup {q} /\ UNCHANGED <<components, version>>
    BY <1>11, <2>1 DEF ListComponents
  <2>3. /\ q.pc = "list" /\ q.since = version /\ q.rows = rows /\ DOMAIN q.items = {}
        /\ Range(rows) = components /\ version \in Nat
    BY DEF Sorted, TypesInv, CountsInv
  <2>4. ReadRight(q)'
    BY <2>2, <2>3 DEF ReadRight, ItemsRight
  <2> QED
    BY <2>2, <2>4, ReadsStay
<1>12. ASSUME NEW rows \in SUBSET components, ListTickets(rows) PROVE ReadsInv'
  <2> PICK q : q = [n |-> began', pc |-> "enrich", rows |-> rows, since |-> version]
    OBVIOUS
  <2>1. requests' \subseteq requests \cup {q} /\ UNCHANGED <<components, version>>
    BY <1>12 DEF ListTickets
  <2>2. q.pc = "enrich" /\ q.since = version /\ q.rows = rows /\ version \in Nat
    BY DEF TypesInv, CountsInv
  <2>3. ReadRight(q)'
    BY <2>1, <2>2 DEF ReadRight
  <2> QED
    BY <2>1, <2>3, ReadsStay
<1>13. ASSUME NEW r \in requests, ListNext(r) PROVE ReadsInv'
  BY <1>13, ReadsList
<1>14. ASSUME NEW r \in requests, EnrichWithSlugs(r) PROVE ReadsInv'
  BY <1>14, ReadsEnrich
<1>15. CASE Restart
  BY <1>15 DEF Restart, ReadsInv
<1> QED
  BY <1>1, <1>2, <1>3, <1>4, <1>5, <1>6, <1>7, <1>8, <1>10, <1>11, <1>12, <1>13, <1>14, <1>15 DEF Next

\* Answered mutations are in the cache; what a listing shows while nothing changes is the slug
\* of the nearest component above; and the tickets of components that have slugs show them.
THEOREM SlugsAreNearest == Spec => []SlugsFollowPaths
<1>1. Init => ReadsInv
  BY DEF Init, ReadsInv
<1>2. Reloading /\ ReadsInv => SlugsFollowPaths
  <2> SUFFICES ASSUME Reloading, ReadsInv PROVE SlugsFollowPaths
    OBVIOUS
  <2>1. faults = 0 /\ ~crossed => told <= cached
    BY DEF Reloading, Orderly
  <2>2. \A r \in requests : /\ r.pc = "list" => ItemsRight(r)
                            /\ r.pc = "page" => PageRight(r)
    BY DEF ReadsInv, ReadRight
  <2> QED
    BY <2>1, <2>2, Zenon DEF SlugsFollowPaths, ItemsRight, PageRight
<1> QED
  BY <1>1, <1>2, ReloadingInit, ReloadingStep, TypesInit, TypesStep, ReadsStep, PTL DEF Spec
=============================================================================
