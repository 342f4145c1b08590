---------------------------- MODULE ComponentTree ----------------------------
(***************************************************************************)
(* The component tree with its materialized paths                          *)
(* (src/src/repos/component.rs, src/src/api/component.rs), and the         *)
(* in-memory cache from which ticket slugs are resolved (src/src/slug.rs). *)
(*                                                                         *)
(* A path is the sequence of names from the root. Names hold no '/', '%'   *)
(* or '_' here: with one of these, path and LIKE pattern mean other things.*)
(*                                                                         *)
(* update is one transaction and delete one effective statement; create    *)
(* reads its parent's path in one statement and inserts in another. Each   *)
(* handler then reads its row back and reloads the cache, by a query and,  *)
(* later, an assignment under the lock, and answers with the effective     *)
(* slug the cache has by then.                                             *)
(***************************************************************************)
EXTENDS Naturals, FiniteSets, SequencesExt, Sqlite

CONSTANTS
    Names,          \* component names
    Fold,           \* the lower-case form of each name: LIKE ignores case
    Rank,           \* the place of each name in byte order, by which paths are sorted
    Slugs,          \* slugs that are asked for
    Shape,          \* the characters of each: "upper", "digit" or "other"
    NoSlug,         \* a NULL slug
    MaxDepth,       \* hops after which the walk to a slug gives up (64 in the code)
    Ids,            \* bound: the rowids of components
    MaxRequests,    \* bound: mutations in a behaviour
    MaxAtOnce,      \* bound: handlers at work at one time
    MaxFaults       \* bound: failed reloads in a behaviour

ASSUME TreeAssumption ==
    /\ Ids \subseteq Nat \ {0}
    /\ NoSlug \notin Slugs /\ Shape \in [Slugs -> Seq({"upper", "digit", "other"})]
    /\ MaxDepth \in Nat \ {0} /\ MaxRequests \in Nat /\ MaxAtOnce \in Nat /\ MaxFaults \in Nat

VARIABLES
    components,     \* the rows of components
    requests,       \* the handlers between two statements
    cache,          \* SlugCache.inner: id, parent and slug of each component
    caching,        \* there is a SlugCache
    began,          \* requests so far
    faults,         \* faults so far
    version,        \* history: mutations committed so far
    cached,         \* history: the version the cache shows
    told,           \* history: the latest mutation whose answer has been sent
    crossed         \* history: a reload installed an older version than it replaced

vars == <<components, requests, cache, caching, began, faults, version, cached, told, crossed>>

Root == 0           \* parent_id IS NULL
Parents == Ids \cup {Root}

Component == [id : Ids, name : Names, parent : Parents, path : Seq(Names),
              slug : Slugs \cup {NoSlug}]

CachedComponent == [id : Ids, parent : Parents, slug : Slugs \cup {NoSlug}]

Versions == 0 .. MaxRequests

Request ==
    [n : 1 .. MaxRequests, pc : {"insert"}, name : Names, parent : Parents,
     slug : Slugs \cup {NoSlug}, path : Seq(Names)]
    \cup [n : 1 .. MaxRequests, pc : {"reread", "load", "resolve"}, id : Parents, wrote : Versions]
    \cup [n : 1 .. MaxRequests, pc : {"install"}, id : Parents, wrote : Versions,
          map : SUBSET CachedComponent, of : Versions]
    \cup [n : 1 .. MaxRequests, pc : {"list"}, rows : Seq(Component), since : Versions,
          items : Seq([row : Component, effective_slug : Slugs \cup {NoSlug}, calm : BOOLEAN])]
    \cup [n : 1 .. MaxRequests, pc : {"enrich"}, rows : SUBSET Component, since : Versions]
    \cup [n : 1 .. MaxRequests, pc : {"page"}, rows : SUBSET Component, calm : BOOLEAN,
          slugs : UNION {[ids -> Slugs \cup {NoSlug}] : ids \in SUBSET Ids}]

Init ==
    /\ components = {} /\ requests = {} /\ cache = {} /\ caching = TRUE
    /\ began = 0 /\ faults = 0 /\ version = 0 /\ cached = 0 /\ told = 0 /\ crossed = FALSE

-----------------------------------------------------------------------------
Row(id) == CHOOSE c \in components : c.id = id
Exists(id) == \E c \in components : c.id = id

\* String::starts_with, and LIKE 'prefix%', on paths.
StartsWith(path, prefix) ==
    Len(prefix) <= Len(path) /\ \A i \in 1 .. Len(prefix) : path[i] = prefix[i]
Like(path, prefix) ==
    Len(prefix) <= Len(path) /\ \A i \in 1 .. Len(prefix) : Fold[path[i]] = Fold[prefix[i]]

\* What the table's constraints and the root rule leave of a mutation. UNIQUE(parent_id,
\* name) does not bind roots, whose parent_id is NULL; UNIQUE(path) does.
Accepted(rows) ==
    \A c, d \in rows :
       c # d => /\ c.path # d.path
                /\ c.parent # Root => ~(c.parent = d.parent /\ c.name = d.name)
                /\ c.slug # NoSlug => c.slug # d.slug

RootHasSlug(parent, slug) == parent = Root => slug # NoSlug

\* "^[A-Z][A-Z0-9]{1,9}$"
ValidateSlug(slug) ==
    slug # NoSlug =>
       /\ Len(Shape[slug]) \in 2 .. 10
       /\ Shape[slug][1] = "upper" /\ Range(Shape[slug]) \subseteq {"upper", "digit"}

Begin ==
    /\ began < MaxRequests /\ Cardinality(requests) < MaxAtOnce
    /\ began' = began + 1
Commits == version' = version + 1
Handle(r, rs) == requests' = (requests \ {r}) \cup rs

\* What a committed mutation goes on with. A deletion has no row to answer with.
Goes(n, pc, id) == {[n |-> n, pc |-> pc, id |-> id, wrote |-> version + 1]}

(* create: read the parent's path, then insert.                            *)

ReadParent(name, parent, slug) ==
    /\ Begin
    /\ ValidateSlug(slug) /\ RootHasSlug(parent, slug)
    /\ parent # Root => Exists(parent)
    /\ requests' = requests \cup
          {[n |-> began', pc |-> "insert", name |-> name, parent |-> parent, slug |-> slug,
            path |-> IF parent = Root THEN <<name>> ELSE Append(Row(parent).path, name)]}
    /\ UNCHANGED <<caching, components, cache, faults, version, cached, told, crossed>>

\* The INSERT fails if a constraint does not hold (the parent may be gone by now).
InsertComponent(r) ==
    /\ r.pc = "insert"
    /\ \E id \in Ids :
          LET row  == [id |-> id, name |-> r.name, parent |-> r.parent, path |-> r.path,
                       slug |-> r.slug]
              rows == components \cup {row}
          IN  /\ IsNextRowid(components, id)
              /\ IF (r.parent # Root => Exists(r.parent)) /\ Accepted(rows)
                   THEN components' = rows /\ Commits /\ Handle(r, Goes(r.n, "reread", id))
                   ELSE Handle(r, {}) /\ UNCHANGED <<components, version>>
    /\ UNCHANGED <<caching, cache, began, faults, cached, told, crossed>>

(* update: one transaction.                                                *)

\* Mutant: only the children follow, not the whole subtree.
Cascade_ToChildren(rows, id, old, new) ==
    {IF c.id # id /\ StartsWith(c.path, old) /\ Len(c.path) = Len(old) + 1
       THEN [c EXCEPT !.path = new \o SubSeq(c.path, Len(old) + 1, Len(c.path))]
       ELSE c : c \in rows}

\* The rows whose path is LIKE the old one get the new prefix.
Cascade(rows, id, old, new) ==
    {IF c.id # id /\ Like(c.path, old)
       THEN [c EXCEPT !.path = new \o SubSeq(c.path, Len(old) + 1, Len(c.path))]
       ELSE c : c \in rows}

\* "new parent must not be under this node"
Circular(c, parent) == StartsWith(Row(parent).path, c.path)

Update(c, name, parent, slug) ==
    LET new  == IF parent = Root THEN <<name>> ELSE Append(Row(parent).path, name)
        row  == [c EXCEPT !.name = name, !.parent = parent, !.path = new, !.slug = slug]
        set  == (components \ {c}) \cup {row}
        rows == IF new = c.path THEN set ELSE Cascade(set, c.id, c.path, new)
    IN  /\ Begin
        /\ ValidateSlug(slug) /\ RootHasSlug(parent, slug)
        /\ parent # Root => Exists(parent) /\ ~Circular(c, parent)
        /\ Accepted(set) /\ Accepted(rows)
        /\ components' = rows
        /\ Commits
        /\ requests' = requests \cup Goes(began', "reread", c.id)
        /\ UNCHANGED <<caching, cache, faults, cached, told, crossed>>

(* delete: rejected while it has children; also while it has tickets, which  *)
(* are not modelled: here any deletion may be rejected.                      *)

\* Mutant: a deletion does not reload the cache.
Delete_NoReload(c) ==
    /\ Begin
    /\ \A d \in components : d.parent # c.id
    /\ components' = components \ {c}
    /\ Commits
    /\ UNCHANGED <<caching, requests, cache, faults, cached, told, crossed>>

Delete(c) ==
    /\ Begin
    /\ \A d \in components : d.parent # c.id
    /\ components' = components \ {c}
    /\ Commits
    /\ requests' = requests \cup Goes(began', "load", Root)
    /\ UNCHANGED <<caching, cache, faults, cached, told, crossed>>

\* get_by_id(..).unwrap(): a row that is gone by then is a panic, and no reload.
RereadComponent(r) ==
    /\ r.pc = "reread"
    /\ Handle(r, IF Exists(r.id) THEN {[r EXCEPT !.pc = "load"]} ELSE {})
    /\ UNCHANGED <<caching, components, cache, began, faults, version, cached, told, crossed>>

(* SlugCache: reload, and the walk to the effective slug.                  *)

\* Mutant: the columns of the query are read in another order.
Snapshot_ColumnsSwapped(rows) == {[id |-> c.id, parent |-> c.slug, slug |-> c.parent] : c \in rows}

\* "SELECT id, parent_id, slug FROM components".
Snapshot(rows) == {[id |-> c.id, parent |-> c.parent, slug |-> c.slug] : c \in rows}

NewCache(rows) == Snapshot(rows)

\* create_component and update_component answer with an effective slug.
Resolves(r) == {[n |-> r.n, pc |-> "resolve", id |-> r.id, wrote |-> r.wrote]}

LoadFromDb(r) ==
    /\ r.pc = "load" /\ caching
    /\ Handle(r, {[n |-> r.n, pc |-> "install", id |-> r.id, wrote |-> r.wrote,
                   map |-> Snapshot(components), of |-> version]})
    /\ UNCHANGED <<caching, components, cache, began, faults, version, cached, told, crossed>>

\* The handlers ignore a failed reload, and reload nothing without a cache.
LoadFails(r) ==
    /\ r.pc = "load"
    /\ IF caching THEN faults < MaxFaults /\ faults' = faults + 1 ELSE UNCHANGED faults
    /\ Handle(r, Resolves(r))
    /\ UNCHANGED <<caching, components, cache, began, version, cached, told, crossed>>

Install(r) ==
    /\ r.pc = "install"
    /\ cache' = r.map
    /\ cached' = r.of
    /\ crossed' = (crossed \/ r.of < cached)
    /\ Handle(r, Resolves(r))
    /\ UNCHANGED <<caching, components, began, faults, version, told>>

\* Mutant: the walk begins at the parent.
WalkSlug_FromParent(map, id) ==
    LET Entry(i) == CHOOSE e \in map : e.id = i
        walk[n \in 0 .. MaxDepth] ==
           [i \in Parents |-> IF n = 0 \/ \A e \in map : e.id # i THEN NoSlug
                              ELSE IF Entry(i).slug # NoSlug THEN Entry(i).slug
                              ELSE walk[n - 1][Entry(i).parent]]
    IN  IF \E e \in map : e.id = id THEN walk[MaxDepth][Entry(id).parent] ELSE NoSlug

\* The first slug on the way to the root. An unknown component, a root without a slug and
\* a walk that is too long are errors; each leaves the effective slug out of the answer.
WalkSlug(map, id) ==
    LET Entry(i) == CHOOSE e \in map : e.id = i
        walk[n \in 0 .. MaxDepth] ==
           [i \in Parents |-> IF n = 0 \/ \A e \in map : e.id # i THEN NoSlug
                              ELSE IF Entry(i).slug # NoSlug THEN Entry(i).slug
                              ELSE walk[n - 1][Entry(i).parent]]
    IN  walk[MaxDepth][id]

\* Without a cache there is no slug: an empty map stands for it.
ResolveEffectiveSlug(id) == WalkSlug(cache, id)

\* The answer has the effective slug of r.id, if there is one.
Answer(r) ==
    /\ r.pc = "resolve"
    /\ told' = IF r.wrote > told THEN r.wrote ELSE told
    /\ Handle(r, {})
    /\ UNCHANGED <<caching, components, cache, began, faults, version, cached, crossed>>

\* One unknown component, or one without a slug, and the whole batch has none.
ResolveMany(map, ids) ==
    IF \E i \in ids : WalkSlug(map, i) = NoSlug THEN <<>>
    ELSE [i \in ids |-> WalkSlug(map, i)]

(* list_components, and the slugs of a page of tickets: rows from the      *)
(* table, effective slugs from the cache, later.                           *)

\* What "ORDER BY path" may make of the rows.
Sorted(rows) ==
    LET Before(p, q) ==
           \/ Len(p) < Len(q) /\ StartsWith(q, p)
           \/ \E i \in 1 .. Len(p) : /\ i <= Len(q)
                                     /\ SubSeq(p, 1, i - 1) = SubSeq(q, 1, i - 1)
                                     /\ Rank[p[i]] < Rank[q[i]]
    IN  {s \in [1 .. Cardinality(rows) -> rows] :
           Range(s) = rows /\ \A i, j \in DOMAIN s : i < j => Before(s[i].path, s[j].path)}

\* The cache shows the table, and no mutation was committed since the rows were read.
Calm(r) == caching /\ version = r.since /\ cached = version

ComponentResponse(row, effective_slug, calm) ==
    [row |-> row, effective_slug |-> effective_slug, calm |-> calm]

ListComponents ==
    /\ Begin
    /\ components # {}
    /\ \E rows \in Sorted(components) :
          requests' = requests \cup {[n |-> began', pc |-> "list", rows |-> rows,
                                      since |-> version, items |-> <<>>]}
    /\ UNCHANGED <<caching, components, cache, faults, version, cached, told, crossed>>

\* One row after the other; the answer is sent when all have been resolved.
ListNext(r) ==
    /\ r.pc = "list"
    /\ LET next == Len(r.items) + 1
       IN Handle(r, IF next > Len(r.rows) THEN {}
                    ELSE {[r EXCEPT !.items = Append(@,
                              ComponentResponse(r.rows[next],
                                 ResolveEffectiveSlug(r.rows[next].id), Calm(r)))]})
    /\ UNCHANGED <<caching, components, cache, began, faults, version, cached, told, crossed>>

\* rows are the components of the tickets of a page, as repos::ticket::enrich_many reads them.
ListTickets(rows) ==
    /\ Begin
    /\ requests' = requests \cup {[n |-> began', pc |-> "enrich", rows |-> rows, since |-> version]}
    /\ UNCHANGED <<caching, components, cache, faults, version, cached, told, crossed>>

EnrichWithSlugs(r) ==
    /\ \/ /\ r.pc = "enrich"
          /\ Handle(r, {[n |-> r.n, pc |-> "page", rows |-> r.rows, calm |-> Calm(r),
                         slugs |-> ResolveMany(cache, {c.id : c \in r.rows})]})
       \/ r.pc = "page" /\ Handle(r, {})
    /\ UNCHANGED <<caching, components, cache, began, faults, version, cached, told, crossed>>

\* main builds a new cache from the table, or goes on without one.
Restart ==
    /\ requests # {}
    /\ faults < MaxFaults
    /\ faults' = faults + 1
    /\ requests' = {}
    /\ caching' \in BOOLEAN
    /\ cache' = IF caching' THEN NewCache(components) ELSE {}
    /\ cached' = version
    /\ UNCHANGED <<components, began, version, told, crossed>>

Next ==
    \/ \E name \in Names, parent \in Parents, slug \in Slugs \cup {NoSlug} :
          \/ ReadParent(name, parent, slug)
          \/ \E c \in components : Update(c, name, parent, slug)
    \/ \E c \in components : Delete(c)
    \/ \E r \in requests : InsertComponent(r) \/ RereadComponent(r) \/ LoadFromDb(r) \/ LoadFails(r)
                           \/ Install(r) \/ Answer(r)
                           \/ ListNext(r) \/ EnrichWithSlugs(r)
    \/ ListComponents
    \/ \E rows \in SUBSET components : rows # {} /\ ListTickets(rows)
    \/ Restart

Spec == Init /\ [][Next]_vars

-----------------------------------------------------------------------------
(* Correctness.                                                            *)

\* The variables have their types.
TypeOK ==
    /\ components \subseteq Component /\ \A c \in components : ValidateSlug(c.slug)
    /\ requests \subseteq Request
    /\ cache \subseteq CachedComponent /\ caching \in BOOLEAN
    /\ began \in 0 .. MaxRequests /\ faults \in 0 .. MaxFaults
    /\ version \in Versions /\ cached \in Versions /\ told \in Versions
    /\ crossed \in BOOLEAN

\* Every path is the parent's path and the name. It leaves no room for a cycle.
SpellTheTree(rows) ==
    \A c \in rows :
       IF c.parent = Root THEN c.path = <<c.name>>
       ELSE \E p \in rows : p.id = c.parent /\ c.path = Append(p.path, c.name)

PathsSpellTheTree == SpellTheTree(components)

\* update, delete and the restart keep the paths right, the cascade and the circular
\* reference check together, names that differ in case included; so does a create whose
\* parent has kept its path since it was read.
Undisturbed(r) ==
    r.pc = "insert" =>
       IF r.parent = Root THEN r.path = <<r.name>>
       ELSE \E p \in components : p.id = r.parent /\ r.path = Append(p.path, r.name)

MutationsKeepPaths ==
    [][PathsSpellTheTree /\ (\A r \in requests : Undisturbed(r)) => PathsSpellTheTree']_vars

\* The cache is stale, with no handler left to refresh it, only after a failed reload or
\* after two reloads installed what they loaded in the other order.
StaleOnlyByCrossing ==
    requests = {} /\ faults = 0 /\ ~crossed => cache = NewCache(components)

\* The answered mutations are in the cache, unless a reload failed or two crossed: whoever
\* has an answer sees the change in what is listed next. And while nothing changes, the
\* effective slug of a listed component is the slug of the nearest component on its path,
\* if that is less than MaxDepth up; and the tickets of components that have slugs show them.
Nearest(rows, path) ==
    LET above == {c \in rows : c.slug # NoSlug /\ StartsWith(path, c.path)
                              /\ Len(path) - Len(c.path) < MaxDepth}
    IN  IF above = {} THEN NoSlug
        ELSE (CHOOSE c \in above : \A d \in above : Len(d.path) <= Len(c.path)).slug

SlugsFollowPaths ==
    /\ faults = 0 /\ ~crossed => told <= cached
    /\ \A r \in requests :
          /\ r.pc = "list" /\ SpellTheTree(Range(r.rows)) =>
                \A i \in DOMAIN r.items :
                   r.items[i].calm => r.items[i].effective_slug = Nearest(Range(r.rows), r.rows[i].path)
          /\ r.pc = "page" /\ r.calm /\ (\A c \in r.rows : c.slug # NoSlug) =>
                \A c \in r.rows : c.id \in DOMAIN r.slugs /\ r.slugs[c.id] = c.slug

\* ticket-slugs.md 6: "A component slug change takes effect immediately for all tickets
\* in its subtree." (The last of two concurrent reloads may install the older map.)
SlugsTakeEffect == requests = {} /\ faults = 0 => cache = Snapshot(components)

\* component.rs, update: "detect circular references". (It compares paths, and a child
\* created while its parent was renamed has a path that no longer begins with its
\* parent's.)
NoCycles ==
    \A S \in SUBSET components :
       S # {} => \E c \in S : \A d \in S : c.parent # d.id
=============================================================================
