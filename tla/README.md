# A TLA+ model of S9

S9 is a bug tracker: a Rust server (axum, sqlx, SQLite) with a React frontend. This
directory models the server's core, checks it with TLC on small instances, and proves with
TLAPS, for every instance, some of what the checks found.

## 1. The system

The server handles each HTTP request in an asynchronous task. Handlers (`src/src/api`)
call repositories (`src/src/repos`), which issue SQL through a pool of up to eight
connections to one SQLite file in WAL mode. One background task, the notification worker,
runs beside them. State shared by tasks is the database, the slug cache (a map under an
`RwLock`), the files of attachments, and an event bus. Browsers hold the rest: a session
cookie, and the state of an OIDC flow.

What makes the system hard is that **most operations are several SQL statements**, and
only some of them share a transaction. Between two statements of a request any other
request, or the worker, may run. Two facts about SQLite matter all over:

* `id INTEGER PRIMARY KEY` without `AUTOINCREMENT` gives the id of a deleted last row out
  again, so an id read in one statement may name another row in the next;
* a transaction that reads and then writes is refused when another writer committed in
  between. A transaction is therefore one step of the models; outside a transaction, each
  statement is one.

| Component | State | Operations | Interacts by | What makes it correct | Modelled in |
|---|---|---|---|---|---|
| Notification producer `notifications.rs` | rows of `pending_notifications` | `emit`, `emit_with_mentions` | called by the ticket and comment handlers; reads tickets, CC, mutes, users | nobody who declined is notified; each event once per recipient | `Notifications` |
| Notification worker `email.rs` | the batch it is working on | `notification_worker`, `process_pending`, `purge_expired` | the table, SMTP, a 30 s tick | no row lost silently, repeated only by faults, every row leaves | `Notifications`, `NotificationTiming`, `NotificationOutbox`; the text: `Mail` |
| Mutes `api/mute.rs` | `notification_mutes` | mute, unmute | read by the producer | see producer | `Notifications` |
| Comments `repos/comment.rs`, `api/comment.rs` | `comments`, `comment_edits` | create, edit, delete, list | calls the producer; links attachments | numbering, history, what a reader is shown | `Comments`, `CommentViews` |
| Tickets `repos/ticket.rs`, `api/ticket.rs` | `tickets`, `ticket_cc`, `ticket_milestones` | create, update, get, list | calls the producer, writes comment #0 | each change announced once, and nothing else changed | `Tickets`, `Listing`; the description: `Comments` |
| Milestones `repos/milestone.rs`, `api/milestone.rs` | `milestones`, links | create, update, delete, statistics | tickets | links survive, statistics add up | `Tickets` |
| Component tree `repos/component.rs`, `api/component.rs` | `components` with materialized `path` | create, update, delete, list | reloads the slug cache | paths spell the tree | `ComponentTree` |
| Slug cache `slug.rs` | map of id to parent and slug | load, reload, resolve | read by ticket and component handlers | agrees with the table | `ComponentTree` |
| Accounts and sessions `repos/user.rs`, `repos/session.rs`, `api/user.rs`, `api/auth.rs`, `auth/` | `users`, `sessions` | login, logout, create, update, deactivate, set password, validate, list | every request is validated | deactivation and password changes end sessions; what answers say | `Accounts`, `AccountViews` |
| OIDC `api/oidc.rs` | `users.oidc_sub`, the state cookie | authorize, callback, provision | accounts, browsers | one user per subject; nobody signed in as somebody else | `Server` (the flow), `Accounts` (from the verified claims on) |
| Attachments `storage.rs`, `repos/attachment.rs`, `api/attachment.rs` | files by SHA-256, `attachments`, `comment_attachments` | upload, link, download, `cleanup_orphans` | comments | every row has its file, and the right one | `Attachments` |
| Search `search/` | none | tokenize, parse, build | ticket list | a query selects what it says | `Search` |
| Cursors `repos/cursor.rs` | none | encode, decode, page | ticket list | a sequence of pages lists every ticket once | `Listing` |
| References, mentions `references.rs`, `mentions.rs`; estimations `models/ticket.rs` | none | scan, parse, format | comments, tickets | found where words begin; round trips | `Scanners`, `Estimation` |
| Router, middleware `api/mod.rs`, `auth/middleware.rs` | none | route, admit | everything | administrators' work is theirs alone | `Server` |
| Start-up `main.rs`, `config.rs`, `cli.rs`, `db/mod.rs` | schema, directories | serve, migrate, create-admin | builds the state of the others | what listens is what was configured | `Startup` |
| Full-text index `repos/fts.rs` | `tickets_fts` | index | nothing calls it | | as empty: `Listing` |
| Event bus `events.rs` | broadcast channel | subscribe | nothing publishes | | not modelled |
| Frontend `frontend/src`, Starpom `tools/starpom` | | | | | not modelled |

The hazards, each at its line and with the property that watches it, are listed in
`PROJECT.json`.

## 2. The modules

`Sqlite` (`IsNextRowid`, the reuse of ids; `UniqueIds`) is external: SQLite as the schema
and the repositories use it. `Models` has what rows, bodies and answers of several
components share: the enumerations, bodies of PATCH requests as functions on the fields
they name, the codes of errors.

### Notifications: `Notifications`, `NotificationTiming`, `NotificationOutbox`
Each call of `emit_with_mentions` in progress is a record in `emissions`, whose `pc` names
the next statement: the owner, the CC list, the mutes, the inactive users, and then one
INSERT per recipient in any order. `BeginEmit` stands for the handler's call. The worker
is a process with `wpc`: `Wake` (the tick), `PurgeExpired`, `SelectGroups` (the grouping
query), then for each group `LookupRecipient`, `SendNotification` and
`DeleteNotificationIds`. `todo` is the result of the query and `mail` the group in work,
so what the worker has read grows stale exactly as it does in the code. `EmitFails`,
`PurgeFails` and `PassFails` are the error paths; `Crash` loses the memory and keeps the
table; `Restart` may come up with SMTP configured or not. The environment changes
users, mutes, owners and CC lists at any time.

Time is the age of a row. `created_at` is age 0 (an emission that is inserting has read
its clock already, so its age grows too), `send_after` is age `Delay`, expiry is beyond
age `Ttl`. Ages saturate where no comparison can tell them apart. An SMTP error may come
before or after the server took the message; both are outcomes of `SendNotification`.
`verdicts`, `mails`, `gone` (and `quiet`, `dormant` in an emission) are history variables:
no action's guard reads them.

`NotificationTiming` adds a punctuality assumption: while the process is up, a pass ends in
each clock unit, and emissions take no time. A row that is due at once may still miss the
pass that is under way, and so has a window of one unit. `NotificationOutbox` is the abstract
specification: notifications are queued, mailed in batches for one recipient, forsaken,
closed or expired. `Outbox` in `Notifications` is the refinement mapping, `OutboxSpec` the
property. `Mail` is what a batch's e-mail says.

### Comments: `Comments`, `CommentViews`
Rows of `tickets`, `comments` and `comment_edits`, and `requests`, the handlers between
two statements. `CreateComment` and `Update` are transactions; `LookUpToEdit` and
`LookUpToDelete` are the first statements of handlers whose second addresses a row by the
id found. `CreateTicket` and `CreateDescriptionComment` are the two halves of
`create_ticket`. A request has a stamp, which stands for the body it writes and for the
moment it writes. `said` is history: every body that each comment ever had.

`CommentViews` follows one reader through the three statements of a listing (rows, counts
of edits, edits), or the re-read behind the answer to a creation or an edit, while all of
`Comments` goes on around it. A sorted result is one of the sequences that list the
rows found in their order. `heard` and `gone` are history.

### `Tickets`
Tickets with CC lists and milestones. `update_ticket` reads the row, runs its
transaction, reads the row and the relations again, compares and emits; each is a step,
and what a handler holds between them is in its record in `requests`. A milestone's update
reads, merges and writes, and its deletion checks, counts and deletes, in statements of their
own. Statistics are answered by the query that counts them. `raced`, `changed`,
`before`, `committed` and `released` in a record are history. What a batch's mail
says of an update is computed with `Mail`.

### `Attachments`
Files are in two directories, `tmp` and `published` (by digest). An upload goes through
the limits of the body, `store_file` (write, look for the digest, rename or remove) and the
INSERT, each of which may fail, or be the last before a crash; a crash leaves files on
disk, and the restart empties `tmp` (`init_dirs`). Two removals are passed over in the code
when they fail, that of a temporary file whose content is on disk already (`Dedup`) and those
of `init_dirs` (`Restart`): what is left is `stuck`. The error arms of a download are
`LookUpFails` and `OpenFails`. `cleanup_orphans` is a process of its
own that selects, deletes rows, checks for references, and unlinks. Comments link
attachments, are deleted with their links, and are shown with them by separate reads.

### `Listing`, `Search`, `Scanners`, `Estimation`
A client asks for the pages of a list, one request after the other, while tickets are
created and updated. Times are counted in parts of a millisecond, since a cursor keeps
milliseconds of a time stored with more digits, as text with another ending. As text,
`.123000Z` is greater than `.123+00:00` and than all of `.123000001+00:00` to
`.123000999+00:00`, and less than the rest of its millisecond: `MicroParts` of the `Parts` are
that first microsecond, which is listed again. Any statement of a page may fail (500). `Search` has
the tokens, the parser with its chains of `OR`, and the conditions as what they select.
`Scanners` has the two scanners of comments, on characters that stand for their classes;
`Estimation` parsing and formatting, in tenths of an hour. What is typed is
enumerated by typing: a text grows by pieces, and every text on the way is checked.

### `ComponentTree`
Rows with name, parent, path and slug. A path is a sequence of names; `Fold` gives the
lower-case form that `LIKE` compares. `ReadParent` and `InsertComponent` are the two
statements of `create`; `Update` is one transaction with the circular check and the
cascade; `Delete` is the one effective statement of `delete` (foreign keys make it fail
while there are children, whatever was counted before). Each mutation is followed by a
re-read of its row and a reload of the cache in two steps, `LoadFromDb` and `Install`,
which may fail (`LoadFails`), and by the answer with the effective slug. `ListComponents`
and `ListTickets` are readers that take rows from the table and slugs from the cache.
`version`, `cached`, `told` and `crossed` are history: which state of the table the cache
shows, which mutation was answered, and whether an older state ever replaced a newer one.

### `Accounts`, `AccountViews`
Rows of `users` and `sessions`. No handler here has a transaction, so every SQL statement
is a step, and a request is a record whose `pc` names its next one: "user" (the middleware
has found the session), then by handler "read" and "write" (`update`), "revoke"; "check",
"set" and "others" (`set_password`); "insert", "bind" and "reread" (account creation and
OIDC provisioning); "open" and "fetch" (`session::create`). The records keep what the
handler has read. `extending` holds the tokens of the spawned tasks that will extend a
session. A session's remaining life is one of three (more than half, less, none), as the
code compares it with no other threshold. The model starts from a `Population` of accounts
with a session each, a state that logins lead to. Passwords stand for their hashes. `by` in
a session, `off` and `raced` are history.

`AccountViews` follows one listing, creation or update to its answer, with all of
`Accounts` going on around it; `were` is history, the rows there have been meanwhile.

### `Startup`, `Server`
`Startup` is the process from its flags to `axum::serve`: each step may fail, and the model
follows the code in which failures end the process and which leave it without a
part. `Server` EXTENDS it with what browsers see of a process that listens: the routing
table with the layer, extractor or check in the body that protects each handler, the
session cookie, and OIDC flows from the redirect to the callback. Responses are lost and
reordered, tabs share cookies, URLs of callbacks are opened twice or in another
browser, and the process restarts between any two steps. A successful callback sets the session
cookie and leaves the state cookie as it is, since axum inserts the headers of an array and the
second `SET_COOKIE` replaces the first. `opened`, `refused` and `excused` are history.

### Model checking and proof modules
`MC*` modules declare the model values, symmetries and inputs for the configurations.
`NotificationProofs`, `CommentProofs`, `TicketProofs`, `ListingProofs`, `TreeProofs`,
`AttachmentProofs`, `AccountProofs` and `ServerProofs` hold the theorems.

Operators named `X_Y`, with a comment that begins "Mutant", are variants of `X` that a
plausible mistake would produce. No specification uses them; `PROJECT.json` lists which
property each one breaks.

## 3. What the runs show

| Run | Configuration | Instance | Shows |
|---|---|---|---|
| `notifications_delivery` | `Notifications_delivery` | 2 users, 2 tickets, 2 events, 2 rowids, 2 faults | types; the held ids stay valid (`HeldRowsLive`); nothing is deleted on another row's account (`GoneForItsOwnVerdict`); repeated mails are bounded by faults (`RepeatedOnlyByFaults`); the outbox is implemented (`OutboxSpec`) |
| `notifications_liveness` | `Notifications_liveness` | 1 event with mentions, 2 changes of the environment, 1 fault, fairness | consent (`ConsentAtEmission`), `EveryRowLeaves` |
| `notifications_punctual` | `Notifications_punctual` | 2 events on one ticket, 1 change, no fault | no row waits a second tick (`HandledPromptly`) |
| `comments_threads` | `Comments_views` | 2 users, 1 of them admin, 2 tickets, 5 requests with the reader's, 1 fault | types, `RepliesInOrder`, `EditHistoryComplete`, and that a listing loses nothing (`ViewsLoseNothing`) |
| `tickets_updates` | `Tickets_updates` | seeded tickets and milestones, 2 requests, 1 fault | types and statistics, `UpdatesToldExactly`, `UnnamedFieldsKept`, `LinksLostOnlyToRaces` |
| `attachments_storage` | `Attachments_storage` | 2 uploads, 1 comment, 1 read, 2 cleanups, 1 fault | types, `RowsHaveFiles`, `NoLitter`, `LinksAsMeant`, `ServedAsUploaded` |
| `listing_queries` | `Listing_queries` | texts of up to 4 pieces, 6 tickets, of which two share a millisecond and one is in the first microsecond of its own, pages of 2 | types, `ListedOnce`, `SearchFaithful`, `TextReadBack` |
| `listing_text` | `Listing_text` | the same | **violation**: a search for text is answered 500 |
| `tree_paths` | `ComponentTree_paths` | 3 rowids, 2 names that differ in case, 3 slugs, 1 of them invalid, 4 requests, 2 at a time, 1 fault | types, `MutationsKeepPaths`, `StaleOnlyByCrossing`, `SlugsFollowPaths` |
| `accounts_sessions` | `Accounts_sessions` | an admin, a user, one account to be created, 1 subject, 2 passwords, 3 requests, 2 at a time, 1 failure or ageing | types, `AdmittedBeforeDeactivation`, `LeftoversOnlyByRaces`, `NoAutoLinking`, `RevokedStaysRevoked` |
| `accounts_views` | `Accounts_views` | the same with 1 password, one request followed | what answers say (`AnswersHold`) |
| `server_access` | `Server_access` | 2 starts, 2 browsers, an administrator and a user, 2 flows, 1 session, 2 messages on their way | types, `ServedAsConfigured`, `SignedInAsOneself`, `LoneFlowSignsIn`, `AdminWorkOnlyForAdmins` |

The violation is a disagreement between the code and its documentation: `PROJECT.json` quotes
the sentence. The statement that `build_fts_query` makes was also tried with `sqlite3`,
which answers "no such column: fts".

### Divergences beside the listed runs

These configurations show other disagreements. Each states in its property what a
document or a comment says, and TLC answers with the behaviour that contradicts it.

| Configuration, module | Property | What happens |
|---|---|---|
| `Notifications_unreachable`, `MCNotifications` | `UnreachableServerLosesNothing` | a failed send deletes the batch, also when the server is down |
| `Notifications_expiry`, `MCNotificationTiming` | `ExpiryFollowsASendPass` | after an outage, rows expire untried: the purge precedes the pass |
| `Comments_description`, `MCComments` | `DescriptionCannotBeDeleted` | an id given out again lets a pending deletion hit a description |
| `ComponentTree_cycles`, `MCComponentTree` | `NoCycles` | a child created while its parent is renamed escapes the circular check |
| `ComponentTree_slugs`, `MCComponentTree` | `SlugsTakeEffect` | two crossing reloads leave the old slug in the cache |
| `Accounts_profile`, `MCAccounts` | `ProfileEditsKeepRoles` | a profile edit writes an old role or `is_active` back |
| `Tickets_deletion`, `MCTickets` | `DeleteRejectsAssigned` | a milestone assigned after the count is deleted with its links |
| `Listing_cursor`, `MCListing` | `ListedExactlyOnce` | tickets of the cursor's millisecond are skipped, and those of its first microsecond repeated |

`Attachments` states two more, which its run's instance refutes when they are added to it:
`UploadsUpToMaxFileSize` (axum's own limit of 2 MB comes first) and `LongNamesTruncated`
(`sanitize_filename` slices at byte 255, which panics inside a character). `Server` states
`StateCookieCleared`, which its run's instance refutes: docs/dd/auth.md:295 and the comment at
api/oidc.rs:257 clear the state cookie in a successful callback, but the array of headers there
has `SET_COOKIE` twice, and axum keeps the second, the session's. The browser carries the state
of a finished flow until it expires after ten minutes.

Read in the code and the documents, without a property:

* docs/dd/auth.md:117 keeps active sessions alive indefinitely; the cookie's Max-Age of 30
  days is never renewed.
* docs/dd/auth.md:123 and docs/dd/attachments.md:107 promise hourly cleanup tasks; `main`
  starts neither.
* cli.rs:17 says OIDC is enabled by the issuer's URL; config.rs needs all three flags.
* A second `serve` on the data directory of a running server empties its `tmp` and
  migrates its database before it fails to bind.
* The pragmas of the pool are executed on one of its connections.

### Bounds

*Notifications.* Two events and two rowids are the least with which an id can be reused
while the worker holds it, and with which one batch holds two rows and another waits.
Two faults allow a crash after the send and a second failure in the recovery.
`Delay = 1` and `Ttl = 2` keep "too young", "due" and "expired" apart; in the liveness run
`Ttl = 1` shortens the wait. The kinds in each configuration cover the three ways of
finding recipients between them (owner; owner and CC; component owner; mentions). Changes
are zero in the delivery run, which is about rows; the other two runs have them.

*Comments.* Five requests suffice for: create, edit against edit, delete, and create with
the id given out again, or four of these and a reader. Numbering and history concern one
ticket at a time, and ids are shared by two. A behaviour is followed until the reader has
its answer, and the answer to a creation or an edit while more requests may come.

*Tickets.* Every property relates one update, deletion or answer to one other request that
came between its statements, or to one failure: two requests and one fault. The bodies
name each field, alone and together, leave each out, and clear each that may be cleared.

*Attachments.* Two uploads, of one content or of two, and two passes of the cleanup: the
least with which an upload finds a file that a cleanup is about to unlink, and with which
an id is given out again. Downloads and readings share the bound `MaxReads`.

*Listing.* With pages of two, the tickets seeded put a ticket of the first microsecond and two
that share a millisecond at page boundaries, as writes move them, with one behind them that must
be listed once. A millisecond has its first microsecond in two parts, with nanoseconds and without,
and one later part. Were `ListedOnce` to exempt only times without
micro- and nanoseconds, or tickets that share a millisecond not at all, the run would refute it. A client gets three
pages at most. Four pieces of a query hold two filters with an `OR` and text beside
them, or an `OR` that joins nothing; four of a comment hold two adjacent references.

*ComponentTree.* Three rows make a grandchild, for which a cascade to the children is not
enough. Names that differ only in case separate `LIKE` from `starts_with`. Four requests
build a chain and move it, or make two reloads cross, or let a reader meet them.
`MaxDepth = 2` puts the limit of the walk inside a tree of three.

*Accounts.* Three requests suffice for: a login that overlaps a deactivation, and a request
with the session it leaves; two updates of one row and a login; a password change, a login
under the old password, and a third party. Two at a time is what each of these races needs.
An update asks for one of role and `is_active` at most (`Asks`). In `accounts_views` one
request is followed to its answer.

*Server.* Two flows and two browsers are the least with which tabs overwrite a cookie, or a
callback's URL is opened in another browser; two messages on their way overtake each other. The
accounts are active and stand still, since `Accounts` is about their changes. `Settled` lets
flows begin only once the process listens or has nothing left to start. The proofs of
section 4 hold for any numbers.

`CHECK_DEADLOCK FALSE` is set where requests are bounded: a server with no request left
to handle may stop. The notification runs keep the deadlock check: the worker always wakes.

### Fairness

`Notifications!FairSpec` assumes weak fairness of the worker's steps taken together, and of
the clock. The loop of `notification_worker` awaits only timers and calls that return (SMTP
with its timeout, SQL with its busy timeout), and the Tokio runtime polls every task that
is ready. Nothing is assumed of users, handlers, the SMTP server's answers, or of anyone
who would start a dead process again: `EveryRowLeaves` speaks of the time the process
stays up. Faults are finite in number; with faults for ever nothing could be promised. The
other components are handlers that run when a client asks; they promise nothing that
would need fairness.

## 4. What is proved

`NotificationProofs` (for any users, tickets, kinds, CC lists, delays and bounds that
satisfy `ConstantsAssumption`):

* `TypeCorrect`: `Spec => []TypeOK`.
* `WorkerHoldsLiveRows`: `Spec => []HeldRowsLive`. `HeldRowsLive` is not inductive. The
  strengthening is `RowsInv`: ids in the table are unique, no two groups in `todo` are for
  the same user and ticket, none shares an id with `mail`, the worker holds nothing
  between passes, and at "delete" the verdict is recorded for every notification of the
  mail. A new rowid is larger than every live one, so it cannot collide with one held; a
  delete removes the ids of `mail` only, which no other group has. `PurgeExpired` is the one
  other deletion, and it runs when nothing is held: the mutant that makes it a task of its
  own breaks the invariant.
* `NothingLostSilently`: `Spec => []GoneForItsOwnVerdict`, from the same invariant: the row
  deleted under an id in `mail` is a notification of that mail, and it has the verdict.
* `RowsHandledPromptly`: `PunctualSpec => []HandledPromptly`, of `NotificationTiming`. The
  invariant is `TimelyInv`: without a fault, a row past its window, or at the end of its window
  once a pass has ended in this clock unit, is in the hands of the pass under way. `RowsInv`
  supplies that no mail is held between groups. The proof is what found that a row
  due at once (`Delay = 0`) may wait one unit longer than `Delay`.
* `NobodyUnwilling`: `Spec => []ConsentAtEmission`. `ConsentInv` says of an emission at each of
  its statements that whoever is still a recipient was either not quiet or not dormant
  throughout, or is about to be removed by a read that is yet to come.
* `RepeatsAreFaults`: `Spec => []RepeatedOnlyByFaults`. The invariant is `NoticeInv`: the
  notices have been numbered in the order of their emissions, a future one is nowhere, each
  was inserted once, a held row is queued, and the mails of a notice that is still queued
  are no more than the faults so far.
* `OutboxImplemented`: `Spec => OutboxSpec`, the refinement: initial states map to initial
  states, and each statement to a step of the outbox or to none. It needs `RowsInv` (the
  deleted rows are the mailed ones) and `NoticeInv` (a mailed notice was queued).

`CommentProofs` (for any users, admins, tickets and bounds satisfying
`CommentsAssumption`):

* `CommentsTypeCorrect`: `Spec => []TypeOK`.
* `NumbersFollowTime`: `Spec => []RepliesInOrder`.
* `HistoryKeepsEveryBody`: `Spec => []EditHistoryComplete`.

  Both rest on `CommentsInv`: ids are unique, stamps belong to one comment or one request,
  `said` knows each current body, and every edit belongs to a live row. The last is what
  makes the reuse of ids harmless: a new row cannot find edits under its id.
* `ListingsLoseNothing`: `ViewsSpec => []ViewsLoseNothing`. `ViewInv` says what a reader
  between its statements may rely on: a row it holds is in the table under its id unless it
  was deleted meanwhile, with a body that is its present one or one of its edits, and a count
  of edits lies between what there was and what there is. An edited row
  moves its old body into the history in one transaction, so a body can be in neither place
  only if its row has gone.

`TicketProofs` (for any users, bodies, rows at first and bounds satisfying `TicketsAssumption`
and `NullAssumption`: rows have their columns and the columns their types, ids and names of
milestones are unique, links refer to tickets and milestones there are, bodies have the types
of the request structures, and `NULL` is no value read or announced):

* `WritesKeepTheRest`: `Spec => []UnnamedFieldsKept`, and `DeletionsTakeLateLinksOnly`:
  `Spec => []LinksLostOnlyToRaces`. The invariant, `TicketsInv`, says that each request is
  `Prepared` for the write it is about to do: unless it has raced, the milestone row it holds
  is the one in the table, or the milestone it is to delete has no links. A write either
  does not touch what a request relies on or marks it as raced. A ticket's update relies on
  nothing, as its transaction reads the row again.
* `TicketTypes`: `Spec => []TypeOK`. The invariant is `TypesInv`: a body keeps its type until it
  is written, and a transaction that does not fail inserts only links to milestones that exist.
  The statistics of a milestone add up because the statuses partition its tickets; a sum of
  hours is a recursive function, taken along a set of numbers (`CountingUp`).
* `UpdatesAreTold`: `Spec => []UpdatesToldExactly`. The invariant, `UpdatesInv`, says of each
  update that has neither raced nor failed that what it holds belongs together (`Coherent`,
  at each of its statements) and that the ticket still is what it read, or what its
  transaction left (`Current`). A write that changes what such a request has read marks it as
  raced. The announcements are then `Told(r)`, which name each part of the difference once:
  two added milestones cannot share an announcement, since their names are unique. The CC
  mail has one line for each.

`ListingProofs` (for any rows at first, inputs, page sizes, clocks and bounds satisfying
`SearchAssumption`, `ListingAssumption` and `NullAssumption`: there is a first row, rows have a
status and a time within the bound, what is typed comes in sequences, days have numbers, and
`NULL` is no cursor):

* `ListingTypes`: `Spec => []TypeOK`.
* `PagesShowAll`: `Spec => []ListedOnce`. The invariant is `PagesInv`: a calm ticket (one that
  nobody wrote, that shared no millisecond, and that was not written in the first microsecond
  of one) has been shown once if the query selects it
  and it is not beyond the cursor, and not at all otherwise. A page of `Rows`, which are in
  a strict order (`RowsInOrder`), moves the cursor past exactly what it shows: the last row
  is the least of the page, what is left precedes no row of it, and a calm ticket is in
  the last row's millisecond only if it is that row. Writes touch no calm ticket.
* `QueriesAreFaithful`: `Spec => []SearchFaithful`, for texts of any length. `Tokens` shows
  that what is read of a text is a sequence of tokens. `QueryHasAll` goes backwards over the
  items: the clauses built from an item on, put end to end, are the filters from there on,
  there is one clause less for each `OR` between two filters, the other items are terms, and
  such an `OR` has its neighbours side by side in a clause (`ChainHasAll`). `DaysTiled` is
  arithmetic.
* `TextsAreReadBack`: `Spec => []TextReadBack`. `ScanFinds` goes backwards over a text: what is
  found from a position on is what matches at the starts of words from there on, for any
  pattern that matches a character at least and no separator (`Matching`), as both patterns
  do; so a match skips no start of a word. `DedupAll` keeps each once. `EstimationParsed` and
  `Displayed` compute a display and what it is parsed as, for any number of hours.

`TreeProofs` (for any names, slugs, rowids and bounds satisfying `TreeAssumption`):

* `CacheSettles`: `Spec => []StaleOnlyByCrossing`, and `ToldIsCached`: what was answered is in
  the cache. The invariant is `Reloading`: unless a reload failed or two crossed, a cache
  that does not show the table has a handler that is still to show it (one that is about to
  reread a row that exists, to load, or to install the present version). A mutation leaves
  such a handler; a row that is gone when its handler rereads it was deleted by a handler
  that reloads in its place. It needs no assumption about paths, and none about ids.
* `TreeTypes`: `Spec => []TypeOK`, where the number of rows and of requests is bounded by
  what the pending creations can still add.
* `PathsKept`: `Spec => MutationsKeepPaths`, a step property: a mutation that finds the paths
  spelling the tree leaves them so. The `LIKE` of a cascade selects lookalikes, too, paths that
  fold to the same letters. But above any lookalike there is one no longer than the path that
  moves (`LookalikeAbove`), the cascade gives it the moved row's new path, and `UNIQUE(path)`
  refuses the statement: no assumption on names or on folding is needed.
* `SlugsAreNearest`: `Spec => []SlugsFollowPaths`, with `ToldIsCached`. The walk up the cache is a
  recursive function; that it exists and finds the nearest slug within `MaxDepth`
  (`WalkFinds`) is shown by the least-number principle (`CountingUp`).

`AttachmentProofs` (for any files, limits, times and bounds satisfying
`AttachmentsAssumption`):

* `FilesBehindRows`: `Spec => []RowsHaveFiles`, and `NothingLeftBehind`: `Spec => []NoLitter`.
  The invariant is `StoreInv`. An upload between its look at the disk and its insert has its
  file there, or has raced. The rows that the cleanup is to delete exist until it deletes
  them, so no new row gets one of their ids, and the digests it selected are exactly theirs:
  that is what keeps the digest of a deleted row in its hands. When it has decided to remove
  a file, every row of that digest is of an upload that had no row at the check, and so is
  marked as raced by the removal. Temporary files are of uploads under way or failed, or a
  removal has failed on them, which is a fault; and they are whole once written, so a rename
  publishes a whole file.
* `AttachmentTypes`: `Spec => []TypeOK`.
* `LinksKeepMeaning`: `Spec => []LinksAsMeant`, and `DownloadsServeUploads`:
  `Spec => []ServedAsUploaded`. Four invariants on top of `StoreInv` carry them. `RowInv`:
  every row is as its upload was answered, and an upload with an id has its row or outlived
  its time and was collected. `LinkInv`: a link that a comment or a reading holds has the id its
  author was answered with. `DownloadInv`: what a download has opened is what some upload of
  that id and name published. `FileInv`: a published file has the content of an upload. That a
  sanitized name has no control character, which the header would refuse, is shown for names
  of any length.

`AccountProofs` (for any population, logins, passwords, subjects and bounds satisfying
`AccountsAssumption`):

* `AccountsTypeCorrect`: `Spec => []TypeOK`.
* `DeactivationAdmitsNobody`: `Spec => []AdmittedBeforeDeactivation`, also when a login or a
  failed delete has left a session behind.
* `CallbacksNeverLink`: `Spec => []NoAutoLinking`.

  Both rest on `AccountsInv`: ids are unique; a request's number has been given out, so the
  one recorded at a deactivation is no smaller; the row a request acts on exists and, if the
  request carries a subject, has it; a row waiting for its subject has none and waits for
  one callback only, so binding changes nothing that a session or another request relies
  on. Without the last conjunct a second callback could rebind a row that has sessions.
* `RevocationIsFinal`: `Spec => RevokedStaysRevoked`, a step property, from the types alone:
  every statement on `sessions` but the INSERT keeps or removes tokens.
* `NothingLeftOver`: `Spec => []LeftoversOnlyByRaces`: a session of a deactivated user, or one that
  outlives a password change, has a failure or an overlapping request behind it. The invariant
  adds that a request which has switched an account off, or set a password, is still to
  delete its sessions, and that a login under way when that happens has been marked.
* `AnswersAreTrue`: `Spec => []AnswersHold` of `AccountViews`: what a listing, a creation or an
  update answers is a row that there was while the request was being handled.

`ServerProofs` (for any users, browsers, command lines and bounds satisfying
`ServerAssumption` and `StartupAssumption`):

* `ServerTypeCorrect`, `ListeningIsWhole` (`ServedAsConfigured`), `NoForeignSession`
  (`SignedInAsOneself`), `LoneFlowsPass` (`LoneFlowSignsIn`) and `AdminWorkAuthorized`
  (`AdminWorkOnlyForAdmins`). All rest on `ServerInv`: a process is established as far as
  its `pc` says; flows and sessions are numbered without gaps; a state cookie, in a jar or on
  its way, names a flow of the browser it is for, and a session cookie a session opened for
  it; and a flow that is alone in its browser and not excused has its cookie there, or has
  not been begun. The conjunct on cookies is what carries `SignedInAsOneself`: a
  callback is verified against the cookie of the browser that opens it, so a URL
  carried elsewhere finds no cookie of its own.

The strengthenings were checked by TLC on the instances of the runs first. Proofs have a
lemma for each action that disturbs the invariant and one for those that do not.

Only model-checked: `EveryRowLeaves`, since liveness under fairness is beyond the prover. The
library's induction theorems are out of the provers' reach, too: where a proof needs
induction (the walk of the slug cache, file names, tokens, clauses and scans, sums of hours),
it goes through a set of numbers and its least element, and a recursive function is shown to
exist before its equation is used (`StepByStep`, `StepByStepBack`).

## 5. What is left to do

1. Compose `Tickets` with the producer of `Notifications`, and `Attachments` with `Comments`:
   at present each has the other's part as its environment.
2. The frontend's optimistic update and rollback.

Runs stay small enough for a laptop: each finishes in less than three minutes with two workers.

## 6. What is not modelled, and why

* The event bus: no handler publishes to it, although the comment at api/events.rs:17 says
  it broadcasts all system events.
* Code that only tests call: `repos/fts.rs`, `list` and `count` of `repos/ticket.rs`,
  `delete_expired` of `repos/session.rs`, `get_children` and `get_subtree` of
  `repos/component.rs`, `get_by_ids`, `link` and `delete` of `repos/attachment.rs`; and
  `send_password_reset`, which nothing calls. (`cleanup_orphans` is only called by tests,
  too, but is modelled as the maintenance call it is documented to be.)
* The text of mails beyond their lines, HTML rendering, SMTP itself, password hashing and the
  wording of password rules, the token exchange of OIDC, FTS ranking, OpenAPI tables:
  conversions and libraries without state of the program.
* The mute status, the comment counts in a ticket's answer, owners and ticket counts of
  components: read only, by one statement.
* The tickets that block the deletion of a component, in `ComponentTree`: a
  nondeterministic refusal.
* Component names that contain `/`, `%` or `_`. The code does not refuse them, and with
  them a path or a `LIKE` pattern means something else than the tree; the model's names
  are whole symbols, in a `component:` filter as well (`Search!UnderPath`).
* Date filters whose word is no date and begins with a digit or a sign, and so is a text in the
  midst of the stored times, or before them: `Search!CompareDate` takes every such word to
  begin with a letter. The terms bound to a `MATCH` are left out, for the index is empty.
* That an extension may revive a session that expired in the instant after its last
  request is in the model (`Extend`), and no property forbids it.
* The frontend is a program of its own, over a library's cache; Starpom is a developer's tool.

## 7. Running

    tlc -config Notifications_delivery.cfg MCNotifications
    tlapm NotificationProofs.tla

`PROJECT.json` names the module to run each listed `.cfg` with; the table above those of
the others.
