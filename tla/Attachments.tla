----------------------------- MODULE Attachments -----------------------------
(***************************************************************************)
(* Attachments: the content-addressed files, their rows, their links to    *)
(* comments, and the cleanup of orphans (src/src/storage.rs,               *)
(* src/src/api/attachment.rs, src/src/repos/attachment.rs).                *)
(*                                                                         *)
(* A file is shared by every row of the same digest. It is written before  *)
(* its row and removed after the last one, by statements and system calls  *)
(* of which any other request may run between two. cleanup_orphans is not  *)
(* scheduled by the server at this commit; the model runs it beside the    *)
(* server, as its own documentation foresees, one pass at a time.          *)
(***************************************************************************)
EXTENDS Models, FiniteSetsExt, Sequences, Sqlite

CONSTANTS
    Files,          \* what clients upload: content (it stands for its digest), name, ext,
                    \* size, magic (the type infer finds) and guess (mime_guess's), or NULL
    BodyLimit,      \* the limit axum puts on a request body when no layer sets another
    MaxFileSize,    \* DEFAULT_MAX_FILE_SIZE, in the same unit
    NameLimit,      \* bound: the 255 bytes of sanitize_filename
    TTL,            \* how old an orphan must be
    MaxTime,        \* bound: the clock
    MaxUploads,     \* bound: uploads in a behaviour
    MaxComments,    \* bound: comments in a behaviour
    MaxReads,       \* bound: downloads and readings of a comment in a behaviour
    MaxCleanups,    \* bound: passes of cleanup_orphans
    MaxFaults       \* bound: failed operations and crashes

ASSUME AttachmentsAssumption ==
    /\ \A file \in Files : file.name \in Seq(STRING)
    /\ NameLimit \in Nat \ {0} /\ TTL \in Nat /\ MaxTime \in Nat /\ MaxUploads \in Nat
    /\ MaxComments \in Nat /\ MaxReads \in Nat /\ MaxCleanups \in Nat /\ MaxFaults \in Nat

VARIABLES
    tmp,            \* the files in attachments/tmp: whose upload, and whether they are whole;
                    \* stuck is history: a removal of the file has failed
    published,      \* the content-addressed files: content, and whether they are whole
    attachments,    \* the rows of attachments
    comments,       \* the ids of comments
    links,          \* the rows of comment_attachments; meant is history: the upload the
                    \* comment's author named
    uploads,        \* every upload so far, with what its handler holds
    downloads,      \* every download so far
    readings,       \* every reading of a comment so far
    cleaner,        \* cleanup_orphans
    clock,          \* time, in the unit of TTL
    posts,          \* comments so far
    cleanups,       \* passes so far
    faults,         \* faults so far
    collected       \* history: the uploads whose row a cleanup removed

vars == <<tmp, published, attachments, comments, links, uploads, downloads, readings, cleaner,
          clock, posts, cleanups, faults, collected>>

rows == <<attachments, comments, links>>
reads == <<downloads, readings>>
counts == <<clock, posts, cleanups, faults, collected>>

UploadIds == 1 .. MaxUploads
RowIds == 1 .. MaxUploads

Init ==
    /\ tmp = {} /\ published = {} /\ attachments = {} /\ comments = {} /\ links = {}
    /\ uploads = <<>> /\ downloads = <<>> /\ readings = <<>>
    /\ cleaner = [pc |-> "idle", orphans |-> {}, digests |-> {}, digest |-> NULL, settled |-> {}]
    /\ clock = 0 /\ posts = 0 /\ cleanups = 0 /\ faults = 0 /\ collected = {}

-----------------------------------------------------------------------------
(* Names and types.                                                        *)

\* Characters stand for their classes: "ctl" is a control character and "w" one of two bytes.
Bytes(name) == Len(name) + Cardinality({i \in DOMAIN name : name[i] = "w"})

Trim(name) ==
    LET solid == {i \in DOMAIN name : name[i] # " "}
    IN IF solid = {} THEN <<>> ELSE SubSeq(name, Min(solid), Max(solid))

\* filter(..).collect(): the characters that are kept, in their order.
Kept(raw) == {i \in DOMAIN raw : raw[i] \notin {"/", "\\", "ctl"}}
Place(i, raw) == Cardinality({j \in Kept(raw) : j <= i})
Filtered(raw) ==
    [n \in 1 .. Cardinality(Kept(raw)) |-> raw[CHOOSE i \in Kept(raw) : Place(i, raw) = n]]

\* trimmed[..255] panics (NULL) when byte 255 is inside a character.
SanitizeFilename(raw) ==
    LET name == Trim(Filtered(raw))
        cuts == {i \in DOMAIN name : Bytes(SubSeq(name, 1, i)) = NameLimit}
    IN IF name = <<>> THEN <<"unnamed">>
       ELSE IF Bytes(name) <= NameLimit THEN name
       ELSE IF cuts = {} THEN NULL ELSE SubSeq(name, 1, Max(cuts))

ALLOWED_MIMES ==
    {"image/png", "image/jpeg", "image/gif", "image/webp", "image/svg+xml", "application/pdf",
     "text/plain", "text/csv", "text/markdown", "application/zip", "application/gzip"}

BLOCKED_EXTENSIONS == {"exe", "sh", "bat", "cmd", "msi", "dll", "so", "dylib"}

DetectMime(file) ==
    IF file.magic # NULL THEN file.magic
    ELSE IF file.guess # NULL THEN file.guess ELSE "application/octet-stream"

CheckAllowed(file) == file.ext \notin BLOCKED_EXTENSIONS /\ DetectMime(file) \in ALLOWED_MIMES

-----------------------------------------------------------------------------
(* upload_attachment and store_file.                                       *)

StorageError == [TooLarge |-> "PayloadTooLarge", MimeBlocked |-> "ValidationMsg", Io |-> "Internal"]

\* A name of its own for each upload.
TmpFile(k, whole) == [upload |-> k, whole |-> whole, stuck |-> FALSE]

\* let _ = fs::remove_file(..): a removal that fails is ignored.
Stuck(f) == [f EXCEPT !.stuck = TRUE]

Upload(file, pc, code) ==
    [file |-> file, name |-> SanitizeFilename(file.name), pc |-> pc, code |-> code,
     id |-> 0, created_at |-> clock, raced |-> FALSE]

\* What the handler decides before it writes anything. A panic ends the connection.
Refusal(file) ==
    IF SanitizeFilename(file.name) = NULL THEN "panic"
    ELSE IF file.size > BodyLimit THEN "BadRequest"
    ELSE IF file.size > MaxFileSize THEN StorageError.TooLarge
    ELSE IF ~ CheckAllowed(file) THEN StorageError.MimeBlocked ELSE "none"

UploadAttachment(file) ==
    /\ Len(uploads) < MaxUploads
    /\ LET refusal == Refusal(file)
       IN IF refusal = "none"
            THEN /\ uploads' = Append(uploads, Upload(file, "write", 0))
                 /\ tmp' = tmp \cup {TmpFile(Len(uploads) + 1, FALSE)}
            ELSE /\ uploads' = Append(uploads, Upload(file, "done",
                                  IF refusal = "panic" THEN 0 ELSE HttpStatus[refusal]))
                 /\ UNCHANGED tmp
    /\ UNCHANGED <<published, rows, reads, cleaner, counts>>

AtPc(k, pc) == k \in DOMAIN uploads /\ uploads[k].pc = pc
Goto(k, pc) == uploads' = [uploads EXCEPT ![k].pc = pc]
Content(k) == uploads[k].file.content
OnDisk(content) == \E f \in published : f.content = content

\* fs::write returns.
WriteTmp(k) ==
    /\ AtPc(k, "write")
    /\ tmp' = (tmp \ {TmpFile(k, FALSE)}) \cup {TmpFile(k, TRUE)}
    /\ UNCHANGED published
    /\ Goto(k, "exists")
    /\ UNCHANGED <<rows, reads, cleaner, counts>>

DestExists(k) ==
    /\ AtPc(k, "exists")
    /\ Goto(k, IF OnDisk(Content(k)) THEN "dedup" ELSE "rename")
    /\ UNCHANGED <<tmp, published, rows, reads, cleaner, counts>>

\* Mutant: the file is copied to its place.
Rename_Copies(k) ==
    /\ AtPc(k, "rename")
    /\ \E f \in tmp :
          /\ f.upload = k
          /\ published' = {g \in published : g.content # Content(k)}
                             \cup {[content |-> Content(k), whole |-> f.whole]}
    /\ Goto(k, "insert")
    /\ UNCHANGED <<tmp, rows, reads, cleaner, counts>>

\* rename replaces a file that came up since.
Rename(k) ==
    /\ AtPc(k, "rename")
    /\ \E f \in tmp :
          /\ f.upload = k
          /\ tmp' = tmp \ {f}
          /\ published' = {g \in published : g.content # Content(k)}
                             \cup {[content |-> Content(k), whole |-> f.whole]}
    /\ Goto(k, "insert")
    /\ UNCHANGED <<rows, reads, cleaner, counts>>

Fault == faults < MaxFaults /\ faults' = faults + 1

\* The upload goes on, whether the removal succeeds or not.
Dedup(k) ==
    /\ AtPc(k, "dedup")
    /\ \/ tmp' = {f \in tmp : f.upload # k} /\ UNCHANGED faults
       \/ tmp' = {IF f.upload = k THEN Stuck(f) ELSE f : f \in tmp} /\ Fault
    /\ Goto(k, "insert")
    /\ UNCHANGED <<published, rows, reads, cleaner, clock, posts, cleanups, collected>>

\* What store_file returns, a row made of it, and how answers show the row: by its URL,
\* that is its id and its name.
StoreResult(k) == [content |-> Content(k), mime |-> DetectMime(uploads[k].file)]

Attachment(id, k) ==
    [id |-> id, content |-> StoreResult(k).content, mime |-> StoreResult(k).mime,
     name |-> uploads[k].name, created_at |-> clock, upload |-> k]

AttachmentResponse(a) == [id |-> a.id, name |-> a.name, upload |-> a.upload]

Insert(k) ==
    /\ AtPc(k, "insert")
    /\ \E id \in RowIds :
          /\ IsNextRowid(attachments, id)
          /\ attachments' = attachments \cup {Attachment(id, k)}
          /\ uploads' = [uploads EXCEPT ![k].pc = "reread", ![k].id = id,
                             ![k].created_at = clock]
    /\ UNCHANGED <<tmp, published, comments, links, reads, cleaner, counts>>

RowOf(id) == {a \in attachments : a.id = id}

\* get_by_id(..).unwrap(): a row collected meanwhile is a panic.
Reread(k) ==
    /\ AtPc(k, "reread")
    /\ uploads' = [uploads EXCEPT ![k].pc = "done",
                      ![k].code = IF RowOf(uploads[k].id) = {} THEN 0 ELSE 201]
    /\ UNCHANGED <<tmp, published, rows, reads, cleaner, counts>>

-----------------------------------------------------------------------------
(* Comments, as far as attachments go: create_comment's transaction links  *)
(* what the client names, and delete_comment's cascade unlinks it.         *)

Stored == {k \in DOMAIN uploads : uploads[k].code = 201}

\* The comment and its links are one transaction; an unknown attachment fails it.
CreateComment(named) ==
    /\ posts < MaxComments
    /\ posts' = posts + 1
    /\ \E id \in 1 .. MaxComments :
          /\ IsNextRowid({[id |-> c] : c \in comments}, id)
          /\ IF \A k \in named : RowOf(uploads[k].id) # {}
               THEN /\ comments' = comments \cup {id}
                    /\ links' = links \cup
                          {[comment |-> id, attachment |-> uploads[k].id, meant |-> k] : k \in named}
               ELSE UNCHANGED <<comments, links>>
    /\ UNCHANGED <<tmp, published, attachments, uploads, reads, cleaner, clock, cleanups,
                   faults, collected>>

\* Mutant: the foreign key does not cascade.
DeleteComment_NoCascade(c) ==
    /\ c \in comments
    /\ comments' = comments \ {c}
    /\ UNCHANGED <<tmp, published, attachments, links, uploads, reads, cleaner, counts>>

DeleteComment(c) ==
    /\ c \in comments
    /\ comments' = comments \ {c}
    /\ links' = {l \in links : l.comment # c}
    /\ UNCHANGED <<tmp, published, attachments, uploads, reads, cleaner, counts>>

\* enrich_many, for one comment: the links, and then the rows they name. A row that is gone
\* is left out.
ReadLinks(c) ==
    /\ Len(downloads) + Len(readings) < MaxReads
    /\ readings' = Append(readings, [comment |-> c, pc |-> "rows", code |-> 0, shown |-> {},
                             links |-> {l \in links : l.comment = c}])
    /\ UNCHANGED <<tmp, published, rows, uploads, downloads, cleaner, counts>>

\* meant is history, as it is in links.
Shown(reading) ==
    UNION {{[response |-> AttachmentResponse(a), meant |-> l.meant] : a \in RowOf(l.attachment)} :
              l \in reading.links}

ReadAttachments(n) ==
    /\ readings[n].pc = "rows"
    /\ readings' = [readings EXCEPT ![n].pc = "done", ![n].code = 200, ![n].links = {},
                                    ![n].shown = Shown(readings[n])]
    /\ UNCHANGED <<tmp, published, rows, uploads, downloads, cleaner, counts>>

-----------------------------------------------------------------------------
(* download_attachment, of a URL some upload was answered with.            *)

\* Mutant: the name in the URL is not compared.
LookUpRow_AnyName(k) ==
    /\ Len(downloads) + Len(readings) < MaxReads
    /\ \/ /\ RowOf(uploads[k].id) = {}
          /\ downloads' = Append(downloads,
                [upload |-> k, pc |-> "done", content |-> NULL, name |-> NULL, code |-> 404])
       \/ \E a \in RowOf(uploads[k].id) :
             downloads' = Append(downloads,
                [upload |-> k, pc |-> "open", content |-> a.content, name |-> a.name, code |-> 0])
    /\ UNCHANGED <<tmp, published, rows, uploads, readings, cleaner, counts>>

LookUpRow(k) ==
    /\ Len(downloads) + Len(readings) < MaxReads
    /\ LET found == {a \in RowOf(uploads[k].id) : a.name = uploads[k].name}
       IN \/ /\ found = {}
             /\ downloads' = Append(downloads,
                   [upload |-> k, pc |-> "done", content |-> NULL, name |-> NULL, code |-> 404])
          \/ \E a \in found :
                downloads' = Append(downloads,
                   [upload |-> k, pc |-> "open", content |-> a.content, name |-> a.name, code |-> 0])
    /\ UNCHANGED <<tmp, published, rows, uploads, readings, cleaner, counts>>

HasControls(name) == \E i \in DOMAIN name : name[i] = "ctl"

\* A control character in the header is a panic of unwrap.
OpenFile(d) ==
    /\ downloads[d].pc = "open"
    /\ downloads' = [downloads EXCEPT ![d].pc = "done",
                        ![d].code = IF ~ OnDisk(downloads[d].content) THEN 404
                                    ELSE IF HasControls(downloads[d].name) THEN 0 ELSE 200]
    /\ UNCHANGED <<tmp, published, rows, uploads, readings, cleaner, counts>>

-----------------------------------------------------------------------------
(* cleanup_orphans.                                                        *)

Linked(a) == \E l \in links : l.attachment = a.id

\* Mutant: recent uploads are orphans, too.
FindOrphans_Recent ==
    /\ cleaner.pc = "idle" /\ cleanups < MaxCleanups
    /\ LET orphans == {a.id : a \in {b \in attachments : ~ Linked(b)}}
       IN cleaner' = [cleaner EXCEPT !.pc = IF orphans = {} THEN "idle" ELSE "select",
                                     !.orphans = orphans]
    /\ cleanups' = cleanups + 1
    /\ UNCHANGED <<tmp, published, rows, uploads, reads, clock, posts, faults, collected>>

FindOrphans ==
    /\ cleaner.pc = "idle" /\ cleanups < MaxCleanups
    /\ LET orphans == {a.id : a \in {b \in attachments : ~ Linked(b) /\ b.created_at + TTL < clock}}
       IN cleaner' = [cleaner EXCEPT !.pc = IF orphans = {} THEN "idle" ELSE "select",
                                     !.orphans = orphans]
    /\ cleanups' = cleanups + 1
    /\ UNCHANGED <<tmp, published, rows, uploads, reads, clock, posts, faults, collected>>

\* delete_orphan_rows: the distinct digests first, and then the rows.
SelectDigests ==
    /\ cleaner.pc = "select"
    /\ cleaner' = [cleaner EXCEPT !.pc = "delete",
                      !.digests = {a.content : a \in {b \in attachments : b.id \in cleaner.orphans}}]
    /\ UNCHANGED <<tmp, published, rows, uploads, reads, counts>>

Idle == [pc |-> "idle", orphans |-> {}, digests |-> {}, digest |-> NULL, settled |-> {}]

\* Without rows to delete any more the statement succeeds; a row linked meanwhile fails
\* the foreign key, and the statement, and the pass.
DeleteOrphanRows ==
    /\ cleaner.pc = "delete"
    /\ LET gone == {a \in attachments : a.id \in cleaner.orphans}
       IN IF \E a \in gone : Linked(a)
            THEN cleaner' = Idle /\ UNCHANGED <<attachments, collected>>
            ELSE /\ attachments' = attachments \ gone
                 /\ collected' = collected \cup {a.upload : a \in gone}
                 /\ cleaner' = [cleaner EXCEPT !.pc = "check", !.orphans = {}]
    /\ UNCHANGED <<tmp, published, comments, links, uploads, reads, clock, posts, cleanups, faults>>

\* Mutant: every digest of a deleted row loses its file.
HasReferences_Never ==
    /\ cleaner.pc = "check"
    /\ \E digest \in cleaner.digests :
          cleaner' = [cleaner EXCEPT !.pc = "remove", !.digests = @ \ {digest}, !.digest = digest,
                                     !.settled = {k \in DOMAIN uploads : uploads[k].id # 0}]
    /\ UNCHANGED <<tmp, published, rows, uploads, reads, counts>>

\* settled is history: the uploads that have inserted their row by now.
HasReferences ==
    /\ cleaner.pc = "check"
    /\ \E digest \in cleaner.digests :
          LET referenced == \E a \in attachments : a.content = digest
          IN cleaner' = [cleaner EXCEPT
                           !.pc = IF referenced THEN "check" ELSE "remove",
                           !.digests = @ \ {digest}, !.digest = digest,
                           !.settled = {k \in DOMAIN uploads : uploads[k].id # 0}]
    /\ UNCHANGED <<tmp, published, rows, uploads, reads, counts>>

\* An upload that found the file, or published it, and inserts its row only after the
\* check, has raced with the pass.
DeleteFile ==
    /\ cleaner.pc = "remove"
    /\ published' = {f \in published : f.content # cleaner.digest}
    /\ uploads' = [k \in DOMAIN uploads |->
                      IF /\ Content(k) = cleaner.digest /\ k \notin cleaner.settled
                         /\ uploads[k].pc \in {"dedup", "insert", "reread", "done"}
                        THEN [uploads[k] EXCEPT !.raced = TRUE] ELSE uploads[k]]
    /\ cleaner' = [cleaner EXCEPT !.pc = "check"]
    /\ UNCHANGED <<tmp, rows, reads, counts>>

CleanupEnds ==
    /\ cleaner.pc = "check" /\ cleaner.digests = {}
    /\ cleaner' = Idle
    /\ UNCHANGED <<tmp, published, rows, uploads, reads, counts>>

-----------------------------------------------------------------------------
(* Time and failures.                                                      *)

Tick ==
    /\ clock < MaxTime
    /\ clock' = clock + 1
    /\ UNCHANGED <<tmp, published, rows, uploads, reads, cleaner, posts, cleanups, faults, collected>>

Ended(r, code) == IF r.pc = "done" THEN r ELSE [r EXCEPT !.pc = "done", !.code = code]

\* A request that the death of the process cut off has no answer (-1).
CutOff(requests) == [k \in DOMAIN requests |-> Ended(requests[k], -1)]

\* A full disk or a busy database: the handler answers 500 and leaves what it has written.
\* exists() and the ignored removal have no failure of this kind.
UploadFails(k) ==
    /\ Fault
    /\ k \in DOMAIN uploads /\ uploads[k].pc \in {"write", "rename", "insert", "reread"}
    /\ uploads' = [uploads EXCEPT ![k] = Ended(uploads[k], HttpStatus[StorageError.Io])]
    /\ UNCHANGED <<tmp, published, rows, reads, cleaner, clock, posts, cleanups, collected>>

\* The Err arms of a download: of the query, and of an open that fails for another reason
\* than a missing file.
LookUpFails(k) ==
    /\ Fault
    /\ Len(downloads) + Len(readings) < MaxReads
    /\ downloads' = Append(downloads, [upload |-> k, pc |-> "done", content |-> NULL,
                                      name |-> NULL, code |-> HttpStatus["Internal"]])
    /\ UNCHANGED <<tmp, published, rows, uploads, readings, cleaner, clock, posts, cleanups, collected>>

OpenFails(d) ==
    /\ Fault
    /\ downloads[d].pc = "open"
    /\ downloads' = [downloads EXCEPT ![d] = Ended(downloads[d], HttpStatus["Internal"])]
    /\ UNCHANGED <<tmp, published, rows, uploads, readings, cleaner, clock, posts, cleanups, collected>>

\* The rows cannot be read; a reading whose links cannot be read has nothing to show.
ReadingFails(n) ==
    /\ Fault
    /\ readings[n].pc = "rows"
    /\ readings' = [readings EXCEPT ![n] = Ended(readings[n], HttpStatus["Internal"])]
    /\ UNCHANGED <<tmp, published, rows, uploads, downloads, cleaner, clock, posts, cleanups, collected>>

CleanupFails ==
    /\ Fault
    /\ cleaner.pc # "idle"
    /\ cleaner' = Idle
    /\ UNCHANGED <<tmp, published, rows, uploads, reads, clock, posts, cleanups, collected>>

\* The process dies and starts again; init_dirs removes the temporary files, but for those
\* whose removal fails, of which it takes no notice.
Restart ==
    /\ Fault
    /\ uploads' = CutOff(uploads) /\ downloads' = CutOff(downloads) /\ readings' = CutOff(readings)
    /\ cleaner' = Idle
    /\ \E left \in SUBSET tmp : tmp' = {Stuck(f) : f \in left}
    /\ UNCHANGED <<published, rows, clock, posts, cleanups, collected>>

Store(k) == WriteTmp(k) \/ DestExists(k) \/ Rename(k) \/ Dedup(k) \/ Insert(k) \/ Reread(k)

Cleanup ==
    \/ FindOrphans \/ SelectDigests \/ DeleteOrphanRows
    \/ HasReferences \/ DeleteFile \/ CleanupEnds

Next ==
    \/ \E file \in Files : UploadAttachment(file)
    \/ \E k \in DOMAIN uploads : Store(k) \/ UploadFails(k)
    \/ \E named \in SUBSET Stored : CreateComment(named)
    \/ \E c \in comments : DeleteComment(c) \/ ReadLinks(c)
    \/ \E n \in DOMAIN readings : ReadAttachments(n) \/ ReadingFails(n)
    \/ \E k \in Stored : LookUpRow(k) \/ LookUpFails(k)
    \/ \E d \in DOMAIN downloads : OpenFile(d) \/ OpenFails(d)
    \/ Cleanup \/ CleanupFails \/ Tick \/ Restart

Spec == Init /\ [][Next]_vars

-----------------------------------------------------------------------------
(* Correctness.                                                            *)

\* The variables have their types.
TypeOK ==
    /\ \A f \in tmp : f.upload \in DOMAIN uploads /\ f.whole \in BOOLEAN /\ f.stuck \in BOOLEAN
    /\ \A f \in published : \E k \in DOMAIN uploads : f.content = Content(k)
    /\ \A a \in attachments : /\ a.id \in RowIds /\ a.upload \in DOMAIN uploads
                              /\ a.created_at \in 0 .. MaxTime
    /\ UniqueIds(attachments)
    /\ comments \subseteq 1 .. MaxComments
    /\ \A l \in links : l.comment \in comments /\ RowOf(l.attachment) # {}
    /\ \A k \in DOMAIN uploads :
          /\ uploads[k].pc \in {"write", "exists", "rename", "dedup", "insert", "reread", "done"}
          /\ uploads[k].code \in {-1, 0, 201, 400, 413, 422, 500}
    /\ \A d \in DOMAIN downloads : downloads[d].pc \in {"open", "done"}
    /\ cleaner.pc \in {"idle", "select", "delete", "check", "remove"}
    /\ clock \in 0 .. MaxTime /\ collected \subseteq DOMAIN uploads

\* A file under its digest is whole, so nobody downloads or deduplicates against half a file.
PublishedWhole == \A f \in published : f.whole

\* What a row stands for is on disk, and whole, whenever the process died or the disk filled
\* up (store_file writes to tmp), and whatever cleanup did, unless an upload of the same
\* content came between the cleanup's check of the references and its unlink
\* (cleanup_orphans and store_file share no lock).
RowsHaveFiles ==
    /\ PublishedWhole
    /\ \A a \in attachments : OnDisk(a.content) \/ \E k \in DOMAIN uploads :
                                                      uploads[k].raced /\ Content(k) = a.content

\* A temporary file is of an upload under way, of one that failed while this process ran, or
\* one that a removal has failed on: nothing else is left by an upload that was answered 201
\* (store_file), or to the next process by one that died (init_dirs).
TmpExplained ==
    \A f \in tmp : f.stuck \/ uploads[f.upload].pc # "done" \/ uploads[f.upload].code = 500

\* Without a fault no file is left behind: a temporary file belongs to an upload under
\* way, and a published one to a row, to an upload about to insert it, or to a digest
\* that the running cleanup still holds. With faults, temporary files are left by uploads
\* that failed and by removals that failed, and only the latter outlive the process.
NoLitter ==
    /\ TmpExplained
    /\ faults = 0 =>
       /\ \A f \in tmp : uploads[f.upload].pc \in {"write", "exists", "rename", "dedup"}
       /\ \A f \in published :
             \/ \E a \in attachments : a.content = f.content
             \/ \E k \in DOMAIN uploads : uploads[k].pc = "insert" /\ Content(k) = f.content
             \/ f.content \in cleaner.digests
             \/ cleaner.pc = "remove" /\ cleaner.digest = f.content

\* A comment carries, and is shown with, what its author uploaded, though ids are given out
\* again, if the upload was not collected, which takes longer than its time to live
\* (find_orphans, and the foreign key that keeps a linked row from delete_orphan_rows; the
\* links and the rows of an answer are read apart).
LinksAsMeant ==
    LET AsMeant(upload, meant) ==
            \/ upload = meant
            \/ meant \in collected /\ uploads[meant].created_at + TTL < clock
    IN /\ \A l \in links : \A a \in RowOf(l.attachment) : AsMeant(a.upload, l.meant)
       /\ \A n \in DOMAIN readings : \A x \in readings[n].shown : AsMeant(x.response.upload, x.meant)

\* A download of a URL the server gave out is answered with bytes that were uploaded
\* under this very URL, and not found only when that upload was collected or raced with a
\* cleanup (download_attachment compares the names; the row and the file are read apart).
\* The other ends are a failing query or open, answered 500, and the death of the process.
ServedAsUploaded ==
    \A d \in DOMAIN downloads :
       LET k == downloads[d].upload IN
       downloads[d].pc = "done" =>
          \/ /\ downloads[d].code = 200
             /\ \E j \in DOMAIN uploads : /\ uploads[j].id = uploads[k].id
                                          /\ uploads[j].name = uploads[k].name
                                          /\ Content(j) = downloads[d].content
          \/ downloads[d].code = 404 /\ (k \in collected \/ uploads[k].raced)
          \/ downloads[d].code \in {-1, 500} /\ faults > 0

\* PRD and api-endpoints.md: "Max 20 MB (configurable)." (No layer raises the limit of
\* 2 MB that axum puts on the body of a multipart request.)
UploadsUpToMaxFileSize ==
    \A k \in DOMAIN uploads :
       LET file == uploads[k].file IN
       CheckAllowed(file) /\ file.size <= MaxFileSize => uploads[k].code \notin {400, 413}

\* storage.rs, sanitize_filename: "truncates to 255 bytes". (It cuts at a byte that may be
\* inside a character, which panics.)
LongNamesTruncated == \A k \in DOMAIN uploads : uploads[k].name # NULL
=============================================================================
