-------------------------- MODULE AttachmentProofs --------------------------
(***************************************************************************)
(* Theorems about Attachments: rows have their files, files that nothing   *)
(* needs are not left behind, links keep their meaning, and downloads      *)
(* serve what was uploaded, for any files, limits and number of uploads,   *)
(* comments, readers, cleanups and failures.                               *)
(***************************************************************************)
EXTENDS Attachments, SequenceTheorems, FiniteSetTheorems, TLAPS

-----------------------------------------------------------------------------
(* The invariant.                                                          *)

Pcs == {"write", "exists", "rename", "dedup", "insert", "reread", "done"}

Codes == {-1, 0, 201, 500} \cup {HttpStatus[Refusal(file)] : file \in Files}

UploadRecord ==
    [file : Files, name : {SanitizeFilename(file.name) : file \in Files}, pc : Pcs, code : Codes,
     id : Nat, created_at : Nat, raced : BOOLEAN]

Shaped ==
    /\ uploads \in Seq(UploadRecord)
    /\ clock \in Nat /\ faults \in Nat
    /\ cleaner = [pc |-> cleaner.pc, orphans |-> cleaner.orphans, digests |-> cleaner.digests,
                  digest |-> cleaner.digest, settled |-> cleaner.settled]
    /\ cleaner.pc \in {"idle", "select", "delete", "check", "remove"}

\* A temporary file is of an upload that still needs it, or has failed, or could not be
\* removed; and whole once it was written.
TmpKnown(f) ==
    /\ f = [upload |-> f.upload, whole |-> f.whole, stuck |-> f.stuck]
    /\ f.upload \in DOMAIN uploads /\ f.stuck \in BOOLEAN /\ f.whole \in BOOLEAN
    /\ uploads[f.upload].pc = "write" => f.whole = FALSE
    /\ uploads[f.upload].pc \in {"exists", "rename"} => f.whole = TRUE
    /\ f.stuck = FALSE =>
          \/ uploads[f.upload].pc \in {"write", "exists", "rename", "dedup"}
          \/ uploads[f.upload].pc = "done" /\ uploads[f.upload].code = 500 /\ faults # 0
    /\ f.stuck = TRUE => uploads[f.upload].pc \in {"insert", "reread", "done"} /\ faults # 0

\* An upload has no row before it inserts one; and what it found on disk, or put there, is
\* there, or it has raced with a cleanup.
Storing(k) ==
    /\ uploads[k].pc \in {"write", "exists", "rename", "dedup", "insert"} => uploads[k].id = 0
    /\ uploads[k].pc \in {"dedup", "insert"} => OnDisk(Content(k)) \/ uploads[k].raced = TRUE

\* A row is that of the upload that inserted it, which has raced if the file is not there.
RowKnown(a) ==
    /\ a.id \in Nat /\ a.upload \in DOMAIN uploads /\ a.content = Content(a.upload)
    /\ uploads[a.upload].pc \in {"reread", "done"}
    /\ OnDisk(a.content) \/ uploads[a.upload].raced = TRUE

\* The rows that the cleanup is to delete keep their ids while it waits, so that no new
\* row gets one of them, and the digests it selected are theirs; once it has decided to
\* remove a file, rows of that digest are of uploads that were not settled.
CleanerKnows ==
    /\ cleaner.pc \in {"select", "delete"} =>
          \A id \in cleaner.orphans : \E a \in attachments : a.id = id
    /\ cleaner.pc \in {"idle", "select"} => cleaner.digests = {}
    /\ cleaner.pc = "delete" =>
          \A d : d \in cleaner.digests <=>
                 \E a \in attachments : a.id \in cleaner.orphans /\ a.content = d
    /\ \A k \in cleaner.settled : k \in DOMAIN uploads /\ uploads[k].id # 0
    /\ cleaner.pc = "remove" =>
          \A a \in attachments : a.content = cleaner.digest => a.upload \notin cleaner.settled

\* Somebody needs the file, or will remove it.
Needed(content) ==
    \/ \E a \in attachments : a.content = content
    \/ \E k \in DOMAIN uploads : uploads[k].pc = "insert" /\ Content(k) = content
    \/ content \in cleaner.digests
    \/ cleaner.pc = "remove" /\ cleaner.digest = content

StoreInv ==
    /\ Shaped
    /\ \A f \in tmp : TmpKnown(f)
    /\ \A f \in published : f.whole = TRUE
    /\ \A k \in DOMAIN uploads : Storing(k)
    /\ \A a \in attachments : RowKnown(a)
    /\ CleanerKnows
    /\ faults = 0 => \A f \in published : Needed(f.content)

-----------------------------------------------------------------------------
(* Records and sequences.                                                  *)

LEMMA Moving ==
    ASSUME uploads \in Seq(UploadRecord), NEW k \in DOMAIN uploads, NEW r \in UploadRecord,
           uploads' = [uploads EXCEPT ![k] = r]
    PROVE  /\ uploads' \in Seq(UploadRecord) /\ DOMAIN uploads' = DOMAIN uploads
           /\ uploads'[k] = r /\ \A j \in DOMAIN uploads : j # k => uploads'[j] = uploads[j]
<1>1. uploads \in [1 .. Len(uploads) -> UploadRecord] /\ Len(uploads) \in Nat
  OBVIOUS
<1>2. uploads' \in [1 .. Len(uploads) -> UploadRecord]
  BY <1>1
<1> QED
  BY <1>1, <1>2

\* An upload moves from one step to the next: it keeps its file and its row, if it has
\* one, and what it and the others need is still on disk.
LEMMA UploadMoves ==
    ASSUME StoreInv, NEW k \in DOMAIN uploads, NEW r \in UploadRecord,
           uploads' = [uploads EXCEPT ![k] = r], UNCHANGED <<attachments, cleaner, clock>>,
           r.file = uploads[k].file, r.raced = uploads[k].raced, r.id = uploads[k].id,
           r.pc \in {"write", "exists", "rename", "dedup", "insert"} =>
              uploads[k].pc \in {"write", "exists", "rename", "dedup", "insert"},
           uploads[k].pc \in {"reread", "done"} => r.pc \in {"reread", "done"},
           uploads[k].pc = "insert" => faults' # 0,
           faults' \in Nat, faults' = 0 => faults = 0,
           \A c : OnDisk(c) => OnDisk(c)',
           r.pc \in {"dedup", "insert"} => OnDisk(Content(k))' \/ r.raced = TRUE,
           \A f \in published' : /\ f.whole = TRUE
                                 /\ f \in published \/ (f.content = Content(k) /\ r.pc = "insert"),
           \A f \in tmp' : TmpKnown(f)'
    PROVE  StoreInv'
<1>1. /\ uploads' \in Seq(UploadRecord) /\ DOMAIN uploads' = DOMAIN uploads
      /\ uploads'[k] = r /\ \A j \in DOMAIN uploads : j # k => uploads'[j] = uploads[j]
  BY Moving DEF StoreInv, Shaped
<1>2. \A j \in DOMAIN uploads : uploads'[j].file = uploads[j].file /\ uploads'[j].id = uploads[j].id
                                /\ uploads'[j].raced = uploads[j].raced
  BY <1>1
<1>3. \A j \in DOMAIN uploads : Content(j)' = Content(j)
  BY <1>2 DEF Content
<1>4. Shaped'
  BY <1>1 DEF StoreInv, Shaped
<1>5. ASSUME NEW j \in DOMAIN uploads' PROVE Storing(j)'
  <2>1. Storing(j) /\ Storing(k)
    BY <1>1 DEF StoreInv
  <2>2. CASE j = k
    BY <1>1, <1>3, <2>1, <2>2 DEF Storing
  <2>3. CASE j # k
    BY <1>1, <1>3, <2>1, <2>3 DEF Storing
  <2> QED
    BY <2>2, <2>3
<1>6. ASSUME NEW a \in attachments' PROVE RowKnown(a)'
  <2>1. RowKnown(a)
    BY DEF StoreInv
  <2>2. uploads'[a.upload].pc \in {"reread", "done"}
    BY <1>1, <2>1 DEF RowKnown
  <2> QED
    BY <1>1, <1>2, <1>3, <2>1, <2>2 DEF RowKnown
<1>7. CleanerKnows'
  BY <1>1, <1>2 DEF StoreInv, CleanerKnows
<1>8. ASSUME faults' = 0, NEW f \in published' PROVE Needed(f.content)'
  <2>1. CASE f \in published
    <3>1. Needed(f.content)
      BY <1>8, <2>1 DEF StoreInv
    <3>2. \A j \in DOMAIN uploads : uploads[j].pc = "insert" => uploads'[j].pc = "insert"
      BY <1>1, <1>8
    <3> QED
      BY <1>1, <1>3, <3>1, <3>2 DEF Needed
  <2>2. CASE f.content = Content(k) /\ r.pc = "insert"
    BY <1>1, <1>3, <2>2 DEF Needed
  <2> QED
    BY <2>1, <2>2
<1> QED
  BY <1>4, <1>5, <1>6, <1>7, <1>8 DEF StoreInv

-----------------------------------------------------------------------------
(* The steps of an upload.                                                 *)

LEMMA StoreSteps ==
    ASSUME StoreInv, NEW k \in DOMAIN uploads, Store(k) \/ UploadFails(k)
    PROVE  StoreInv'
<1> USE DEF AtPc
<1>1. /\ uploads \in Seq(UploadRecord) /\ uploads[k] \in UploadRecord /\ Storing(k)
      /\ faults \in Nat /\ clock \in Nat
  BY DEF StoreInv, Shaped
<1>2. ASSUME NEW pc \in Pcs, Goto(k, pc)
      PROVE  \E r \in UploadRecord :
                /\ uploads' = [uploads EXCEPT ![k] = r]
                /\ r.pc = pc /\ r.file = uploads[k].file /\ r.raced = uploads[k].raced
                /\ r.id = uploads[k].id
  <2> PICK r : r = [uploads[k] EXCEPT !.pc = pc]
    OBVIOUS
  <2>1. uploads' = [uploads EXCEPT ![k] = r]
    BY <1>2 DEF Goto
  <2>2. /\ r \in UploadRecord /\ r.pc = pc /\ r.file = uploads[k].file
        /\ r.raced = uploads[k].raced /\ r.id = uploads[k].id
    BY <1>1 DEF UploadRecord, Pcs
  <2> QED
    BY <2>1, <2>2
\* Its temporary files as it goes on; the others' are as they were.
<1>3. ASSUME NEW r \in UploadRecord, uploads' = [uploads EXCEPT ![k] = r], faults # 0 => faults' # 0,
             NEW f \in tmp, TmpKnown(f), f.upload = k => TmpKnown(f)'
      PROVE  TmpKnown(f)'
  <2>1. /\ DOMAIN uploads' = DOMAIN uploads
        /\ \A j \in DOMAIN uploads : j # k => uploads'[j] = uploads[j]
    BY <1>1, <1>3, Moving
  <2> QED
    BY <1>3, <2>1 DEF TmpKnown
<1>4. CASE WriteTmp(k)
  <2>1. PICK r \in UploadRecord :
           /\ uploads' = [uploads EXCEPT ![k] = r]
           /\ r.pc = "exists" /\ r.file = uploads[k].file /\ r.raced = uploads[k].raced
           /\ r.id = uploads[k].id
    BY <1>2, <1>4 DEF WriteTmp, Pcs
  <2>2. /\ uploads[k].pc = "write" /\ faults' = faults
        /\ UNCHANGED <<attachments, cleaner, clock, published>>
        /\ tmp' = (tmp \ {TmpFile(k, FALSE)}) \cup {TmpFile(k, TRUE)}
    BY <1>4 DEF WriteTmp, rows, counts
  <2>3. DOMAIN uploads' = DOMAIN uploads /\ uploads'[k] = r
    BY <1>1, <2>1, Moving
  <2>4. ASSUME NEW f \in tmp' PROVE TmpKnown(f)'
    <3>1. CASE f = TmpFile(k, TRUE)
      BY <2>1, <2>3, <3>1 DEF TmpKnown, TmpFile
    <3>2. CASE f \in tmp /\ f # TmpFile(k, FALSE)
      <4>1. TmpKnown(f) /\ (f.upload = k => f.stuck = FALSE /\ f.whole = FALSE)
        BY <2>2, <3>2 DEF StoreInv, TmpKnown
      <4>2. f.upload # k
        <5> SUFFICES ASSUME f.upload = k PROVE FALSE
          OBVIOUS
        <5>1. f = [upload |-> f.upload, whole |-> f.whole, stuck |-> f.stuck]
          BY <4>1 DEF TmpKnown
        <5>2. f = [upload |-> k, whole |-> FALSE, stuck |-> FALSE]
          BY <4>1, <5>1, Zenon
        <5> QED
          BY <3>2, <5>2 DEF TmpFile
      <4> QED
        BY <1>3, <2>1, <2>2, <3>2, <4>1, <4>2
    <3> QED
      BY <2>2, <3>1, <3>2
  <2> QED
    BY <1>1, <2>1, <2>2, <2>4, UploadMoves DEF StoreInv, OnDisk
<1>5. CASE DestExists(k)
  <2>1. PICK r \in UploadRecord :
           /\ uploads' = [uploads EXCEPT ![k] = r]
           /\ r.pc = (IF OnDisk(Content(k)) THEN "dedup" ELSE "rename")
           /\ r.file = uploads[k].file /\ r.raced = uploads[k].raced /\ r.id = uploads[k].id
    BY <1>2, <1>5 DEF DestExists, Pcs
  <2>2. /\ uploads[k].pc = "exists" /\ faults' = faults
        /\ UNCHANGED <<attachments, cleaner, clock, published, tmp>>
    BY <1>5 DEF DestExists, rows, counts
  <2>3. DOMAIN uploads' = DOMAIN uploads /\ uploads'[k] = r
    BY <1>1, <2>1, Moving
  <2>4. ASSUME NEW f \in tmp' PROVE TmpKnown(f)'
    <3>1. TmpKnown(f) /\ f \in tmp
      BY <2>2 DEF StoreInv
    <3>2. f.upload = k => TmpKnown(f)'
      BY <2>1, <2>2, <2>3, <3>1 DEF TmpKnown
    <3> QED
      BY <1>3, <2>1, <2>2, <3>1, <3>2
  <2>5. r.pc \in {"dedup", "insert"} => OnDisk(Content(k))'
    <3>1. Content(k)' = Content(k)
      BY <2>1, <2>3 DEF Content
    <3> QED
      BY <2>1, <2>2, <3>1 DEF OnDisk
  <2> QED
    BY <1>1, <2>1, <2>2, <2>4, <2>5, UploadMoves DEF StoreInv, OnDisk
<1>6. CASE Rename(k)
  <2>1. PICK r \in UploadRecord :
           /\ uploads' = [uploads EXCEPT ![k] = r]
           /\ r.pc = "insert" /\ r.file = uploads[k].file /\ r.raced = uploads[k].raced
           /\ r.id = uploads[k].id
    BY <1>2, <1>6 DEF Rename, Pcs
  <2>2. /\ uploads[k].pc = "rename" /\ faults' = faults /\ UNCHANGED <<attachments, cleaner, clock>>
    BY <1>6 DEF Rename, rows, counts
  <2> PICK g \in tmp : /\ g.upload = k /\ tmp' = tmp \ {g}
                       /\ published' = {f \in published : f.content # Content(k)}
                                          \cup {[content |-> Content(k), whole |-> g.whole]}
    BY <1>6 DEF Rename
  <2>3. DOMAIN uploads' = DOMAIN uploads /\ uploads'[k] = r
    BY <1>1, <2>1, Moving
  <2>9. g = [upload |-> g.upload, whole |-> g.whole, stuck |-> g.stuck] /\ g.whole = TRUE
        /\ g.stuck = FALSE
    BY <2>2 DEF StoreInv, TmpKnown
  <2>4. g = [upload |-> k, whole |-> TRUE, stuck |-> FALSE] /\ g.whole = TRUE
    BY <2>9, Zenon
  <2> PICK h : h = [content |-> Content(k), whole |-> g.whole]
    OBVIOUS
  <2>10. /\ h.content = Content(k) /\ h.whole = TRUE
         /\ published' = {f \in published : f.content # Content(k)} \cup {h}
    BY <2>4
  <2>5. ASSUME NEW f \in tmp' PROVE TmpKnown(f)'
    <3>1. /\ TmpKnown(f) /\ f \in tmp /\ f # g
          /\ f = [upload |-> f.upload, whole |-> f.whole, stuck |-> f.stuck]
          /\ f.upload = k => f.stuck = FALSE /\ f.whole = TRUE
      BY <2>2 DEF StoreInv, TmpKnown
    <3>2. f.upload # k
      <4> SUFFICES ASSUME f.upload = k PROVE FALSE
        OBVIOUS
      <4>1. f = [upload |-> k, whole |-> TRUE, stuck |-> FALSE]
        BY <3>1, Zenon
      <4> QED
        BY <2>4, <3>1, <4>1
    <3> QED
      BY <1>3, <2>1, <2>2, <3>1, <3>2
  <2>6. Content(k)' = Content(k)
    BY <2>1, <2>3 DEF Content
  <2>7. \A c : OnDisk(c) \/ c = Content(k) => OnDisk(c)'
    <3> SUFFICES ASSUME NEW c, OnDisk(c) \/ c = Content(k) PROVE OnDisk(c)'
      OBVIOUS
    <3>1. h \in published' /\ \A f \in published : f.content # Content(k) => f \in published'
      BY <2>10
    <3> QED
      BY <2>10, <3>1 DEF OnDisk
  <2>8. \A f \in published' : /\ f.whole = TRUE
                              /\ f \in published \/ (f.content = Content(k) /\ r.pc = "insert")
    BY <2>1, <2>10 DEF StoreInv
  <2> QED
    BY <1>1, <2>1, <2>2, <2>5, <2>6, <2>7, <2>8, UploadMoves
<1>7. CASE Dedup(k)
  <2>1. PICK r \in UploadRecord :
           /\ uploads' = [uploads EXCEPT ![k] = r]
           /\ r.pc = "insert" /\ r.file = uploads[k].file /\ r.raced = uploads[k].raced
           /\ r.id = uploads[k].id
    BY <1>2, <1>7 DEF Dedup, Pcs
  <2>2. /\ uploads[k].pc = "dedup" /\ faults' \in Nat
        /\ UNCHANGED <<attachments, cleaner, clock, published>>
        /\ \/ tmp' = {f \in tmp : f.upload # k} /\ faults' = faults
           \/ tmp' = {IF f.upload = k THEN Stuck(f) ELSE f : f \in tmp} /\ faults' = faults + 1
    BY <1>1, <1>7 DEF Dedup, Fault, rows
  <2>7. faults' = 0 => faults = 0
    BY <1>1, <2>2
  <2>3. DOMAIN uploads' = DOMAIN uploads /\ uploads'[k] = r
    BY <1>1, <2>1, Moving
  <2>4. ASSUME NEW f \in tmp' PROVE TmpKnown(f)'
    <3>1. \A g \in tmp : TmpKnown(g)
      BY DEF StoreInv
    <3>2. CASE f \in tmp /\ f.upload # k
      BY <1>3, <2>1, <2>7, <3>1, <3>2
    <3>3. CASE faults' # 0 /\ \E g \in tmp : g.upload = k /\ f = Stuck(g)
      <4> PICK g \in tmp : g.upload = k /\ f = Stuck(g)
        BY <3>3
      <4>1. g = [upload |-> g.upload, whole |-> g.whole, stuck |-> g.stuck]
        BY <3>1 DEF TmpKnown
      <4>2. f = [upload |-> k, whole |-> g.whole, stuck |-> TRUE]
        BY <4>1 DEF Stuck
      <4>3. f.upload = k /\ f.whole = g.whole /\ f.stuck = TRUE
        BY <4>2
      <4>4. uploads'[f.upload].pc = "insert" /\ f.upload \in DOMAIN uploads'
        BY <2>1, <2>3, <4>3
      <4> QED
        BY <3>1, <3>3, <4>2, <4>3, <4>4 DEF TmpKnown
    <3>4. faults' = faults + 1 => faults' # 0
      BY <1>1
    <3> QED
      BY <2>2, <3>2, <3>3, <3>4
  <2>5. Content(k)' = Content(k)
    BY <2>1, <2>3 DEF Content
  <2>6. OnDisk(Content(k))' \/ r.raced = TRUE
    BY <1>1, <2>1, <2>2, <2>5 DEF Storing, OnDisk
  <2> QED
    BY <1>1, <2>1, <2>2, <2>4, <2>6, <2>7, UploadMoves DEF StoreInv, OnDisk
<1>8. CASE Reread(k) \/ UploadFails(k)
  <2>1. PICK code \in Codes :
           /\ uploads' = [uploads EXCEPT ![k] = [uploads[k] EXCEPT !.pc = "done", !.code = code]]
           /\ UploadFails(k) => code = 500
    <3>1. ASSUME Reread(k), ~ UploadFails(k)
          PROVE  \E code \in Codes :
                    uploads' = [uploads EXCEPT ![k] = [uploads[k] EXCEPT !.pc = "done", !.code = code]]
      <4> PICK code \in Codes : code = IF RowOf(uploads[k].id) = {} THEN 0 ELSE 201
        BY DEF Codes
      <4>1. uploads' = [uploads EXCEPT ![k].pc = "done", ![k].code = code]
        BY <3>1 DEF Reread
      <4> QED
        BY <4>1
    <3>2. ASSUME UploadFails(k)
          PROVE  uploads' = [uploads EXCEPT ![k] = [uploads[k] EXCEPT !.pc = "done", !.code = 500]]
      <4>1. HttpStatus[StorageError.Io] = 500
        BY DEF HttpStatus, AppError, StorageError
      <4> QED
        BY <3>2, <4>1 DEF UploadFails, Ended
    <3> QED
      <4>1. CASE UploadFails(k)
        <5>1. 500 \in Codes
          BY DEF Codes
        <5> QED
          BY <3>2, <4>1, <5>1
      <4>2. CASE ~ UploadFails(k)
        BY <1>8, <3>1, <4>2
      <4> QED
        BY <4>1, <4>2
  <2> PICK r : r = [uploads[k] EXCEPT !.pc = "done", !.code = code]
    OBVIOUS
  <2>2. /\ r \in UploadRecord /\ r.pc = "done" /\ r.code = code /\ r.file = uploads[k].file
        /\ r.raced = uploads[k].raced /\ r.id = uploads[k].id
    BY <1>1 DEF UploadRecord, Pcs
  <2>3. /\ UNCHANGED <<attachments, cleaner, clock, published, tmp>>
        /\ uploads[k].pc \in {"write", "rename", "insert", "reread"}
        /\ \/ UploadFails(k) /\ faults' = faults + 1
           \/ uploads[k].pc = "reread" /\ faults' = faults
    BY <1>8 DEF Reread, UploadFails, Fault, rows, counts
  <2>6. /\ faults' \in Nat /\ (faults' = 0 => faults = 0)
        /\ uploads[k].pc = "insert" => faults' # 0
        /\ UploadFails(k) => faults' # 0 \/ uploads[k].pc = "reread"
    BY <1>1, <2>3
  <2>4. DOMAIN uploads' = DOMAIN uploads /\ uploads'[k] = r
    BY <1>1, <2>1, <2>2, Moving
  <2>5. ASSUME NEW f \in tmp' PROVE TmpKnown(f)'
    <3>1. TmpKnown(f) /\ f \in tmp
      BY <2>3 DEF StoreInv
    <3>2. CASE f.upload = k
      <4>1. /\ f.stuck = FALSE => code = 500 /\ faults' # 0
            /\ f.stuck = TRUE => faults' # 0
        BY <2>1, <2>3, <2>6, <3>1, <3>2 DEF TmpKnown
      <4>2. f.upload \in DOMAIN uploads'
        BY <2>4, <3>1 DEF TmpKnown
      <4>3. uploads'[f.upload].pc = "done" /\ uploads'[f.upload].code = code
        BY <2>2, <2>4, <3>2
      <4> QED
        BY <3>1, <4>1, <4>2, <4>3 DEF TmpKnown
    <3>3. CASE f.upload # k
      <4>1. uploads'[f.upload] = uploads[f.upload] /\ f.upload \in DOMAIN uploads'
        BY <1>1, <2>1, <2>2, <3>1, <3>3, Moving DEF TmpKnown
      <4> QED
        BY <2>6, <3>1, <4>1 DEF TmpKnown
    <3> QED
      BY <3>2, <3>3
  <2>7. /\ \A c : OnDisk(c) => OnDisk(c)'
        /\ \A f \in published' : f.whole = TRUE /\ f \in published
    BY <2>3 DEF StoreInv, OnDisk
  <2>8. UNCHANGED <<attachments, cleaner, clock>>
    BY <2>3
  <2>9. uploads' = [uploads EXCEPT ![k] = r]
    BY <2>1
  <2> QED
    BY <2>2, <2>5, <2>6, <2>7, <2>8, <2>9, UploadMoves
<1>9. CASE Insert(k)
  <2> PICK id \in RowIds : /\ IsNextRowid(attachments, id)
                           /\ attachments' = attachments \cup {Attachment(id, k)}
                           /\ uploads' = [uploads EXCEPT ![k].pc = "reread", ![k].id = id,
                                              ![k].created_at = clock]
    BY <1>9 DEF Insert
  <2> PICK r : r = [uploads[k] EXCEPT !.pc = "reread", !.id = id, !.created_at = clock]
    OBVIOUS
  <2>1. id \in Nat /\ id # 0
    BY AttachmentsAssumption DEF RowIds
  <2>2. /\ r \in UploadRecord /\ r.pc = "reread" /\ r.id = id /\ r.file = uploads[k].file
        /\ r.raced = uploads[k].raced
    BY <1>1, <2>1 DEF UploadRecord, Pcs
  <2>3. uploads' = [uploads EXCEPT ![k] = r]
    OBVIOUS
  <2>4. /\ uploads[k].pc = "insert" /\ uploads[k].id = 0
        /\ UNCHANGED <<tmp, published, cleaner, clock, faults>>
    BY <1>1, <1>9 DEF Insert, Storing, counts
  <2>5. /\ uploads' \in Seq(UploadRecord) /\ DOMAIN uploads' = DOMAIN uploads
        /\ uploads'[k] = r /\ \A j \in DOMAIN uploads : j # k => uploads'[j] = uploads[j]
    BY <1>1, <2>2, <2>3, Moving
  <2>6. \A j \in DOMAIN uploads : /\ Content(j)' = Content(j)
                                  /\ uploads'[j].raced = uploads[j].raced
    BY <2>2, <2>5 DEF Content
  <2> PICK new : new = Attachment(id, k)
    OBVIOUS
  <2>7. /\ attachments' = attachments \cup {new} /\ new.id = id /\ new.upload = k
        /\ new.content = Content(k)
    BY DEF Attachment, StoreResult
  <2>8. \A a \in attachments : a.id # id
    <3>1. \A a \in attachments : a.id \in Nat
      BY DEF StoreInv, RowKnown
    <3> QED
      BY <2>1, <3>1 DEF IsNextRowid
  <2>9. \A a \in attachments : RowKnown(a) /\ a.upload # k
    BY <2>4 DEF StoreInv, RowKnown
  <2>10. Shaped'
    BY <2>4, <2>5 DEF StoreInv, Shaped
  <2>11. ASSUME NEW f \in tmp' PROVE TmpKnown(f)'
    <3>1. TmpKnown(f) /\ (f.upload = k => f.stuck = TRUE)
      BY <2>4 DEF StoreInv, TmpKnown
    <3>2. uploads'[f.upload] = uploads[f.upload] \/ (f.stuck = TRUE /\ uploads'[f.upload].pc = "reread")
      BY <2>2, <2>5, <3>1 DEF TmpKnown
    <3>3. f.upload \in DOMAIN uploads'
      BY <2>5, <3>1 DEF TmpKnown
    <3>4. f.stuck = TRUE => faults' # 0
      BY <2>4, <3>1 DEF TmpKnown
    <3> QED
      BY <2>4, <3>1, <3>2, <3>3, <3>4 DEF TmpKnown
  <2>12. \A f \in published' : f.whole = TRUE
    BY <2>4 DEF StoreInv
  <2>13. ASSUME NEW j \in DOMAIN uploads' PROVE Storing(j)'
    <3>1. Storing(j)
      BY <2>5 DEF StoreInv
    <3>2. CASE j = k
      BY <2>2, <2>5, <3>2 DEF Storing
    <3>3. CASE j # k
      BY <2>4, <2>5, <2>6, <3>1, <3>3 DEF Storing, OnDisk
    <3> QED
      BY <3>2, <3>3
  <2>14. ASSUME NEW a \in attachments' PROVE RowKnown(a)'
    <3>1. CASE a = new
      <4>1. OnDisk(Content(k)) \/ uploads[k].raced = TRUE
        BY <1>1, <2>4 DEF Storing
      <4> QED
        BY <2>1, <2>2, <2>4, <2>5, <2>6, <2>7, <3>1, <4>1 DEF RowKnown, OnDisk
    <3>2. CASE a \in attachments
      BY <2>4, <2>5, <2>6, <2>9, <3>2 DEF RowKnown, OnDisk
    <3> QED
      BY <2>7, <3>1, <3>2
  <2>15. CleanerKnows'
    <3>1. CleanerKnows /\ cleaner' = cleaner
      BY <2>4 DEF StoreInv
    <3>2. cleaner.pc \in {"select", "delete"} => id \notin cleaner.orphans
      BY <2>8, <3>1 DEF CleanerKnows
    <3>3. k \notin cleaner.settled
      BY <2>4, <3>1 DEF CleanerKnows
    <3>4. \A j \in DOMAIN uploads : uploads[j].id # 0 => uploads'[j].id # 0
      BY <2>1, <2>2, <2>5
    <3> QED
      BY <2>5, <2>7, <3>1, <3>2, <3>3, <3>4 DEF CleanerKnows
  <2>16. ASSUME faults' = 0, NEW f \in published' PROVE Needed(f.content)'
    <3>1. Needed(f.content) /\ cleaner' = cleaner
      BY <2>4, <2>16 DEF StoreInv
    <3>2. CASE f.content = Content(k)
      BY <2>7, <3>2 DEF Needed
    <3>3. CASE f.content # Content(k)
      BY <2>5, <2>6, <2>7, <3>1, <3>3 DEF Needed
    <3> QED
      BY <3>2, <3>3
  <2> QED
    BY <2>10, <2>11, <2>12, <2>13, <2>14, <2>15, <2>16 DEF StoreInv
<1> QED
  BY <1>4, <1>5, <1>6, <1>7, <1>8, <1>9 DEF Store

LEMMA StoreInit == Init => StoreInv
<1> SUFFICES ASSUME Init PROVE StoreInv
  OBVIOUS
<1>1. uploads \in Seq(UploadRecord) /\ DOMAIN uploads = {}
  BY DEF Init
<1> QED
  BY <1>1 DEF Init, StoreInv, Shaped, CleanerKnows

LEMMA UploadStep ==
    ASSUME StoreInv, NEW file \in Files, UploadAttachment(file)
    PROVE  StoreInv'
<1> DEFINE n == Len(uploads) + 1
           begun == Refusal(file) = "none"
<1>1. PICK r : /\ r = IF begun THEN Upload(file, "write", 0)
                       ELSE Upload(file, "done", IF Refusal(file) = "panic" THEN 0
                                                 ELSE HttpStatus[Refusal(file)])
               /\ uploads' = Append(uploads, r)
               /\ tmp' = IF begun THEN tmp \cup {TmpFile(n, FALSE)} ELSE tmp
  BY DEF UploadAttachment
<1>2. uploads \in Seq(UploadRecord) /\ clock \in Nat /\ n \in Nat
  BY DEF StoreInv, Shaped
<1>3. /\ r \in UploadRecord /\ r.id = 0
      /\ r.pc = IF begun THEN "write" ELSE "done"
  BY <1>1, <1>2 DEF UploadRecord, Upload, Pcs, Codes
<1>4. UNCHANGED <<published, attachments, cleaner, clock, faults>>
  BY DEF UploadAttachment, rows, counts
<1>5. /\ uploads' \in Seq(UploadRecord) /\ DOMAIN uploads' = DOMAIN uploads \cup {n}
      /\ n \notin DOMAIN uploads /\ uploads'[n] = r
      /\ \A j \in DOMAIN uploads : uploads'[j] = uploads[j]
  <2> HIDE DEF begun
  <2>1. uploads' = Append(uploads, r)
    BY <1>1
  <2> QED
    BY <1>2, <1>3, <2>1, AppendProperties
<1> HIDE DEF n
<1>6. \A j \in DOMAIN uploads : Content(j)' = Content(j)
  BY <1>5 DEF Content
<1>7. Shaped'
  BY <1>4, <1>5 DEF StoreInv, Shaped
<1>8. ASSUME NEW f \in tmp' PROVE TmpKnown(f)'
  <2>1. CASE f \in tmp
    <3>1. TmpKnown(f)
      BY <2>1 DEF StoreInv
    <3> QED
      BY <1>4, <1>5, <3>1 DEF TmpKnown
  <2>2. CASE f \notin tmp
    <3>1. f = TmpFile(n, FALSE) /\ r.pc = "write"
      BY <1>1, <1>3, <2>2
    <3> QED
      BY <1>5, <3>1 DEF TmpKnown, TmpFile
  <2> QED
    BY <2>1, <2>2
<1>9. \A f \in published' : f.whole = TRUE
  BY <1>4 DEF StoreInv
<1>10. ASSUME NEW j \in DOMAIN uploads' PROVE Storing(j)'
  <2>1. CASE j = n
    BY <1>3, <1>5, <2>1 DEF Storing
  <2>2. CASE j \in DOMAIN uploads
    BY <1>4, <1>5, <1>6, <2>2 DEF StoreInv, Storing, OnDisk
  <2> QED
    BY <1>5, <2>1, <2>2
<1>11. ASSUME NEW a \in attachments' PROVE RowKnown(a)'
  BY <1>4, <1>5, <1>6 DEF StoreInv, RowKnown, OnDisk
<1>12. CleanerKnows'
  BY <1>4, <1>5 DEF StoreInv, CleanerKnows
<1>13. ASSUME faults' = 0, NEW f \in published' PROVE Needed(f.content)'
  <2>1. Needed(f.content)
    BY <1>4, <1>13 DEF StoreInv
  <2> QED
    BY <1>4, <1>5, <1>6, <2>1 DEF Needed
<1> QED
  BY <1>7, <1>8, <1>9, <1>10, <1>11, <1>12, <1>13 DEF StoreInv

-----------------------------------------------------------------------------
(* The steps of the cleanup.                                               *)

\* A step of the cleanup that touches neither files nor rows.
LEMMA CleanerMoves ==
    ASSUME StoreInv, UNCHANGED <<tmp, published, attachments, uploads>>,
           clock' \in Nat, faults' \in Nat, faults # 0 => faults' # 0,
           Shaped', CleanerKnows',
           faults' = 0 => \A c : Needed(c) => Needed(c)'
    PROVE  StoreInv'
<1>1. \A f \in tmp' : TmpKnown(f)'
  BY DEF StoreInv, TmpKnown
<1>2. \A k \in DOMAIN uploads' : Storing(k)'
  BY DEF StoreInv, Storing, OnDisk, Content
<1>3. \A a \in attachments' : RowKnown(a)'
  BY DEF StoreInv, RowKnown, OnDisk, Content
<1>4. faults' = 0 => \A f \in published' : Needed(f.content)'
  BY DEF StoreInv
<1> QED
  BY <1>1, <1>2, <1>3, <1>4 DEF StoreInv

LEMMA SameFiles ==
    ASSUME StoreInv, UNCHANGED <<tmp, published, attachments, uploads, cleaner>>,
           clock' \in Nat, faults' \in {faults, faults + 1}
    PROVE  StoreInv'
<1>4. faults' \in Nat /\ (faults # 0 => faults' # 0)
  BY DEF StoreInv, Shaped
<1>1. Shaped'
  BY <1>4 DEF StoreInv, Shaped
<1>2. CleanerKnows'
  BY DEF StoreInv, CleanerKnows
<1>3. \A c : Needed(c) => Needed(c)'
  BY DEF Needed, Content
<1> QED
  BY <1>1, <1>2, <1>3, <1>4, CleanerMoves

LEMMA CleanupSteps ==
    ASSUME StoreInv, Cleanup
    PROVE  StoreInv'
<1>1. Shaped /\ CleanerKnows /\ faults \in Nat /\ clock \in Nat
  BY DEF StoreInv, Shaped
<1>2. CASE FindOrphans
  <2>1. UNCHANGED <<tmp, published, attachments, uploads, clock, faults>>
    BY <1>2 DEF FindOrphans, rows
  <2> PICK orphans : /\ orphans = {a.id : a \in {b \in attachments :
                                     ~ Linked(b) /\ b.created_at + TTL < clock}}
                     /\ cleaner.pc = "idle"
                     /\ cleaner' = [cleaner EXCEPT !.pc = IF orphans = {} THEN "idle" ELSE "select",
                                                   !.orphans = orphans]
    BY <1>2 DEF FindOrphans
  <2>2. /\ cleaner'.pc \in {"idle", "select"} /\ cleaner'.orphans = orphans
        /\ cleaner'.digests = cleaner.digests /\ cleaner'.settled = cleaner.settled
        /\ cleaner'.digest = cleaner.digest
    BY <1>1 DEF Shaped
  <2>3. \A id \in orphans : \E a \in attachments : a.id = id
    OBVIOUS
  <2>4. Shaped'
    BY <1>1, <2>1, <2>2 DEF Shaped
  <2>5. CleanerKnows'
    BY <1>1, <2>1, <2>2, <2>3 DEF CleanerKnows
  <2>6. \A c : Needed(c) => Needed(c)'
    BY <2>1, <2>2 DEF Needed, Content
  <2> QED
    BY <1>1, <2>1, <2>4, <2>5, <2>6, CleanerMoves
<1>3. CASE SelectDigests
  <2>1. UNCHANGED <<tmp, published, attachments, uploads, clock, faults>>
    BY <1>3 DEF SelectDigests, rows, counts
  <2> PICK digests : /\ digests = {a.content : a \in {b \in attachments : b.id \in cleaner.orphans}}
                     /\ cleaner.pc = "select"
                     /\ cleaner' = [cleaner EXCEPT !.pc = "delete", !.digests = digests]
    BY <1>3 DEF SelectDigests
  <2>2. /\ cleaner'.pc = "delete" /\ cleaner'.orphans = cleaner.orphans
        /\ cleaner'.digests = digests /\ cleaner'.settled = cleaner.settled
        /\ cleaner'.digest = cleaner.digest
    BY <1>1 DEF Shaped
  <2>3. \A d : d \in digests <=> \E a \in attachments : a.id \in cleaner.orphans /\ a.content = d
    OBVIOUS
  <2>4. Shaped'
    BY <1>1, <2>1, <2>2 DEF Shaped
  <2>5. CleanerKnows'
    BY <1>1, <2>1, <2>2, <2>3 DEF CleanerKnows
  <2>6. \A c : Needed(c) => Needed(c)'
    BY <1>1, <2>1, <2>2 DEF Needed, Content, CleanerKnows
  <2> QED
    BY <1>1, <2>1, <2>4, <2>5, <2>6, CleanerMoves
<1>4. CASE DeleteOrphanRows
  <2>1. UNCHANGED <<tmp, published, uploads, clock, faults>> /\ cleaner.pc = "delete"
    BY <1>4 DEF DeleteOrphanRows
  <2>2. CASE cleaner' = Idle /\ attachments' = attachments
    <3>1. faults' = 0 => \A f \in published : Needed(f.content)'
      <4> SUFFICES ASSUME faults' = 0, NEW f \in published PROVE Needed(f.content)'
        OBVIOUS
      <4>1. Needed(f.content)
        BY <2>1 DEF StoreInv
      <4>2. f.content \in cleaner.digests => \E a \in attachments : a.content = f.content
        BY <1>1, <2>1 DEF CleanerKnows
      <4> QED
        BY <2>1, <2>2, <4>1, <4>2 DEF Needed, Content
    <3>2. Shaped' /\ CleanerKnows'
      BY <1>1, <2>1, <2>2 DEF Shaped, CleanerKnows, Idle
    <3>3. \A f \in tmp' : TmpKnown(f)'
      BY <2>1 DEF StoreInv, TmpKnown
    <3>4. \A k \in DOMAIN uploads' : Storing(k)'
      BY <2>1 DEF StoreInv, Storing, OnDisk, Content
    <3>5. \A a \in attachments' : RowKnown(a)'
      BY <2>1, <2>2 DEF StoreInv, RowKnown, OnDisk, Content
    <3> QED
      BY <2>1, <3>1, <3>2, <3>3, <3>4, <3>5 DEF StoreInv
  <2>3. CASE /\ attachments' = attachments \ {a \in attachments : a.id \in cleaner.orphans}
             /\ cleaner' = [cleaner EXCEPT !.pc = "check", !.orphans = {}]
    <3>0. /\ cleaner'.pc = "check" /\ cleaner'.orphans = {}
          /\ cleaner'.digests = cleaner.digests /\ cleaner'.settled = cleaner.settled
          /\ cleaner'.digest = cleaner.digest
      BY <1>1, <2>3 DEF Shaped
    <3>1. faults' = 0 => \A f \in published : Needed(f.content)'
      <4> SUFFICES ASSUME faults' = 0, NEW f \in published PROVE Needed(f.content)'
        OBVIOUS
      <4>1. Needed(f.content)
        BY <2>1 DEF StoreInv
      <4>2. \A a \in attachments : a \in attachments' \/ a.content \in cleaner.digests
        BY <1>1, <2>1, <2>3 DEF CleanerKnows
      <4> QED
        BY <2>1, <3>0, <4>1, <4>2 DEF Needed, Content
    <3>2. Shaped' /\ CleanerKnows'
      BY <1>1, <2>1, <2>3, <3>0 DEF Shaped, CleanerKnows
    <3>3. \A f \in tmp' : TmpKnown(f)'
      BY <2>1 DEF StoreInv, TmpKnown
    <3>4. \A k \in DOMAIN uploads' : Storing(k)'
      BY <2>1 DEF StoreInv, Storing, OnDisk, Content
    <3>5. \A a \in attachments' : RowKnown(a)'
      BY <2>1, <2>3 DEF StoreInv, RowKnown, OnDisk, Content
    <3> QED
      BY <2>1, <3>1, <3>2, <3>3, <3>4, <3>5 DEF StoreInv
  <2> QED
    BY <1>4, <2>2, <2>3 DEF DeleteOrphanRows
<1>5. CASE HasReferences
  <2>1. UNCHANGED <<tmp, published, attachments, uploads, clock, faults>> /\ cleaner.pc = "check"
    BY <1>5 DEF HasReferences, rows, counts
  <2>2. PICK digest \in cleaner.digests :
           cleaner' = [cleaner EXCEPT
              !.pc = IF \E a \in attachments : a.content = digest THEN "check" ELSE "remove",
              !.digests = @ \ {digest}, !.digest = digest,
              !.settled = {k \in DOMAIN uploads : uploads[k].id # 0}]
    BY <1>5 DEF HasReferences
  <2>3. /\ cleaner'.pc = IF \E a \in attachments : a.content = digest THEN "check" ELSE "remove"
        /\ cleaner'.orphans = cleaner.orphans /\ cleaner'.digests = cleaner.digests \ {digest}
        /\ cleaner'.digest = digest
        /\ cleaner'.settled = {k \in DOMAIN uploads : uploads[k].id # 0}
    BY <1>1, <2>2 DEF Shaped
  <2>4. cleaner' = [pc |-> cleaner'.pc, orphans |-> cleaner'.orphans, digests |-> cleaner'.digests,
                    digest |-> cleaner'.digest, settled |-> cleaner'.settled]
    BY <1>1, <2>2 DEF Shaped
  <2>5. Shaped'
    BY <1>1, <2>1, <2>3, <2>4 DEF Shaped
  <2>6. CleanerKnows'
    BY <2>1, <2>3 DEF CleanerKnows
  <2>7. \A c : Needed(c) => Needed(c)'
    BY <2>1, <2>3 DEF Needed, Content
  <2> QED
    BY <1>1, <2>1, <2>5, <2>6, <2>7, CleanerMoves
<1>6. CASE DeleteFile
  <2> DEFINE Races(k) == /\ Content(k) = cleaner.digest /\ k \notin cleaner.settled
                         /\ uploads[k].pc \in {"dedup", "insert", "reread", "done"}
  <2>1. /\ UNCHANGED <<tmp, attachments, clock, faults>> /\ cleaner.pc = "remove"
        /\ published' = {f \in published : f.content # cleaner.digest}
        /\ cleaner' = [cleaner EXCEPT !.pc = "check"]
        /\ uploads' = [k \in DOMAIN uploads |->
                          IF Races(k) THEN [uploads[k] EXCEPT !.raced = TRUE] ELSE uploads[k]]
    BY <1>6 DEF DeleteFile, rows, counts
  <2>2. /\ cleaner'.pc = "check" /\ cleaner'.orphans = cleaner.orphans
        /\ cleaner'.digests = cleaner.digests /\ cleaner'.settled = cleaner.settled
        /\ cleaner'.digest = cleaner.digest
    BY <1>1, <2>1 DEF Shaped
  <2>3. DOMAIN uploads = 1 .. Len(uploads) /\ Len(uploads) \in Nat
        /\ \A k \in DOMAIN uploads : uploads[k] \in UploadRecord
    BY <1>1 DEF Shaped
  <2> HIDE DEF Races
  <2>4. ASSUME NEW k \in DOMAIN uploads
        PROVE  /\ uploads'[k] \in UploadRecord
               /\ uploads'[k].pc = uploads[k].pc /\ uploads'[k].id = uploads[k].id
               /\ uploads'[k].file = uploads[k].file /\ uploads'[k].code = uploads[k].code
               /\ uploads'[k].raced = uploads[k].raced \/ uploads'[k].raced = TRUE
               /\ Races(k) => uploads'[k].raced = TRUE
    <3>1. uploads'[k] = IF Races(k) THEN [uploads[k] EXCEPT !.raced = TRUE] ELSE uploads[k]
      BY <2>1
    <3> QED
      BY <2>3, <3>1 DEF UploadRecord
  <2>5. uploads' \in Seq(UploadRecord) /\ DOMAIN uploads' = DOMAIN uploads
    <3>1. DOMAIN uploads' = DOMAIN uploads
      BY <2>1
    <3>2. uploads' \in [1 .. Len(uploads) -> UploadRecord]
      BY <2>1, <2>3, <2>4
    <3> QED
      BY <2>3, <3>1, <3>2
  <2>6. \A k \in DOMAIN uploads : Content(k)' = Content(k)
    BY <2>4 DEF Content
  <2>7. \A c : OnDisk(c) => OnDisk(c)' \/ c = cleaner.digest
    BY <2>1 DEF OnDisk
  <2>8. Shaped'
    BY <1>1, <2>1, <2>2, <2>5 DEF Shaped
  <2>9. ASSUME NEW f \in tmp' PROVE TmpKnown(f)'
    BY <2>1, <2>4, <2>5 DEF StoreInv, TmpKnown
  <2>10. \A f \in published' : f.whole = TRUE
    BY <2>1 DEF StoreInv
  <2>11. ASSUME NEW k \in DOMAIN uploads' PROVE Storing(k)'
    <3>1. Storing(k) /\ k \in DOMAIN uploads
      BY <2>5 DEF StoreInv
    <3>2. /\ uploads[k].pc \in {"dedup", "insert"} /\ Content(k) = cleaner.digest => Races(k)
      BY <1>1, <3>1 DEF Storing, CleanerKnows, Races
    <3> QED
      BY <2>4, <2>6, <2>7, <3>1, <3>2 DEF Storing
  <2>12. ASSUME NEW a \in attachments' PROVE RowKnown(a)'
    <3>1. RowKnown(a) /\ a \in attachments
      BY <2>1 DEF StoreInv
    <3>2. a.content = cleaner.digest => Races(a.upload)
      BY <1>1, <2>1, <3>1 DEF RowKnown, CleanerKnows, Races
    <3> QED
      BY <2>4, <2>5, <2>6, <2>7, <3>1, <3>2 DEF RowKnown
  <2>13. CleanerKnows'
    BY <1>1, <2>1, <2>2, <2>4, <2>5 DEF CleanerKnows
  <2>14. ASSUME faults' = 0, NEW f \in published' PROVE Needed(f.content)'
    <3>1. Needed(f.content) /\ f.content # cleaner.digest
      BY <2>1, <2>14 DEF StoreInv
    <3> QED
      BY <2>1, <2>2, <2>4, <2>5, <2>6, <3>1 DEF Needed
  <2> QED
    BY <2>8, <2>9, <2>10, <2>11, <2>12, <2>13, <2>14 DEF StoreInv
<1>7. CASE CleanupEnds
  <2>1. /\ UNCHANGED <<tmp, published, attachments, uploads, clock, faults>>
        /\ cleaner.pc = "check" /\ cleaner.digests = {} /\ cleaner' = Idle
    BY <1>7 DEF CleanupEnds, rows, counts
  <2>2. Shaped' /\ CleanerKnows'
    BY <1>1, <2>1 DEF Shaped, CleanerKnows, Idle
  <2>3. \A c : Needed(c) => Needed(c)'
    BY <2>1 DEF Needed, Content
  <2> QED
    BY <1>1, <2>1, <2>2, <2>3, CleanerMoves
<1> QED
  BY <1>2, <1>3, <1>4, <1>5, <1>6, <1>7 DEF Cleanup

-----------------------------------------------------------------------------
(* Failures.                                                               *)

LEMMA CleanupFailure ==
    ASSUME StoreInv, CleanupFails
    PROVE  StoreInv'
<1>1. /\ UNCHANGED <<tmp, published, attachments, uploads, clock>>
      /\ faults' = faults + 1 /\ cleaner' = Idle
  BY DEF CleanupFails, Fault, rows
<1>2. faults' \in Nat /\ faults' # 0 /\ clock' \in Nat
  BY <1>1 DEF StoreInv, Shaped
<1>3. Shaped' /\ CleanerKnows'
  BY <1>1, <1>2 DEF StoreInv, Shaped, CleanerKnows, Idle
<1> QED
  BY <1>1, <1>2, <1>3, CleanerMoves

LEMMA RestartStep ==
    ASSUME StoreInv, Restart
    PROVE  StoreInv'
<1>1. /\ UNCHANGED <<published, attachments, clock>>
      /\ faults' = faults + 1 /\ cleaner' = Idle
      /\ uploads' = [k \in DOMAIN uploads |-> Ended(uploads[k], -1)]
  BY DEF Restart, Fault, rows, CutOff
<1>2. /\ uploads \in Seq(UploadRecord) /\ DOMAIN uploads = 1 .. Len(uploads)
      /\ Len(uploads) \in Nat /\ faults' \in Nat /\ faults' # 0 /\ clock' \in Nat
  BY <1>1 DEF StoreInv, Shaped
<1>3. DOMAIN uploads' = DOMAIN uploads
  BY <1>1
<1>4. ASSUME NEW k \in DOMAIN uploads
      PROVE  /\ uploads'[k] \in UploadRecord /\ uploads'[k].pc = "done"
             /\ uploads'[k].id = uploads[k].id /\ uploads'[k].file = uploads[k].file
             /\ uploads'[k].raced = uploads[k].raced
  <2>1. uploads'[k] = IF uploads[k].pc = "done" THEN uploads[k]
                      ELSE [uploads[k] EXCEPT !.pc = "done", !.code = -1]
    BY <1>1 DEF Ended
  <2>2. uploads[k] \in UploadRecord /\ -1 \in Codes /\ "done" \in Pcs
    BY <1>2 DEF Codes, Pcs
  <2> QED
    BY <2>1, <2>2 DEF UploadRecord
<1>5. uploads' \in Seq(UploadRecord)
  <2>1. uploads' \in [1 .. Len(uploads) -> UploadRecord]
    BY <1>1, <1>2, <1>4
  <2> QED
    BY <1>2, <2>1
<1>6. \A k \in DOMAIN uploads : Content(k)' = Content(k)
  BY <1>4 DEF Content
<1>7. Shaped' /\ CleanerKnows'
  BY <1>1, <1>2, <1>5 DEF StoreInv, Shaped, CleanerKnows, Idle
<1>8. \A k \in DOMAIN uploads' : Storing(k)'
  BY <1>3, <1>4 DEF Storing
<1>9. ASSUME NEW a \in attachments' PROVE RowKnown(a)'
  <2>1. RowKnown(a)
    BY <1>1 DEF StoreInv
  <2> QED
    BY <1>1, <1>3, <1>4, <1>6, <2>1 DEF RowKnown, OnDisk
<1>10. ASSUME NEW f \in tmp' PROVE TmpKnown(f)'
  <2>1. PICK g \in tmp : f = Stuck(g)
    BY DEF Restart
  <2>2. TmpKnown(g)
    BY DEF StoreInv
  <2>3. g = [upload |-> g.upload, whole |-> g.whole, stuck |-> g.stuck]
    BY <2>2 DEF TmpKnown
  <2>4. f = [upload |-> g.upload, whole |-> g.whole, stuck |-> TRUE]
    BY <2>1, <2>3 DEF Stuck
  <2>5. f.upload = g.upload /\ f.whole = g.whole /\ f.stuck = TRUE
    BY <2>4
  <2>6. f.upload \in DOMAIN uploads' /\ uploads'[f.upload].pc = "done"
    BY <1>3, <1>4, <2>2, <2>5 DEF TmpKnown
  <2> QED
    BY <1>2, <2>2, <2>4, <2>5, <2>6 DEF TmpKnown
<1> QED
  BY <1>1, <1>2, <1>7, <1>8, <1>9, <1>10 DEF StoreInv

LEMMA StoreStep == StoreInv /\ [Next]_vars => StoreInv'
<1> SUFFICES ASSUME StoreInv, [Next]_vars PROVE StoreInv'
  OBVIOUS
<1>0. clock \in Nat
  BY DEF StoreInv, Shaped
<1>1. ASSUME NEW file \in Files, UploadAttachment(file) PROVE StoreInv'
  BY <1>1, UploadStep
<1>2. ASSUME NEW k \in DOMAIN uploads, Store(k) \/ UploadFails(k) PROVE StoreInv'
  BY <1>2, StoreSteps
<1>3. CASE Cleanup
  BY <1>3, CleanupSteps
<1>4. CASE CleanupFails
  BY <1>4, CleanupFailure
<1>5. CASE Restart
  BY <1>5, RestartStep
<1>6. CASE /\ UNCHANGED <<tmp, published, attachments, uploads, cleaner>>
           /\ clock' \in Nat /\ faults' \in {faults, faults + 1}
  BY <1>6, SameFiles
<1>7. ASSUME NEW named, CreateComment(named) PROVE StoreInv'
  BY <1>0, <1>6, <1>7 DEF CreateComment
<1>8. ASSUME NEW c, DeleteComment(c) \/ ReadLinks(c) PROVE StoreInv'
  BY <1>0, <1>6, <1>8 DEF DeleteComment, ReadLinks, rows, counts
<1>9. ASSUME NEW n, ReadAttachments(n) \/ LookUpRow(n) \/ OpenFile(n) PROVE StoreInv'
  BY <1>0, <1>6, <1>9 DEF ReadAttachments, LookUpRow, OpenFile, rows, counts
<1>10. CASE Tick
  BY <1>0, <1>6, <1>10 DEF Tick, rows
<1>12. ASSUME NEW n, ReadingFails(n) \/ LookUpFails(n) \/ OpenFails(n) PROVE StoreInv'
  BY <1>0, <1>6, <1>12 DEF ReadingFails, LookUpFails, OpenFails, Fault, rows
<1>11. CASE UNCHANGED vars
  BY <1>0, <1>6, <1>11 DEF vars
<1> QED
  BY <1>1, <1>2, <1>3, <1>4, <1>5, <1>7, <1>8, <1>9, <1>10, <1>11, <1>12 DEF Next

-----------------------------------------------------------------------------
(* What it shows.                                                          *)

LEMMA StoreAlways == Spec => []StoreInv
<1> QED
  BY StoreInit, StoreStep, PTL DEF Spec

\* Whatever the uploads, cleanups, crashes and failures, a file under its digest is whole,
\* and what a row stands for is on disk unless an upload of the same content has raced with
\* a cleanup (store_file, cleanup_orphans).
THEOREM FilesBehindRows == Spec => []RowsHaveFiles
<1>1. StoreInv => RowsHaveFiles
  <2> SUFFICES ASSUME StoreInv PROVE RowsHaveFiles
    OBVIOUS
  <2>1. PublishedWhole
    BY DEF StoreInv, PublishedWhole
  <2>2. ASSUME NEW a \in attachments
        PROVE  OnDisk(a.content) \/ \E k \in DOMAIN uploads : uploads[k].raced /\ Content(k) = a.content
    BY DEF StoreInv, RowKnown
  <2> QED
    BY <2>1, <2>2 DEF RowsHaveFiles
<1> QED
  BY <1>1, StoreAlways, PTL

\* A temporary file outlives its upload only if that failed, and the process only if its
\* removal failed; and without a fault a published file always has a row, or an upload or a
\* cleanup that will see to it (store_file, init_dirs, cleanup_orphans).
THEOREM NothingLeftBehind == Spec => []NoLitter
<1>1. StoreInv => NoLitter
  <2> SUFFICES ASSUME StoreInv PROVE NoLitter
    OBVIOUS
  <2>1. ASSUME NEW f \in tmp PROVE TmpKnown(f)
    BY DEF StoreInv
  <2>2. TmpExplained
    BY <2>1 DEF TmpExplained, TmpKnown
  <2>3. faults = 0 => \A f \in tmp : uploads[f.upload].pc \in {"write", "exists", "rename", "dedup"}
    BY <2>1 DEF TmpKnown
  <2>4. faults = 0 => \A f \in published : Needed(f.content)
    BY DEF StoreInv
  <2> QED
    BY <2>2, <2>3, <2>4 DEF NoLitter, Needed
<1> QED
  BY <1>1, StoreAlways, PTL

-----------------------------------------------------------------------------
(* Names: what filter, collect and trim keep of a name.                    *)

\* The least-number principle, for a set of numbers.
LEMMA LeastOf == ASSUME NEW S \in SUBSET Nat, S # {} PROVE \E n \in S : \A m \in S : n <= m
<1> DEFINE R == {ss \in Nat \X Nat : ss[1] < ss[2]}
<1>1. IsWellFoundedOn(R, Nat)
  BY NatLessThanWellFounded DEF OpToRel
<1>2. \A x, y \in Nat : <<y, x>> \in R <=> y < x
  OBVIOUS
<1> HIDE DEF R
<1>3. PICK x \in S : \A y \in S : ~ (<<y, x>> \in R)
  BY <1>1, WFMin
<1>4. ASSUME NEW y \in S PROVE x <= y
  <2>1. x \in Nat /\ y \in Nat
    OBVIOUS
  <2>2. ~ (<<y, x>> \in R)
    BY <1>3
  <2>3. ~ (y < x)
    BY <1>2, <2>1, <2>2
  <2> QED
    BY <2>1, <2>3
<1> QED
  BY <1>4

LEMMA GreatestOf ==
    ASSUME NEW N \in Nat, NEW S \in SUBSET (0 .. N), S # {} PROVE \E n \in S : \A m \in S : n >= m
<1> DEFINE T == {N - n : n \in S}
<1>0. \A n \in S : n \in Nat /\ N - n \in Nat
  OBVIOUS
<1>1. T \in SUBSET Nat /\ T # {}
  <2>1. \A t \in T : t \in Nat
    BY <1>0
  <2>2. PICK s \in S : TRUE
    OBVIOUS
  <2>3. N - s \in T
    BY <2>2
  <2> QED
    BY <2>1, <2>3
<1>2. PICK t \in T : \A u \in T : t <= u
  BY <1>1, LeastOf
<1>3. PICK n \in S : t = N - n
  OBVIOUS
<1>4. ASSUME NEW m \in S PROVE n >= m
  <2>1. N - m \in T
    OBVIOUS
  <2>2. N - n <= N - m
    BY <1>2, <1>3, <2>1
  <2>3. n \in Nat /\ m \in Nat
    OBVIOUS
  <2> QED
    BY <2>2, <2>3
<1> QED
  BY <1>4

LEMMA FewNumbers ==
    ASSUME NEW N \in Nat, NEW S \in SUBSET (1 .. N)
    PROVE  IsFiniteSet(S) /\ Cardinality(S) \in Nat /\ S \subseteq Nat
<1>1. IsFiniteSet(1 .. N)
  BY FS_Interval
<1>2. IsFiniteSet(S)
  BY <1>1, FS_Subset
<1> QED
  BY <1>2, FS_CardinalityType

\* Induction over the numbers that are in a set.
LEMMA CountingUp ==
    ASSUME NEW S \in SUBSET Nat, 0 \in S, \A n \in S : n + 1 \in S
    PROVE  S = Nat
<1> SUFFICES ASSUME S # Nat PROVE FALSE
  OBVIOUS
<1>1. Nat \ S # {}
  OBVIOUS
<1>2. PICK n \in Nat \ S : \A m \in Nat \ S : n <= m
  BY <1>1, LeastOf
<1>3. n # 0 /\ n - 1 \in Nat /\ n - 1 \in S
  BY <1>2
<1>4. (n - 1) + 1 \in S
  BY <1>3
<1> QED
  BY <1>2, <1>4

\* Every number up to how many are kept is the place of one of them.
LEMMA PlacesTaken ==
    ASSUME NEW raw \in Seq(STRING), NEW n \in 1 .. Cardinality(Kept(raw))
    PROVE  \E i \in Kept(raw) : Place(i, raw) = n
<1> DEFINE K == Kept(raw)
           Upto(i) == {j \in K : j <= i}
           P == {k \in Nat : k \in 1 .. Cardinality(K) => \E i \in K : Cardinality(Upto(i)) = k}
<1>1. K \subseteq 1 .. Len(raw) /\ Len(raw) \in Nat
  BY DEF Kept
<1>2. IsFiniteSet(K) /\ Cardinality(K) \in Nat /\ K \subseteq Nat
  <2> HIDE DEF K
  <2> QED
    BY <1>1, FewNumbers
<1> HIDE DEF K
<1>3. \A i \in K : IsFiniteSet(Upto(i)) /\ Cardinality(Upto(i)) \in Nat
  BY <1>1, FewNumbers
<1>4. 0 \in P
  OBVIOUS
<1>5. ASSUME NEW k \in P PROVE k + 1 \in P
  <2> SUFFICES ASSUME k + 1 \in 1 .. Cardinality(K)
               PROVE  \E i \in K : Cardinality(Upto(i)) = k + 1
    OBVIOUS
  <2>1. PICK below \in SUBSET K : /\ IsFiniteSet(below) /\ Cardinality(below) = k
                                  /\ \A i \in below, j \in K \ below : i < j
    <3>1. CASE k = 0
      BY <3>1, FS_EmptySet
    <3>2. CASE k # 0
      <4>1. PICK i \in K : Cardinality(Upto(i)) = k
        BY <1>2, <3>2
      <4>2. \A a \in Upto(i), b \in K \ Upto(i) : a < b
        BY <1>2
      <4> QED
        BY <1>3, <4>1, <4>2
    <3> QED
      BY <3>1, <3>2
  <2>2. K \ below # {}
    <3>1. below # K
      BY <1>2, <2>1
    <3> QED
      BY <3>1
  <2>3. PICK i \in K \ below : \A j \in K \ below : i <= j
    BY <1>2, <2>2, LeastOf
  <2>4. Upto(i) = below \cup {i}
    <3>1. \A j \in below : j < i
      BY <2>1, <2>3
    <3>2. \A j \in K : j <= i /\ j \notin below => j = i
      BY <1>2, <2>3
    <3>3. ASSUME NEW j \in Upto(i) PROVE j \in below \cup {i}
      BY <3>2
    <3>4. ASSUME NEW j \in below \cup {i} PROVE j \in Upto(i)
      <4>1. i \in Nat /\ i \in K
        BY <1>2, <2>3
      <4>2. j \in K /\ (j = i \/ j < i)
        BY <2>1, <2>3, <3>1
      <4> QED
        BY <1>2, <4>1, <4>2
    <3> QED
      BY <3>3, <3>4
  <2>5. Cardinality(below \cup {i}) = k + 1
    BY <2>1, <2>3, FS_AddElement
  <2> QED
    <3>1. Cardinality(Upto(i)) = k + 1 /\ i \in K
      BY <2>3, <2>4, <2>5
    <3> QED
      BY <3>1
<1>6. P = Nat
  <2> HIDE DEF P
  <2>1. P \in SUBSET Nat
    BY DEF P
  <2> QED
    BY <1>4, <1>5, <2>1, CountingUp
<1>7. n \in P /\ n \in 1 .. Cardinality(K)
  <2>1. n \in Nat /\ n \in 1 .. Cardinality(K)
    BY <1>2 DEF K
  <2> HIDE DEF P
  <2> QED
    BY <1>6, <2>1
<1> QED
  BY <1>7 DEF Place, K

LEMMA FilteredKeeps ==
    ASSUME NEW raw \in Seq(STRING)
    PROVE  Filtered(raw) \in Seq(STRING \ {"/", "\\", "ctl"})
<1>1. Cardinality(Kept(raw)) \in Nat
  <2>1. Kept(raw) \subseteq 1 .. Len(raw) /\ Len(raw) \in Nat
    BY DEF Kept
  <2> QED
    BY <2>1, FewNumbers
<1>2. ASSUME NEW n \in 1 .. Cardinality(Kept(raw))
      PROVE  raw[CHOOSE i \in Kept(raw) : Place(i, raw) = n] \in STRING \ {"/", "\\", "ctl"}
  <2>1. (CHOOSE i \in Kept(raw) : Place(i, raw) = n) \in Kept(raw)
    BY PlacesTaken
  <2> QED
    BY <2>1 DEF Kept
<1>3. Filtered(raw) \in [1 .. Cardinality(Kept(raw)) -> STRING \ {"/", "\\", "ctl"}]
  BY <1>2 DEF Filtered
<1> QED
  BY <1>1, <1>3

LEMMA PartOf ==
    ASSUME NEW Char, NEW s \in Seq(Char), NEW m \in 1 .. Len(s), NEW n \in 1 .. Len(s)
    PROVE  SubSeq(s, m, n) \in Seq(Char)
<1>1. Len(s) \in Nat /\ m \in Int /\ n \in Int
  OBVIOUS
<1>2. \A i \in m .. n : s[i] \in Char
  <2> SUFFICES ASSUME NEW i \in m .. n PROVE s[i] \in Char
    OBVIOUS
  <2>1. i \in 1 .. Len(s)
    BY <1>1
  <2> QED
    BY <2>1
<1> QED
  BY <1>1, <1>2, SubSeqProperties

LEMMA TrimKeeps == ASSUME NEW Char, NEW s \in Seq(Char) PROVE Trim(s) \in Seq(Char)
<1> DEFINE solid == {i \in DOMAIN s : s[i] # " "}
<1>1. Len(s) \in Nat /\ solid \subseteq 1 .. Len(s)
  <2>1. Len(s) \in Nat /\ DOMAIN s = 1 .. Len(s)
    OBVIOUS
  <2>2. solid \subseteq DOMAIN s
    OBVIOUS
  <2> HIDE DEF solid
  <2> QED
    BY <2>1, <2>2
<1>2. Trim(s) = IF solid = {} THEN <<>> ELSE SubSeq(s, Min(solid), Max(solid))
  BY DEF Trim
<1> HIDE DEF solid
<1>3. CASE solid = {}
  BY <1>2, <1>3
<1>4. CASE solid # {}
  <2>1. solid \in SUBSET Nat /\ solid \in SUBSET (0 .. Len(s))
    BY <1>1
  <2>2. PICK lo \in solid : \A m \in solid : lo <= m
    BY <1>4, <2>1, LeastOf
  <2>3. PICK hi \in solid : \A m \in solid : hi >= m
    BY <1>1, <1>4, <2>1, GreatestOf
  <2>4. Min(solid) \in 1 .. Len(s) /\ Max(solid) \in 1 .. Len(s)
    <3>1. Min(solid) \in solid
      BY <2>2 DEF Min
    <3>2. Max(solid) \in solid
      BY <2>3 DEF Max
    <3> QED
      BY <1>1, <3>1, <3>2
  <2>5. SubSeq(s, Min(solid), Max(solid)) \in Seq(Char)
    BY <2>4, PartOf
  <2> QED
    BY <1>2, <1>4, <2>5
<1> QED
  BY <1>3, <1>4

\* A file is stored, and served, under a name without control characters.
LEMMA NamesClean ==
    ASSUME NEW raw \in Seq(STRING), SanitizeFilename(raw) # NULL
    PROVE  ~ HasControls(SanitizeFilename(raw))
<1> DEFINE Clean == STRING \ {"ctl"}
           name == Trim(Filtered(raw))
           cuts == {i \in DOMAIN name : Bytes(SubSeq(name, 1, i)) = NameLimit}
           whole == Bytes(name) <= NameLimit
<1>1. name \in Seq(STRING \ {"/", "\\", "ctl"})
  BY FilteredKeeps, TrimKeeps
<1>2. SanitizeFilename(raw) = IF name = <<>> THEN <<"unnamed">>
                              ELSE IF whole THEN name
                              ELSE IF cuts = {} THEN NULL ELSE SubSeq(name, 1, Max(cuts))
  BY DEF SanitizeFilename
<1>3. Len(name) \in Nat /\ cuts \subseteq 1 .. Len(name)
  <2> HIDE DEF name
  <2> QED
    BY <1>1
<1> HIDE DEF name, cuts, whole
<1>4. name \in Seq(Clean)
  BY <1>1
<1>5. ASSUME cuts # {} PROVE SubSeq(name, 1, Max(cuts)) \in Seq(Clean)
  <2>1. cuts \in SUBSET (0 .. Len(name))
    BY <1>3
  <2>2. PICK hi \in cuts : \A m \in cuts : hi >= m
    BY <1>3, <1>5, <2>1, GreatestOf
  <2>3. Max(cuts) \in 1 .. Len(name) /\ 1 \in 1 .. Len(name)
    <3>1. Max(cuts) \in cuts
      BY <2>2 DEF Max
    <3>2. Max(cuts) \in 1 .. Len(name)
      BY <1>3, <3>1
    <3> QED
      BY <1>3, <3>2
  <2> HIDE DEF Clean
  <2> QED
    BY <1>4, <2>3, PartOf
<1>6. SanitizeFilename(raw) \in Seq(Clean) \cup {<<"unnamed">>}
  BY <1>2, <1>4, <1>5
<1>7. ASSUME SanitizeFilename(raw) = <<"unnamed">> PROVE ~ HasControls(SanitizeFilename(raw))
  BY <1>7 DEF HasControls
<1>8. ASSUME NEW s \in Seq(Clean) PROVE ~ HasControls(s)
  BY DEF HasControls
<1> QED
  BY <1>6, <1>7, <1>8

-----------------------------------------------------------------------------
(* What an upload was given: the invariant of rows and uploads.            *)

AnswerCodes == {-1, 0, 201, 400, 413, 422, 500}

HasRow(k) == \E a \in attachments : a.id = uploads[k].id /\ a.upload = k

Expired(k) == k \in collected /\ uploads[k].created_at + TTL < clock

\* An upload that was given an id has its row, unless a cleanup removed it after its time.
UploadKnown(k) ==
    /\ uploads[k].name = SanitizeFilename(uploads[k].file.name)
    /\ uploads[k].pc # "done" \/ uploads[k].id # 0 => uploads[k].name # NULL
    /\ uploads[k].pc = "reread" \/ uploads[k].code = 201 => uploads[k].id # 0
    /\ uploads[k].code \in AnswerCodes
    /\ uploads[k].created_at <= clock
    /\ uploads[k].id # 0 => HasRow(k) \/ Expired(k)

\* A row shows what its upload was answered with.
RowTrue(a) ==
    /\ a.upload \in DOMAIN uploads /\ a.id \in RowIds
    /\ a.id = uploads[a.upload].id /\ a.name = uploads[a.upload].name
    /\ a.created_at = uploads[a.upload].created_at

\* What the cleanup is to delete had outlived its time when it was found.
OrphansAged ==
    cleaner.pc \in {"select", "delete"} =>
       \A a \in attachments : a.id \in cleaner.orphans => a.created_at + TTL < clock

RowInv ==
    /\ \A k \in DOMAIN uploads : UploadKnown(k)
    /\ \A a \in attachments : RowTrue(a)
    /\ UniqueIds(attachments)
    /\ OrphansAged
    /\ collected \subseteq DOMAIN uploads /\ clock <= MaxTime

\* An upload keeps its file, its name and its row; it goes on, or its answer is known.
UploadStays(k) ==
    /\ uploads'[k].file = uploads[k].file /\ uploads'[k].name = uploads[k].name
    /\ uploads[k].raced = TRUE => uploads'[k].raced = TRUE
    /\ uploads'[k].id = uploads[k].id /\ uploads'[k].created_at = uploads[k].created_at
    /\ uploads'[k].pc = "reread" => uploads[k].pc = "reread"
    /\ uploads[k].pc = "done" => uploads'[k].pc = "done"
    /\ \/ uploads'[k].code \in {uploads[k].code, -1, 0, 500}
       \/ uploads'[k].code = 201 /\ uploads[k].pc = "reread"

\* One upload goes from one step to the next, or ends.
LEMMA MovingOn ==
    ASSUME NEW k \in DOMAIN uploads, NEW r, uploads' = [uploads EXCEPT ![k] = r],
           r.file = uploads[k].file, r.name = uploads[k].name, r.raced = uploads[k].raced,
           r.id = uploads[k].id, r.created_at = uploads[k].created_at,
           r.pc # "reread", uploads[k].pc = "done" => r.pc = "done",
           \/ r.code \in {uploads[k].code, -1, 0, 500}
           \/ r.code = 201 /\ uploads[k].pc = "reread"
    PROVE  DOMAIN uploads' = DOMAIN uploads /\ \A j \in DOMAIN uploads : UploadStays(j)
<1>2. DOMAIN uploads' = DOMAIN uploads
  OBVIOUS
<1>3. ASSUME NEW j \in DOMAIN uploads PROVE UploadStays(j)
  <2>1. CASE j = k
    <3>1. uploads'[k] = r
      OBVIOUS
    <3> QED
      BY <2>1, <3>1 DEF UploadStays
  <2>2. CASE j # k
    <3>1. uploads'[j] = uploads[j]
      BY <2>2
    <3> QED
      BY <3>1 DEF UploadStays
  <2> QED
    BY <2>1, <2>2
<1> QED
  BY <1>2, <1>3

\* The steps of an upload that leave its row alone.
LEMMA StoreMoves ==
    ASSUME StoreInv, NEW k \in DOMAIN uploads,
           WriteTmp(k) \/ DestExists(k) \/ Rename(k) \/ Dedup(k) \/ Reread(k) \/ UploadFails(k)
    PROVE  DOMAIN uploads' = DOMAIN uploads /\ \A j \in DOMAIN uploads : UploadStays(j)
<1>1. uploads[k] \in UploadRecord
  BY DEF StoreInv, Shaped
<1>2. ASSUME NEW pc, Goto(k, pc), pc # "reread", uploads[k].pc # "done"
      PROVE  DOMAIN uploads' = DOMAIN uploads /\ \A j \in DOMAIN uploads : UploadStays(j)
  <2>1. PICK r : r = [uploads[k] EXCEPT !.pc = pc]
    OBVIOUS
  <2>2. uploads' = [uploads EXCEPT ![k] = r]
    BY <1>2, <2>1 DEF Goto
  <2>3. /\ r.file = uploads[k].file /\ r.name = uploads[k].name /\ r.raced = uploads[k].raced
        /\ r.id = uploads[k].id /\ r.created_at = uploads[k].created_at
        /\ r.pc = pc /\ r.code = uploads[k].code
    BY <1>1, <2>1 DEF UploadRecord
  <2> QED
    BY <1>2, <2>2, <2>3, MovingOn
<1>3. ASSUME Reread(k)
      PROVE  DOMAIN uploads' = DOMAIN uploads /\ \A j \in DOMAIN uploads : UploadStays(j)
  <2>1. PICK code \in {0, 201} : code = IF RowOf(uploads[k].id) = {} THEN 0 ELSE 201
    OBVIOUS
  <2>2. PICK r : r = [uploads[k] EXCEPT !.pc = "done", !.code = code]
    OBVIOUS
  <2>3. uploads' = [uploads EXCEPT ![k] = r] /\ uploads[k].pc = "reread"
    BY <1>3, <2>1, <2>2 DEF Reread, AtPc
  <2>4. /\ r.file = uploads[k].file /\ r.name = uploads[k].name /\ r.raced = uploads[k].raced
        /\ r.id = uploads[k].id /\ r.created_at = uploads[k].created_at
        /\ r.pc = "done" /\ r.code = code
    BY <1>1, <2>2 DEF UploadRecord
  <2>5. r.code \in {uploads[k].code, -1, 0, 500} \/ (r.code = 201 /\ uploads[k].pc = "reread")
    BY <2>1, <2>3, <2>4
  <2>6. r.pc # "reread" /\ (uploads[k].pc = "done" => r.pc = "done")
    BY <2>4
  <2> QED
    BY <2>3, <2>4, <2>5, <2>6, MovingOn
<1>4. ASSUME UploadFails(k)
      PROVE  DOMAIN uploads' = DOMAIN uploads /\ \A j \in DOMAIN uploads : UploadStays(j)
  <2>1. HttpStatus[StorageError.Io] = 500
    BY DEF HttpStatus, AppError, StorageError
  <2>2. PICK r : r = [uploads[k] EXCEPT !.pc = "done", !.code = 500]
    OBVIOUS
  <2>3. uploads' = [uploads EXCEPT ![k] = r]
    BY <1>4, <2>1, <2>2 DEF UploadFails, Ended
  <2>4. /\ r.file = uploads[k].file /\ r.name = uploads[k].name /\ r.raced = uploads[k].raced
        /\ r.id = uploads[k].id /\ r.created_at = uploads[k].created_at
        /\ r.pc = "done" /\ r.code = 500
    BY <1>1, <2>2 DEF UploadRecord
  <2> QED
    BY <2>3, <2>4, MovingOn
<1> QED
  BY <1>2, <1>3, <1>4 DEF WriteTmp, DestExists, Rename, Dedup, AtPc

LEMMA RestartMoves ==
    ASSUME StoreInv, Restart
    PROVE  DOMAIN uploads' = DOMAIN uploads /\ \A j \in DOMAIN uploads : UploadStays(j)
<1>1. uploads' = [k \in DOMAIN uploads |-> Ended(uploads[k], -1)]
  BY DEF Restart, CutOff
<1>2. ASSUME NEW j \in DOMAIN uploads PROVE UploadStays(j)
  <2>1. uploads[j] \in UploadRecord
    BY DEF StoreInv, Shaped
  <2>2. uploads'[j] = IF uploads[j].pc = "done" THEN uploads[j]
                      ELSE [uploads[j] EXCEPT !.pc = "done", !.code = -1]
    BY <1>1 DEF Ended
  <2> QED
    BY <2>1, <2>2 DEF UploadRecord, UploadStays
<1> QED
  BY <1>1, <1>2

LEMMA DeleteFileMoves ==
    ASSUME StoreInv, DeleteFile
    PROVE  DOMAIN uploads' = DOMAIN uploads /\ \A j \in DOMAIN uploads : UploadStays(j)
<1> DEFINE Races(k) == /\ Content(k) = cleaner.digest /\ k \notin cleaner.settled
                       /\ uploads[k].pc \in {"dedup", "insert", "reread", "done"}
<1>1. uploads' = [k \in DOMAIN uploads |->
                     IF Races(k) THEN [uploads[k] EXCEPT !.raced = TRUE] ELSE uploads[k]]
  BY DEF DeleteFile
<1> HIDE DEF Races
<1>2. ASSUME NEW j \in DOMAIN uploads PROVE UploadStays(j)
  <2>1. uploads[j] \in UploadRecord
    BY DEF StoreInv, Shaped
  <2>2. uploads'[j] = IF Races(j) THEN [uploads[j] EXCEPT !.raced = TRUE] ELSE uploads[j]
    BY <1>1
  <2> QED
    BY <2>1, <2>2 DEF UploadRecord, UploadStays
<1> QED
  BY <1>1, <1>2

\* Where rows stay, and uploads keep theirs, the invariant stays.
LEMMA RowsStay ==
    ASSUME StoreInv, StoreInv', RowInv, DOMAIN uploads' = DOMAIN uploads,
           \A k \in DOMAIN uploads : UploadStays(k),
           UNCHANGED <<attachments, collected>>, clock <= clock', clock' <= MaxTime, OrphansAged'
    PROVE  RowInv'
<1>1. clock \in Nat /\ clock' \in Nat /\ TTL \in Nat
      /\ \A k \in DOMAIN uploads : uploads[k] \in UploadRecord
  BY AttachmentsAssumption DEF StoreInv, Shaped
<1>2. ASSUME NEW k \in DOMAIN uploads' PROVE UploadKnown(k)'
  <2>1. UploadKnown(k) /\ UploadStays(k)
    BY DEF RowInv
  <2>2. uploads[k].created_at \in Nat
    BY <1>1 DEF UploadRecord
  <2>3. uploads'[k].code \in AnswerCodes
    BY <2>1 DEF UploadKnown, UploadStays, AnswerCodes
  <2>4. HasRow(k) => HasRow(k)'
    BY <2>1 DEF HasRow, UploadStays
  <2>5. Expired(k) => Expired(k)'
    BY <1>1, <2>1, <2>2 DEF Expired, UploadStays
  <2>6. uploads'[k].pc = "reread" \/ uploads'[k].code = 201 => uploads'[k].id # 0
    BY <2>1 DEF UploadKnown, UploadStays
  <2>7. uploads'[k].created_at <= clock'
    BY <1>1, <2>1, <2>2 DEF UploadKnown, UploadStays
  <2> QED
    BY <2>1, <2>3, <2>4, <2>5, <2>6, <2>7 DEF UploadKnown, UploadStays
<1>3. ASSUME NEW a \in attachments' PROVE RowTrue(a)'
  <2>1. RowTrue(a) /\ UploadStays(a.upload)
    BY DEF RowInv, RowTrue
  <2> QED
    BY <2>1 DEF RowTrue, UploadStays
<1> QED
  BY <1>2, <1>3 DEF RowInv, UniqueIds

\* An upload begins.
LEMMA UploadBegins ==
    ASSUME StoreInv, StoreInv', RowInv, NEW file \in Files, UploadAttachment(file)
    PROVE  /\ RowInv'
           /\ DOMAIN uploads \subseteq DOMAIN uploads'
           /\ \A j \in DOMAIN uploads : uploads'[j] = uploads[j]
<1> DEFINE n == Len(uploads) + 1
<1>1. PICK r : /\ uploads' = Append(uploads, r)
               /\ r = IF Refusal(file) = "none" THEN Upload(file, "write", 0)
                      ELSE Upload(file, "done", IF Refusal(file) = "panic" THEN 0
                                                ELSE HttpStatus[Refusal(file)])
  BY DEF UploadAttachment
<1>2. UNCHANGED <<attachments, cleaner, clock, collected>>
  BY DEF UploadAttachment, rows, counts
<1>3. /\ r.file = file /\ r.name = SanitizeFilename(file.name) /\ r.id = 0
      /\ r.created_at = clock /\ r.pc \in {"write", "done"}
      /\ r.pc # "done" => Refusal(file) = "none"
      /\ r.code = 0 \/ (r.code = HttpStatus[Refusal(file)] /\ Refusal(file) \notin {"none", "panic"})
  BY <1>1 DEF Upload
<1>4. r.code \in AnswerCodes /\ r.code # 201
  <2>1. Refusal(file) \notin {"none", "panic"} => HttpStatus[Refusal(file)] \in {400, 413, 422}
    BY DEF Refusal, HttpStatus, AppError, StorageError
  <2> QED
    BY <1>3, <2>1 DEF AnswerCodes
<1>5. r.pc # "done" => r.name # NULL
  BY <1>3 DEF Refusal
<1>6. /\ uploads \in Seq(UploadRecord) /\ clock \in Nat
      /\ DOMAIN uploads = 1 .. Len(uploads) /\ Len(uploads) \in Nat
  BY DEF StoreInv, Shaped
<1>7. /\ DOMAIN uploads' = DOMAIN uploads \cup {n} /\ n \notin DOMAIN uploads
      /\ uploads'[n] = r /\ \A j \in DOMAIN uploads : uploads'[j] = uploads[j]
  BY <1>1, <1>6
<1> HIDE DEF n
<1>8. ASSUME NEW k \in DOMAIN uploads' PROVE UploadKnown(k)'
  <2>1. CASE k = n
    <3>1. uploads'[k].created_at <= clock'
      BY <1>2, <1>3, <1>6, <1>7, <2>1
    <3> QED
      BY <1>3, <1>4, <1>5, <1>7, <2>1, <3>1 DEF UploadKnown
  <2>2. CASE k \in DOMAIN uploads
    <3>1. UploadKnown(k) /\ uploads'[k] = uploads[k]
      BY <1>7, <2>2 DEF RowInv
    <3>2. (HasRow(k) => HasRow(k)') /\ (Expired(k) => Expired(k)')
      BY <1>2, <3>1 DEF HasRow, Expired
    <3> QED
      BY <1>2, <3>1, <3>2 DEF UploadKnown
  <2> QED
    BY <1>7, <2>1, <2>2
<1>9. ASSUME NEW a \in attachments' PROVE RowTrue(a)'
  <2>1. RowTrue(a)
    BY <1>2 DEF RowInv
  <2> QED
    BY <1>7, <2>1 DEF RowTrue
<1>10. RowInv'
  BY <1>2, <1>7, <1>8, <1>9 DEF RowInv, UniqueIds, OrphansAged
<1> QED
  BY <1>7, <1>10

\* What inserting a row does to its upload, and to nothing else.
UploadInserted(k) ==
    /\ uploads[k].id = 0 /\ uploads[k].pc = "insert"
    /\ DOMAIN uploads' = DOMAIN uploads
    /\ \A j \in DOMAIN uploads : j # k => uploads'[j] = uploads[j]
    /\ uploads'[k].file = uploads[k].file /\ uploads'[k].name = uploads[k].name
    /\ uploads'[k].raced = uploads[k].raced /\ uploads'[k].code = uploads[k].code
    /\ uploads'[k].pc = "reread" /\ uploads'[k].created_at = clock

LEMMA InsertMoves ==
    ASSUME StoreInv, NEW k \in DOMAIN uploads, Insert(k)
    PROVE  /\ UploadInserted(k)
           /\ \E id \in RowIds : /\ IsNextRowid(attachments, id)
                                 /\ attachments' = attachments \cup {Attachment(id, k)}
                                 /\ uploads'[k].id = id
<1>1. PICK id \in RowIds : /\ IsNextRowid(attachments, id)
                           /\ attachments' = attachments \cup {Attachment(id, k)}
                           /\ uploads' = [uploads EXCEPT ![k].pc = "reread", ![k].id = id,
                                              ![k].created_at = clock]
  BY DEF Insert
<1>2. PICK r : r = [uploads[k] EXCEPT !.pc = "reread", !.id = id, !.created_at = clock]
  OBVIOUS
<1>3. uploads' = [uploads EXCEPT ![k] = r]
  BY <1>1, <1>2
<1>4. uploads[k] \in UploadRecord /\ uploads[k].id = 0 /\ uploads[k].pc = "insert"
  BY DEF Insert, AtPc, StoreInv, Shaped, Storing
<1>5. /\ r.file = uploads[k].file /\ r.name = uploads[k].name /\ r.raced = uploads[k].raced
      /\ r.id = id /\ r.created_at = clock /\ r.pc = "reread" /\ r.code = uploads[k].code
  BY <1>2, <1>4 DEF UploadRecord
<1>6. /\ DOMAIN uploads' = DOMAIN uploads /\ uploads'[k] = r
      /\ \A j \in DOMAIN uploads : j # k => uploads'[j] = uploads[j]
  BY <1>3
<1> QED
  BY <1>1, <1>4, <1>5, <1>6 DEF UploadInserted

LEMMA InsertRows ==
    ASSUME StoreInv, StoreInv', RowInv, NEW k \in DOMAIN uploads, Insert(k)
    PROVE  RowInv'
<1>1. UploadInserted(k)
  BY InsertMoves
<1>2. PICK id \in RowIds : /\ IsNextRowid(attachments, id)
                           /\ attachments' = attachments \cup {Attachment(id, k)}
                           /\ uploads'[k].id = id
  BY InsertMoves
<1>3. UNCHANGED <<cleaner, clock, collected>>
  BY DEF Insert, counts
<1>4. PICK new : new = Attachment(id, k)
  OBVIOUS
<1>5. /\ attachments' = attachments \cup {new} /\ new.id = id /\ new.upload = k
      /\ new.name = uploads[k].name /\ new.created_at = clock
  BY <1>2, <1>4 DEF Attachment
<1>6. id \in Nat /\ id # 0 /\ clock \in Nat
  BY AttachmentsAssumption DEF RowIds, StoreInv, Shaped
<1>7. \A a \in attachments : a.id # id
  <2>1. \A a \in attachments : a.id \in Nat
    BY DEF StoreInv, RowKnown
  <2> QED
    BY <1>2, <1>6, <2>1 DEF IsNextRowid
<1>8. \A a \in attachments : a.upload # k
  BY <1>1 DEF StoreInv, RowKnown, UploadInserted
<1>9. ASSUME NEW j \in DOMAIN uploads' PROVE UploadKnown(j)'
  <2>1. UploadKnown(j) /\ j \in DOMAIN uploads
    BY <1>1 DEF RowInv, UploadInserted
  <2>2. CASE j = k
    <3>1. HasRow(k)'
      BY <1>2, <1>5 DEF HasRow
    <3>2. uploads'[k].created_at <= clock'
      BY <1>1, <1>3, <1>6 DEF UploadInserted
    <3>3. uploads[k].name # NULL
      BY <1>1, <2>1, <2>2 DEF UploadKnown, UploadInserted
    <3> QED
      BY <1>1, <1>2, <1>6, <2>1, <2>2, <3>1, <3>2, <3>3 DEF UploadKnown, UploadInserted
  <2>3. CASE j # k
    <3>1. uploads'[j] = uploads[j]
      BY <1>1, <2>1, <2>3 DEF UploadInserted
    <3>2. (HasRow(j) => HasRow(j)') /\ (Expired(j) => Expired(j)')
      BY <1>3, <1>5, <3>1 DEF HasRow, Expired
    <3> QED
      BY <1>3, <2>1, <3>1, <3>2 DEF UploadKnown
  <2> QED
    BY <2>2, <2>3
<1>10. ASSUME NEW a \in attachments' PROVE RowTrue(a)'
  <2>1. CASE a = new
    BY <1>1, <1>2, <1>5, <2>1 DEF RowTrue, UploadInserted
  <2>2. CASE a \in attachments
    <3>1. RowTrue(a) /\ a.upload # k
      BY <1>8, <2>2 DEF RowInv
    <3>2. uploads'[a.upload] = uploads[a.upload] /\ DOMAIN uploads' = DOMAIN uploads
      BY <1>1, <3>1 DEF RowTrue, UploadInserted
    <3> QED
      BY <3>1, <3>2 DEF RowTrue
  <2> QED
    BY <1>5, <2>1, <2>2
<1>11. UniqueIds(attachments)'
  BY <1>5, <1>7 DEF RowInv, UniqueIds
<1>12. OrphansAged'
  <2>1. cleaner.pc \in {"select", "delete"} => id \notin cleaner.orphans
    BY <1>7 DEF StoreInv, CleanerKnows
  <2> QED
    BY <1>3, <1>5, <2>1 DEF RowInv, OrphansAged
<1> QED
  BY <1>1, <1>3, <1>9, <1>10, <1>11, <1>12 DEF RowInv, UploadInserted

\* The cleanup removes rows that have outlived their time.
LEMMA CollectRows ==
    ASSUME StoreInv, StoreInv', RowInv, DeleteOrphanRows
    PROVE  RowInv' /\ collected \subseteq collected'
<1> DEFINE gone == {a \in attachments : a.id \in cleaner.orphans}
<1>1. UNCHANGED <<uploads, clock>> /\ cleaner.pc = "delete"
  BY DEF DeleteOrphanRows
<1>2. CASE cleaner' = Idle /\ UNCHANGED <<attachments, collected>>
  <2>1. \A k : UploadKnown(k) => UploadKnown(k)'
    BY <1>1, <1>2 DEF UploadKnown, HasRow, Expired
  <2>2. \A a \in attachments : RowTrue(a) => RowTrue(a)'
    BY <1>1, <1>2 DEF RowTrue
  <2> QED
    BY <1>1, <1>2, <2>1, <2>2 DEF RowInv, UniqueIds, OrphansAged, Idle
<1>3. CASE /\ attachments' = attachments \ gone
           /\ collected' = collected \cup {a.upload : a \in gone}
           /\ cleaner' = [cleaner EXCEPT !.pc = "check", !.orphans = {}]
  <2>1. cleaner'.pc = "check"
    BY <1>3 DEF StoreInv, Shaped
  <2>2. ASSUME NEW k \in DOMAIN uploads' PROVE UploadKnown(k)'
    <3>1. UploadKnown(k) /\ uploads' = uploads /\ clock' = clock
      BY <1>1, <2>2 DEF RowInv
    <3>2. Expired(k) => Expired(k)'
      BY <1>1, <1>3 DEF Expired
    <3>3. ASSUME NEW a \in attachments, a.id = uploads[k].id, a.upload = k
          PROVE  HasRow(k)' \/ Expired(k)'
      <4>1. CASE a \in gone
        <5>1. k \in collected'
          BY <1>3, <3>3, <4>1
        <5>2. uploads[k].created_at + TTL < clock
          BY <1>1, <3>3, <4>1 DEF RowInv, OrphansAged, RowTrue
        <5> QED
          BY <1>1, <5>1, <5>2 DEF Expired
      <4>2. CASE a \notin gone
        BY <1>1, <1>3, <3>3, <4>2 DEF HasRow
      <4> QED
        BY <4>1, <4>2
    <3>4. uploads[k].id # 0 => HasRow(k)' \/ Expired(k)'
      BY <3>1, <3>2, <3>3 DEF UploadKnown, HasRow
    <3> QED
      BY <3>1, <3>4 DEF UploadKnown
  <2>3. ASSUME NEW a \in attachments' PROVE RowTrue(a)'
    BY <1>1, <1>3 DEF RowInv, RowTrue
  <2>4. UniqueIds(attachments)' /\ OrphansAged'
    BY <1>3, <2>1 DEF RowInv, UniqueIds, OrphansAged
  <2>5. collected' \subseteq DOMAIN uploads'
    BY <1>1, <1>3 DEF RowInv, RowTrue
  <2> QED
    BY <1>1, <1>3, <2>2, <2>3, <2>4, <2>5 DEF RowInv
<1> QED
  BY <1>2, <1>3 DEF DeleteOrphanRows

-----------------------------------------------------------------------------
(* Every step leaves what an upload was given with it.                     *)

\* What an upload was given stays with it.
UploadStands(k) ==
    /\ k \in DOMAIN uploads'
    /\ uploads'[k].file = uploads[k].file /\ uploads'[k].name = uploads[k].name
    /\ uploads[k].raced = TRUE => uploads'[k].raced = TRUE
    /\ uploads[k].id # 0 => /\ uploads'[k].id = uploads[k].id
                            /\ uploads'[k].created_at = uploads[k].created_at

Standing ==
    /\ \A k \in DOMAIN uploads : UploadStands(k)
    /\ collected \subseteq collected' /\ clock <= clock'

LEMMA RowStep ==
    ASSUME StoreInv, StoreInv', RowInv, [Next]_vars
    PROVE  RowInv' /\ Standing
<1>0. clock \in Nat /\ clock <= MaxTime /\ OrphansAged
      /\ \A k \in DOMAIN uploads : uploads[k] \in UploadRecord
  BY DEF StoreInv, Shaped, RowInv
<1>1. ASSUME DOMAIN uploads' = DOMAIN uploads, \A k \in DOMAIN uploads : UploadStays(k),
             UNCHANGED <<attachments, collected>>, clock <= clock', clock' <= MaxTime, OrphansAged'
      PROVE  RowInv' /\ Standing
  <2>1. RowInv'
    BY <1>1, RowsStay
  <2>2. \A k \in DOMAIN uploads : UploadStands(k)
    BY <1>1 DEF UploadStays, UploadStands
  <2> QED
    BY <1>1, <2>1, <2>2 DEF Standing
<1>2. ASSUME DOMAIN uploads' = DOMAIN uploads, \A k \in DOMAIN uploads : UploadStays(k),
             UNCHANGED <<attachments, collected, clock>>,
             cleaner'.pc \in {"select", "delete"} =>
                cleaner.pc \in {"select", "delete"} /\ cleaner'.orphans = cleaner.orphans
      PROVE  RowInv' /\ Standing
  <2>1. OrphansAged'
    BY <1>0, <1>2 DEF OrphansAged
  <2> QED
    BY <1>0, <1>1, <1>2, <2>1
<1>3. ASSUME uploads' = uploads
      PROVE  DOMAIN uploads' = DOMAIN uploads /\ \A k \in DOMAIN uploads : UploadStays(k)
  BY <1>3 DEF UploadStays
<1>4. ASSUME NEW file \in Files, UploadAttachment(file) PROVE RowInv' /\ Standing
  <2>1. /\ RowInv' /\ DOMAIN uploads \subseteq DOMAIN uploads'
        /\ \A j \in DOMAIN uploads : uploads'[j] = uploads[j]
    BY <1>4, UploadBegins
  <2>2. UNCHANGED <<clock, collected>>
    BY <1>4 DEF UploadAttachment, counts
  <2> QED
    BY <1>0, <2>1, <2>2 DEF Standing, UploadStands
<1>5. ASSUME NEW k \in DOMAIN uploads, Insert(k) PROVE RowInv' /\ Standing
  <2>1. RowInv' /\ UploadInserted(k)
    BY <1>5, InsertRows, InsertMoves
  <2>2. UNCHANGED <<clock, collected>>
    BY <1>5 DEF Insert, counts
  <2>3. \A j \in DOMAIN uploads : UploadStands(j)
    BY <2>1 DEF UploadInserted, UploadStands
  <2> QED
    BY <1>0, <2>1, <2>2, <2>3 DEF Standing
<1>6. ASSUME NEW k \in DOMAIN uploads,
             WriteTmp(k) \/ DestExists(k) \/ Rename(k) \/ Dedup(k) \/ Reread(k) \/ UploadFails(k)
      PROVE  RowInv' /\ Standing
  <2>1. UNCHANGED <<attachments, collected, clock, cleaner>>
    BY <1>6 DEF WriteTmp, DestExists, Rename, Dedup, Reread, UploadFails, rows, counts
  <2>2. DOMAIN uploads' = DOMAIN uploads /\ \A j \in DOMAIN uploads : UploadStays(j)
    BY <1>6, StoreMoves
  <2> QED
    BY <1>2, <2>1, <2>2
<1>7. CASE DeleteOrphanRows
  <2>1. RowInv' /\ collected \subseteq collected'
    BY <1>7, CollectRows
  <2>2. UNCHANGED <<uploads, clock>>
    BY <1>7 DEF DeleteOrphanRows
  <2> QED
    BY <1>0, <2>1, <2>2 DEF Standing, UploadStands
<1>8. CASE FindOrphans
  <2>1. UNCHANGED <<uploads, attachments, collected, clock>>
    BY <1>8 DEF FindOrphans, rows
  <2>2. PICK orphans : /\ orphans = {a.id : a \in {b \in attachments :
                                                  ~ Linked(b) /\ b.created_at + TTL < clock}}
                       /\ cleaner' = [cleaner EXCEPT !.pc = IF orphans = {} THEN "idle" ELSE "select",
                                                     !.orphans = orphans]
    BY <1>8 DEF FindOrphans
  <2>3. cleaner'.orphans = orphans
    BY <2>2 DEF StoreInv, Shaped
  <2>4. ASSUME NEW a \in attachments, a.id \in orphans PROVE a.created_at + TTL < clock
    <3>1. PICK b \in attachments : b.id = a.id /\ b.created_at + TTL < clock
      BY <2>2, <2>4
    <3> QED
      BY <3>1 DEF RowInv, UniqueIds
  <2>5. OrphansAged'
    BY <2>1, <2>3, <2>4 DEF OrphansAged
  <2> QED
    BY <1>0, <1>1, <1>3, <2>1, <2>5
<1>9. CASE SelectDigests
  <2>1. UNCHANGED <<uploads, attachments, collected, clock>> /\ cleaner.pc = "select"
    BY <1>9 DEF SelectDigests, rows, counts
  <2>2. cleaner'.orphans = cleaner.orphans
    BY <1>9 DEF SelectDigests, StoreInv, Shaped
  <2> QED
    BY <1>2, <1>3, <2>1, <2>2
<1>10. CASE HasReferences
  <2>1. UNCHANGED <<uploads, attachments, collected, clock>>
    BY <1>10 DEF HasReferences, rows, counts
  <2>2. cleaner'.pc \in {"check", "remove"}
    BY <1>10 DEF HasReferences, StoreInv, Shaped
  <2> QED
    BY <1>2, <1>3, <2>1, <2>2
<1>11. CASE DeleteFile
  <2>1. UNCHANGED <<attachments, collected, clock>>
    BY <1>11 DEF DeleteFile, rows, counts
  <2>2. cleaner'.pc = "check"
    BY <1>11 DEF DeleteFile, StoreInv, Shaped
  <2>3. DOMAIN uploads' = DOMAIN uploads /\ \A j \in DOMAIN uploads : UploadStays(j)
    BY <1>11, DeleteFileMoves
  <2> QED
    BY <1>2, <2>1, <2>2, <2>3
<1>12. CASE CleanupEnds \/ CleanupFails
  <2>1. UNCHANGED <<uploads, attachments, collected, clock>> /\ cleaner' = Idle
    BY <1>12 DEF CleanupEnds, CleanupFails, rows, counts
  <2>2. cleaner'.pc = "idle"
    BY <2>1 DEF Idle
  <2> QED
    BY <1>2, <1>3, <2>1, <2>2
<1>13. CASE Restart
  <2>1. UNCHANGED <<attachments, collected, clock>> /\ cleaner' = Idle
    BY <1>13 DEF Restart, rows
  <2>2. cleaner'.pc = "idle"
    BY <2>1 DEF Idle
  <2>3. DOMAIN uploads' = DOMAIN uploads /\ \A j \in DOMAIN uploads : UploadStays(j)
    BY <1>13, RestartMoves
  <2> QED
    BY <1>2, <2>1, <2>2, <2>3
<1>14. CASE Tick
  <2>1. /\ UNCHANGED <<uploads, attachments, collected, cleaner>>
        /\ clock' = clock + 1 /\ clock < MaxTime /\ MaxTime \in Nat /\ TTL \in Nat
    BY <1>14, AttachmentsAssumption DEF Tick, rows
  <2>2. OrphansAged'
    <3>1. \A a \in attachments : a.created_at \in Nat
      BY <1>0 DEF RowInv, RowTrue, UploadRecord
    <3> QED
      BY <1>0, <2>1, <3>1 DEF OrphansAged
  <2> QED
    BY <1>0, <1>1, <1>3, <2>1, <2>2
<1>15. CASE UNCHANGED <<uploads, attachments, collected, cleaner, clock>>
  BY <1>2, <1>3, <1>15
<1>16. ASSUME NEW n, CreateComment(n) \/ DeleteComment(n) \/ ReadLinks(n) \/ ReadAttachments(n)
                     \/ ReadingFails(n) \/ LookUpRow(n) \/ LookUpFails(n) \/ OpenFile(n) \/ OpenFails(n)
       PROVE  RowInv' /\ Standing
  BY <1>15, <1>16 DEF CreateComment, DeleteComment, ReadLinks, ReadAttachments, ReadingFails,
                      LookUpRow, LookUpFails, OpenFile, OpenFails, rows, counts
<1>17. CASE UNCHANGED vars
  BY <1>15, <1>17 DEF vars
<1> QED
  BY <1>4, <1>5, <1>6, <1>7, <1>8, <1>9, <1>10, <1>11, <1>12, <1>13, <1>14, <1>16, <1>17
     DEF Next, Store, Cleanup

-----------------------------------------------------------------------------
(* Links and readings.                                                     *)

Names == {SanitizeFilename(file.name) : file \in Files}

LinkRecord == [comment : 1 .. MaxComments, attachment : RowIds, meant : Nat]

ShownRecord == [response : [id : RowIds, name : Names, upload : Nat], meant : Nat]

ReadingRecord ==
    [comment : 1 .. MaxComments, pc : {"rows", "done"}, code : Int,
     shown : SUBSET ShownRecord, links : SUBSET LinkRecord]

\* A link names the row that the upload its author meant was given.
LinkTrue(l) ==
    l.meant \in DOMAIN uploads /\ l.attachment \in RowIds /\ uploads[l.meant].id = l.attachment

ShownTrue(x) ==
    /\ x.meant \in DOMAIN uploads /\ uploads[x.meant].id # 0
    /\ x.response.upload = x.meant \/ Expired(x.meant)

LinkInv ==
    /\ comments \subseteq 1 .. MaxComments
    /\ links \subseteq LinkRecord
    /\ \A l \in links : LinkTrue(l) /\ l.comment \in comments /\ RowOf(l.attachment) # {}
    /\ readings \in Seq(ReadingRecord)
    /\ \A n \in DOMAIN readings : /\ \A l \in readings[n].links : LinkTrue(l)
                                  /\ \A x \in readings[n].shown : ShownTrue(x)

LEMMA StillTrue ==
    ASSUME StoreInv, StoreInv', RowInv, Standing
    PROVE  /\ \A l : LinkTrue(l) => LinkTrue(l)'
           /\ \A x : ShownTrue(x) => ShownTrue(x)'
           /\ \A k \in DOMAIN uploads : Expired(k) /\ uploads[k].id # 0 => Expired(k)'
<1>1. clock \in Nat /\ clock' \in Nat /\ TTL \in Nat /\ clock <= clock'
      /\ \A k \in DOMAIN uploads : uploads[k].created_at \in Nat
  <2>1. uploads \in Seq(UploadRecord) /\ clock \in Nat /\ clock' \in Nat
    BY DEF StoreInv, Shaped
  <2>2. \A k \in DOMAIN uploads : uploads[k] \in UploadRecord
    BY <2>1
  <2>3. \A k \in DOMAIN uploads : uploads[k].created_at \in Nat
    BY <2>2 DEF UploadRecord
  <2> QED
    BY <2>1, <2>3, AttachmentsAssumption DEF Standing
<1>2. ASSUME NEW k \in DOMAIN uploads, Expired(k), uploads[k].id # 0 PROVE Expired(k)'
  BY <1>1, <1>2 DEF Expired, Standing, UploadStands
<1>3. 0 \notin RowIds
  BY AttachmentsAssumption DEF RowIds
<1>4. ASSUME NEW l, LinkTrue(l) PROVE LinkTrue(l)'
  BY <1>3, <1>4 DEF LinkTrue, Standing, UploadStands
<1>5. ASSUME NEW x, ShownTrue(x) PROVE ShownTrue(x)'
  <2>1. x.meant \in DOMAIN uploads /\ uploads[x.meant].id # 0
    BY <1>5 DEF ShownTrue
  <2>2. x.meant \in DOMAIN uploads' /\ uploads'[x.meant].id = uploads[x.meant].id
    BY <2>1 DEF Standing, UploadStands
  <2>3. Expired(x.meant) => Expired(x.meant)'
    BY <1>2, <2>1
  <2> QED
    BY <1>5, <2>1, <2>2, <2>3 DEF ShownTrue
<1> QED
  BY <1>2, <1>4, <1>5

\* A row under the id that an upload was given is that upload's, unless it was collected.
LEMMA RowOfUpload ==
    ASSUME RowInv, NEW k \in DOMAIN uploads, uploads[k].id # 0, NEW a \in RowOf(uploads[k].id)
    PROVE  a \in attachments /\ RowTrue(a) /\ (a.upload = k \/ Expired(k))
<1>1. a \in attachments /\ RowTrue(a) /\ a.id = uploads[k].id
  BY DEF RowOf, RowInv
<1>2. HasRow(k) => a.upload = k
  BY <1>1 DEF RowInv, UniqueIds, HasRow
<1> QED
  BY <1>1, <1>2 DEF RowInv, UploadKnown

\* Where links, comments and readings are left alone, and no linked row goes.
LEMMA LinksStay ==
    ASSUME StoreInv, StoreInv', RowInv, Standing, LinkInv,
           UNCHANGED <<comments, links, readings>>,
           \A l \in links : RowOf(l.attachment)' # {}
    PROVE  LinkInv'
BY StillTrue DEF LinkInv

LEMMA ShownRows ==
    ASSUME StoreInv, RowInv, NEW reading \in ReadingRecord, \A l \in reading.links : LinkTrue(l)
    PROVE  Shown(reading) \in SUBSET ShownRecord /\ \A x \in Shown(reading) : ShownTrue(x)
<1> SUFFICES ASSUME NEW x \in Shown(reading) PROVE x \in ShownRecord /\ ShownTrue(x)
  OBVIOUS
<1>1. PICK l \in reading.links : \E a \in RowOf(l.attachment) :
                 x = [response |-> AttachmentResponse(a), meant |-> l.meant]
  BY DEF Shown
<1>2. PICK a \in RowOf(l.attachment) : x = [response |-> AttachmentResponse(a), meant |-> l.meant]
  BY <1>1
<1>3. LinkTrue(l) /\ l \in LinkRecord /\ 0 \notin RowIds
  BY AttachmentsAssumption DEF ReadingRecord, RowIds
<1>4. /\ uploads[l.meant].id = l.attachment /\ uploads[l.meant].id # 0
      /\ l.meant \in DOMAIN uploads /\ l.meant \in Nat
  BY <1>3 DEF LinkTrue, LinkRecord
<1>5. RowTrue(a) /\ (a.upload = l.meant \/ Expired(l.meant))
  BY <1>2, <1>4, RowOfUpload
<1>6. a.id \in RowIds /\ a.upload \in Nat /\ a.name \in Names
  <2>1. uploads \in Seq(UploadRecord) /\ a.upload \in DOMAIN uploads
    BY <1>5 DEF StoreInv, Shaped, RowTrue
  <2>2. uploads[a.upload] \in UploadRecord /\ a.upload \in Nat
    BY <2>1
  <2> QED
    BY <1>5, <2>2 DEF RowTrue, UploadRecord, Names
<1>7. PICK response : response = AttachmentResponse(a)
  OBVIOUS
<1>8. response \in [id : RowIds, name : Names, upload : Nat] /\ response.upload = a.upload
  BY <1>6, <1>7 DEF AttachmentResponse
<1>9. x = [response |-> response, meant |-> l.meant]
  BY <1>2, <1>7
<1> QED
  BY <1>4, <1>5, <1>8, <1>9 DEF ShownRecord, ShownTrue

LEMMA ReadingEnds ==
    ASSUME NEW Of, NEW Shows, NEW Links,
           NEW r \in [comment : Of, pc : {"rows", "done"}, code : Int, shown : Shows, links : Links],
           NEW code \in Int, NEW shown \in Shows, NEW named \in Links
    PROVE  /\ [r EXCEPT !.pc = "done", !.code = code]
                 \in [comment : Of, pc : {"rows", "done"}, code : Int, shown : Shows, links : Links]
           /\ [r EXCEPT !.pc = "done", !.code = code].links = r.links
           /\ [r EXCEPT !.pc = "done", !.code = code].shown = r.shown
           /\ [r EXCEPT !.pc = "done", !.code = code, !.links = named, !.shown = shown]
                 \in [comment : Of, pc : {"rows", "done"}, code : Int, shown : Shows, links : Links]
           /\ [r EXCEPT !.pc = "done", !.code = code, !.links = named, !.shown = shown].links = named
           /\ [r EXCEPT !.pc = "done", !.code = code, !.links = named, !.shown = shown].shown = shown
OBVIOUS

LEMMA ReadingCutOff ==
    ASSUME NEW r \in ReadingRecord, NEW code \in Int
    PROVE  /\ [r EXCEPT !.pc = "done", !.code = code] \in ReadingRecord
           /\ [r EXCEPT !.pc = "done", !.code = code].links = r.links
           /\ [r EXCEPT !.pc = "done", !.code = code].shown = r.shown
<1>1. PICK Links, Shows : Links = SUBSET LinkRecord /\ Shows = SUBSET ShownRecord
  OBVIOUS
<1>2. {} \in Links /\ {} \in Shows
  BY <1>1
<1> QED
  BY <1>1, <1>2, ReadingEnds DEF ReadingRecord

LEMMA ReadingEnded ==
    ASSUME NEW r \in ReadingRecord, NEW code \in Int
    PROVE  /\ Ended(r, code) \in ReadingRecord
           /\ Ended(r, code).links = r.links /\ Ended(r, code).shown = r.shown
BY ReadingCutOff DEF Ended

LEMMA ReadingAnswered ==
    ASSUME NEW r \in ReadingRecord, NEW shown \in SUBSET ShownRecord
    PROVE  [r EXCEPT !.pc = "done", !.code = 200, !.links = {}, !.shown = shown]
              \in {q \in ReadingRecord : q.links = {} /\ q.shown = shown}
<1>1. PICK Links, Shows : Links = SUBSET LinkRecord /\ Shows = SUBSET ShownRecord
  OBVIOUS
<1>2. {} \in Links /\ shown \in Shows /\ 200 \in Int
  BY <1>1
<1> QED
  BY <1>1, <1>2, ReadingEnds DEF ReadingRecord

LEMMA LinkStep ==
    ASSUME StoreInv, StoreInv', RowInv, RowInv', Standing, LinkInv, [Next]_vars
    PROVE  LinkInv'
<1>1. CASE UNCHANGED <<comments, links, readings, attachments>>
  <2>1. \A l \in links : RowOf(l.attachment)' # {}
    BY <1>1 DEF LinkInv, RowOf
  <2> QED
    BY <1>1, <2>1, LinksStay
<1>2. ASSUME NEW file, UploadAttachment(file) PROVE LinkInv'
  BY <1>1, <1>2 DEF UploadAttachment, rows, reads
<1>3. ASSUME NEW k \in DOMAIN uploads, Store(k) \/ UploadFails(k) PROVE LinkInv'
  <2>1. CASE Insert(k)
    <3>1. UNCHANGED <<comments, links, readings>>
      BY <2>1 DEF Insert, reads
    <3>2. attachments \subseteq attachments'
      BY <2>1 DEF Insert
    <3>3. \A l \in links : RowOf(l.attachment)' # {}
      BY <3>2 DEF LinkInv, RowOf
    <3> QED
      BY <3>1, <3>3, LinksStay
  <2>2. CASE ~ Insert(k)
    BY <1>1, <1>3, <2>2 DEF Store, WriteTmp, DestExists, Rename, Dedup, Reread, UploadFails, rows, reads
  <2> QED
    BY <2>1, <2>2
<1>4. ASSUME NEW named \in SUBSET Stored, CreateComment(named) PROVE LinkInv'
  <2>1. UNCHANGED <<attachments, uploads, readings>>
    BY <1>4 DEF CreateComment, reads
  <2>2. PICK id \in 1 .. MaxComments :
           IF \A k \in named : RowOf(uploads[k].id) # {}
             THEN /\ comments' = comments \cup {id}
                  /\ links' = links \cup
                        {[comment |-> id, attachment |-> uploads[k].id, meant |-> k] : k \in named}
             ELSE UNCHANGED <<comments, links>>
    BY <1>4 DEF CreateComment
  <2>3. CASE ~ \A k \in named : RowOf(uploads[k].id) # {}
    BY <1>1, <2>1, <2>2, <2>3
  <2>4. CASE \A k \in named : RowOf(uploads[k].id) # {}
    <3>1. comments' = comments \cup {id}
      BY <2>2, <2>4
    <3>2. ASSUME NEW l \in links'
          PROVE  l \in LinkRecord /\ LinkTrue(l)' /\ l.comment \in comments' /\ RowOf(l.attachment)' # {}
      <4>1. CASE l \in links
        <5>1. LinkTrue(l) /\ l.comment \in comments /\ RowOf(l.attachment) # {} /\ l \in LinkRecord
          BY <4>1 DEF LinkInv
        <5> QED
          BY <2>1, <3>1, <5>1 DEF LinkTrue, RowOf
      <4>2. CASE l \notin links
        <5>1. PICK k \in named : l = [comment |-> id, attachment |-> uploads[k].id, meant |-> k]
          BY <2>2, <2>4, <4>2
        <5>2. k \in DOMAIN uploads /\ k \in Nat /\ uploads \in Seq(UploadRecord)
          BY DEF Stored, StoreInv, Shaped
        <5>3. RowOf(uploads[k].id) # {}
          BY <2>4
        <5>4. PICK a \in attachments : a.id = uploads[k].id
          BY <5>3 DEF RowOf
        <5>5. uploads[k].id \in RowIds
          BY <5>4 DEF RowInv, RowTrue
        <5>6. l.comment = id /\ l.attachment = uploads[k].id /\ l.meant = k /\ l \in LinkRecord
          BY <5>1, <5>2, <5>5 DEF LinkRecord
        <5> QED
          BY <2>1, <3>1, <5>2, <5>3, <5>5, <5>6 DEF LinkTrue, RowOf
      <4> QED
        BY <4>1, <4>2
    <3>3. comments' \subseteq 1 .. MaxComments
      BY <3>1 DEF LinkInv
    <3> QED
      BY <2>1, <3>2, <3>3, StillTrue DEF LinkInv
  <2> QED
    BY <2>3, <2>4
<1>5. ASSUME NEW c \in comments, DeleteComment(c) PROVE LinkInv'
  <2>1. /\ UNCHANGED <<attachments, uploads, readings>>
        /\ comments' = comments \ {c} /\ links' = {l \in links : l.comment # c}
    BY <1>5 DEF DeleteComment, reads
  <2> QED
    BY <2>1, StillTrue DEF LinkInv, RowOf
<1>6. ASSUME NEW c \in comments, ReadLinks(c) PROVE LinkInv'
  <2>1. UNCHANGED <<attachments, uploads, comments, links>>
    BY <1>6 DEF ReadLinks, rows
  <2>2. PICK r : /\ r = [comment |-> c, pc |-> "rows", code |-> 0, shown |-> {},
                         links |-> {l \in links : l.comment = c}]
                 /\ readings' = Append(readings, r)
    BY <1>6 DEF ReadLinks
  <2>3. r \in ReadingRecord /\ r.shown = {} /\ \A l \in r.links : LinkTrue(l)
    BY <2>2 DEF ReadingRecord, LinkInv
  <2>4. readings \in Seq(ReadingRecord)
    BY DEF LinkInv
  <2>5. /\ readings' \in Seq(ReadingRecord)
        /\ \A n \in DOMAIN readings' : \/ n \in DOMAIN readings /\ readings'[n] = readings[n]
                                       \/ readings'[n] = r
    BY <2>2, <2>3, <2>4
  <2>6. ASSUME NEW n \in DOMAIN readings'
        PROVE  /\ \A l \in readings'[n].links : LinkTrue(l)'
               /\ \A x \in readings'[n].shown : ShownTrue(x)'
    BY <2>3, <2>5, StillTrue DEF LinkInv
  <2>7. \A l \in links : LinkTrue(l)' /\ RowOf(l.attachment)' # {} /\ l.comment \in comments
    BY <2>1, StillTrue DEF LinkInv, RowOf
  <2> QED
    BY <2>1, <2>5, <2>6, <2>7 DEF LinkInv
<1>7. ASSUME NEW n \in DOMAIN readings, ReadAttachments(n) PROVE LinkInv'
  <2>1. UNCHANGED <<attachments, uploads, comments, links>>
    BY <1>7 DEF ReadAttachments, rows
  <2>2. readings \in Seq(ReadingRecord) /\ readings[n] \in ReadingRecord
    BY DEF LinkInv
  <2>3. PICK r : r = [readings[n] EXCEPT !.pc = "done", !.code = 200, !.links = {},
                                         !.shown = Shown(readings[n])]
    OBVIOUS
  <2>4. readings' = [readings EXCEPT ![n] = r]
    BY <1>7, <2>3 DEF ReadAttachments
  <2>5. Shown(readings[n]) \in SUBSET ShownRecord /\ \A x \in Shown(readings[n]) : ShownTrue(x)
    BY <2>2, ShownRows DEF LinkInv
  <2>6. r \in ReadingRecord /\ r.links = {} /\ r.shown = Shown(readings[n])
    <3>1. PICK q, shown : q = readings[n] /\ shown = Shown(readings[n])
      OBVIOUS
    <3>2. q \in ReadingRecord /\ shown \in SUBSET ShownRecord
      BY <2>2, <2>5, <3>1
    <3>3. r = [q EXCEPT !.pc = "done", !.code = 200, !.links = {}, !.shown = shown]
      BY <2>3, <3>1
    <3>4. r \in ReadingRecord /\ r.links = {} /\ r.shown = shown
      <4>1. [q EXCEPT !.pc = "done", !.code = 200, !.links = {}, !.shown = shown]
               \in {p \in ReadingRecord : p.links = {} /\ p.shown = shown}
        BY <3>2, ReadingAnswered
      <4> QED
        BY <3>3, <4>1
    <3> QED
      BY <3>1, <3>4
  <2>7. readings' \in Seq(ReadingRecord) /\ DOMAIN readings' = DOMAIN readings
        /\ readings'[n] = r /\ \A m \in DOMAIN readings : m # n => readings'[m] = readings[m]
    BY <2>2, <2>4, <2>6
  <2>8. ASSUME NEW m \in DOMAIN readings'
        PROVE  /\ \A l \in readings'[m].links : LinkTrue(l)'
               /\ \A x \in readings'[m].shown : ShownTrue(x)'
    BY <2>5, <2>6, <2>7, StillTrue DEF LinkInv
  <2>9. \A l \in links : LinkTrue(l)' /\ RowOf(l.attachment)' # {} /\ l.comment \in comments
    BY <2>1, StillTrue DEF LinkInv, RowOf
  <2> QED
    BY <2>1, <2>7, <2>8, <2>9 DEF LinkInv
<1>8. ASSUME NEW n, LookUpRow(n) \/ LookUpFails(n) \/ OpenFile(n) \/ OpenFails(n) PROVE LinkInv'
  BY <1>1, <1>8 DEF LookUpRow, LookUpFails, OpenFile, OpenFails, rows
<1>13. ASSUME NEW n \in DOMAIN readings, ReadingFails(n) PROVE LinkInv'
  <2>1. UNCHANGED <<attachments, uploads, comments, links>>
    BY <1>13 DEF ReadingFails, rows
  <2>2. readings \in Seq(ReadingRecord) /\ readings[n] \in ReadingRecord /\ HttpStatus["Internal"] \in Int
    BY DEF LinkInv, HttpStatus, AppError
  <2>3. PICK r : r = Ended(readings[n], HttpStatus["Internal"])
    OBVIOUS
  <2>4. readings' = [readings EXCEPT ![n] = r]
    BY <1>13, <2>3 DEF ReadingFails
  <2>5. r \in ReadingRecord /\ r.links = readings[n].links /\ r.shown = readings[n].shown
    BY <2>2, <2>3, ReadingEnded
  <2>6. readings' \in Seq(ReadingRecord) /\ DOMAIN readings' = DOMAIN readings
        /\ readings'[n] = r /\ \A m \in DOMAIN readings : m # n => readings'[m] = readings[m]
    BY <2>2, <2>4, <2>5
  <2>7. ASSUME NEW m \in DOMAIN readings'
        PROVE  /\ \A l \in readings'[m].links : LinkTrue(l)'
               /\ \A x \in readings'[m].shown : ShownTrue(x)'
    BY <2>5, <2>6, StillTrue DEF LinkInv
  <2>8. \A l \in links : LinkTrue(l)' /\ RowOf(l.attachment)' # {} /\ l.comment \in comments
    BY <2>1, StillTrue DEF LinkInv, RowOf
  <2> QED
    BY <2>1, <2>6, <2>7, <2>8 DEF LinkInv
<1>9. CASE DeleteOrphanRows
  <2>1. UNCHANGED <<comments, links, readings>>
    BY <1>9 DEF DeleteOrphanRows, reads
  <2>2. \A a \in attachments : Linked(a) => a \in attachments'
    BY <1>9 DEF DeleteOrphanRows
  <2>3. ASSUME NEW l \in links PROVE RowOf(l.attachment)' # {}
    <3>1. PICK a \in attachments : a.id = l.attachment
      BY DEF LinkInv, RowOf
    <3>2. a \in attachments'
      BY <2>2, <3>1 DEF Linked
    <3> QED
      BY <3>1, <3>2 DEF RowOf
  <2> QED
    BY <2>1, <2>3, LinksStay
<1>10. CASE FindOrphans \/ SelectDigests \/ HasReferences \/ DeleteFile \/ CleanupEnds
            \/ CleanupFails \/ Tick
  BY <1>1, <1>10 DEF FindOrphans, SelectDigests, HasReferences, DeleteFile, CleanupEnds,
                     CleanupFails, Tick, rows, reads
<1>11. CASE Restart
  <2>1. UNCHANGED <<attachments, comments, links>> /\ readings' = CutOff(readings)
    BY <1>11 DEF Restart, rows
  <2>2. readings \in Seq(ReadingRecord) /\ DOMAIN readings = 1 .. Len(readings) /\ Len(readings) \in Nat
    BY DEF LinkInv
  <2>3. DOMAIN readings' = DOMAIN readings
    BY <2>1 DEF CutOff
  <2>4. ASSUME NEW n \in DOMAIN readings
        PROVE  /\ readings'[n] \in ReadingRecord /\ readings'[n].links = readings[n].links
               /\ readings'[n].shown = readings[n].shown
    <3>1. readings'[n] = Ended(readings[n], -1) /\ readings[n] \in ReadingRecord
      BY <2>1, <2>2 DEF CutOff
    <3>2. PICK r : r = readings[n]
      OBVIOUS
    <3>3. r \in ReadingRecord /\ readings'[n] = Ended(r, -1)
      BY <3>1, <3>2
    <3>4. Ended(r, -1) \in ReadingRecord /\ Ended(r, -1).links = r.links /\ Ended(r, -1).shown = r.shown
      BY <3>3, ReadingEnded
    <3> QED
      BY <3>2, <3>3, <3>4
  <2>5. readings' \in Seq(ReadingRecord)
    <3>1. readings' \in [1 .. Len(readings) -> ReadingRecord]
      BY <2>1, <2>2, <2>3, <2>4 DEF CutOff
    <3> QED
      BY <2>2, <3>1
  <2>6. \A l \in links : LinkTrue(l)' /\ RowOf(l.attachment)' # {} /\ l.comment \in comments
    BY <2>1, StillTrue DEF LinkInv, RowOf
  <2> QED
    BY <2>1, <2>3, <2>4, <2>5, <2>6, StillTrue DEF LinkInv
<1>12. CASE UNCHANGED vars
  BY <1>1, <1>12 DEF vars
<1> QED
  BY <1>2, <1>3, <1>4, <1>5, <1>6, <1>7, <1>8, <1>9, <1>10, <1>11, <1>12, <1>13 DEF Next, Cleanup

-----------------------------------------------------------------------------
(* Downloads, and the files.                                               *)

Contents == {file.content : file \in Files} \cup {NULL}

NamesServed == Names \cup {NULL}

DownloadRecord ==
    [upload : Nat, pc : {"open", "done"}, content : Contents, name : NamesServed, code : Int]

\* Bytes that were uploaded under the URL of upload k.
UploadedAs(content, k) ==
    \E j \in DOMAIN uploads : /\ uploads[j].id = uploads[k].id /\ uploads[j].name = uploads[k].name
                              /\ Content(j) = content

DownloadTrue(d) ==
    /\ d.upload \in DOMAIN uploads /\ uploads[d.upload].id # 0
    /\ d.pc = "open" => /\ ~ HasControls(d.name) /\ UploadedAs(d.content, d.upload)
                        /\ d.content = Content(d.upload) \/ d.upload \in collected
    /\ d.pc = "done" => \/ d.code = 200 /\ UploadedAs(d.content, d.upload)
                        \/ d.code = 404 /\ (d.upload \in collected \/ uploads[d.upload].raced = TRUE)
                        \/ d.code \in {-1, 500} /\ faults > 0

DownloadInv ==
    /\ downloads \in Seq(DownloadRecord)
    /\ \A n \in DOMAIN downloads : DownloadTrue(downloads[n])

LEMMA FaultsStay == ASSUME StoreInv, [Next]_vars PROVE faults > 0 => faults' > 0
<1> SUFFICES ASSUME faults > 0 PROVE faults' > 0
  OBVIOUS
<1>1. faults \in Nat
  BY DEF StoreInv, Shaped
<1>2. CASE faults' = faults \/ Fault
  BY <1>1, <1>2 DEF Fault
<1>3. ASSUME NEW n, \/ UploadAttachment(n) \/ Store(n) \/ UploadFails(n) \/ CreateComment(n)
                    \/ DeleteComment(n) \/ ReadLinks(n) \/ ReadAttachments(n) \/ ReadingFails(n)
                    \/ LookUpRow(n) \/ LookUpFails(n) \/ OpenFile(n) \/ OpenFails(n)
      PROVE  faults' > 0
  BY <1>2, <1>3 DEF UploadAttachment, Store, WriteTmp, DestExists, Rename, Dedup, Insert, Reread,
                    UploadFails, CreateComment, DeleteComment, ReadLinks, ReadAttachments, ReadingFails,
                    LookUpRow, LookUpFails, OpenFile, OpenFails, counts
<1>4. CASE Cleanup \/ CleanupFails \/ Tick \/ Restart \/ UNCHANGED vars
  BY <1>2, <1>4 DEF Cleanup, FindOrphans, SelectDigests, DeleteOrphanRows, HasReferences,
                    DeleteFile, CleanupEnds, CleanupFails, Tick, Restart, counts, vars
<1> QED
  BY <1>3, <1>4 DEF Next

LEMMA DownloadStill ==
    ASSUME StoreInv, Standing, faults > 0 => faults' > 0, NEW d, DownloadTrue(d)
    PROVE  DownloadTrue(d)'
<1> DEFINE k == d.upload
<1>1. k \in DOMAIN uploads /\ uploads[k].id # 0
  BY DEF DownloadTrue
<1>2. /\ k \in DOMAIN uploads' /\ uploads'[k].id = uploads[k].id /\ uploads'[k].name = uploads[k].name
      /\ Content(k)' = Content(k) /\ (uploads[k].raced = TRUE => uploads'[k].raced = TRUE)
      /\ collected \subseteq collected'
  BY <1>1 DEF Standing, UploadStands, Content
<1>3. UploadedAs(d.content, k) => UploadedAs(d.content, k)'
  <2> SUFFICES ASSUME UploadedAs(d.content, k) PROVE UploadedAs(d.content, k)'
    OBVIOUS
  <2>1. PICK j \in DOMAIN uploads : /\ uploads[j].id = uploads[k].id
                                    /\ uploads[j].name = uploads[k].name /\ Content(j) = d.content
    BY DEF UploadedAs
  <2>2. /\ j \in DOMAIN uploads' /\ uploads'[j].id = uploads[j].id
        /\ uploads'[j].name = uploads[j].name /\ Content(j)' = Content(j)
    BY <1>1, <2>1 DEF Standing, UploadStands, Content
  <2> QED
    BY <1>2, <2>1, <2>2 DEF UploadedAs
<1> QED
  BY <1>1, <1>2, <1>3 DEF DownloadTrue

\* The names of uploads that have a row are sanitized.
LEMMA NamedCleanly ==
    ASSUME StoreInv, RowInv, NEW k \in DOMAIN uploads, uploads[k].id # 0
    PROVE  /\ ~ HasControls(uploads[k].name) /\ uploads[k].name \in Names
           /\ Content(k) \in Contents
<1>1. uploads[k] \in UploadRecord
  BY DEF StoreInv, Shaped
<1>2. uploads[k].name # NULL /\ uploads[k].name = SanitizeFilename(uploads[k].file.name)
  BY DEF RowInv, UploadKnown
<1>3. uploads[k].file \in Files /\ uploads[k].name \in Names
  BY <1>1 DEF UploadRecord, Names
<1>4. uploads[k].file.name \in Seq(STRING)
  BY <1>3, AttachmentsAssumption
<1> QED
  BY <1>2, <1>3, <1>4, NamesClean DEF Content, Contents

LEMMA DownloadAppended ==
    ASSUME StoreInv, Standing, DownloadInv, faults > 0 => faults' > 0, NEW r \in DownloadRecord,
           DownloadTrue(r)', downloads' = Append(downloads, r)
    PROVE  DownloadInv'
<1>1. /\ downloads' \in Seq(DownloadRecord)
      /\ \A n \in DOMAIN downloads' : (n \in DOMAIN downloads /\ downloads'[n] = downloads[n])
                                      \/ downloads'[n] = r
  BY DEF DownloadInv
<1>2. ASSUME NEW n \in DOMAIN downloads' PROVE DownloadTrue(downloads[n])'
  <2>1. \A d : DownloadTrue(d) => DownloadTrue(d)'
    BY DownloadStill
  <2> QED
    BY <1>1, <2>1 DEF DownloadInv
<1> QED
  BY <1>1, <1>2 DEF DownloadInv

LEMMA LookUpFailsStep ==
    ASSUME StoreInv, RowInv, Standing, DownloadInv, NEW k \in Stored, LookUpFails(k)
    PROVE  DownloadInv'
<1>1. k \in DOMAIN uploads /\ uploads[k].id # 0 /\ k \in Nat
  <2>1. uploads \in Seq(UploadRecord)
    BY DEF StoreInv, Shaped
  <2> QED
    BY <2>1 DEF Stored, RowInv, UploadKnown
<1>2. PICK r : r = [upload |-> k, pc |-> "done", content |-> NULL, name |-> NULL, code |-> 500]
  OBVIOUS
<1>3. HttpStatus["Internal"] = 500
  BY DEF HttpStatus, AppError
<1>4. UNCHANGED uploads /\ downloads' = Append(downloads, r) /\ faults' > 0
  <2>1. faults \in Nat
    BY DEF StoreInv, Shaped
  <2> QED
    BY <1>2, <1>3, <2>1 DEF LookUpFails, Fault
<1>5. r \in DownloadRecord
  <2>1. NULL \in Contents /\ NULL \in NamesServed
    BY DEF Contents, NamesServed
  <2> QED
    BY <1>1, <1>2, <2>1 DEF DownloadRecord
<1>6. DownloadTrue(r)'
  BY <1>1, <1>2, <1>4 DEF DownloadTrue
<1> QED
  BY <1>4, <1>5, <1>6, DownloadAppended

LEMMA LookUpStep ==
    ASSUME StoreInv, RowInv, Standing, DownloadInv, NEW k \in Stored, LookUpRow(k)
    PROVE  DownloadInv'
<1>1. k \in DOMAIN uploads /\ uploads[k].id # 0 /\ k \in Nat
  <2>1. uploads \in Seq(UploadRecord)
    BY DEF StoreInv, Shaped
  <2> QED
    BY <2>1 DEF Stored, RowInv, UploadKnown
<1>2. uploads' = uploads /\ collected' = collected /\ faults' = faults
  BY DEF LookUpRow, counts
<1>3. ASSUME NEW r \in DownloadRecord, DownloadTrue(r), downloads' = Append(downloads, r)
      PROVE  DownloadInv'
  <2>1. DownloadTrue(r)' /\ (faults > 0 => faults' > 0)
    BY <1>2, <1>3, DownloadStill
  <2> QED
    BY <1>3, <2>1, DownloadAppended
<1>4. DEFINE found == {a \in RowOf(uploads[k].id) : a.name = uploads[k].name}
<1>5. CASE /\ found = {}
           /\ downloads' = Append(downloads,
                 [upload |-> k, pc |-> "done", content |-> NULL, name |-> NULL, code |-> 404])
  <2>1. k \in collected
    <3>1. ASSUME HasRow(k) PROVE FALSE
      <4>1. PICK a \in attachments : a.id = uploads[k].id /\ a.upload = k
        BY <3>1 DEF HasRow
      <4>2. a.name = uploads[k].name
        BY <4>1 DEF RowInv, RowTrue
      <4> QED
        BY <1>5, <4>1, <4>2 DEF RowOf
    <3> QED
      BY <1>1, <3>1 DEF RowInv, UploadKnown, Expired
  <2>2. PICK r : r = [upload |-> k, pc |-> "done", content |-> NULL, name |-> NULL, code |-> 404]
    OBVIOUS
  <2>3. NULL \in Contents /\ NULL \in NamesServed
    BY DEF Contents, NamesServed
  <2>4. r \in DownloadRecord
    BY <1>1, <2>2, <2>3 DEF DownloadRecord
  <2>5. DownloadTrue(r)
    BY <1>1, <2>1, <2>2 DEF DownloadTrue
  <2> QED
    BY <1>3, <1>5, <2>2, <2>4, <2>5
<1>6. ASSUME NEW a \in found,
             downloads' = Append(downloads,
                [upload |-> k, pc |-> "open", content |-> a.content, name |-> a.name, code |-> 0])
      PROVE  DownloadInv'
  <2>1. /\ a \in attachments /\ RowTrue(a) /\ (a.upload = k \/ Expired(k))
        /\ a.id = uploads[k].id /\ a.name = uploads[k].name
    BY <1>1, RowOfUpload DEF RowOf
  <2>2. a.content = Content(a.upload) /\ a.upload \in DOMAIN uploads
    BY <2>1 DEF StoreInv, RowKnown
  <2>3. /\ ~ HasControls(a.name) /\ a.name \in Names
        /\ a.content \in Contents
    BY <1>1, <2>1, <2>2, NamedCleanly DEF RowTrue
  <2>4. UploadedAs(a.content, k)
    BY <2>1, <2>2 DEF UploadedAs, RowTrue
  <2>5. a.content = Content(k) \/ k \in collected
    BY <2>1, <2>2 DEF Expired
  <2>6. PICK r : r = [upload |-> k, pc |-> "open", content |-> a.content, name |-> a.name, code |-> 0]
    OBVIOUS
  <2>7. r \in DownloadRecord
    <3>1. a.name \in NamesServed
      BY <2>3 DEF NamesServed
    <3> QED
      BY <1>1, <2>3, <2>6, <3>1 DEF DownloadRecord
  <2>8. DownloadTrue(r)
    BY <1>1, <2>3, <2>4, <2>5, <2>6 DEF DownloadTrue
  <2> QED
    BY <1>3, <1>6, <2>6, <2>7, <2>8
<1> QED
  BY <1>5, <1>6 DEF LookUpRow

LEMMA RequestEnds ==
    ASSUME NEW Bodies, NEW Called,
           NEW d \in [upload : Nat, pc : {"open", "done"}, content : Bodies, name : Called, code : Int],
           NEW code \in Int
    PROVE  /\ [d EXCEPT !.pc = "done", !.code = code]
                 \in [upload : Nat, pc : {"open", "done"}, content : Bodies, name : Called, code : Int]
           /\ [d EXCEPT !.pc = "done", !.code = code].pc = "done"
           /\ [d EXCEPT !.pc = "done", !.code = code].code = code
           /\ [d EXCEPT !.pc = "done", !.code = code].upload = d.upload
           /\ [d EXCEPT !.pc = "done", !.code = code].content = d.content
OBVIOUS

LEMMA OpenFileStep ==
    ASSUME StoreInv, RowInv, Standing, DownloadInv, NEW n \in DOMAIN downloads, OpenFile(n)
    PROVE  DownloadInv'
<1>1. PICK d : d = downloads[n]
  OBVIOUS
<1>2. d \in DownloadRecord /\ DownloadTrue(d) /\ downloads \in Seq(DownloadRecord)
  BY <1>1 DEF DownloadInv
<1>3. PICK code \in {200, 404} :
         /\ code = 404 <=> ~ OnDisk(d.content)
         /\ downloads' = [downloads EXCEPT ![n] = [d EXCEPT !.pc = "done", !.code = code]]
  <2>1. d.pc = "open" /\ ~ HasControls(d.name)
    BY <1>1, <1>2 DEF OpenFile, DownloadTrue
  <2>2. PICK code : code = IF ~ OnDisk(d.content) THEN 404 ELSE 200
    OBVIOUS
  <2>3. downloads' = [downloads EXCEPT ![n].pc = "done", ![n].code = code]
    BY <1>1, <2>1, <2>2 DEF OpenFile
  <2> QED
    <3>1. code \in {200, 404} /\ (code = 404 <=> ~ OnDisk(d.content))
      BY <2>2
    <3>2. PICK r : r = [d EXCEPT !.pc = "done", !.code = code]
      OBVIOUS
    <3>3. downloads' = [downloads EXCEPT ![n] = r]
      BY <1>1, <2>3, <3>2
    <3> QED
      BY <3>1, <3>2, <3>3
<1>4. PICK r : r = [d EXCEPT !.pc = "done", !.code = code]
  OBVIOUS
<1>5. /\ r \in DownloadRecord /\ r.pc = "done" /\ r.code = code /\ r.upload = d.upload
      /\ r.content = d.content
  <2>1. code \in Int
    OBVIOUS
  <2>2. d \in [upload : Nat, pc : {"open", "done"}, content : Contents, name : NamesServed, code : Int]
    BY <1>2 DEF DownloadRecord
  <2>3. /\ r \in [upload : Nat, pc : {"open", "done"}, content : Contents, name : NamesServed, code : Int]
        /\ r.pc = "done" /\ r.code = code /\ r.upload = d.upload /\ r.content = d.content
    BY <1>4, <2>1, <2>2, RequestEnds
  <2> QED
    BY <2>3 DEF DownloadRecord
<1>6. DownloadTrue(r)
  <2>1. d.pc = "open"
    BY <1>1 DEF OpenFile
  <2>2. /\ d.upload \in DOMAIN uploads /\ uploads[d.upload].id # 0 /\ UploadedAs(d.content, d.upload)
        /\ d.content = Content(d.upload) \/ d.upload \in collected
    BY <1>2, <2>1 DEF DownloadTrue
  <2>3. ASSUME ~ OnDisk(d.content), d.upload \notin collected
        PROVE  uploads[d.upload].raced = TRUE
    <3>1. HasRow(d.upload)
      BY <2>2, <2>3 DEF RowInv, UploadKnown, Expired
    <3>2. PICK a \in attachments : a.upload = d.upload
      BY <3>1 DEF HasRow
    <3>3. a.content = Content(a.upload) /\ (OnDisk(a.content) \/ uploads[a.upload].raced = TRUE)
      BY DEF StoreInv, RowKnown
    <3> QED
      BY <2>2, <2>3, <3>2, <3>3
  <2>4. code = 200 \/ (code = 404 /\ ~ OnDisk(d.content))
    BY <1>3
  <2> QED
    BY <1>5, <2>2, <2>3, <2>4 DEF DownloadTrue
<1>7. downloads' = [downloads EXCEPT ![n] = r]
  BY <1>3, <1>4
<1>8. /\ downloads' \in Seq(DownloadRecord) /\ DOMAIN downloads' = DOMAIN downloads
      /\ \A m \in DOMAIN downloads : downloads'[m] = r \/ downloads'[m] = downloads[m]
  BY <1>2, <1>5, <1>7
<1>9. \A e : DownloadTrue(e) => DownloadTrue(e)'
  <2>1. faults' = faults
    BY DEF OpenFile, counts
  <2> QED
    BY <2>1, DownloadStill
<1> QED
  BY <1>6, <1>8, <1>9 DEF DownloadInv

\* A download that ends without its file.
LEMMA DownloadEnded ==
    ASSUME NEW d \in DownloadRecord, NEW code \in {-1, 500}
    PROVE  /\ Ended(d, code) \in DownloadRecord /\ Ended(d, code).upload = d.upload
           /\ Ended(d, code).pc = "done"
           /\ Ended(d, code) = d \/ Ended(d, code).code = code
<1>1. PICK r : r = [d EXCEPT !.pc = "done", !.code = code]
  OBVIOUS
<1>2. code \in Int
  OBVIOUS
<1>3. r \in DownloadRecord /\ r.pc = "done" /\ r.code = code /\ r.upload = d.upload
  BY <1>1, <1>2, RequestEnds DEF DownloadRecord
<1>4. Ended(d, code) = IF d.pc = "done" THEN d ELSE r
  BY <1>1 DEF Ended
<1> QED
  BY <1>3, <1>4

LEMMA OpenFailsStep ==
    ASSUME StoreInv, Standing, DownloadInv, NEW n \in DOMAIN downloads, OpenFails(n)
    PROVE  DownloadInv'
<1>1. PICK d : d = downloads[n]
  OBVIOUS
<1>2. d \in DownloadRecord /\ DownloadTrue(d) /\ downloads \in Seq(DownloadRecord)
  BY <1>1 DEF DownloadInv
<1>3. faults' > 0
  <2>1. faults \in Nat
    BY DEF StoreInv, Shaped
  <2> QED
    BY <2>1 DEF OpenFails, Fault
<1>4. PICK r : r = Ended(d, 500)
  OBVIOUS
<1>5. downloads' = [downloads EXCEPT ![n] = r]
  <2>1. HttpStatus["Internal"] = 500
    BY DEF HttpStatus, AppError
  <2> QED
    BY <1>1, <1>4, <2>1 DEF OpenFails
<1>6. r \in DownloadRecord /\ r.upload = d.upload /\ r.pc = "done" /\ (r = d \/ r.code = 500)
  BY <1>2, <1>4, DownloadEnded
<1>7. \A e : DownloadTrue(e) => DownloadTrue(e)'
  BY <1>3, DownloadStill
<1>8. DownloadTrue(r)'
  <2>1. CASE r = d
    BY <1>2, <1>7, <2>1
  <2>2. CASE r.code = 500
    <3>1. DownloadTrue(d)'
      BY <1>2, <1>7
    <3> QED
      BY <1>3, <1>6, <2>2, <3>1 DEF DownloadTrue
  <2> QED
    BY <1>6, <2>1, <2>2
<1>9. /\ downloads' \in Seq(DownloadRecord) /\ DOMAIN downloads' = DOMAIN downloads
      /\ \A m \in DOMAIN downloads : downloads'[m] = r \/ downloads'[m] = downloads[m]
  BY <1>2, <1>5, <1>6
<1> QED
  BY <1>7, <1>8, <1>9 DEF DownloadInv

LEMMA DownloadStep ==
    ASSUME StoreInv, RowInv, Standing, DownloadInv, [Next]_vars
    PROVE  DownloadInv'
<1>1. \A d : DownloadTrue(d) => DownloadTrue(d)'
  BY FaultsStay, DownloadStill
<1>2. CASE UNCHANGED downloads
  BY <1>1, <1>2 DEF DownloadInv
<1>3. ASSUME NEW k \in Stored, LookUpRow(k) \/ LookUpFails(k) PROVE DownloadInv'
  BY <1>3, LookUpStep, LookUpFailsStep
<1>4. ASSUME NEW n \in DOMAIN downloads, OpenFile(n) \/ OpenFails(n) PROVE DownloadInv'
  BY <1>4, OpenFileStep, OpenFailsStep
<1>5. CASE Restart
  <2>1. downloads' = CutOff(downloads) /\ faults' > 0
    <3>1. faults \in Nat
      BY DEF StoreInv, Shaped
    <3> QED
      BY <1>5, <3>1 DEF Restart, Fault
  <2>2. /\ downloads \in Seq(DownloadRecord) /\ DOMAIN downloads = 1 .. Len(downloads)
        /\ Len(downloads) \in Nat
    BY DEF DownloadInv
  <2>3. DOMAIN downloads' = DOMAIN downloads
    BY <2>1 DEF CutOff
  <2>4. ASSUME NEW n \in DOMAIN downloads
        PROVE  downloads'[n] \in DownloadRecord /\ DownloadTrue(downloads[n])'
    <3>1. PICK d : d = downloads[n]
      OBVIOUS
    <3>2. PICK r : r = Ended(d, -1)
      OBVIOUS
    <3>3. downloads'[n] = r /\ d \in DownloadRecord /\ DownloadTrue(d)'
      BY <1>1, <2>1, <3>1, <3>2 DEF CutOff, DownloadInv
    <3>4. r \in DownloadRecord /\ r.upload = d.upload /\ r.pc = "done" /\ (r = d \/ r.code = -1)
      BY <3>2, <3>3, DownloadEnded
    <3>5. DownloadTrue(r)'
      BY <2>1, <3>3, <3>4 DEF DownloadTrue
    <3> QED
      BY <3>3, <3>4, <3>5
  <2>5. downloads' \in Seq(DownloadRecord)
    <3>1. downloads' \in [1 .. Len(downloads) -> DownloadRecord]
      BY <2>1, <2>2, <2>3, <2>4 DEF CutOff
    <3> QED
      BY <2>2, <3>1
  <2> QED
    BY <2>3, <2>4, <2>5 DEF DownloadInv
<1>6. ASSUME NEW n, UploadAttachment(n) \/ Store(n) \/ UploadFails(n) \/ CreateComment(n)
                    \/ DeleteComment(n) \/ ReadLinks(n) \/ ReadAttachments(n) \/ ReadingFails(n)
      PROVE  DownloadInv'
  BY <1>2, <1>6 DEF UploadAttachment, Store, WriteTmp, DestExists, Rename, Dedup, Insert, Reread,
                    UploadFails, CreateComment, DeleteComment, ReadLinks, ReadAttachments,
                    ReadingFails, reads
<1>7. CASE Cleanup \/ CleanupFails \/ Tick
  BY <1>2, <1>7 DEF Cleanup, FindOrphans, SelectDigests, DeleteOrphanRows, HasReferences,
                    DeleteFile, CleanupEnds, CleanupFails, Tick, reads
<1>8. CASE UNCHANGED vars
  BY <1>2, <1>8 DEF vars
<1> QED
  BY <1>3, <1>4, <1>5, <1>6, <1>7, <1>8 DEF Next

\* The published files are of uploads.
FileInv == \A f \in published : \E k \in DOMAIN uploads : f.content = Content(k)

LEMMA FileStep ==
    ASSUME StoreInv, Standing, FileInv, [Next]_vars
    PROVE  FileInv'
<1>1. \A k \in DOMAIN uploads : k \in DOMAIN uploads' /\ Content(k)' = Content(k)
  BY DEF Standing, UploadStands, Content
<1>2. CASE published' \subseteq published
  BY <1>1, <1>2 DEF FileInv
<1>3. ASSUME NEW k \in DOMAIN uploads, Rename(k) PROVE FileInv'
  <2>1. \A f \in published' : f \in published \/ f.content = Content(k)
    BY <1>3 DEF Rename
  <2> QED
    BY <1>1, <2>1 DEF FileInv
<1>4. ASSUME NEW k, \/ UploadAttachment(k) \/ WriteTmp(k) \/ DestExists(k) \/ Dedup(k) \/ Insert(k)
                    \/ Reread(k) \/ UploadFails(k) \/ CreateComment(k) \/ DeleteComment(k)
                    \/ ReadLinks(k) \/ ReadAttachments(k) \/ ReadingFails(k)
                    \/ LookUpRow(k) \/ LookUpFails(k) \/ OpenFile(k) \/ OpenFails(k)
      PROVE  FileInv'
  BY <1>2, <1>4 DEF UploadAttachment, WriteTmp, DestExists, Dedup, Insert, Reread, UploadFails,
                    CreateComment, DeleteComment, ReadLinks, ReadAttachments, ReadingFails,
                    LookUpRow, LookUpFails, OpenFile, OpenFails
<1>5. CASE Cleanup \/ CleanupFails \/ Tick \/ Restart
  BY <1>2, <1>5 DEF Cleanup, FindOrphans, SelectDigests, DeleteOrphanRows, HasReferences,
                    DeleteFile, CleanupEnds, CleanupFails, Tick, Restart
<1>6. CASE UNCHANGED vars
  BY <1>2, <1>6 DEF vars
<1> QED
  BY <1>3, <1>4, <1>5, <1>6 DEF Next, Store

-----------------------------------------------------------------------------
(* What these show.                                                        *)

ServingInv == StoreInv /\ RowInv /\ LinkInv /\ DownloadInv /\ FileInv

LEMMA ServingInit == Init => ServingInv
<1> SUFFICES ASSUME Init PROVE ServingInv
  OBVIOUS
<1>1. StoreInv
  BY StoreInit
<1>2. /\ DOMAIN uploads = {} /\ DOMAIN downloads = {} /\ DOMAIN readings = {}
      /\ downloads \in Seq(DownloadRecord) /\ readings \in Seq(ReadingRecord)
      /\ attachments = {} /\ tmp = {} /\ published = {} /\ links = {} /\ comments = {}
      /\ collected = {} /\ clock = 0 /\ cleaner.pc = "idle" /\ MaxTime \in Nat
  BY AttachmentsAssumption DEF Init
<1> QED
  BY <1>1, <1>2 DEF ServingInv, RowInv, LinkInv, DownloadInv, FileInv, UniqueIds, OrphansAged

LEMMA ServingAlways == Spec => []ServingInv
<1>1. ServingInv /\ [Next]_vars => ServingInv'
  <2> SUFFICES ASSUME ServingInv, [Next]_vars PROVE ServingInv'
    OBVIOUS
  <2>1. StoreInv /\ RowInv /\ LinkInv /\ DownloadInv /\ FileInv
    BY DEF ServingInv
  <2>2. StoreInv'
    BY <2>1, StoreStep
  <2>3. RowInv' /\ Standing
    BY <2>1, <2>2, RowStep
  <2> QED
    BY <2>1, <2>2, <2>3, LinkStep, DownloadStep, FileStep DEF ServingInv
<1> QED
  BY <1>1, ServingInit, PTL DEF Spec

\* The variables have their types: a row is of an upload, under an id of its own, a link is
\* of a comment and of a row that are there, and an upload is answered with one of the
\* codes the handler knows (upload_attachment, create_comment).
THEOREM AttachmentTypes == Spec => []TypeOK
<1>1. ServingInv => TypeOK
  <2> SUFFICES ASSUME ServingInv PROVE TypeOK
    OBVIOUS
  <2>1. StoreInv /\ RowInv /\ LinkInv /\ DownloadInv /\ FileInv
    BY DEF ServingInv
  <2>2. \A f \in tmp : f.upload \in DOMAIN uploads /\ f.whole \in BOOLEAN /\ f.stuck \in BOOLEAN
    BY <2>1 DEF StoreInv, TmpKnown
  <2>3. \A k \in DOMAIN uploads : uploads[k] \in UploadRecord
    BY <2>1 DEF StoreInv, Shaped
  <2>4. clock \in 0 .. MaxTime
    BY <2>1, AttachmentsAssumption DEF StoreInv, Shaped, RowInv
  <2>5. ASSUME NEW a \in attachments
        PROVE  /\ a.id \in RowIds /\ a.upload \in DOMAIN uploads /\ a.created_at \in 0 .. MaxTime
    <3>1. RowTrue(a)
      BY <2>1 DEF RowInv
    <3>2. UploadKnown(a.upload) /\ uploads[a.upload].created_at \in Nat
      BY <2>1, <2>3, <3>1 DEF RowInv, RowTrue, UploadRecord
    <3> QED
      BY <2>4, <3>1, <3>2, AttachmentsAssumption DEF RowTrue, UploadKnown
  <2>6. ASSUME NEW k \in DOMAIN uploads
        PROVE  /\ uploads[k].pc \in {"write", "exists", "rename", "dedup", "insert", "reread", "done"}
               /\ uploads[k].code \in {-1, 0, 201, 400, 413, 422, 500}
    <3>1. UploadKnown(k)
      BY <2>1 DEF RowInv
    <3> QED
      BY <2>3, <3>1 DEF UploadRecord, Pcs, UploadKnown, AnswerCodes
  <2>7. \A d \in DOMAIN downloads : downloads[d].pc \in {"open", "done"}
    <3>1. \A d \in DOMAIN downloads : downloads[d] \in DownloadRecord
      BY <2>1 DEF DownloadInv
    <3> QED
      BY <3>1 DEF DownloadRecord
  <2>8. cleaner.pc \in {"idle", "select", "delete", "check", "remove"}
    BY <2>1 DEF StoreInv, Shaped
  <2> QED
    BY <2>1, <2>2, <2>4, <2>5, <2>6, <2>7, <2>8 DEF TypeOK, RowInv, LinkInv, FileInv
<1> QED
  BY <1>1, ServingAlways, PTL

\* A comment carries, and is shown with, the uploads its author named, though the ids of
\* deleted rows are given out again, unless the upload outlived its time and was collected
\* (find_orphans, delete_orphan_rows, enrich_many).
THEOREM LinksKeepMeaning == Spec => []LinksAsMeant
<1>1. ServingInv => LinksAsMeant
  <2> SUFFICES ASSUME ServingInv PROVE LinksAsMeant
    OBVIOUS
  <2>1. StoreInv /\ RowInv /\ LinkInv
    BY DEF ServingInv
  <2>2. ASSUME NEW l \in links, NEW a \in RowOf(l.attachment)
        PROVE  a.upload = l.meant \/ Expired(l.meant)
    <3>1. LinkTrue(l) /\ 0 \notin RowIds
      BY <2>1, AttachmentsAssumption DEF LinkInv, RowIds
    <3>2. l.meant \in DOMAIN uploads /\ uploads[l.meant].id # 0 /\ a \in RowOf(uploads[l.meant].id)
      BY <3>1 DEF LinkTrue
    <3> QED
      BY <2>1, <3>2, RowOfUpload
  <2>3. ASSUME NEW n \in DOMAIN readings, NEW x \in readings[n].shown
        PROVE  x.response.upload = x.meant \/ Expired(x.meant)
    BY <2>1 DEF LinkInv, ShownTrue
  <2> QED
    BY <2>2, <2>3 DEF LinksAsMeant, Expired
<1> QED
  BY <1>1, ServingAlways, PTL

\* A URL the server gave out serves bytes that were uploaded under it, and is not found only
\* when its upload was collected or raced with a cleanup; without a fault it ends in no other
\* way: a sanitized name never panics in the header (download_attachment, sanitize_filename).
THEOREM DownloadsServeUploads == Spec => []ServedAsUploaded
<1>1. ServingInv => ServedAsUploaded
  <2> SUFFICES ASSUME ServingInv PROVE ServedAsUploaded
    OBVIOUS
  <2>1. \A d \in DOMAIN downloads : DownloadTrue(downloads[d])
    BY DEF ServingInv, DownloadInv
  <2> QED
    BY <2>1 DEF ServedAsUploaded, DownloadTrue, UploadedAs
<1> QED
  BY <1>1, ServingAlways, PTL
=============================================================================
