---------------------------- MODULE CommentProofs ----------------------------
(***************************************************************************)
(* Theorems about Comments and its readers (CommentViews), for every set   *)
(* of users, admins and tickets and every number of requests and faults.   *)
(***************************************************************************)
EXTENDS CommentViews, FiniteSetTheorems, TLAPS

LEMMA CommentsTypeStep == TypeOK /\ [Next]_vars => TypeOK'
<1> SUFFICES ASSUME TypeOK, [Next]_vars PROVE TypeOK'
  OBVIOUS
<1> USE CommentsAssumption
<1> USE DEF TypeOK, Begin, Finish, Stamps
<1>1. ASSUME NEW u \in Users, NEW t \in Tickets, NEW b \in BOOLEAN, CreateTicket(u, t, b) PROVE TypeOK'
  BY <1>1 DEF CreateTicket, Request
<1>2. ASSUME NEW u \in Users, NEW t \in Tickets, CreateComment(u, t) PROVE TypeOK'
  BY <1>2 DEF CreateComment, Insert, NewRow, Request, Comment
<1>3. ASSUME NEW u \in Users, NEW c \in comments, LookUpToEdit(u, c) PROVE TypeOK'
  BY <1>3 DEF LookUpToEdit, Request, Comment
<1>4. ASSUME NEW u \in Users, NEW c \in comments, LookUpToDelete(u, c) PROVE TypeOK'
  BY <1>4 DEF LookUpToDelete, Request, Comment
<1>5. ASSUME NEW r \in requests, CreateDescriptionComment(r) PROVE TypeOK'
  BY <1>5 DEF CreateDescriptionComment, Insert, NewRow, Request, Comment
<1>6. ASSUME NEW r \in requests, Update(r) PROVE TypeOK'
  BY <1>6 DEF Update, Request, Comment, CommentEdit
<1>7. ASSUME NEW r \in requests, Delete(r) PROVE TypeOK'
  BY <1>7 DEF Delete
<1>8. ASSUME NEW r \in requests, Answer(r) \/ StatementFails(r) PROVE TypeOK'
  BY <1>8 DEF Answer, StatementFails
<1>9. CASE Crash
  BY <1>9 DEF Crash
<1>10. CASE UNCHANGED vars
  BY <1>10 DEF vars
<1> QED
  BY <1>1, <1>2, <1>3, <1>4, <1>5, <1>6, <1>7, <1>8, <1>9, <1>10 DEF Next, Arrive, Proceed

LEMMA CommentsTypeInit == Init => TypeOK
BY CommentsAssumption DEF Init, TypeOK, Stamps

-----------------------------------------------------------------------------
\* A new row, with an id no row has and a stamp nobody has used, keeps the invariant if
\* its number is 0 or above all others.
LEMMA InsertKeeps ==
    ASSUME TypeOK, CommentsInv,
           NEW id \in Stamps, NEW t \in Tickets, NEW n \in Nat, NEW u \in Users, NEW s \in Stamps,
           IsNextRowid(comments, id), n = 0 \/ IsNextNumber(t, n),
           \A c \in comments : n # 0 => c.created_at < s,
           \A x \in said : x[1] # s,
           Insert(NewRow(id, t, n, u, s)), UNCHANGED edits
    PROVE  /\ RepliesInOrder' /\ EditHistoryComplete' /\ UniqueIds(comments)' /\ EditsOfLiveRows'
           /\ \A c, d \in comments' : c.created_at = d.created_at => c = d
           /\ \A c \in comments' : <<c.created_at, c.body>> \in said'
<1> DEFINE new == NewRow(id, t, n, u, s)
<1>1. /\ comments' = comments \cup {new} /\ said' = said \cup {<<s, s>>}
      /\ new.id = id /\ new.ticket = t /\ new.number = n /\ new.body = s /\ new.created_at = s
  BY DEF Insert, NewRow
<1>2. \A c \in comments : c.id \in Nat /\ c.number \in Nat /\ c.created_at \in Stamps
  BY CommentsAssumption DEF TypeOK, Comment, Stamps
<1>3. \A c \in comments : c.id # id
  BY <1>2 DEF IsNextRowid, Stamps
<1>4. \A c \in comments : c.created_at # s
  BY DEF CommentsInv, OwnStamps
<1>5. \A c \in comments : n # 0 /\ c.ticket = t => c.number < n
  BY DEF IsNextNumber, Numbers
<1>6. RepliesInOrder'
  <2> SUFFICES ASSUME NEW c \in comments', NEW d \in comments',
                      c.ticket = d.ticket, 0 < c.number, c.number < d.number
               PROVE  c.created_at < d.created_at
    BY DEF RepliesInOrder
  <2>1. CASE c \in comments /\ d \in comments
    BY <2>1 DEF CommentsInv, RepliesInOrder
  <2>2. CASE c = new
    BY <1>1, <1>2, <1>5, <2>2
  <2>3. CASE d = new /\ c \in comments
    BY <1>1, <1>2, <2>3
  <2> QED
    BY <1>1, <2>1, <2>2, <2>3
<1>7. EditHistoryComplete'
  <2> SUFFICES ASSUME NEW c \in comments', NEW b \in Stamps
               PROVE  <<c.created_at, b>> \in said'
                        <=> b = c.body \/ \E e \in edits : e.comment_id = c.id /\ e.old_body = b
    BY DEF EditHistoryComplete
  <2>1. CASE c \in comments
    BY <1>1, <1>4, <2>1 DEF CommentsInv, EditHistoryComplete
  <2>2. CASE c = new
    <3>1. \A e \in edits : e.comment_id # c.id
      BY <1>1, <1>3, <2>2 DEF CommentsInv, EditsOfLiveRows
    <3>2. <<c.created_at, b>> \in said' <=> b = s
      BY <1>1, <2>2
    <3> QED
      BY <1>1, <2>2, <3>1, <3>2
  <2> QED
    BY <1>1, <2>1, <2>2
<1>8. UniqueIds(comments)'
  BY <1>1, <1>3 DEF CommentsInv, UniqueIds
<1>9. EditsOfLiveRows'
  BY <1>1 DEF CommentsInv, EditsOfLiveRows
<1>10. \A c, d \in comments' : c.created_at = d.created_at => c = d
  BY <1>1, <1>4 DEF CommentsInv, OwnStamps
<1>11. \A c \in comments' : <<c.created_at, c.body>> \in said'
  BY <1>1 DEF CommentsInv, OwnStamps
<1> QED
  BY <1>6, <1>7, <1>8, <1>9, <1>10, <1>11

\* A request that only starts takes the next stamp and touches no row.
LEMMA ArrivalKeeps ==
    ASSUME TypeOK, CommentsInv, began' = began + 1, UNCHANGED <<comments, edits, said>>,
           \A r \in requests' : r \in requests \/ r.stamp = began',
           \A r, q \in requests' : r \notin requests /\ q \notin requests => r = q
    PROVE  CommentsInv'
<1>1. began \in Nat /\ \A r \in requests : r.stamp \in Nat
  BY CommentsAssumption DEF TypeOK, Request, Stamps
<1>2. \A x \in said : x[1] \in Nat
  BY CommentsAssumption DEF TypeOK, Stamps
<1>3. OwnStamps'
  BY <1>1, <1>2 DEF CommentsInv, OwnStamps
<1> QED
  BY <1>3 DEF CommentsInv, RepliesInOrder, EditHistoryComplete, UniqueIds, EditsOfLiveRows

\* A request that ends without a write leaves the rest as it was.
LEMMA EndKeeps ==
    ASSUME CommentsInv, requests' \subseteq requests, UNCHANGED <<comments, edits, said, began>>
    PROVE  CommentsInv'
BY DEF CommentsInv, RepliesInOrder, EditHistoryComplete, UniqueIds, EditsOfLiveRows, OwnStamps

LEMMA CreateCommentKeeps ==
    ASSUME TypeOK, CommentsInv, NEW u \in Users, NEW t \in Tickets, CreateComment(u, t)
    PROVE  CommentsInv'
<1> PICK id \in Stamps, n \in 0 .. MaxRequests :
       /\ IsNextRowid(comments, id) /\ IsNextNumber(t, n)
       /\ Insert(NewRow(id, t, n, u, began'))
       /\ requests' = requests \cup {[stamp |-> began', user |-> u, pc |-> "answer",
                                      ticket |-> t, id |-> id, seen |-> began']}
  BY DEF CreateComment
<1>1. began \in Nat /\ began' = began + 1 /\ began' \in Stamps /\ UNCHANGED edits /\ n \in Nat
  BY CommentsAssumption DEF TypeOK, CreateComment, Begin, Stamps
<1>2. \A x \in said : x[1] \in Nat /\ x[1] < began'
  BY <1>1, CommentsAssumption DEF TypeOK, Stamps, CommentsInv, OwnStamps
<1>3. \A c \in comments : c.created_at < began'
  BY <1>2 DEF CommentsInv, OwnStamps
<1>4. /\ RepliesInOrder' /\ EditHistoryComplete' /\ UniqueIds(comments)' /\ EditsOfLiveRows'
      /\ \A c, d \in comments' : c.created_at = d.created_at => c = d
      /\ \A c \in comments' : <<c.created_at, c.body>> \in said'
  BY <1>1, <1>2, <1>3, InsertKeeps
<1>5. said' = said \cup {<<began', began'>>}
  BY DEF Insert, NewRow
<1>6. \A r \in requests : r.stamp \in Nat /\ r.stamp < began'
  BY <1>1, CommentsAssumption DEF TypeOK, Request, Stamps, CommentsInv, OwnStamps
<1>7. OwnStamps'
  BY <1>1, <1>2, <1>4, <1>5, <1>6 DEF CommentsInv, OwnStamps
<1> QED
  BY <1>4, <1>7 DEF CommentsInv

LEMMA DescriptionKeeps ==
    ASSUME TypeOK, CommentsInv, NEW r \in requests, CreateDescriptionComment(r)
    PROVE  CommentsInv'
<1>1. CASE UNCHANGED <<comments, said>>
  BY <1>1, EndKeeps DEF CreateDescriptionComment, Finish
<1>2. CASE ~UNCHANGED <<comments, said>>
  <2> PICK id \in Stamps : /\ IsNextRowid(comments, id)
                           /\ Insert(NewRow(id, r.ticket, 0, r.user, r.stamp))
    BY <1>2 DEF CreateDescriptionComment
  <2>1. /\ r.ticket \in Tickets /\ r.user \in Users /\ r.stamp \in Stamps /\ r.pc = "describe"
        /\ UNCHANGED <<edits, began>> /\ requests' = requests \ {r}
    BY DEF TypeOK, Request, CreateDescriptionComment, Finish
  <2>2. \A x \in said : x[1] # r.stamp
    BY <2>1 DEF CommentsInv, OwnStamps
  <2>3. /\ RepliesInOrder' /\ EditHistoryComplete' /\ UniqueIds(comments)' /\ EditsOfLiveRows'
        /\ \A c, d \in comments' : c.created_at = d.created_at => c = d
        /\ \A c \in comments' : <<c.created_at, c.body>> \in said'
    BY <2>1, <2>2, InsertKeeps
  <2>4. said' = said \cup {<<r.stamp, r.stamp>>}
    BY DEF Insert, NewRow
  <2>5. OwnStamps'
    BY <2>1, <2>3, <2>4 DEF CommentsInv, OwnStamps
  <2> QED
    BY <2>3, <2>5 DEF CommentsInv
<1> QED
  BY <1>1, <1>2

LEMMA UpdateKeeps ==
    ASSUME TypeOK, CommentsInv, NEW r \in requests, Update(r)
    PROVE  CommentsInv'
<1>1. CASE UNCHANGED <<comments, edits, said>> /\ requests' = requests \ {r}
  BY <1>1, EndKeeps DEF Update
<1>2. ASSUME NEW c \in comments,
             c.id = r.id,
             edits' = edits \cup {[comment_id |-> c.id, old_body |-> c.body, edited_at |-> r.stamp]},
             comments' = (comments \ {c}) \cup {[c EXCEPT !.body = r.stamp]},
             said' = said \cup {<<c.created_at, r.stamp>>},
             requests' = (requests \ {r}) \cup {[r EXCEPT !.pc = "answer"]}
      PROVE  CommentsInv'
  <2> DEFINE new == [c EXCEPT !.body = r.stamp]
             edit == [comment_id |-> c.id, old_body |-> c.body, edited_at |-> r.stamp]
             after == [r EXCEPT !.pc = "answer"]
  <2>1. /\ c \in Comment /\ r \in Request /\ UNCHANGED began
        /\ new.id = c.id /\ new.ticket = c.ticket /\ new.number = c.number
        /\ new.created_at = c.created_at /\ new.body = r.stamp
        /\ after.stamp = r.stamp /\ after.pc = "answer"
        /\ edits' = edits \cup {edit} /\ edit.comment_id = c.id /\ edit.old_body = c.body
    BY <1>2 DEF TypeOK, Comment, Request, Update
  <2>2. /\ \A d \in comments' : (d \in comments /\ d # c) \/ d = new
        /\ new \in comments' /\ \A d \in comments : d # c => d \in comments'
        /\ \A q \in requests' : (q \in requests /\ q # r) \/ q = after
    BY <1>2
  <2> HIDE DEF new, after, edit
  <2>3. \A d \in comments : d # c => d.id # c.id /\ d.created_at # c.created_at
    BY DEF CommentsInv, UniqueIds, OwnStamps
  <2>4. RepliesInOrder'
    BY <2>1, <2>2 DEF CommentsInv, RepliesInOrder
  <2>5. UniqueIds(comments)'
    BY <2>1, <2>2, <2>3 DEF CommentsInv, UniqueIds
  <2>6. EditsOfLiveRows'
    BY <1>2, <2>1, <2>2 DEF CommentsInv, EditsOfLiveRows
  <2>7. EditHistoryComplete'
    <3> SUFFICES ASSUME NEW d \in comments', NEW b \in Stamps
                 PROVE  <<d.created_at, b>> \in said'
                          <=> b = d.body \/ \E e \in edits' : e.comment_id = d.id /\ e.old_body = b
      BY DEF EditHistoryComplete
    <3>1. CASE d \in comments /\ d # c
      <4>1. <<d.created_at, b>> \in said' <=> <<d.created_at, b>> \in said
        BY <1>2, <2>3, <3>1
      <4>2. (\E e \in edits' : e.comment_id = d.id /\ e.old_body = b)
              <=> \E e \in edits : e.comment_id = d.id /\ e.old_body = b
        BY <2>1, <2>3, <3>1
      <4> QED
        BY <3>1, <4>1, <4>2 DEF CommentsInv, EditHistoryComplete
    <3>2. CASE d = new
      <4>1. <<d.created_at, b>> \in said' <=> <<c.created_at, b>> \in said \/ b = r.stamp
        BY <1>2, <2>1, <3>2
      <4>2. (\E e \in edits' : e.comment_id = d.id /\ e.old_body = b)
              <=> (\E e \in edits : e.comment_id = c.id /\ e.old_body = b) \/ b = c.body
        BY <2>1, <3>2
      <4> QED
        BY <2>1, <3>2, <4>1, <4>2 DEF CommentsInv, EditHistoryComplete
    <3> QED
      BY <2>2, <3>1, <3>2
  <2>8. OwnStamps'
    <3>1. \A d, e \in comments' : d.created_at = e.created_at => d = e
      BY <2>1, <2>2, <2>3 DEF CommentsInv, OwnStamps
    <3>2. \A d \in comments' : <<d.created_at, d.body>> \in said'
      BY <1>2, <2>1, <2>2 DEF CommentsInv, OwnStamps
    <3>4. /\ \A p, q \in requests' : p.stamp = q.stamp => p = q
          /\ \A q \in requests' : q.stamp <= began'
      BY <2>1, <2>2 DEF CommentsInv, OwnStamps
    <3>5. <<c.created_at, c.body>> \in said
      BY DEF CommentsInv, OwnStamps
    <3>6. \A x \in said' : \E y \in said : x[1] = y[1]
      BY <1>2, <3>5
    <3>7. \A x \in said' : x[1] <= began'
      BY <2>1, <3>6 DEF CommentsInv, OwnStamps
    <3>8. \A q \in requests' : q.pc = "describe" => \A x \in said' : x[1] # q.stamp
      BY <2>1, <2>2, <3>6 DEF CommentsInv, OwnStamps
    <3> QED
      BY <3>1, <3>2, <3>4, <3>7, <3>8 DEF OwnStamps
  <2> QED
    BY <2>4, <2>5, <2>6, <2>7, <2>8 DEF CommentsInv
<1> QED
  BY <1>1, <1>2 DEF Update, Finish

\* The edits of a deleted comment go with it, so the next comment of that id starts with
\* none.
LEMMA DeleteKeeps ==
    ASSUME CommentsInv, NEW r \in requests, Delete(r)
    PROVE  CommentsInv'
<1>1. /\ comments' = {c \in comments : c.id # r.id}
      /\ edits' = {e \in edits : e.comment_id # r.id}
      /\ requests' = requests \ {r} /\ UNCHANGED <<said, began>>
  BY DEF Delete, Finish
<1>2. EditHistoryComplete'
  <2> SUFFICES ASSUME NEW c \in comments', NEW b \in Stamps
               PROVE  <<c.created_at, b>> \in said
                        <=> b = c.body \/ \E e \in edits' : e.comment_id = c.id /\ e.old_body = b
    BY <1>1 DEF EditHistoryComplete
  <2>1. c \in comments /\ c.id # r.id
    BY <1>1
  <2>2. (\E e \in edits' : e.comment_id = c.id /\ e.old_body = b)
          <=> \E e \in edits : e.comment_id = c.id /\ e.old_body = b
    BY <1>1, <2>1
  <2> QED
    BY <2>1, <2>2 DEF CommentsInv, EditHistoryComplete
<1>3. EditsOfLiveRows'
  BY <1>1 DEF CommentsInv, EditsOfLiveRows
<1>4. RepliesInOrder' /\ UniqueIds(comments)' /\ OwnStamps'
  BY <1>1 DEF CommentsInv, RepliesInOrder, UniqueIds, OwnStamps
<1> QED
  BY <1>2, <1>3, <1>4 DEF CommentsInv

LEMMA CommentsStep == TypeOK /\ CommentsInv /\ [Next]_vars => CommentsInv'
<1> SUFFICES ASSUME TypeOK, CommentsInv, [Next]_vars PROVE CommentsInv'
  OBVIOUS
<1>1. ASSUME NEW u \in Users, NEW t \in Tickets, NEW b \in BOOLEAN, CreateTicket(u, t, b)
      PROVE  CommentsInv'
  BY <1>1, ArrivalKeeps DEF CreateTicket, Begin
<1>2. ASSUME NEW u \in Users, NEW t \in Tickets, CreateComment(u, t) PROVE CommentsInv'
  BY <1>2, CreateCommentKeeps
<1>3. ASSUME NEW u \in Users, NEW c \in comments, LookUpToEdit(u, c) \/ LookUpToDelete(u, c)
      PROVE  CommentsInv'
  BY <1>3, ArrivalKeeps DEF LookUpToEdit, LookUpToDelete, Begin
<1>4. ASSUME NEW r \in requests, CreateDescriptionComment(r) PROVE CommentsInv'
  BY <1>4, DescriptionKeeps
<1>5. ASSUME NEW r \in requests, Update(r) PROVE CommentsInv'
  BY <1>5, UpdateKeeps
<1>6. ASSUME NEW r \in requests, Delete(r) PROVE CommentsInv'
  BY <1>6, DeleteKeeps
<1>7. ASSUME NEW r \in requests, Answer(r) \/ StatementFails(r) PROVE CommentsInv'
  BY <1>7, EndKeeps DEF Answer, StatementFails, Finish
<1>8. CASE Crash \/ UNCHANGED vars
  BY <1>8, EndKeeps DEF Crash, vars
<1> QED
  BY <1>1, <1>2, <1>3, <1>4, <1>5, <1>6, <1>7, <1>8 DEF Next, Arrive, Proceed

LEMMA CommentsInit == Init => CommentsInv
BY DEF Init, CommentsInv, RepliesInOrder, EditHistoryComplete, UniqueIds, OwnStamps, EditsOfLiveRows

\* The types of the rows and of the requests, in every behaviour.
THEOREM CommentsTypeCorrect == Spec => []TypeOK
BY CommentsTypeInit, CommentsTypeStep, PTL DEF Spec

\* Reading a ticket's comments by number is reading them in the order they were written.
THEOREM NumbersFollowTime == Spec => []RepliesInOrder
<1>1. CommentsInv => RepliesInOrder
  BY DEF CommentsInv
<1> QED
  BY <1>1, CommentsTypeInit, CommentsTypeStep, CommentsInit, CommentsStep, PTL DEF Spec

\* Concurrent edits lose no body, and a reused id inherits no history.
THEOREM HistoryKeepsEveryBody == Spec => []EditHistoryComplete
<1>1. CommentsInv => EditHistoryComplete
  BY DEF CommentsInv
<1> QED
  BY <1>1, CommentsTypeInit, CommentsTypeStep, CommentsInit, CommentsStep, PTL DEF Spec

-----------------------------------------------------------------------------
(* What a reader is shown. A row it holds whose comment has not been       *)
(* deleted since is still there under its id, and the bodies it had when   *)
(* it was read are its body or among the edits there are now; what was     *)
(* counted is between the two.                                             *)

ViewShaped ==
    DOMAIN view = {"pc", "include_edits", "rows", "counts", "items"}

StillThere(c) == \E d \in comments : d.created_at = c.created_at /\ d.id = c.id
HeardKept(c) ==
    \A b \in BodiesHeard(c) : b = c.body \/ \E e \in EditsOf(c.id) : e.old_body = b
CountedRight(c) ==
    /\ CountOf(c.id) \in Nat
    /\ CountOf(c.id) <= Cardinality(EditsOf(c.id))
    /\ Cardinality(BodiesHeard(c)) <= CountOf(c.id) + 1

HeldRight(c) ==
    c.created_at \notin gone =>
       StillThere(c) /\ HeardKept(c) /\ (view.pc = "edits" => CountedRight(c))

ViewInv ==
    /\ ViewShaped /\ IsFiniteSet(edits) /\ heard \subseteq Stamps \X Stamps
    /\ view.pc \in {"counts", "edits"} => \A i \in DOMAIN view.rows : HeldRight(view.rows[i])
    /\ ViewsLoseNothing

\* What a step of the requests leaves of a comment that is there before and after it.
RowsStay ==
    \A c \in comments, d \in comments' :
       c.created_at = d.created_at =>
          c.id = d.id /\ \A e \in edits : e.comment_id = c.id => e \in edits'

LEMMA StepKeepsRows ==
    ASSUME TypeOK, CommentsInv, CommentsInv',
           Arrive \/ \E r \in requests : Proceed(r) \/ StatementFails(r)
    PROVE  RowsStay /\ (IsFiniteSet(edits) => IsFiniteSet(edits'))
<1>1. ASSUME UNCHANGED <<comments, edits>>
      PROVE  RowsStay /\ (IsFiniteSet(edits) => IsFiniteSet(edits'))
  BY <1>1 DEF RowsStay, CommentsInv, OwnStamps
<1>2. ASSUME NEW c, Insert(c), UNCHANGED edits
      PROVE  RowsStay /\ (IsFiniteSet(edits) => IsFiniteSet(edits'))
  BY <1>2 DEF Insert, RowsStay, CommentsInv, OwnStamps
<1>3. ASSUME NEW r \in requests, Update(r)
      PROVE  RowsStay /\ (IsFiniteSet(edits) => IsFiniteSet(edits'))
  <2>1. CASE UNCHANGED <<comments, edits>>
    BY <1>1, <2>1
  <2>2. ASSUME NEW c \in comments, NEW e,
               edits' = edits \cup {e},
               comments' = (comments \ {c}) \cup {[c EXCEPT !.body = r.stamp]}
        PROVE  RowsStay /\ (IsFiniteSet(edits) => IsFiniteSet(edits'))
    <3>1. IsFiniteSet(edits) => IsFiniteSet(edits')
      BY <2>2, FS_AddElement
    <3>2. c \in Comment
      BY DEF TypeOK
    <3>3. /\ [c EXCEPT !.body = r.stamp].id = c.id
          /\ [c EXCEPT !.body = r.stamp].created_at = c.created_at
      BY <3>2 DEF Comment
    <3>4. RowsStay
      BY <2>2, <3>3 DEF RowsStay, CommentsInv, OwnStamps
    <3> QED
      BY <3>1, <3>4
  <2> QED
    BY <1>3, <2>1, <2>2 DEF Update
<1>4. ASSUME NEW r \in requests, Delete(r)
      PROVE  RowsStay /\ (IsFiniteSet(edits) => IsFiniteSet(edits'))
  <2>1. edits' \subseteq edits
    BY <1>4 DEF Delete
  <2>2. RowsStay
    BY <1>4 DEF Delete, RowsStay, CommentsInv, OwnStamps
  <2> QED
    BY <2>1, <2>2, FS_Subset
<1> QED
  BY <1>1, <1>2, <1>3, <1>4 DEF Arrive, Proceed, CreateTicket, CreateComment, LookUpToEdit, LookUpToDelete,
     CreateDescriptionComment, Answer, StatementFails

\* A reader that goes on beside a step of the requests.
LEMMA MeanwhileKeeps ==
    ASSUME TypeOK, CommentsInv, CommentsInv', ViewInv, Meanwhile
    PROVE  ViewInv'
<1>1. RowsStay /\ IsFiniteSet(edits')
  BY StepKeepsRows DEF Meanwhile, ViewInv
<1>2. UNCHANGED <<view, heard>> /\ gone \subseteq gone'
      /\ \A c \in comments : c.created_at \notin gone' => \E d \in comments' : d.created_at = c.created_at
  BY DEF Meanwhile
<1>3. ASSUME NEW c, HeldRight(c) PROVE HeldRight(c)'
  <2> SUFFICES ASSUME c.created_at \notin gone'
               PROVE  StillThere(c)' /\ HeardKept(c)' /\ (view.pc = "edits" => CountedRight(c)')
    BY <1>2 DEF HeldRight
  <2>1. StillThere(c) /\ HeardKept(c) /\ (view.pc = "edits" => CountedRight(c))
    BY <1>2, <1>3 DEF HeldRight
  <2>2. PICK d \in comments : d.created_at = c.created_at /\ d.id = c.id
    BY <2>1 DEF StillThere
  <2>3. PICK f \in comments' : f.created_at = c.created_at
    BY <1>2, <2>2
  <2>4. f.id = c.id /\ EditsOf(c.id) \subseteq EditsOf(c.id)'
    BY <1>1, <2>2, <2>3 DEF RowsStay, EditsOf
  <2>5. BodiesHeard(c)' = BodiesHeard(c) /\ CountOf(c.id)' = CountOf(c.id)
    BY <1>2 DEF BodiesHeard, CountOf
  <2>6. /\ Cardinality(EditsOf(c.id)) \in Nat /\ Cardinality(EditsOf(c.id)') \in Nat
        /\ Cardinality(EditsOf(c.id)) <= Cardinality(EditsOf(c.id)')
    <3>1. IsFiniteSet(EditsOf(c.id)')
      BY <1>1, FS_Subset DEF EditsOf
    <3> QED
      BY <2>4, <3>1, FS_Subset, FS_CardinalityType
  <2>7. StillThere(c)'
    BY <2>3, <2>4 DEF StillThere
  <2>8. HeardKept(c)'
    BY <2>1, <2>4, <2>5 DEF HeardKept
  <2>9. CountedRight(c) => CountedRight(c)'
    BY <2>5, <2>6 DEF CountedRight
  <2> QED
    BY <2>1, <2>7, <2>8, <2>9
<1>4. ViewsLoseNothing'
  BY <1>2 DEF Meanwhile, ViewsLoseNothing
<1> QED
  BY <1>1, <1>2, <1>3, <1>4 DEF ViewInv, ViewShaped, Stamps

LEMMA ReadKeeps ==
    ASSUME TypeOK, CommentsInv, ViewInv, NEW include \in BOOLEAN, NEW rows,
           \A i \in DOMAIN rows : rows[i] \in comments,
           Read(include, rows), UNCHANGED <<comments, edits, said>>
    PROVE  ViewInv'
<1> DEFINE pc == IF rows = << >> THEN "shown" ELSE "counts"
<1>1. /\ view' = [pc |-> pc, include_edits |-> include, rows |-> rows, counts |-> {},
                  items |-> << >>]
      /\ heard' = {x \in said : \E i \in DOMAIN rows : rows[i].created_at = x[1]}
      /\ gone' = {}
  BY Zenon DEF Read, NoView
<1>2. view'.pc = pc /\ view'.rows = rows /\ view'.items = << >>
  BY <1>1
<1>3. ViewShaped'
  BY <1>1 DEF ViewShaped
<1>4. IsFiniteSet(edits') /\ heard' \subseteq Stamps \X Stamps
  BY <1>1 DEF ViewInv, TypeOK
<1>5. ASSUME NEW i \in DOMAIN rows PROVE HeldRight(rows[i])'
  <2> PICK c \in comments : c = rows[i]
    OBVIOUS
  <2>1. StillThere(c)'
    BY DEF StillThere
  <2>2. HeardKept(c)'
    <3> SUFFICES ASSUME NEW b \in BodiesHeard(c)'
                 PROVE  b = c.body \/ \E e \in EditsOf(c.id)' : e.old_body = b
      BY DEF HeardKept
    <3>1. PICK x \in said : x[1] = c.created_at /\ x[2] = b
      BY <1>1 DEF BodiesHeard
    <3>2. b \in Stamps /\ <<c.created_at, b>> \in said
      BY <3>1 DEF TypeOK
    <3> QED
      BY <3>2 DEF CommentsInv, EditHistoryComplete, EditsOf
  <2> QED
    BY <1>2, <2>1, <2>2 DEF HeldRight
<1>6. ViewsLoseNothing'
  BY <1>2 DEF ViewsLoseNothing
<1> QED
  BY <1>2, <1>3, <1>4, <1>5, <1>6 DEF ViewInv, Stamps

\* There are no more bodies than edits, and the present one.
LEMMA OneMoreBody ==
    ASSUME NEW B, NEW E, NEW body, IsFiniteSet(E),
           \A b \in B : b = body \/ \E e \in E : e.old_body = b
    PROVE  /\ IsFiniteSet(B) /\ Cardinality(B) \in Nat /\ Cardinality(E) \in Nat
           /\ Cardinality(B) <= Cardinality(E) + 1
<1> DEFINE old == {e.old_body : e \in E}
           f == [e \in E |-> e.old_body]
<1>1. f \in Surjection(E, old)
  BY DEF Surjection
<1>2. IsFiniteSet(old) /\ Cardinality(old) <= Cardinality(E)
  BY <1>1, FS_Surjection
<1>3. B \subseteq old \cup {body}
  OBVIOUS
<1> HIDE DEF old
<1>4. /\ IsFiniteSet(old \cup {body}) /\ Cardinality(old) \in Nat /\ Cardinality(E) \in Nat
      /\ Cardinality(old \cup {body}) <= Cardinality(old) + 1
  BY <1>2, FS_AddElement, FS_CardinalityType
<1>5. IsFiniteSet(B) /\ Cardinality(B) <= Cardinality(old \cup {body})
  BY <1>3, <1>4, FS_Subset
<1> QED
  BY <1>2, <1>4, <1>5, FS_CardinalityType

LEMMA CountKeeps ==
    ASSUME TypeOK, CommentsInv, ViewInv, CountEdits
    PROVE  ViewInv'
<1> DEFINE counted == {view.rows[i].id : i \in DOMAIN view.rows} \cap {e.comment_id : e \in edits}
           counts == {<<id, Cardinality(EditsOf(id))>> : id \in counted}
<1>1. /\ view.pc = "counts" /\ view' = [view EXCEPT !.pc = "edits", !.counts = counts]
      /\ UNCHANGED <<vars, heard, gone>>
  BY DEF CountEdits
<1> HIDE DEF counts
<1>2. /\ ViewShaped' /\ view'.pc = "edits" /\ view'.rows = view.rows /\ view'.counts = counts
  <2>1. DOMAIN view = {"pc", "include_edits", "rows", "counts", "items"}
    BY DEF ViewInv, ViewShaped
  <2> QED
    BY <1>1, <2>1 DEF ViewShaped
<1>3. ASSUME NEW c, NEW i \in DOMAIN view.rows, c = view.rows[i] PROVE HeldRight(c)'
  <2>1. HeldRight(c)
    BY <1>1, <1>3 DEF ViewInv
  <2>2. CountOf(c.id)' = Cardinality(EditsOf(c.id))
    <3>0. c.id \in {view.rows[j].id : j \in DOMAIN view.rows}
      BY <1>3
    <3>1. CASE c.id \in counted
      <4>1. <<c.id, Cardinality(EditsOf(c.id))>> \in counts
        BY <3>1 DEF counts
      <4>2. \A n \in counts : n[1] = c.id => n[2] = Cardinality(EditsOf(c.id))
        BY DEF counts
      <4> QED
        BY <1>2, <4>1, <4>2 DEF CountOf
    <3>2. CASE c.id \notin counted
      <4>1. \A n \in counts : n[1] # c.id
        BY <3>2 DEF counts
      <4>2. EditsOf(c.id) = {}
        BY <3>0, <3>2 DEF EditsOf
      <4> QED
        BY <1>2, <4>1, <4>2, FS_EmptySet DEF CountOf
    <3> QED
      BY <3>1, <3>2
  <2>3. EditsOf(c.id)' = EditsOf(c.id) /\ BodiesHeard(c)' = BodiesHeard(c) /\ StillThere(c)' = StillThere(c)
    BY <1>1 DEF vars, EditsOf, BodiesHeard, StillThere
  <2>4. IsFiniteSet(EditsOf(c.id))
    BY FS_Subset DEF ViewInv, EditsOf
  <2>5. c.created_at \notin gone => StillThere(c) /\ HeardKept(c)
    BY <2>1 DEF HeldRight
  <2>6. HeardKept(c) => HeardKept(c)' /\ CountedRight(c)'
    <3> PICK E : E = EditsOf(c.id)
      OBVIOUS
    <3> PICK B : B = BodiesHeard(c)
      OBVIOUS
    <3>1. HeardKept(c) => \A b \in B : b = c.body \/ \E e \in E : e.old_body = b
      BY DEF HeardKept
    <3>2. HeardKept(c) => /\ Cardinality(B) \in Nat /\ Cardinality(E) \in Nat
                          /\ Cardinality(B) <= Cardinality(E) + 1
      BY <2>4, <3>1, OneMoreBody
    <3>3. HeardKept(c) => HeardKept(c)'
      BY <2>3 DEF HeardKept
    <3>4. CountOf(c.id)' = Cardinality(E) /\ EditsOf(c.id)' = E /\ BodiesHeard(c)' = B
      BY <2>2, <2>3
    <3>5. HeardKept(c) => CountedRight(c)'
      BY <3>2, <3>4 DEF CountedRight
    <3> QED
      BY <3>3, <3>5
  <2>7. HeldRight(c)'
    BY <1>1, <2>3, <2>5, <2>6 DEF HeldRight
  <2> QED
    BY <2>7
<1>4. ViewsLoseNothing'
  BY <1>2 DEF ViewsLoseNothing
<1> QED
  BY <1>1, <1>2, <1>3, <1>4 DEF ViewInv, vars, Stamps

\* The edits a listing shows of a comment are the edits there are.
LEMMA ShownEdits ==
    ASSUME NEW id, NEW history \in History(id), IsFiniteSet(EditsOf(id))
    PROVE  /\ Len(history) = Cardinality(EditsOf(id))
           /\ {history[j].old_body : j \in DOMAIN history} = {e.old_body : e \in EditsOf(id)}
<1>1. history \in [1 .. Cardinality(EditsOf(id)) -> EditsOf(id)] /\ Range(history) = EditsOf(id)
  BY DEF History, ByTime, Orders
<1>2. Cardinality(EditsOf(id)) \in Nat
  BY FS_CardinalityType
<1>3. history \in Seq(EditsOf(id)) /\ Len(history) = Cardinality(EditsOf(id))
  BY <1>1, <1>2
<1> QED
  BY <1>1, <1>3 DEF Range

LEMMA ShowKeeps ==
    ASSUME TypeOK, CommentsInv, ViewInv, ReadEdits
    PROVE  ViewInv'
<1> PICK items \in [DOMAIN view.rows -> UNION {Responses(view.rows[i]) : i \in DOMAIN view.rows}] :
       /\ \A i \in DOMAIN view.rows : items[i] \in Responses(view.rows[i])
       /\ view' = [view EXCEPT !.pc = "shown", !.rows = << >>, !.counts = {}, !.items = items]
  BY DEF ReadEdits
<1>1. view.pc = "edits" /\ UNCHANGED <<vars, heard, gone>>
  BY DEF ReadEdits
<1>2. /\ ViewShaped' /\ view'.pc = "shown" /\ view'.items = items
      /\ view'.include_edits = view.include_edits
  BY DEF ViewInv, ViewShaped
<1>3. ASSUME NEW i \in DOMAIN items, NEW c, c = items[i].comment, c.created_at \notin gone
      PROVE  /\ items[i].edit_count >= Cardinality(BodiesHeard(c)) - 1
             /\ view.include_edits =>
                   /\ BodiesHeard(c) \subseteq OldBodies(items[i]) \cup {c.body}
                   /\ OldBodies(items[i]) \subseteq BodiesSaid(c)
                   /\ items[i].edit_count <= Len(items[i].edits)
  <2>1. i \in DOMAIN view.rows /\ items[i] \in Responses(view.rows[i])
    OBVIOUS
  <2>2. PICK history \in (IF view.include_edits THEN History(view.rows[i].id) ELSE {<< >>}) :
           items[i] = CommentResponse(view.rows[i], CountOf(view.rows[i].id), history)
    BY <2>1 DEF Responses
  <2>3. c = view.rows[i] /\ items[i].edit_count = CountOf(c.id) /\ items[i].edits = history
    <3>1. /\ items[i].comment = view.rows[i] /\ items[i].edit_count = CountOf(view.rows[i].id)
          /\ items[i].edits = history
      BY <2>2 DEF CommentResponse
    <3> QED
      BY <1>3, <3>1
  <2>4. StillThere(c) /\ HeardKept(c) /\ CountedRight(c)
    BY <1>1, <1>3, <2>1, <2>3 DEF ViewInv, HeldRight
  <2>5. IsFiniteSet(EditsOf(c.id))
    BY FS_Subset DEF ViewInv, EditsOf
  <2>6. IsFiniteSet(BodiesHeard(c)) /\ Cardinality(BodiesHeard(c)) \in Nat
    <3> PICK E : E = EditsOf(c.id)
      OBVIOUS
    <3> PICK B : B = BodiesHeard(c)
      OBVIOUS
    <3>1. \A b \in B : b = c.body \/ \E e \in E : e.old_body = b
      BY <2>4 DEF HeardKept
    <3> QED
      BY <2>5, <3>1, OneMoreBody
  <2>7. items[i].edit_count >= Cardinality(BodiesHeard(c)) - 1
    BY <2>3, <2>4, <2>6 DEF CountedRight
  <2>8. ASSUME view.include_edits
        PROVE  /\ BodiesHeard(c) \subseteq OldBodies(items[i]) \cup {c.body}
               /\ OldBodies(items[i]) \subseteq BodiesSaid(c)
               /\ items[i].edit_count <= Len(items[i].edits)
    <3>1. history \in History(c.id)
      BY <2>2, <2>3, <2>8
    <3>2. /\ Len(history) = Cardinality(EditsOf(c.id))
          /\ OldBodies(items[i]) = {e.old_body : e \in EditsOf(c.id)}
      BY <2>3, <2>5, <3>1, ShownEdits DEF OldBodies
    <3>3. BodiesHeard(c) \subseteq OldBodies(items[i]) \cup {c.body}
      BY <2>4, <3>2 DEF HeardKept
    <3>4. ASSUME NEW e \in EditsOf(c.id) PROVE e.old_body \in BodiesSaid(c)
      <4>1. e \in edits /\ e.comment_id = c.id /\ e.old_body \in Stamps
        BY DEF EditsOf, TypeOK, CommentEdit
      <4>2. PICK d \in comments : d.created_at = c.created_at /\ d.id = c.id
        BY <2>4 DEF StillThere
      <4>3. <<d.created_at, e.old_body>> \in said
        BY <4>1, <4>2 DEF CommentsInv, EditHistoryComplete
      <4> QED
        BY <4>2, <4>3 DEF BodiesSaid
    <3>5. items[i].edit_count <= Len(items[i].edits)
      BY <2>3, <2>4, <3>2 DEF CountedRight
    <3> QED
      BY <3>2, <3>3, <3>4, <3>5
  <2> QED
    BY <2>7, <2>8
<1>4. ViewsLoseNothing'
  <2>1. \A c : BodiesHeard(c)' = BodiesHeard(c) /\ BodiesSaid(c)' = BodiesSaid(c)
    BY <1>1 DEF BodiesHeard, BodiesSaid, vars
  <2> SUFFICES ASSUME NEW i \in DOMAIN view'.items, NEW c, c = view'.items[i].comment,
                      c.created_at \notin gone'
               PROVE  /\ view'.items[i].edit_count >= Cardinality(BodiesHeard(c)') - 1
                      /\ view'.include_edits =>
                            /\ BodiesHeard(c)' \subseteq OldBodies(view'.items[i]) \cup {c.body}
                            /\ OldBodies(view'.items[i]) \subseteq BodiesSaid(c)'
                            /\ view'.items[i].edit_count <= Len(view'.items[i].edits)
    BY Zenon DEF ViewsLoseNothing, OldBodies
  <2>2. i \in DOMAIN items /\ c = items[i].comment /\ c.created_at \notin gone
    BY <1>1, <1>2
  <2>3. /\ items[i].edit_count >= Cardinality(BodiesHeard(c)) - 1
        /\ view.include_edits =>
              /\ BodiesHeard(c) \subseteq OldBodies(items[i]) \cup {c.body}
              /\ OldBodies(items[i]) \subseteq BodiesSaid(c)
              /\ items[i].edit_count <= Len(items[i].edits)
    BY <1>3, <2>2
  <2> QED
    BY <1>2, <2>1, <2>3, Zenon
<1> QED
  BY <1>1, <1>2, <1>4 DEF ViewInv, vars, Stamps

LEMMA EndReading ==
    ASSUME ViewInv, view' = NoView, heard' = {}, UNCHANGED edits
    PROVE  ViewInv'
<1>1. ViewShaped' /\ view'.pc = "none"
  BY DEF NoView, ViewShaped
<1> QED
  BY <1>1 DEF ViewInv, ViewsLoseNothing

ViewsInv == TypeOK /\ CommentsInv /\ ViewInv

LEMMA ViewsInvInit == ViewsInit => ViewsInv
<1> SUFFICES ASSUME ViewsInit PROVE ViewsInv
  OBVIOUS
<1>1. TypeOK /\ CommentsInv
  BY CommentsTypeInit, CommentsInit DEF ViewsInit
<1>2. ViewShaped /\ view.pc = "none"
  BY DEF ViewsInit, NoView, ViewShaped
<1>3. IsFiniteSet(edits) /\ heard = {}
  BY FS_EmptySet DEF ViewsInit, Init
<1> QED
  BY <1>1, <1>2, <1>3 DEF ViewsInv, ViewInv, ViewsLoseNothing

LEMMA ViewsInvStep == ViewsInv /\ [ViewsNext]_viewVars => ViewsInv'
<1> SUFFICES ASSUME TypeOK, CommentsInv, ViewInv, [ViewsNext]_viewVars PROVE ViewsInv'
  BY DEF ViewsInv
<1>1. ASSUME [Next]_vars PROVE TypeOK' /\ CommentsInv'
  BY <1>1, CommentsTypeStep, CommentsStep
<1>2. CASE Meanwhile
  <2>1. [Next]_vars
    BY <1>2 DEF Meanwhile, Next
  <2> QED
    BY <1>1, <1>2, <2>1, MeanwhileKeeps DEF ViewsInv
<1>3. CASE CrashWithView
  <2>1. [Next]_vars /\ view' = NoView /\ heard' = {} /\ UNCHANGED edits
    BY <1>3 DEF CrashWithView, Next, Crash
  <2> QED
    BY <1>1, <2>1, EndReading DEF ViewsInv
<1>4. CASE CountEdits
  <2>1. [Next]_vars
    BY <1>4 DEF CountEdits
  <2> QED
    BY <1>1, <1>4, <2>1, CountKeeps DEF ViewsInv
<1>5. CASE ReadEdits
  <2>1. [Next]_vars
    BY <1>5 DEF ReadEdits
  <2> QED
    BY <1>1, <1>5, <2>1, ShowKeeps DEF ViewsInv
<1>6. CASE ReadFails
  <2>1. /\ UNCHANGED <<tickets, comments, edits, requests, began, said>>
        /\ view' = NoView /\ heard' = {} /\ faults < MaxFaults /\ faults' = faults + 1
    BY <1>6 DEF ReadFails
  <2>2. TypeOK'
    BY <2>1, CommentsAssumption DEF TypeOK
  <2>3. CommentsInv'
    BY <2>1, EndKeeps
  <2> QED
    BY <2>1, <2>2, <2>3, EndReading DEF ViewsInv
<1>7. ASSUME NEW t \in Tickets, NEW include \in BOOLEAN, ListComments(t, include) PROVE ViewsInv'
  <2> PICK rows \in ByNumber({c \in comments : c.ticket = t}) : Read(include, rows)
    BY <1>7 DEF ListComments
  <2>1. /\ began < MaxRequests /\ began' = began + 1
        /\ UNCHANGED <<tickets, comments, edits, requests, faults, said>>
    BY <1>7 DEF ListComments, Begin
  <2>2. TypeOK'
    BY <2>1, CommentsAssumption DEF TypeOK
  <2>3. CommentsInv'
    BY <2>1, ArrivalKeeps
  <2>4. \A i \in DOMAIN rows : rows[i] \in comments
    BY DEF ByNumber, Orders
  <2>5. ViewInv'
    BY <2>1, <2>4, ReadKeeps
  <2> QED
    BY <2>2, <2>3, <2>5 DEF ViewsInv
<1>8. ASSUME NEW r \in requests, AnswerWithRow(r) PROVE ViewsInv'
  <2>1. [Next]_vars /\ UNCHANGED <<comments, edits, said>>
    BY <1>8 DEF AnswerWithRow, Answer, Next, Proceed
  <2> PICK c \in comments : Read(FALSE, <<c>>)
    BY <1>8 DEF AnswerWithRow
  <2> PICK rows : rows = <<c>>
    OBVIOUS
  <2>2. \A i \in DOMAIN rows : rows[i] \in comments
    OBVIOUS
  <2> PICK include \in BOOLEAN : Read(include, rows)
    <3>1. FALSE \in BOOLEAN /\ Read(FALSE, rows)
      OBVIOUS
    <3> QED
      BY <3>1, Zenon
  <2>4. ViewInv'
    BY <2>1, <2>2, ReadKeeps
  <2> QED
    BY <1>1, <2>1, <2>4 DEF ViewsInv
<1>9. CASE UNCHANGED viewVars
  <2>1. [Next]_vars /\ UNCHANGED <<comments, edits, said, view, heard, gone>>
    BY <1>9 DEF viewVars, readVars, vars
  <2>2. ViewInv'
    <3>1. ASSUME NEW c, HeldRight(c) PROVE HeldRight(c)'
      <4>1. /\ EditsOf(c.id)' = EditsOf(c.id) /\ CountOf(c.id)' = CountOf(c.id)
            /\ BodiesHeard(c)' = BodiesHeard(c)
        BY <2>1 DEF EditsOf, CountOf, BodiesHeard
      <4>2. (StillThere(c) => StillThere(c)') /\ (HeardKept(c) => HeardKept(c)')
            /\ (CountedRight(c) => CountedRight(c)')
        BY <2>1, <4>1 DEF StillThere, HeardKept, CountedRight
      <4> QED
        BY <2>1, <3>1, <4>2 DEF HeldRight
    <3>2. ViewsLoseNothing => ViewsLoseNothing'
      <4>1. view' = view /\ gone' = gone /\ heard' = heard /\ said' = said
        BY <2>1
      <4>2. \A c : BodiesHeard(c)' = BodiesHeard(c) /\ BodiesSaid(c)' = BodiesSaid(c)
        BY <4>1 DEF BodiesHeard, BodiesSaid
      <4> SUFFICES ASSUME ViewsLoseNothing, view'.pc = "shown",
                          NEW i \in DOMAIN view'.items, NEW c, c = view'.items[i].comment,
                          c.created_at \notin gone'
                   PROVE  /\ view'.items[i].edit_count >= Cardinality(BodiesHeard(c)') - 1
                          /\ view'.include_edits =>
                                /\ BodiesHeard(c)' \subseteq OldBodies(view'.items[i]) \cup {c.body}
                                /\ OldBodies(view'.items[i]) \subseteq BodiesSaid(c)'
                                /\ view'.items[i].edit_count <= Len(view'.items[i].edits)
        BY Zenon DEF ViewsLoseNothing, OldBodies
      <4>3. /\ view.items[i].edit_count >= Cardinality(BodiesHeard(c)) - 1
            /\ view.include_edits =>
                  /\ BodiesHeard(c) \subseteq OldBodies(view.items[i]) \cup {c.body}
                  /\ OldBodies(view.items[i]) \subseteq BodiesSaid(c)
                  /\ view.items[i].edit_count <= Len(view.items[i].edits)
        BY <4>1, Zenon DEF ViewsLoseNothing
      <4> QED
        BY <4>1, <4>2, <4>3, Zenon
    <3> QED
      BY <2>1, <3>1, <3>2 DEF ViewInv, ViewShaped, Stamps
  <2> QED
    BY <1>1, <2>1, <2>2 DEF ViewsInv
<1> QED
  BY <1>2, <1>3, <1>4, <1>5, <1>6, <1>7, <1>8, <1>9 DEF ViewsNext

\* A listing shows no less of a comment than it had said when its row was read, and nothing
\* that another comment said, although rows, counts and edits are read apart.
THEOREM ListingsLoseNothing == ViewsSpec => []ViewsLoseNothing
<1>1. ViewsInv => ViewsLoseNothing
  BY DEF ViewsInv, ViewInv
<1> QED
  BY <1>1, ViewsInvInit, ViewsInvStep, PTL DEF ViewsSpec
=============================================================================
