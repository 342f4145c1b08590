---------------------------- MODULE AccountViews ----------------------------
(***************************************************************************)
(* What the answers say of the accounts: me of src/src/api/auth.rs,        *)
(* list_users, list_compact_users, create_user and update_user of          *)
(* src/src/api/user.rs.                                                    *)
(*                                                                         *)
(* update and create read their row back in a statement of its own, and    *)
(* update_user answers with it after the sessions of a deactivated account *)
(* have been deleted. One request is followed, begun at any moment, while  *)
(* the others of Accounts go on.                                           *)
(***************************************************************************)
EXTENDS Accounts

VARIABLES
    view,           \* the answer to the request that is followed
    were            \* history: the accounts at each moment since that request wrote, or read

viewVars == <<vars, view, were>>

CompactUser(u) == [id |-> u.id, login |-> u.login]

FullUser(u) ==
    [id |-> u.id, login |-> u.login, role |-> u.role, is_active |-> u.active,
     has_password |-> u.password # Null, has_oidc |-> u.sub # Null]

\* What the middleware leaves for the handler, and what me makes of it.
AuthUser(u, token) == [id |-> u.id, login |-> u.login, role |-> u.role, session_id |-> token]
AuthResponse(a) == [id |-> a.id, login |-> a.login, role |-> a.role]

\* pc: what the request waits for. shown: the answer, by then or in the end.
NoView == [pc |-> "none", n |-> 0, id |-> Nobody, asks |-> "nothing", shown |-> {}]

ViewsInit == Init /\ view = NoView /\ were = {}

-----------------------------------------------------------------------------
\* ORDER BY display_name: the order is left out.
ListUsers(include_inactive) ==
    IF include_inactive THEN users ELSE {u \in users : u.active}

\* list_users is for admins: RequireAdmin looks at the role that the middleware has read.
Listings(u) ==
    {"me", "compact"} \cup IF u.role = "admin" THEN {"active", "all"} ELSE {}

Admitted(r) ==
    /\ view.pc = "none"
    /\ LookUpUser(r)
    /\ \E u \in users : /\ u.id = r.id /\ [n |-> r.n, pc |-> "serve", user |-> u.id] \in requests'
                        /\ \E asks \in Listings(u) :
                              view' = [pc |-> "list", n |-> r.n, id |-> u.id, asks |-> asks,
                                       shown |-> {AuthResponse(AuthUser(u, r.token))}]
    /\ were' = users

\* me answers with what the middleware has read; the others with one statement of their own.
AnswerListing(r) ==
    /\ view.pc = "list" /\ r.n = view.n
    /\ Serve(r)
    /\ view' = [view EXCEPT !.pc = "shown", !.shown =
                  CASE view.asks = "me" -> @
                    [] view.asks = "compact" -> {CompactUser(u) : u \in ListUsers(FALSE)}
                    [] view.asks = "active" -> {FullUser(u) : u \in ListUsers(FALSE)}
                    [] view.asks = "all" -> {FullUser(u) : u \in ListUsers(TRUE)}]
    /\ UNCHANGED were

\* The INSERT of create_user, or the UPDATE of update_user.
Written(r) ==
    /\ view.pc = "none"
    /\ \/ r.pc = "insert" /\ r.claim = Null /\ r.user # Nobody /\ InsertUser(r) /\ users' # users
       \/ r.pc = "write" /\ r.claim = Null /\ WriteUser(r)
    /\ \E u \in users' :
          /\ IF r.pc = "write" THEN u.id = r.id ELSE u \notin users
          /\ view' = [NoView EXCEPT !.pc = "reread", !.n = r.n, !.id = u.id,
                        !.asks = IF r.pc = "write" /\ r.active = FALSE THEN "off" ELSE "row"]
    /\ were' = users'

\* Mutant: the answer to a deactivation does not wait for the deletion of the sessions.
Reread_Answers ==
    /\ view.pc = "reread"
    /\ view' = [view EXCEPT !.pc = "shown", !.shown = {FullUser(u) : u \in {v \in users : v.id = view.id}}]
    /\ UNCHANGED <<vars, were>>

\* get_by_id(..).unwrap(): accounts are never deleted.
Reread ==
    /\ view.pc = "reread"
    /\ view' = [view EXCEPT
          !.pc = IF \E r \in requests : r.n = view.n THEN "revoke" ELSE "shown",
          !.shown = {FullUser(u) : u \in {v \in users : v.id = view.id}}]
    /\ UNCHANGED <<vars, were>>

\* The deletion of the sessions, whose failure is ignored.
AnswerDeactivation(r) ==
    /\ view.pc = "revoke" /\ r.n = view.n
    /\ \/ Revoke(r)
       \/ /\ faults + ageings < MaxEvents
          /\ faults' = faults + 1
          /\ Finish(r)
          /\ UNCHANGED <<users, sessions, extending, began, ageings, off, raced>>
    /\ view' = [view EXCEPT !.pc = "shown"]
    /\ UNCHANGED were

\* The others. Bound: a behaviour is followed until the answer is sent.
Meanwhile ==
    /\ view.pc # "shown"
    /\ \/ Arrive
       \/ \E r \in requests : r.n # view.n /\ Proceed(r)
       \/ \E t \in extending : Extend(t)
       \/ \E s \in sessions : Age(s)
    /\ were' = IF view.pc = "none" THEN {} ELSE were \cup users'
    /\ UNCHANGED view

\* A crash, or a statement that fails, ends the request, or another one.
Fails ==
    /\ StatementFails \/ Crash
    /\ view' = NoView /\ were' = {}

ViewsNext ==
    \/ Meanwhile \/ Reread \/ Fails
    \/ \E r \in requests : Admitted(r) \/ AnswerListing(r) \/ Written(r) \/ AnswerDeactivation(r)

ViewsSpec == ViewsInit /\ [][ViewsNext]_viewVars

-----------------------------------------------------------------------------
(* Correctness.                                                            *)

\* Whoever is answered that an account has been deactivated finds it without a session, if
\* it has stayed inactive, unless a delete failed or a login relied on the row before: the
\* answer comes after the deletion. An answer shows the account as it was at one moment
\* since the request wrote it, or was let in; me shows nobody who was inactive all that
\* time; and whoever has a session is listed with a way to sign in.
AnswersHold ==
    view.pc = "shown" =>
       /\ view.asks = "off" /\ faults = 0 /\ ~raced /\ (\A u \in were : u.id = view.id => ~u.active)
             => \A s \in sessions : s.user # view.id
       /\ view.asks \in {"off", "row", "active", "all"} =>
             view.shown \subseteq {FullUser(u) : u \in were}
       /\ view.asks = "me" =>
             \A a \in view.shown : \E u \in were : u.active /\ a = AuthResponse(AuthUser(u, ""))
       /\ view.asks = "all" =>
             \A s \in sessions :
                \E x \in view.shown : x.id = s.user /\ (x.has_password \/ x.has_oidc)

\* What makes it inductive. Requests have numbers of their own; whoever has opened, or will
\* open, a session with a password has one; and while an answer is prepared, the rows seen
\* so far are in the history, and the request that owes it is still there.
NumbersOnce == \A r, q \in requests : r.n = q.n => r = q
SignsIn(id, by) == \A u \in users : u.id = id /\ by \in Passwords => u.password # Null
SignInsStand ==
    /\ \A s \in sessions : SignsIn(s.user, s.by)
    /\ \A r \in requests : r.pc = "open" => SignsIn(r.user, r.by)
Followed ==
    /\ view = [pc |-> view.pc, n |-> view.n, id |-> view.id, asks |-> view.asks,
               shown |-> view.shown]
    /\ view.pc # "none" => users \subseteq were
    /\ view.pc = "list" =>
          /\ view.asks \in {"me", "compact", "active", "all"}
          /\ \E u \in were : u.active /\ view.shown = {AuthResponse(AuthUser(u, ""))}
    /\ view.pc \in {"reread", "revoke"} =>
          /\ view.asks \in {"off", "row"}
          /\ view.asks = "off" =>
                \E r \in requests : r.n = view.n /\ r.pc = "revoke" /\ r.id = view.id
    /\ view.pc = "revoke" => view.shown \subseteq {FullUser(u) : u \in were}
AnswersInv == NumbersOnce /\ SignInsStand /\ Followed /\ AnswersHold
=============================================================================
