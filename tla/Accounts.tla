------------------------------ MODULE Accounts ------------------------------
(***************************************************************************)
(* User accounts and the sessions opened for them: password and OIDC       *)
(* login, the check every authenticated request passes, profile, role and  *)
(* password changes, deactivation, logout and the sliding expiry           *)
(* (src/src/api/auth.rs, api/oidc.rs, api/user.rs, auth/middleware.rs,     *)
(* repos/user.rs, repos/session.rs).                                       *)
(*                                                                         *)
(* No handler here uses a transaction: every statement is a step, and what *)
(* a handler read it still believes at its later steps. Statements that    *)
(* only read a row back for the answer are left out.                       *)
(*                                                                         *)
(* The identity provider is external: a callback brings a subject and a    *)
(* login it has verified. Time is the share of its 30 days a session has   *)
(* left: over half, under half, none.                                      *)
(***************************************************************************)
EXTENDS Naturals, FiniteSets, Sqlite

CONSTANTS
    Logins, Passwords, Subs,    \* logins, passwords, OIDC subjects
    Null,                       \* SQL NULL, and None in a request
    Ids,            \* bound: the rowids of users
    Population,     \* the users rows at the start, each with one open session
    MaxRequests,    \* bound: requests in a behaviour
    MaxAtOnce,      \* bound: requests at work at one time
    MaxEvents       \* bound: statement errors, crashes and ageings in a behaviour

Roles == {"admin", "user"}

User == [id : Ids, login : Logins, role : Roles, active : BOOLEAN,
         password : Passwords \cup {Null}, sub : Subs \cup {Null}]

ASSUME AccountsAssumption ==
    /\ Ids \subseteq Nat \ {0}
    /\ Null \notin Passwords \cup Subs /\ Null \notin Roles /\ Null \notin BOOLEAN
    /\ Passwords \cap Subs = {}
    /\ Population \subseteq {u \in User : u.active /\ u.password # Null}
    /\ UniqueIds(Population)
    /\ MaxRequests \in Nat /\ MaxAtOnce \in Nat /\ MaxEvents \in Nat

VARIABLES
    users,          \* the rows of users
    sessions,       \* the rows of sessions
    requests,       \* the handlers between two statements
    extending,      \* the tokens of the spawned tasks that will extend a session
    began,          \* requests so far
    faults,         \* faults so far
    ageings,        \* ageings so far
    off,            \* history: requests that had come when an inactive user was deactivated
    raced           \* history: a write relied on a users row that had changed since

vars == <<users, sessions, requests, extending, began, faults, ageings, off, raced>>

\* Tokens are random, never the same twice. A first session has its user's id for token,
\* one opened by a login the number of the request.
Token == {"first", "later"} \X (Nat \ {0})
FirstToken(u) == <<"first", u>>
LaterToken(n) == <<"later", n>>

\* left: 2 over half of the time to live, 1 under half, 0 expired. by is history: the
\* password or subject that last vouched for the session.
Session == [token : Token, user : Ids, left : 0 .. 2, by : Passwords \cup Subs]

Stamps == 1 .. MaxRequests
Nobody == 0
Requester == Ids \cup {Nobody}
Claim == Subs \cup {Null}

\* role and active are what an update asks for, seen what it read. A claim is Null unless
\* the request is an OIDC callback.
Request ==
    [n : Stamps, pc : {"user"}, user : Requester, id : Ids, token : Token,
      late : BOOLEAN]
    \cup [n : Stamps, pc : {"serve", "fetch"}, user : Requester]
    \cup [n : Stamps, pc : {"read"}, user : Requester, id : Ids, claim : Claim,
          role : Roles \cup {Null}, active : BOOLEAN \cup {Null}]
    \cup [n : Stamps, pc : {"write"}, user : Requester, id : Ids, claim : Claim,
          seen : [role : Roles, active : BOOLEAN],
          role : Roles \cup {Null}, active : BOOLEAN \cup {Null}]
    \cup [n : Stamps, pc : {"revoke"}, user : Requester, id : Ids]
    \cup [n : Stamps, pc : {"check", "set", "others"}, user : Requester, id : Ids,
          token : Token, password : Passwords]
    \cup [n : Stamps, pc : {"insert"}, user : Requester, login : Logins, role : Roles,
          password : Passwords \cup {Null}, claim : Claim]
    \cup [n : Stamps, pc : {"bind", "reread"}, user : Requester, id : Ids, claim : Subs]
    \cup [n : Stamps, pc : {"open"}, user : Ids, by : Passwords \cup Subs]

Init ==
    /\ users = Population
    /\ sessions = {[token |-> FirstToken(u.id), user |-> u.id, left |-> 2, by |-> u.password]
                      : u \in Population}
    /\ requests = {} /\ extending = {}
    /\ began = 0 /\ faults = 0 /\ ageings = 0
    /\ off = [i \in Ids |-> 0] /\ raced = FALSE

-----------------------------------------------------------------------------
Begin ==
    /\ began < MaxRequests /\ Cardinality(requests) < MaxAtOnce
    /\ began' = began + 1

Come(r) == requests' = requests \cup {r}
Continue(r, q) == requests' = (requests \ {r}) \cup {q}
Finish(r) == requests' = requests \ {r}

Put(u, v) == users' = (users \ {u}) \cup {v}

(* The middleware, in front of every handler but login, logout and OIDC.   *)

\* get_valid: the session must be there and not expired.
Authenticate(s) ==
    /\ Begin
    /\ s.left > 0
    /\ Come([n |-> began', pc |-> "user", user |-> Nobody, id |-> s.user,
             token |-> s.token, late |-> s.left = 1])
    /\ UNCHANGED <<users, sessions, extending, faults, ageings, off, raced>>

\* An update asks for neither role nor is_active, or for one of them.
Profile == [role |-> Null, active |-> Null]
Asks ==
    {Profile} \cup {[role |-> x, active |-> Null] : x \in Roles}
              \cup {[role |-> Null, active |-> x] : x \in BOOLEAN}

\* What a handler goes on with, for the user and the role the middleware has read.
Handlers(r, u) ==
    {[n |-> r.n, pc |-> "serve", user |-> u.id]}
    \cup {[n |-> r.n, pc |-> "read", user |-> u.id, id |-> v.id, claim |-> Null,
           role |-> ask.role, active |-> ask.active] :
             v \in IF u.role = "admin" THEN users ELSE {u},
             ask \in IF u.role = "admin" THEN Asks ELSE {Profile}}
    \cup {[n |-> r.n, pc |-> IF u.role = "admin" THEN "set" ELSE "check", user |-> u.id,
           id |-> v.id, token |-> r.token, password |-> p] :
             v \in IF u.role = "admin" THEN users ELSE {u}, p \in Passwords}
    \cup {[n |-> r.n, pc |-> "insert", user |-> u.id, login |-> l, role |-> role,
           password |-> p, claim |-> Null] :
             l \in Logins, role \in Roles,
             p \in IF u.role = "admin" THEN Passwords \cup {Null} ELSE {}}

\* The late session's extension is a task of its own; nobody waits for it.
Admit(r, u) ==
    /\ \E q \in Handlers(r, u) : Continue(r, q)
    /\ extending' = IF r.late THEN extending \cup {r.token} ELSE extending

\* Mutant: the middleware trusts the session and does not look at is_active.
LookUpUser_AnyUser(r) ==
    /\ r.pc = "user"
    /\ \E u \in users : u.id = r.id /\ Admit(r, u)
    /\ UNCHANGED <<users, sessions, began, faults, ageings, off, raced>>

\* get_by_id, and 401 for an inactive user.
LookUpUser(r) ==
    /\ r.pc = "user"
    /\ \E u \in users :
          /\ u.id = r.id
          /\ IF u.active THEN Admit(r, u) ELSE Finish(r) /\ UNCHANGED extending
    /\ UNCHANGED <<users, sessions, began, faults, ageings, off, raced>>

\* Any other handler's own work.
Serve(r) ==
    /\ r.pc = "serve"
    /\ Finish(r)
    /\ UNCHANGED <<users, sessions, extending, began, faults, ageings, off, raced>>

\* Mutant: the extension writes the session anew if it is not there.
Extend_Upserts(t) ==
    /\ extending' = extending \ {t}
    /\ sessions' = {s \in sessions : s.token # t} \cup
          (IF \E s \in sessions : s.token = t
             THEN {[s EXCEPT !.left = 2] : s \in {x \in sessions : x.token = t}}
             ELSE {[token |-> t, user |-> u.id, left |-> 2, by |-> u.password] : u \in users})
    /\ UNCHANGED <<users, requests, began, faults, ageings, off, raced>>

\* UPDATE sessions SET expires_at: an expired session comes back, a deleted one does not.
Extend(t) ==
    /\ extending' = extending \ {t}
    /\ sessions' = {IF s.token = t THEN [s EXCEPT !.left = 2] ELSE s : s \in sessions}
    /\ UNCHANGED <<users, requests, began, faults, ageings, off, raced>>

(* login and logout.                                                       *)

\* password_hash holds a salted hash; the password it verifies stands for it.
VerifyPassword(password, hash) == hash # Null /\ password = hash

\* The row is read, then the password is verified against the hash of that row.
Login(u) ==
    /\ Begin
    /\ u.active /\ \E password \in Passwords : VerifyPassword(password, u.password)
    /\ Come([n |-> began', pc |-> "open", user |-> u.id, by |-> u.password])
    /\ UNCHANGED <<users, sessions, extending, faults, ageings, off, raced>>

\* session::create, first statement.
OpenSession(r) ==
    /\ r.pc = "open"
    /\ sessions' = sessions \cup
          {[token |-> LaterToken(r.n), user |-> r.user, left |-> 2, by |-> r.by]}
    /\ raced' = (raced \/ \E u \in users :
                    u.id = r.user /\ (~u.active \/ r.by \notin {u.password, u.sub}))
    /\ Continue(r, [n |-> r.n, pc |-> "fetch", user |-> r.user])
    /\ UNCHANGED <<users, extending, began, faults, ageings, off>>

\* get_valid(..).unwrap(): a session deleted in between is a panic, no cookie is set.
FetchSession(r) ==
    /\ r.pc = "fetch"
    /\ Finish(r)
    /\ UNCHANGED <<users, sessions, extending, began, faults, ageings, off, raced>>

Logout(s) ==
    /\ began < MaxRequests /\ began' = began + 1
    /\ sessions' = sessions \ {s}
    /\ UNCHANGED <<users, requests, extending, faults, ageings, off, raced>>
(* update_user, and the profile update of an OIDC login: read, merge, write. *)

ReadUser(r) ==
    /\ r.pc = "read"
    /\ \E u \in users :
          /\ u.id = r.id
          /\ Continue(r, [n |-> r.n, pc |-> "write", user |-> r.user, id |-> r.id,
                          claim |-> r.claim, role |-> r.role, active |-> r.active,
                          seen |-> [role |-> u.role, active |-> u.active]])
    /\ UNCHANGED <<users, sessions, extending, began, faults, ageings, off, raced>>

\* What is not asked for is written as it was read.
Merged(u, r) ==
    [u EXCEPT !.role = IF r.role = Null THEN r.seen.role ELSE r.role,
              !.active = IF r.active = Null THEN r.seen.active ELSE r.active]

WriteUser(r) ==
    /\ r.pc = "write"
    /\ \E u \in users :
          /\ u.id = r.id
          /\ Put(u, Merged(u, r))
          /\ off' = IF u.active = Merged(u, r).active THEN off
                    ELSE [off EXCEPT ![u.id] = IF u.active THEN began ELSE 0]
          /\ raced' = (raced \/ r.seen # [role |-> u.role, active |-> u.active])
    /\ IF r.claim # Null
         THEN Continue(r, [n |-> r.n, pc |-> "reread", user |-> Nobody, id |-> r.id,
                           claim |-> r.claim])
         ELSE IF r.active = FALSE
         THEN Continue(r, [n |-> r.n, pc |-> "revoke", user |-> r.user, id |-> r.id])
         ELSE Finish(r)
    /\ UNCHANGED <<sessions, extending, began, faults, ageings>>

\* delete_sessions_for_user; a failure is ignored.
Revoke(r) ==
    /\ r.pc = "revoke"
    /\ sessions' = {s \in sessions : s.user # r.id}
    /\ Finish(r)
    /\ UNCHANGED <<users, extending, began, faults, ageings, off, raced>>

(* set_password.                                                           *)

\* The current password is right or wrong; an account without one has no right one.
CheckPassword(r) ==
    /\ r.pc = "check"
    /\ \/ /\ \E u \in users, current \in Passwords :
                u.id = r.id /\ VerifyPassword(current, u.password)
          /\ Continue(r, [r EXCEPT !.pc = "set"])
       \/ Finish(r)
    /\ UNCHANGED <<users, sessions, extending, began, faults, ageings, off, raced>>

\* Mutant: an admin's reset does not end the sessions of the user.
SetPassword_SelfOnly(r) ==
    /\ r.pc = "set"
    /\ \E u \in users : u.id = r.id /\ Put(u, [u EXCEPT !.password = r.password])
    /\ sessions' = {IF s.token = r.token /\ s.user = r.id THEN [s EXCEPT !.by = r.password]
                    ELSE s : s \in sessions}
    /\ IF r.user = r.id THEN Continue(r, [r EXCEPT !.pc = "others"]) ELSE Finish(r)
    /\ UNCHANGED <<extending, began, faults, ageings, off, raced>>

\* The changer's own session is good under the new password (by is history).
SetPassword(r) ==
    /\ r.pc = "set"
    /\ \E u \in users : u.id = r.id /\ Put(u, [u EXCEPT !.password = r.password])
    /\ sessions' = {IF s.token = r.token /\ s.user = r.id THEN [s EXCEPT !.by = r.password]
                    ELSE s : s \in sessions}
    /\ Continue(r, [r EXCEPT !.pc = "others"])
    /\ UNCHANGED <<extending, began, faults, ageings, off, raced>>

\* delete_others_for_user; a failure is ignored.
RevokeOthers(r) ==
    /\ r.pc = "others"
    /\ sessions' = {s \in sessions : s.user # r.id \/ s.token = r.token}
    /\ Finish(r)
    /\ UNCHANGED <<users, extending, began, faults, ageings, off, raced>>

(* create_user, the create-admin command, and the OIDC callback.           *)

\* create_admin looks for the login first.
CreateAdmin(l, p) ==
    /\ Begin
    /\ \A u \in users : u.login # l
    /\ Come([n |-> began', pc |-> "insert", user |-> Nobody, login |-> l, role |-> "admin",
             password |-> p, claim |-> Null])
    /\ UNCHANGED <<users, sessions, extending, faults, ageings, off, raced>>

\* provision_user: get_by_oidc_sub.
Callback(sub, l) ==
    /\ Begin
    /\ \/ \E u \in users :
             /\ u.sub = sub
             /\ Come([n |-> began', pc |-> "read", user |-> Nobody, id |-> u.id,
                      claim |-> sub, role |-> Null, active |-> Null])
       \/ /\ \A u \in users : u.sub # sub
          /\ Come([n |-> began', pc |-> "insert", user |-> Nobody, login |-> l,
                   role |-> "user", password |-> Null, claim |-> sub])
    /\ UNCHANGED <<users, sessions, extending, faults, ageings, off, raced>>

\* Mutant: the values of password_hash and role are bound in the wrong order.
NewUser_BindsSwapped(id, r) ==
    [id |-> id, login |-> r.login, role |-> r.password, active |-> TRUE, password |-> r.role,
     sub |-> Null]

NewUser(id, r) ==
    [id |-> id, login |-> r.login, role |-> r.role, active |-> TRUE, password |-> r.password,
     sub |-> Null]

\* Mutant: a callback whose login is taken goes on with the account that has it.
InsertUser_LinksByLogin(r) ==
    /\ r.pc = "insert"
    /\ \/ /\ \E u \in users : u.login = r.login /\ r.claim # Null /\
                Continue(r, [n |-> r.n, pc |-> "reread", user |-> Nobody, id |-> u.id,
                             claim |-> r.claim])
          /\ UNCHANGED users
       \/ /\ \A u \in users : u.login # r.login
          /\ \E id \in Ids :
                /\ IsNextRowid(users, id)
                /\ users' = users \cup {NewUser(id, r)}
          /\ Finish(r)
    /\ UNCHANGED <<sessions, extending, began, faults, ageings, off, raced>>

\* repos::user::create; UNIQUE(login).
InsertUser(r) ==
    /\ r.pc = "insert"
    /\ \/ /\ \E u \in users : u.login = r.login
          /\ Finish(r)
          /\ UNCHANGED users
       \/ /\ \A u \in users : u.login # r.login
          /\ \E id \in Ids :
                /\ IsNextRowid(users, id)
                /\ users' = users \cup {NewUser(id, r)}
                /\ IF r.claim = Null THEN Finish(r)
                   ELSE Continue(r, [n |-> r.n, pc |-> "bind", user |-> Nobody, id |-> id,
                                     claim |-> r.claim])
    /\ UNCHANGED <<sessions, extending, began, faults, ageings, off, raced>>

\* set_oidc_sub; UNIQUE(oidc_sub). A failure leaves an account nobody can log in to.
BindSubject(r) ==
    /\ r.pc = "bind"
    /\ \/ /\ \E u \in users : u.sub = r.claim
          /\ Finish(r)
          /\ UNCHANGED users
       \/ /\ \A u \in users : u.sub # r.claim
          /\ \E u \in users : u.id = r.id /\ Put(u, [u EXCEPT !.sub = r.claim])
          /\ Continue(r, [r EXCEPT !.pc = "reread"])
    /\ UNCHANGED <<sessions, extending, began, faults, ageings, off, raced>>

\* The row that provision_user returns, and the callback's check of is_active.
RereadUser(r) ==
    /\ r.pc = "reread"
    /\ \E u \in users :
          /\ u.id = r.id
          /\ IF u.active
               THEN Continue(r, [n |-> r.n, pc |-> "open", user |-> u.id, by |-> r.claim])
               ELSE Finish(r)
    /\ UNCHANGED <<users, sessions, extending, began, faults, ageings, off, raced>>

(* Time and failures.                                                      *)

Age(s) ==
    /\ s.left > 0 /\ faults + ageings < MaxEvents
    /\ ageings' = ageings + 1
    /\ sessions' = (sessions \ {s}) \cup {[s EXCEPT !.left = s.left - 1]}
    /\ UNCHANGED <<users, requests, extending, began, faults, off, raced>>

\* A statement of a handler, or of a task that extends a session, fails.
StatementFails ==
    /\ faults + ageings < MaxEvents
    /\ faults' = faults + 1
    /\ \/ (\E r \in requests : Finish(r)) /\ UNCHANGED extending
       \/ (\E t \in extending : extending' = extending \ {t}) /\ UNCHANGED requests
    /\ UNCHANGED <<users, sessions, began, ageings, off, raced>>

\* The process dies and is started again; its tasks and handlers are gone.
Crash ==
    /\ requests # {} \/ extending # {}
    /\ faults + ageings < MaxEvents
    /\ faults' = faults + 1
    /\ requests' = {} /\ extending' = {}
    /\ UNCHANGED <<users, sessions, began, ageings, off, raced>>

Proceed(r) ==
    \/ LookUpUser(r) \/ Serve(r)
    \/ OpenSession(r) \/ FetchSession(r)
    \/ ReadUser(r) \/ WriteUser(r) \/ Revoke(r)
    \/ CheckPassword(r) \/ SetPassword(r) \/ RevokeOthers(r)
    \/ InsertUser(r) \/ BindSubject(r) \/ RereadUser(r)

Arrive ==
    \/ \E s \in sessions : Authenticate(s) \/ Logout(s)
    \/ \E u \in users : Login(u)
    \/ \E l \in Logins : \/ \E p \in Passwords : CreateAdmin(l, p)
                         \/ \E sub \in Subs : Callback(sub, l)

Next ==
    \/ Arrive
    \/ \E r \in requests : Proceed(r)
    \/ \E t \in extending : Extend(t)
    \/ \E s \in sessions : Age(s)
    \/ StatementFails \/ Crash

Spec == Init /\ [][Next]_vars

-----------------------------------------------------------------------------
(* Correctness.                                                            *)

\* The variables have their types.
TypeOK ==
    /\ users \subseteq User
    /\ sessions \subseteq Session
    /\ requests \subseteq Request
    /\ extending \subseteq Token
    /\ began \in 0 .. MaxRequests /\ faults \in 0 .. MaxEvents /\ ageings \in 0 .. MaxEvents
    /\ off \in [Ids -> 0 .. MaxRequests]
    /\ raced \in BOOLEAN

\* A handler at work for a user, or about to open a session for one, while that user is
\* inactive, came before the deactivation: what outlives it (a session that a login or a
\* failed delete left behind) admits nothing that comes later.
AdmittedBeforeDeactivation ==
    \A r \in requests, u \in users : u.id = r.user /\ ~u.active => r.n <= off[u.id]

\* At rest, and if nothing failed or overwrote what it had not read, an inactive user has
\* no session, and every session opened with a password is that of the user's present one
\* or has itself changed it: update_user and set_password leave none behind, in whatever
\* order their two statements fall among the others.
LeftoversOnlyByRaces ==
    requests = {} /\ faults = 0 /\ ~raced =>
       \A s \in sessions, u \in users :
          u.id = s.user => u.active /\ (s.by \in Passwords => s.by = u.password)

\* auth.md 10.3: a callback never opens a session for an account that its subject is not
\* bound to, one with the same login included (the INSERT fails instead).
NoAutoLinking ==
    \A s \in sessions, u \in users : u.id = s.user /\ s.by \in Subs => u.sub = s.by

\* What makes the two inductive. A request has a number already given out; the id it acts
\* on is that of a row; if it carries a subject, that row has it, except that a row waiting
\* for its subject has none and waits for one callback only.
Known(id) == \E u \in users : u.id = id
Sound(r) ==
    /\ r.n <= began
    /\ r.pc \in {"read", "write", "bind", "reread"} => Known(r.id)
    /\ r.pc = "open" => Known(r.user)
    /\ \A u \in users :
          /\ u.id = r.user /\ ~u.active => r.n <= off[u.id]
          /\ r.pc \in {"read", "write", "reread"} /\ u.id = r.id /\ r.claim # Null
                => u.sub = r.claim
          /\ r.pc = "open" /\ u.id = r.user /\ r.by \in Subs => u.sub = r.by
          /\ r.pc = "bind" /\ u.id = r.id => u.sub = Null
Linked(s) ==
    Known(s.user) /\ \A u \in users : u.id = s.user /\ s.by \in Subs => u.sub = s.by
AccountsInv ==
    /\ UniqueIds(users)
    /\ \A i \in Ids : off[i] <= began
    /\ \A s \in sessions : Linked(s)
    /\ \A r \in requests : Sound(r)
    /\ \A r, q \in requests : r.pc = "bind" /\ q.pc = "bind" /\ r.id = q.id => r = q

\* What makes LeftoversOnlyByRaces inductive: whoever is inactive with a session has a
\* deletion under way, and so has a session opened with another password than the present
\* one, from a request with another token. A callback's update leaves is_active alone.
Revoking(id) == \E r \in requests : r.pc = "revoke" /\ r.id = id
RevokingOthers(s) ==
    \E r \in requests : r.pc = "others" /\ r.id = s.user /\ r.token # s.token
LeftoversInv ==
    /\ \A r \in requests :
          r.pc \in {"read", "write"} /\ r.claim # Null => r.active = Null
    /\ faults = 0 /\ ~raced =>
          \A s \in sessions, u \in users :
             u.id = s.user => /\ u.active \/ Revoking(u.id)
                              /\ s.by \in Passwords => s.by = u.password \/ RevokingOthers(s)

\* A session that a logout, a password change or a deactivation removed does not come back
\* by the extension its last request started: only a login adds a session, its own.
RevokedStaysRevoked ==
    [][\A s \in sessions' :
          \/ \E t \in sessions : t.token = s.token
          \/ \E r \in requests : r.pc = "open" /\ s.token = LaterToken(r.n)]_vars

\* user.rs, update_user: "Non-admin cannot change role or is_active." (A profile update
\* writes both as it read them, over an admin's change in between.)
ProfileEditsKeepRoles ==
    [][\A r \in requests \ requests' :
          r.pc = "write" /\ r.role = Null /\ r.active = Null =>
             \A u \in users, v \in users' :
                u.id = r.id /\ v.id = r.id => v.role = u.role /\ v.active = u.active]_vars
=============================================================================
