---------------------------- MODULE AccountProofs ----------------------------
(***************************************************************************)
(* Theorems about Accounts, for every population, set of logins, passwords *)
(* and subjects, and number of requests, failures and ageings.             *)
(***************************************************************************)
EXTENDS AccountViews, TLAPS

LEMMA Bounds ==
    /\ Ids \subseteq Nat \ {0} /\ MaxRequests \in Nat /\ MaxEvents \in Nat
    /\ Passwords \cap Subs = {} /\ Null \notin Passwords /\ Null \notin Subs
BY AccountsAssumption

\* What a request holds at each step.
LEMMA RequestFields ==
    ASSUME NEW r \in Request
    PROVE  /\ r.n \in Stamps /\ r.user \in Requester
           /\ r.pc \in {"user", "read", "write", "revoke", "check", "set", "others", "bind",
                        "reread"} => r.id \in Ids
           /\ r.pc \in {"user", "check", "set", "others"} => r.token \in Token
           /\ r.pc = "user" => r.late \in BOOLEAN
           /\ r.pc \in {"read", "write", "insert"} => r.claim \in Claim
           /\ r.pc \in {"bind", "reread"} => r.claim \in Subs
           /\ r.pc \in {"read", "write"} =>
                 r.role \in Roles \cup {Null} /\ r.active \in BOOLEAN \cup {Null}
           /\ r.pc = "write" => r.seen \in [role : Roles, active : BOOLEAN]
           /\ r.pc \in {"check", "set", "others"} => r.password \in Passwords
           /\ r.pc = "insert" =>
                 r.login \in Logins /\ r.role \in Roles /\ r.password \in Passwords \cup {Null}
           /\ r.pc = "open" => r.user \in Ids /\ r.by \in Passwords \cup Subs
BY DEF Request, Requester
LEMMA UserFields ==
    ASSUME NEW u \in User
    PROVE  /\ u.id \in Ids /\ u.login \in Logins /\ u.role \in Roles /\ u.active \in BOOLEAN
           /\ u.password \in Passwords \cup {Null} /\ u.sub \in Subs \cup {Null}
BY DEF User

LEMMA AccountsTypeInit == Init => TypeOK
<1> SUFFICES ASSUME Init PROVE TypeOK
  OBVIOUS
<1>1. \A u \in Population : u.id \in Ids /\ u.password \in Passwords
  BY AccountsAssumption, UserFields
<1>2. \A u \in Population : FirstToken(u.id) \in Token
  BY <1>1, AccountsAssumption DEF FirstToken, Token
<1>3. sessions \subseteq Session
  BY <1>1, <1>2 DEF Init, Session
<1>4. off \in [Ids -> 0 .. MaxRequests]
  BY AccountsAssumption DEF Init
<1>5. users \subseteq User /\ requests \subseteq Request /\ extending \subseteq Token
  BY AccountsAssumption DEF Init
<1>6. /\ began \in 0 .. MaxRequests /\ faults \in 0 .. MaxEvents
      /\ ageings \in 0 .. MaxEvents
  <2>1. MaxRequests \in Nat /\ MaxEvents \in Nat /\ began = 0 /\ faults = 0 /\ ageings = 0
    BY AccountsAssumption DEF Init
  <2> QED
    BY <2>1
<1>7. raced \in BOOLEAN
  BY DEF Init
<1> QED
  BY <1>3, <1>4, <1>5, <1>6, <1>7 DEF TypeOK

\* The middleware's hand-over to a handler is well typed.
LEMMA HandlersTyped ==
    ASSUME TypeOK, NEW r \in requests, r.pc = "user", NEW u \in users,
           NEW q \in Handlers(r, u)
    PROVE  q \in Request
<1>1. /\ r.n \in Stamps /\ r.token \in Token /\ u.id \in Requester /\ u.id \in Ids
      /\ \A v \in users : v.id \in Ids
  BY RequestFields, UserFields DEF TypeOK, Requester
<1>2. \A ask \in Asks \cup {Profile} :
         ask.role \in Roles \cup {Null} /\ ask.active \in BOOLEAN \cup {Null}
  BY DEF Asks, Profile
<1>3. CASE q = [n |-> r.n, pc |-> "serve", user |-> u.id]
  BY <1>1, <1>3 DEF Request
<1>4. ASSUME NEW v \in users, NEW ask \in Asks \cup {Profile},
             q = [n |-> r.n, pc |-> "read", user |-> u.id, id |-> v.id, claim |-> Null,
                  role |-> ask.role, active |-> ask.active]
      PROVE  q \in Request
  BY <1>1, <1>2, <1>4 DEF Request, Claim
<1>5. ASSUME NEW v \in users, NEW p \in Passwords, NEW pc \in {"set", "check"},
             q = [n |-> r.n, pc |-> pc, user |-> u.id, id |-> v.id, token |-> r.token,
                  password |-> p]
      PROVE  q \in Request
  BY <1>1, <1>5 DEF Request
<1>6. ASSUME NEW l \in Logins, NEW role \in Roles, NEW p \in Passwords \cup {Null},
             q = [n |-> r.n, pc |-> "insert", user |-> u.id, login |-> l, role |-> role,
                  password |-> p, claim |-> Null]
      PROVE  q \in Request
  BY <1>1, <1>6 DEF Request, Claim
<1> QED
  BY <1>3, <1>4, <1>5, <1>6 DEF Handlers
\* A request's next step, when it is the only thing that changes.
LEMMA RequestsTyped ==
    ASSUME TypeOK, requests' \subseteq requests \cup Request,
           UNCHANGED <<users, sessions, extending, began, faults, ageings, off, raced>>
    PROVE  TypeOK'
BY DEF TypeOK

LEMMA ArriveTyped == ASSUME TypeOK, Arrive PROVE TypeOK'
<1>1. /\ \A u \in users : u \in User
      /\ \A s \in sessions : s.token \in Token /\ s.user \in Ids
  BY DEF TypeOK, Session
<1>2. ASSUME Begin
      PROVE  began' \in 0 .. MaxRequests /\ began' \in Stamps
  BY <1>2, Bounds DEF Begin, TypeOK, Stamps
<1>3. ASSUME NEW s \in sessions, Authenticate(s) PROVE TypeOK'
  <2> DEFINE q == [n |-> began', pc |-> "user", user |-> Nobody, id |-> s.user,
                   token |-> s.token, late |-> s.left = 1]
  <2>1. q \in Request
    <3>1. (s.left = 1) \in BOOLEAN
      OBVIOUS
    <3> QED
      BY <1>1, <1>2, <1>3, <3>1 DEF Authenticate, Request, Requester
  <2> QED
    BY <1>2, <1>3, <2>1 DEF Authenticate, Come, TypeOK
<1>4. ASSUME NEW s \in sessions, Logout(s) PROVE TypeOK'
  <2>1. began' \in 0 .. MaxRequests
    BY <1>4, Bounds DEF Logout, TypeOK
  <2> QED
    BY <1>4, <2>1 DEF Logout, TypeOK
<1>5. ASSUME NEW u \in users, Login(u) PROVE TypeOK'
  <2>1. [n |-> began', pc |-> "open", user |-> u.id, by |-> u.password] \in Request
    BY <1>1, <1>2, <1>5, UserFields DEF Login, VerifyPassword, Request, Requester
  <2> QED
    BY <1>2, <1>5, <2>1 DEF Login, Come, TypeOK
<1>6. ASSUME NEW l \in Logins, NEW p \in Passwords, CreateAdmin(l, p) PROVE TypeOK'
  <2>1. [n |-> began', pc |-> "insert", user |-> Nobody, login |-> l, role |-> "admin",
         password |-> p, claim |-> Null] \in Request
    BY <1>2, <1>6 DEF CreateAdmin, Request, Requester, Claim, Roles
  <2> QED
    BY <1>2, <1>6, <2>1 DEF CreateAdmin, Come, TypeOK
<1>7. ASSUME NEW l \in Logins, NEW sub \in Subs, Callback(sub, l) PROVE TypeOK'
  <2>1. [n |-> began', pc |-> "insert", user |-> Nobody, login |-> l, role |-> "user",
         password |-> Null, claim |-> sub] \in Request
    BY <1>2, <1>7 DEF Callback, Request, Requester, Claim, Roles
  <2>2. \A u \in users : [n |-> began', pc |-> "read", user |-> Nobody, id |-> u.id,
                          claim |-> sub, role |-> Null, active |-> Null] \in Request
    BY <1>1, <1>2, <1>7, UserFields DEF Callback, Request, Requester, Claim
  <2> QED
    BY <1>2, <1>7, <2>1, <2>2 DEF Callback, Come, TypeOK
<1> QED
  BY <1>3, <1>4, <1>5, <1>6, <1>7 DEF Arrive

LEMMA ProceedTyped == ASSUME TypeOK, NEW r \in requests, Proceed(r) PROVE TypeOK'
<1>1. r \in Request /\ r.n \in Stamps /\ r.user \in Requester
  BY RequestFields DEF TypeOK
<1>2. \A u \in users : u \in User
  BY DEF TypeOK
<1>3. CASE LookUpUser(r)
  <2> PICK u \in users :
         u.id = r.id /\ IF u.active THEN Admit(r, u) ELSE Finish(r) /\ UNCHANGED extending
    BY <1>3 DEF LookUpUser
  <2>1. r.pc = "user" /\ UNCHANGED <<users, sessions, began, faults, ageings, off, raced>>
    BY <1>3 DEF LookUpUser
  <2>2. r.token \in Token
    BY <1>1, <2>1, RequestFields
  <2>3. requests' \subseteq Request
    BY <2>1, HandlersTyped DEF Admit, Continue, Finish, TypeOK
  <2>4. extending' \subseteq Token
    BY <2>2 DEF Admit, TypeOK
  <2> QED
    BY <2>1, <2>3, <2>4 DEF TypeOK
<1>4. CASE Serve(r) \/ FetchSession(r)
  BY <1>4 DEF Serve, FetchSession, Finish, TypeOK
<1>5. CASE OpenSession(r)
  <2>1. r.user \in Ids /\ r.by \in Passwords \cup Subs
    BY <1>1, <1>5, RequestFields DEF OpenSession
  <2>2. [token |-> LaterToken(r.n), user |-> r.user, left |-> 2, by |-> r.by] \in Session
    BY <1>1, <2>1 DEF Session, LaterToken, Token, Stamps
  <2>3. [n |-> r.n, pc |-> "fetch", user |-> r.user] \in Request
    BY <1>1 DEF Request
  <2>4. raced' \in BOOLEAN
    BY <1>5 DEF OpenSession, TypeOK
  <2> QED
    BY <1>5, <2>2, <2>3, <2>4 DEF OpenSession, Continue, TypeOK
<1>6. CASE ReadUser(r)
  <2> PICK u \in users : /\ u.id = r.id
                         /\ Continue(r, [n |-> r.n, pc |-> "write", user |-> r.user,
                               id |-> r.id, claim |-> r.claim, role |-> r.role,
                               active |-> r.active,
                               seen |-> [role |-> u.role, active |-> u.active]])
    BY <1>6 DEF ReadUser
  <2>1. /\ r.id \in Ids /\ r.claim \in Claim /\ r.role \in Roles \cup {Null}
        /\ r.active \in BOOLEAN \cup {Null} /\ u.role \in Roles /\ u.active \in BOOLEAN
    BY <1>1, <1>2, <1>6, RequestFields, UserFields DEF ReadUser
  <2>2. [n |-> r.n, pc |-> "write", user |-> r.user, id |-> r.id, claim |-> r.claim,
         role |-> r.role, active |-> r.active,
         seen |-> [role |-> u.role, active |-> u.active]] \in Request
    BY <1>1, <2>1 DEF Request
  <2> QED
    BY <1>6, <2>2 DEF ReadUser, Continue, TypeOK
<1>7. CASE WriteUser(r)
  <2>1. /\ r.id \in Ids /\ r.claim \in Claim /\ r.role \in Roles \cup {Null}
        /\ r.active \in BOOLEAN \cup {Null} /\ r.seen \in [role : Roles, active : BOOLEAN]
        /\ r.pc = "write"
    BY <1>1, <1>7, RequestFields DEF WriteUser
  <2>2. \A u \in users : Merged(u, r) \in User
    BY <1>2, <2>1 DEF Merged, User
  <2>3. users' \subseteq User
    BY <1>7, <2>2 DEF WriteUser, Put, TypeOK
  <2>4. /\ r.claim # Null => [n |-> r.n, pc |-> "reread", user |-> Nobody, id |-> r.id,
                              claim |-> r.claim] \in Request
        /\ [n |-> r.n, pc |-> "revoke", user |-> r.user, id |-> r.id] \in Request
    BY <1>1, <2>1 DEF Request, Requester, Claim
  <2>5. requests' \subseteq Request
    BY <1>7, <2>4 DEF WriteUser, Continue, Finish, TypeOK
  <2>6. off' \in [Ids -> 0 .. MaxRequests]
    <3>1. began \in 0 .. MaxRequests /\ 0 \in 0 .. MaxRequests
      BY Bounds DEF TypeOK
    <3> QED
      BY <1>7, <3>1 DEF WriteUser, TypeOK
  <2>7. raced' \in BOOLEAN
    BY <1>7 DEF WriteUser, TypeOK
  <2> QED
    BY <1>7, <2>3, <2>5, <2>6, <2>7 DEF WriteUser, TypeOK
<1>8. CASE Revoke(r) \/ RevokeOthers(r)
  BY <1>8 DEF Revoke, RevokeOthers, Finish, TypeOK
<1>9. CASE CheckPassword(r)
  <2>1. r.pc = "check" => [r EXCEPT !.pc = "set"] \in Request
    BY <1>1 DEF Request
  <2> QED
    BY <1>9, <2>1 DEF CheckPassword, Continue, Finish, TypeOK
<1>10. CASE SetPassword(r)
  <2>1. r.password \in Passwords
    BY <1>1, <1>10, RequestFields DEF SetPassword
  <2>2. [r EXCEPT !.pc = "others"] \in Request
    BY <1>1, <1>10 DEF SetPassword, Request
  <2>3. \A u \in users : [u EXCEPT !.password = r.password] \in User
    BY <1>2, <2>1 DEF User
  <2>4. \A s \in sessions : [s EXCEPT !.by = r.password] \in Session
    BY <2>1 DEF TypeOK, Session
  <2>5. users' \subseteq User
    BY <1>10, <2>3 DEF SetPassword, Put, TypeOK
  <2>6. sessions' \subseteq Session
    BY <1>10, <2>4 DEF SetPassword, TypeOK
  <2> QED
    BY <1>10, <2>2, <2>5, <2>6 DEF SetPassword, Continue, TypeOK
<1>11. CASE InsertUser(r)
  <2>1. /\ r.login \in Logins /\ r.role \in Roles /\ r.password \in Passwords \cup {Null}
        /\ r.claim \in Claim
    BY <1>1, <1>11, RequestFields DEF InsertUser
  <2>2. \A id \in Ids : /\ NewUser(id, r) \in User
                        /\ r.claim # Null => [n |-> r.n, pc |-> "bind", user |-> Nobody,
                              id |-> id, claim |-> r.claim] \in Request
    BY <1>1, <2>1 DEF NewUser, User, Request, Requester, Claim
  <2>3. users' \subseteq User
    <3>1. users' = users \/ \E id \in Ids : users' = users \cup {NewUser(id, r)}
      BY <1>11 DEF InsertUser
    <3>2. ASSUME NEW id \in Ids, users' = users \cup {NewUser(id, r)} PROVE users' \subseteq User
      <4>1. NewUser(id, r) \in User
        BY <2>2
      <4> HIDE DEF NewUser
      <4> QED
        BY <1>2, <3>2, <4>1
    <3> QED
      BY <1>2, <3>1, <3>2
  <2>4. requests' \subseteq Request
    BY <1>11, <2>2 DEF InsertUser, Continue, Finish, TypeOK
  <2> QED
    BY <1>11, <2>3, <2>4 DEF InsertUser, TypeOK
<1>12. CASE BindSubject(r)
  <2>1. r.claim \in Subs /\ [r EXCEPT !.pc = "reread"] \in Request
    BY <1>1, <1>12, RequestFields DEF BindSubject, Request
  <2>2. \A u \in users : [u EXCEPT !.sub = r.claim] \in User
    BY <1>2, <2>1 DEF User
  <2> QED
    BY <1>12, <2>1, <2>2 DEF BindSubject, Put, Continue, Finish, TypeOK
<1>13. CASE RereadUser(r)
  <2>1. \A u \in users : [n |-> r.n, pc |-> "open", user |-> u.id, by |-> r.claim] \in Request
    BY <1>1, <1>2, <1>13, RequestFields, UserFields DEF RereadUser, Request
  <2> QED
    BY <1>13, <2>1 DEF RereadUser, Continue, Finish, TypeOK
<1> QED
  BY <1>3, <1>4, <1>5, <1>6, <1>7, <1>8, <1>9, <1>10, <1>11, <1>12, <1>13 DEF Proceed
LEMMA AccountsTypeStep == TypeOK /\ [Next]_vars => TypeOK'
<1> SUFFICES ASSUME TypeOK, [Next]_vars PROVE TypeOK'
  OBVIOUS
<1>1. CASE Arrive
  BY <1>1, ArriveTyped
<1>2. ASSUME NEW r \in requests, Proceed(r) PROVE TypeOK'
  BY <1>2, ProceedTyped
<1>3. ASSUME NEW t \in extending, Extend(t) PROVE TypeOK'
  <2>1. \A s \in sessions : [s EXCEPT !.left = 2] \in Session
    BY DEF TypeOK, Session
  <2> QED
    BY <1>3, <2>1 DEF Extend, TypeOK
<1>4. ASSUME NEW s \in sessions, Age(s) PROVE TypeOK'
  <2>1. [s EXCEPT !.left = s.left - 1] \in Session
    BY <1>4 DEF Age, TypeOK, Session
  <2>2. ageings' \in 0 .. MaxEvents
    BY <1>4, Bounds DEF Age, TypeOK
  <2> QED
    BY <1>4, <2>1, <2>2 DEF Age, TypeOK
<1>5. CASE StatementFails \/ Crash
  <2>1. faults' \in 0 .. MaxEvents
    BY <1>5, Bounds DEF StatementFails, Crash, TypeOK
  <2> QED
    BY <1>5, <2>1 DEF StatementFails, Crash, Finish, TypeOK
<1>6. CASE UNCHANGED vars
  BY <1>6 DEF vars, TypeOK
<1> QED
  BY <1>1, <1>2, <1>3, <1>4, <1>5, <1>6 DEF Next

LEMMA InvImplies == AccountsInv => AdmittedBeforeDeactivation /\ NoAutoLinking
BY DEF AccountsInv, Sound, Linked, AdmittedBeforeDeactivation, NoAutoLinking

LEMMA InvInit == Init => AccountsInv
<1> SUFFICES ASSUME Init PROVE AccountsInv
  OBVIOUS
<1>1. UniqueIds(users) /\ requests = {} /\ \A i \in Ids : off[i] <= began
  BY AccountsAssumption DEF Init
<1>2. ASSUME NEW s \in sessions PROVE Linked(s)
  <2> PICK u \in users : s.user = u.id /\ s.by = u.password
    BY DEF Init
  <2>1. u.password \in Passwords
    BY AccountsAssumption, UserFields DEF Init
  <2> QED
    BY <2>1, Bounds DEF Linked, Known
<1> QED
  BY <1>1, <1>2 DEF AccountsInv

\* A step that leaves users alone keeps the invariant if what it adds to the sessions and
\* to the requests is in order.
LEMMA UsersKept ==
    ASSUME TypeOK, AccountsInv, UNCHANGED <<users, off>>, began' \in Nat, began <= began',
           \A s \in sessions' : Linked(s),
           \A r \in requests' : r \in requests \/ (Sound(r)' /\ r.pc # "bind")
    PROVE  AccountsInv'
<1>1. began \in Nat /\ \A i \in Ids : off[i] \in Nat
  BY Bounds DEF TypeOK
<1>2. \A r \in requests : r.n \in Nat
  BY RequestFields DEF TypeOK, Stamps
<1>3. \A i \in Ids : off'[i] <= began'
  BY <1>1 DEF AccountsInv
<1>4. \A s \in sessions' : Linked(s)'
  BY DEF Linked, Known
<1>5. ASSUME NEW r \in requests PROVE Sound(r)'
  <2>1. Sound(r) /\ r.n <= began'
    BY <1>1, <1>2 DEF AccountsInv, Sound
  <2> QED
    BY <2>1 DEF Sound, Known
<1>6. \A r, q \in requests' : r.pc = "bind" /\ q.pc = "bind" /\ r.id = q.id => r = q
  BY DEF AccountsInv
<1>7. UniqueIds(users)'
  BY DEF AccountsInv
<1> QED
  BY <1>3, <1>4, <1>5, <1>6, <1>7 DEF AccountsInv

\* The same, for a step that changes one row into another of the same id and subject.
LEMMA RowChanged ==
    ASSUME TypeOK, AccountsInv, NEW u \in users, NEW v, v.id = u.id, v.sub = u.sub,
           Put(u, v), UNCHANGED began,
           \A s \in sessions' : Linked(s),
           \A i \in Ids : off'[i] <= began,
           \A i \in Ids : i # u.id => off'[i] = off[i],
           \A r \in requests : r.user = u.id /\ ~v.active => r.n <= off'[u.id],
           \A r \in requests' : r \in requests \/ (Sound(r)' /\ r.pc # "bind")
    PROVE  AccountsInv'
<1>1. users' = (users \ {u}) \cup {v}
  BY DEF Put
<1>2. \A w \in users : w.id \in Ids /\ (w.id = u.id => w = u)
  BY UserFields DEF TypeOK, AccountsInv, UniqueIds
<1>3. \A id : Known(id)' <=> Known(id)
  BY <1>1 DEF Known
<1>4. UniqueIds(users)'
  BY <1>1, <1>2 DEF AccountsInv, UniqueIds
<1>5. \A s \in sessions' : Linked(s)'
  BY <1>1, <1>3 DEF Linked
<1>6. ASSUME NEW r \in requests PROVE Sound(r)'
  <2>1. Sound(r)
    BY DEF AccountsInv
  <2>2. ASSUME NEW w \in users'
        PROVE  /\ w.id = r.user /\ ~w.active => r.n <= off'[w.id]
               /\ r.pc \in {"read", "write", "reread"} /\ w.id = r.id /\ r.claim # Null
                     => w.sub = r.claim
               /\ r.pc = "open" /\ w.id = r.user /\ r.by \in Subs => w.sub = r.by
               /\ r.pc = "bind" /\ w.id = r.id => w.sub = Null
    <3>1. CASE w = v
      BY <2>1, <3>1 DEF Sound
    <3>2. CASE w \in users /\ w.id # u.id
      BY <1>2, <2>1, <3>2 DEF Sound
    <3> QED
      BY <1>1, <1>2, <3>1, <3>2
  <2> QED
    BY <1>3, <2>1, <2>2 DEF Sound
<1>7. \A r, q \in requests' : r.pc = "bind" /\ q.pc = "bind" /\ r.id = q.id => r = q
  BY DEF AccountsInv
<1> QED
  BY <1>4, <1>5, <1>6, <1>7 DEF AccountsInv
LEMMA ArriveKeeps == ASSUME TypeOK, AccountsInv, Arrive PROVE AccountsInv'
<1>1. /\ began \in Nat /\ UNCHANGED <<users, off>> /\ began' = began + 1
      /\ \A i \in Ids : off[i] \in Nat
  <2>1. UNCHANGED <<users, off>> /\ began' = began + 1
    BY DEF Arrive, Authenticate, Logout, Login, CreateAdmin, Callback, Begin
  <2>2. began \in Nat /\ \A i \in Ids : off[i] \in Nat
    BY Bounds DEF TypeOK
  <2> QED
    BY <2>1, <2>2
<1>2. sessions' \subseteq sessions
  BY DEF Arrive, Authenticate, Logout, Login, CreateAdmin, Callback
<1>3. ASSUME NEW r \in requests', r \notin requests PROVE Sound(r)' /\ r.pc # "bind"
  <2>1. Nobody \notin Ids /\ \A u \in users : u.id \in Ids /\ u.password \in Passwords \cup {Null}
    BY Bounds, UserFields DEF Nobody, TypeOK
  <2>2. ASSUME NEW s \in sessions, Authenticate(s) PROVE Sound(r)' /\ r.pc # "bind"
    <3>1. r.pc = "user" /\ r.n = began' /\ r.user = Nobody
      BY <1>3, <2>2 DEF Authenticate, Come
    <3> QED
      BY <1>1, <2>1, <3>1 DEF Sound
  <2>3. ASSUME NEW u \in users, Login(u) PROVE Sound(r)' /\ r.pc # "bind"
    <3>1. /\ r.pc = "open" /\ r.n = began' /\ r.user = u.id /\ r.by = u.password
          /\ u.active /\ u.password # Null
      BY <1>3, <2>3 DEF Login, VerifyPassword, Come
    <3>2. r.by \notin Subs
      BY <2>1, <3>1, Bounds
    <3>3. \A w \in users : w.id = u.id => w = u
      BY DEF AccountsInv, UniqueIds
    <3>4. Known(r.user)'
      BY <1>1, <3>1 DEF Known
    <3> QED
      BY <1>1, <3>1, <3>2, <3>3, <3>4 DEF Sound
  <2>4. ASSUME NEW l \in Logins, NEW p \in Passwords, CreateAdmin(l, p)
        PROVE  Sound(r)' /\ r.pc # "bind"
    <3>1. r.pc = "insert" /\ r.n = began' /\ r.user = Nobody
      BY <1>3, <2>4 DEF CreateAdmin, Come
    <3> QED
      BY <1>1, <2>1, <3>1 DEF Sound
  <2>5. ASSUME NEW l \in Logins, NEW sub \in Subs, Callback(sub, l)
        PROVE  Sound(r)' /\ r.pc # "bind"
    <3>1. CASE r.pc = "insert" /\ r.n = began' /\ r.user = Nobody
      BY <1>1, <2>1, <3>1 DEF Sound
    <3>2. ASSUME NEW u \in users, u.sub = sub, r.pc = "read", r.n = began', r.user = Nobody,
                 r.id = u.id, r.claim = sub
          PROVE  Sound(r)' /\ r.pc # "bind"
      <4>1. \A w \in users : w.id = u.id => w = u
        BY DEF AccountsInv, UniqueIds
      <4>2. Known(r.id)'
        BY <1>1, <3>2 DEF Known
      <4> QED
        BY <1>1, <2>1, <3>2, <4>1, <4>2 DEF Sound
    <3> QED
      BY <1>3, <2>5, <3>1, <3>2 DEF Callback, Come
  <2> QED
    BY <1>3, <2>2, <2>3, <2>4, <2>5 DEF Arrive, Logout
<1> QED
  BY <1>1, <1>2, <1>3, UsersKept DEF AccountsInv

\* The steps of a request that do not write to users.
LEMMA ReadsKeep ==
    ASSUME TypeOK, AccountsInv, NEW r \in requests,
           \/ LookUpUser(r) \/ Serve(r) \/ OpenSession(r) \/ FetchSession(r) \/ ReadUser(r)
           \/ Revoke(r) \/ CheckPassword(r) \/ RevokeOthers(r) \/ RereadUser(r)
    PROVE  AccountsInv'
<1>1. /\ began \in Nat /\ UNCHANGED <<users, off, began>> /\ Sound(r)
      /\ r \in Request
  BY Bounds DEF LookUpUser, Serve, OpenSession, FetchSession, ReadUser, Revoke, CheckPassword,
     RevokeOthers, RereadUser, TypeOK, AccountsInv
<1>2. \A u, w \in users : u.id = w.id => u = w
  BY DEF AccountsInv, UniqueIds
<1>3. Nobody \notin Ids /\ \A u \in users : u.id \in Ids
  BY Bounds, UserFields DEF Nobody, TypeOK
<1>4. \A s \in sessions' : Linked(s)
  <2>1. CASE OpenSession(r)
    <3>1. Linked([token |-> LaterToken(r.n), user |-> r.user, left |-> 2, by |-> r.by])
      BY <1>1, <2>1 DEF OpenSession, Sound, Linked
    <3> QED
      BY <2>1, <3>1 DEF OpenSession, AccountsInv
  <2>2. CASE ~OpenSession(r)
    <3>1. sessions' \subseteq sessions
      BY <2>2 DEF LookUpUser, Serve, FetchSession, ReadUser, Revoke, CheckPassword,
         RevokeOthers, RereadUser
    <3> QED
      BY <3>1 DEF AccountsInv
  <2> QED
    BY <2>1, <2>2
<1>5. ASSUME NEW q \in requests', q \notin requests PROVE Sound(q)' /\ q.pc # "bind"
  <2>1. CASE LookUpUser(r)
    <3> PICK u \in users : u.id = r.id /\ u.active /\ q \in Handlers(r, u)
      BY <1>5, <2>1 DEF LookUpUser, Admit, Continue, Finish
    <3>1. /\ q.n = r.n /\ q.user = u.id
          /\ q.pc \in {"serve", "read", "set", "check", "insert"}
      BY DEF Handlers
    <3>2. q.pc = "read" => q.claim = Null /\ \E v \in users : q.id = v.id
      BY DEF Handlers
    <3> QED
      BY <1>1, <1>2, <3>1, <3>2 DEF Sound, Known
  <2>2. CASE OpenSession(r)
    <3>1. q.pc = "fetch" /\ q.n = r.n /\ q.user = r.user
      BY <1>5, <2>2 DEF OpenSession, Continue
    <3> QED
      BY <1>1, <3>1 DEF Sound
  <2>3. CASE ReadUser(r)
    <3>1. /\ q.pc = "write" /\ q.n = r.n /\ q.user = r.user /\ q.id = r.id /\ q.claim = r.claim
          /\ r.pc = "read"
      BY <1>5, <2>3 DEF ReadUser, Continue
    <3> QED
      BY <1>1, <3>1 DEF Sound, Known
  <2>4. CASE CheckPassword(r)
    <3>1. q.pc = "set" /\ q.n = r.n /\ q.user = r.user
      BY <1>1, <1>5, <2>4 DEF CheckPassword, Continue, Finish, Request
    <3> QED
      BY <1>1, <3>1 DEF Sound
  <2>5. CASE RereadUser(r)
    <3> PICK u \in users :
           u.id = r.id /\ u.active /\ q = [n |-> r.n, pc |-> "open", user |-> u.id, by |-> r.claim]
      BY <1>5, <2>5 DEF RereadUser, Continue, Finish
    <3>1. r.claim \in Subs /\ r.claim # Null /\ r.pc = "reread"
      BY <1>1, <2>5, RequestFields, Bounds DEF RereadUser
    <3>2. u.sub = r.claim
      BY <1>1, <3>1 DEF Sound
    <3> QED
      BY <1>1, <1>2, <3>1, <3>2 DEF Sound, Known
  <2>6. CASE Serve(r) \/ FetchSession(r) \/ Revoke(r) \/ RevokeOthers(r)
    BY <1>5, <2>6 DEF Serve, FetchSession, Revoke, RevokeOthers, Finish
  <2> QED
    BY <2>1, <2>2, <2>3, <2>4, <2>5, <2>6
<1> QED
  BY <1>1, <1>4, <1>5, UsersKept
\* The merged row keeps id and subject; is_active goes to FALSE with every number given out
\* so far recorded.
LEMMA WriteUserKeeps ==
    ASSUME TypeOK, AccountsInv, NEW r \in requests, WriteUser(r) PROVE AccountsInv'
<1> PICK u \in users :
       /\ u.id = r.id /\ Put(u, Merged(u, r))
       /\ off' = IF u.active = Merged(u, r).active THEN off
                 ELSE [off EXCEPT ![u.id] = IF u.active THEN began ELSE 0]
  BY DEF WriteUser
<1> DEFINE v == Merged(u, r)
<1>1. /\ began \in Nat /\ off \in [Ids -> Nat] /\ u \in User /\ u.id \in Ids /\ r.pc = "write"
      /\ Sound(r) /\ r \in Request /\ UNCHANGED <<began, sessions>>
  BY Bounds, UserFields DEF TypeOK, WriteUser, AccountsInv
<1>2. v.id = u.id /\ v.sub = u.sub
  BY <1>1 DEF Merged, User
<1>3. \A w \in users : w.id = u.id => w = u
  BY DEF AccountsInv, UniqueIds
<1>4. \A i \in Ids : off[i] <= began
  BY DEF AccountsInv
<1>5. \A i \in Ids : off'[i] <= began /\ (i # u.id => off'[i] = off[i])
  BY <1>1, <1>4
<1>6. ASSUME NEW q \in requests, q.user = u.id, ~v.active PROVE q.n <= off'[u.id]
  <2>1. q.n <= began /\ (~u.active => q.n <= off[u.id])
    BY <1>6 DEF AccountsInv, Sound
  <2>2. CASE u.active = v.active
    BY <1>6, <2>1, <2>2
  <2>3. CASE u.active # v.active
    <3>1. u.active
      <4>1. u.active \in BOOLEAN /\ v.active \in BOOLEAN
        <5>1. r.active \in BOOLEAN \cup {Null} /\ r.seen.active \in BOOLEAN
          BY <1>1, RequestFields
        <5> QED
          BY <1>1, <5>1 DEF Merged, User
      <4> HIDE DEF v
      <4> QED
        BY <1>6, <2>3, <4>1
    <3> QED
      BY <1>1, <2>1, <2>3, <3>1
  <2> QED
    BY <2>2, <2>3
<1>7. ASSUME NEW q \in requests', q \notin requests PROVE Sound(q)' /\ q.pc # "bind"
  <2>1. /\ q.n = r.n /\ q.pc \in {"reread", "revoke"} /\ q.user \in {Nobody, r.user}
        /\ q.pc = "reread" => q.id = r.id /\ q.claim = r.claim /\ r.claim # Null
    BY <1>7 DEF WriteUser, Continue, Finish
  <2>2. \A w \in users' : w.id \in Ids /\ w.id # Nobody
    BY <1>1, <1>2, Bounds, UserFields DEF Put, TypeOK, Nobody
  <2>3. users' = (users \ {u}) \cup {v}
    BY DEF Put
  <2>4. q.pc = "reread" => Known(q.id)' /\ \A w \in users' : w.id = q.id => w.sub = q.claim
    BY <1>1, <1>2, <1>3, <2>1, <2>3 DEF Known, Sound
  <2>5. ASSUME NEW w \in users', w.id = q.user, ~w.active PROVE q.n <= off'[w.id]
    <3>1. q.user = r.user
      BY <2>1, <2>2, <2>5
    <3>2. CASE w = v
      BY <1>2, <1>6, <2>1, <2>5, <3>1, <3>2
    <3>3. CASE w \in users /\ w.id # u.id
      <4>1. w.id \in Ids /\ r.n <= off[w.id]
        BY <1>1, <2>2, <2>5, <3>1, <3>3 DEF Sound
      <4> QED
        BY <1>5, <2>1, <3>3, <4>1
    <3> QED
      BY <1>3, <2>3, <3>2, <3>3
  <2> QED
    BY <1>1, <2>1, <2>4, <2>5 DEF Sound
<1>8. \A s \in sessions' : Linked(s)
  BY <1>1 DEF AccountsInv
<1> QED
  BY <1>1, <1>2, <1>5, <1>6, <1>7, <1>8, RowChanged

LEMMA SetPasswordKeeps ==
    ASSUME TypeOK, AccountsInv, NEW r \in requests, SetPassword(r) PROVE AccountsInv'
<1> PICK u \in users : u.id = r.id /\ Put(u, [u EXCEPT !.password = r.password])
  BY DEF SetPassword
<1> DEFINE v == [u EXCEPT !.password = r.password]
<1>1. /\ r \in Request /\ r.password \in Passwords /\ UNCHANGED <<began, off>> /\ Sound(r)
      /\ u \in User /\ u.id \in Ids
  BY RequestFields, UserFields DEF TypeOK, SetPassword, AccountsInv
<1>2. v.id = u.id /\ v.sub = u.sub /\ v.active = u.active
  BY <1>1 DEF User
<1>3. \A s \in sessions' : Linked(s)
  <2>1. \A s \in sessions : s \in Session /\ Linked(s)
    BY DEF TypeOK, AccountsInv
  <2>2. ASSUME NEW s \in sessions PROVE Linked([s EXCEPT !.by = r.password])
    BY <1>1, <2>1, Bounds DEF Session, Linked
  <2> QED
    BY <2>1, <2>2 DEF SetPassword
<1>4. ASSUME NEW q \in requests', q \notin requests PROVE Sound(q)' /\ q.pc # "bind"
  <2>1. q.pc = "others" /\ q.n = r.n /\ q.user = r.user
    BY <1>1, <1>4 DEF SetPassword, Continue, Request
  <2>2. ASSUME NEW w \in users' PROVE \E x \in users : x.id = w.id /\ x.active = w.active
    BY <1>2 DEF Put
  <2> QED
    BY <1>1, <2>1, <2>2 DEF Sound
<1>5. \A i \in Ids : off'[i] <= began
  BY <1>1 DEF AccountsInv
<1>6. \A q \in requests : q.user = u.id /\ ~v.active => q.n <= off'[u.id]
  BY <1>1, <1>2 DEF AccountsInv, Sound
<1> QED
  BY <1>1, <1>2, <1>3, <1>4, <1>5, <1>6, RowChanged
\* A new row has an id no row has; nothing relies on it but the request that inserted it.
LEMMA InsertUserKeeps ==
    ASSUME TypeOK, AccountsInv, NEW r \in requests, InsertUser(r) PROVE AccountsInv'
<1>1. /\ began \in Nat /\ Sound(r) /\ UNCHANGED <<began, off, sessions>>
      /\ \A u \in users : u.id \in Nat
  <2>1. Sound(r) /\ UNCHANGED <<began, off, sessions>>
    BY DEF InsertUser, AccountsInv
  <2>2. began \in Nat
    BY Bounds DEF TypeOK
  <2>3. \A u \in users : u.id \in Ids
    BY UserFields DEF TypeOK
  <2> QED
    BY <2>1, <2>2, <2>3, Bounds
<1>2. CASE UNCHANGED users
  <2>1. requests' \subseteq requests
    <3>1. \A id \in Ids : IsNextRowid(users, id) => NewUser(id, r) \notin users
      BY <1>1, Bounds DEF IsNextRowid, NewUser
    <3> QED
      BY <1>2, <3>1 DEF InsertUser, Finish
  <2>2. \A s \in sessions' : Linked(s)
    BY <1>1 DEF AccountsInv
  <2> QED
    BY <1>1, <1>2, <2>1, <2>2, UsersKept
<1>3. ASSUME NEW id \in Ids, IsNextRowid(users, id), users' = users \cup {NewUser(id, r)},
             IF r.claim = Null THEN Finish(r)
             ELSE Continue(r, [n |-> r.n, pc |-> "bind", user |-> Nobody, id |-> id,
                               claim |-> r.claim])
      PROVE  AccountsInv'
  <2> DEFINE v == NewUser(id, r)
  <2>1. v.id = id /\ v.active /\ v.sub = Null
    BY DEF NewUser
  <2>2. \A u \in users : u.id # id
    BY <1>1, <1>3, Bounds DEF IsNextRowid
  <2>3. \A i : Known(i) => Known(i)' /\ i # id
    BY <1>3, <2>2 DEF Known
  <2>4. UniqueIds(users)'
    BY <1>3, <2>1, <2>2 DEF AccountsInv, UniqueIds
  <2>5. \A s \in sessions' : Linked(s)'
    BY <1>1, <1>3, <2>1, <2>3 DEF AccountsInv, Linked
  <2>6. ASSUME NEW q \in requests PROVE Sound(q)'
    <3>1. Sound(q)
      BY DEF AccountsInv
    <3>2. /\ q.pc \in {"read", "write", "bind", "reread"} => q.id # id
          /\ q.pc = "open" => q.user # id
      BY <2>3, <3>1 DEF Sound
    <3> QED
      BY <1>1, <1>3, <2>1, <2>3, <3>1, <3>2 DEF Sound
  <2>7. ASSUME NEW q \in requests', q \notin requests
        PROVE  Sound(q)' /\ q.pc = "bind" /\ q.id = id
    <3>1. q.pc = "bind" /\ q.id = id /\ q.n = r.n /\ q.user = Nobody
      BY <1>3, <2>7 DEF Finish, Continue
    <3>2. \A u \in users' : u.id # Nobody
      BY <1>3, <2>1, Bounds, UserFields DEF TypeOK, Nobody
    <3>3. \A u \in users' : u.id = id => u.sub = Null
      BY <1>3, <2>1, <2>2
    <3>4. Known(id)'
      BY <1>3, <2>1 DEF Known
    <3> QED
      BY <1>1, <3>1, <3>2, <3>3, <3>4 DEF Sound
  <2>8. ASSUME NEW p \in requests', NEW q \in requests',
               p.pc = "bind", q.pc = "bind", p.id = q.id
        PROVE  p = q
    <3>1. \A x \in requests : x.pc = "bind" => x.id # id
      BY <2>3 DEF AccountsInv, Sound
    <3>2. CASE p \in requests /\ q \in requests
      BY <2>8, <3>2 DEF AccountsInv
    <3>3. CASE p \notin requests /\ q \notin requests
      BY <1>3, <3>3 DEF Finish, Continue
    <3> QED
      BY <2>7, <2>8, <3>1, <3>2, <3>3
  <2> QED
    BY <1>1, <2>4, <2>5, <2>6, <2>7, <2>8 DEF AccountsInv
<1> QED
  BY <1>2, <1>3 DEF InsertUser

\* Nothing yet relied on the subject of the row that gets one.
LEMMA BindSubjectKeeps ==
    ASSUME TypeOK, AccountsInv, NEW r \in requests, BindSubject(r) PROVE AccountsInv'
<1>1. /\ began \in Nat /\ Sound(r) /\ UNCHANGED <<began, off, sessions>> /\ r.pc = "bind"
      /\ r \in Request /\ r.claim \in Subs
  BY Bounds, RequestFields DEF TypeOK, BindSubject, AccountsInv
<1>2. CASE UNCHANGED users /\ Finish(r)
  <2>1. \A s \in sessions' : Linked(s)
    BY <1>1 DEF AccountsInv
  <2> QED
    BY <1>1, <1>2, <2>1, UsersKept DEF Finish
<1>3. ASSUME NEW u \in users, u.id = r.id, Put(u, [u EXCEPT !.sub = r.claim]),
             Continue(r, [r EXCEPT !.pc = "reread"])
      PROVE  AccountsInv'
  <2> DEFINE v == [u EXCEPT !.sub = r.claim]
             q0 == [r EXCEPT !.pc = "reread"]
  <2>1. /\ v.id = u.id /\ v.active = u.active /\ v.sub = r.claim /\ u.sub = Null
        /\ users' = (users \ {u}) \cup {v}
    BY <1>1, <1>3, UserFields DEF Put, TypeOK, User, Sound
  <2>2. \A w \in users : w.id = u.id => w = u
    BY DEF AccountsInv, UniqueIds
  <2>3. \A i : Known(i)' <=> Known(i)
    BY <2>1 DEF Known
  <2>4. UniqueIds(users)'
    BY <2>1, <2>2 DEF AccountsInv, UniqueIds
  <2>5. ASSUME NEW s \in sessions' PROVE Linked(s)'
    <3>1. Linked(s)
      BY <1>1 DEF AccountsInv
    <3>2. s.user = u.id => s.by \notin Subs
      BY <2>1, <3>1, Bounds DEF Linked
    <3> QED
      BY <2>1, <2>3, <3>1, <3>2 DEF Linked
  <2>6. ASSUME NEW q \in requests, q # r PROVE Sound(q)'
    <3>1. Sound(q)
      BY DEF AccountsInv
    <3>2. /\ q.pc \in {"read", "write", "reread"} /\ q.id = u.id => q.claim = Null
          /\ q.pc = "open" /\ q.user = u.id => q.by \notin Subs
      BY <2>1, <3>1, Bounds DEF Sound
    <3>3. ~(q.pc = "bind" /\ q.id = u.id)
      BY <1>1, <1>3, <2>6 DEF AccountsInv
    <3>4. ASSUME NEW w \in users'
          PROVE  /\ w.id = q.user /\ ~w.active => q.n <= off'[w.id]
                 /\ q.pc \in {"read", "write", "reread"} /\ w.id = q.id /\ q.claim # Null
                       => w.sub = q.claim
                 /\ q.pc = "open" /\ w.id = q.user /\ q.by \in Subs => w.sub = q.by
                 /\ q.pc = "bind" /\ w.id = q.id => w.sub = Null
      <4>1. CASE w = v
        BY <1>1, <2>1, <3>1, <3>2, <3>3, <4>1 DEF Sound
      <4>2. CASE w \in users
        BY <1>1, <3>1, <4>2 DEF Sound
      <4> QED
        BY <2>1, <4>1, <4>2
    <3> QED
      BY <1>1, <2>3, <3>1, <3>4 DEF Sound
  <2>7. Sound(q0)' /\ q0.pc # "bind"
    <3>1. /\ q0.pc = "reread" /\ q0.n = r.n /\ q0.user = r.user /\ q0.id = r.id
          /\ q0.claim = r.claim
      BY <1>1 DEF Request
    <3>2. \A w \in users' : /\ w.id = r.user /\ ~w.active => r.n <= off'[w.id]
                            /\ w.id = r.id => w.sub = r.claim
      BY <1>1, <1>3, <2>1, <2>2 DEF Sound
    <3>3. Known(r.id)'
      BY <1>1, <2>3 DEF Sound
    <3> HIDE DEF q0
    <3> QED
      BY <1>1, <3>1, <3>2, <3>3 DEF Sound
  <2>8. requests' = (requests \ {r}) \cup {q0}
    BY <1>3 DEF Continue
  <2> QED
    BY <1>1, <2>4, <2>5, <2>6, <2>7, <2>8 DEF AccountsInv
<1> QED
  BY <1>2, <1>3 DEF BindSubject

LEMMA InvStep == TypeOK /\ AccountsInv /\ [Next]_vars => AccountsInv'
<1> SUFFICES ASSUME TypeOK, AccountsInv, [Next]_vars PROVE AccountsInv'
  OBVIOUS
<1>1. CASE Arrive
  BY <1>1, ArriveKeeps
<1>2. ASSUME NEW r \in requests, Proceed(r) PROVE AccountsInv'
  BY <1>2, ReadsKeep, WriteUserKeeps, SetPasswordKeeps, InsertUserKeeps, BindSubjectKeeps
  DEF Proceed
<1>3. began \in Nat
  BY Bounds DEF TypeOK
<1>4. ASSUME UNCHANGED <<users, off, began>>, requests' \subseteq requests,
             \A s \in sessions' : \E t \in sessions : s.user = t.user /\ s.by = t.by
      PROVE  AccountsInv'
  <2>1. \A s \in sessions' : Linked(s)
    BY <1>4 DEF AccountsInv, Linked
  <2> QED
    BY <1>3, <1>4, <2>1, UsersKept
<1>5. ASSUME NEW t \in extending, Extend(t) PROVE AccountsInv'
  <2>1. \A s \in sessions : [s EXCEPT !.left = 2].user = s.user /\ [s EXCEPT !.left = 2].by = s.by
    BY DEF TypeOK, Session
  <2> QED
    BY <1>4, <1>5, <2>1 DEF Extend
<1>6. ASSUME NEW s \in sessions, Age(s) PROVE AccountsInv'
  <2> DEFINE t == [s EXCEPT !.left = s.left - 1]
  <2>1. t.user = s.user /\ t.by = s.by
    BY DEF TypeOK, Session
  <2> QED
    BY <1>4, <1>6, <2>1 DEF Age
<1>7. CASE StatementFails \/ Crash \/ UNCHANGED vars
  BY <1>4, <1>7 DEF StatementFails, Crash, Finish, vars
<1> QED
  BY <1>1, <1>2, <1>5, <1>6, <1>7 DEF Next
-----------------------------------------------------------------------------
(* What is left behind: LeftoversInv is inductive, given the invariant.     *)

\* What a session and a user need of each other, in the state and in the next one.
Tidy(s, u) ==
    /\ u.active \/ Revoking(u.id)
    /\ s.by \in Passwords => s.by = u.password \/ RevokingOthers(s)

\* A request other than a pending deletion may come and go.
LEMMA DeletionsKept ==
    ASSUME \A q \in requests : q.pc \in {"revoke", "others"} => q \in requests'
    PROVE  /\ \A id : Revoking(id) => Revoking(id)'
           /\ \A s : RevokingOthers(s) => RevokingOthers(s)'
BY DEF Revoking, RevokingOthers

LEMMA LeftoversInit == Init => LeftoversInv
<1> SUFFICES ASSUME Init PROVE LeftoversInv
  OBVIOUS
<1>1. requests = {} /\ users = Population
  BY DEF Init
<1>2. ASSUME NEW s \in sessions, NEW u \in users, u.id = s.user
      PROVE  u.active /\ s.by = u.password
  <2> PICK w \in users : s.user = w.id /\ s.by = w.password
    BY DEF Init
  <2>1. w = u
    BY <1>1, <1>2, AccountsAssumption DEF UniqueIds
  <2> QED
    BY <1>1, <2>1, AccountsAssumption
<1> QED
  BY <1>1, <1>2 DEF LeftoversInv

\* A step that leaves users, pending deletions and what the sessions hold alone.
LEMMA LeftoversUntouched ==
    ASSUME LeftoversInv, UNCHANGED <<users, raced>>, faults = faults',
           \A q \in requests : q.pc \in {"revoke", "others"} => q \in requests',
           \A s \in sessions' : \E t \in sessions :
              s.token = t.token /\ s.user = t.user /\ s.by = t.by,
           \A r \in requests' : r.pc \in {"read", "write"} /\ r.claim # Null => r.active = Null
    PROVE  LeftoversInv'
<1> SUFFICES ASSUME faults = 0, ~raced, NEW s \in sessions', NEW u \in users, u.id = s.user
             PROVE  Tidy(s, u)'
  BY DEF LeftoversInv, Tidy
<1> PICK t \in sessions : s.token = t.token /\ s.user = t.user /\ s.by = t.by
  OBVIOUS
<1>1. Tidy(t, u)
  BY DEF LeftoversInv, Tidy
<1>2. RevokingOthers(t) => RevokingOthers(s)'
  BY DEF RevokingOthers
<1> QED
  BY <1>1, <1>2, DeletionsKept DEF Tidy

\* What a request asks for when it comes, or when the middleware hands it over.
LEMMA ArriveLeaves == ASSUME TypeOK, LeftoversInv, Arrive PROVE LeftoversInv'
<1>1. /\ UNCHANGED <<users, raced, faults>> /\ sessions' \subseteq sessions
      /\ requests \subseteq requests'
  BY DEF Arrive, Authenticate, Logout, Login, CreateAdmin, Callback, Come
<1>2. \A r \in requests' \ requests :
         r.pc \in {"user", "open", "insert"} \/ (r.pc = "read" /\ r.active = Null)
  BY DEF Arrive, Authenticate, Logout, Login, CreateAdmin, Callback, Come
<1>3. \A r \in requests' : r.pc \in {"read", "write"} /\ r.claim # Null => r.active = Null
  BY <1>1, <1>2 DEF LeftoversInv
<1> QED
  BY <1>1, <1>3, LeftoversUntouched

LEMMA ReadsLeave ==
    ASSUME TypeOK, LeftoversInv, NEW r \in requests,
           \/ LookUpUser(r) \/ Serve(r) \/ FetchSession(r) \/ ReadUser(r) \/ CheckPassword(r)
           \/ RereadUser(r)
    PROVE  LeftoversInv'
<1>1. /\ UNCHANGED <<users, raced, faults, sessions>>
      /\ r.pc \notin {"revoke", "others"}
  BY DEF LookUpUser, Serve, FetchSession, ReadUser, CheckPassword, RereadUser
<1>2. requests \ {r} \subseteq requests'
  BY DEF LookUpUser, Serve, FetchSession, ReadUser, CheckPassword, RereadUser, Admit, Continue,
     Finish
<1>3. ASSUME NEW q \in requests', q \notin requests, q.pc \in {"read", "write"}, q.claim # Null
      PROVE  q.active = Null
  <2>1. CASE LookUpUser(r)
    <3> PICK u \in users : q \in Handlers(r, u)
      BY <1>3, <2>1 DEF LookUpUser, Admit, Continue, Finish
    <3> QED
      BY <1>3 DEF Handlers
  <2>2. CASE ReadUser(r)
    <3>1. q.claim = r.claim /\ q.active = r.active /\ r.pc = "read"
      BY <1>3, <2>2 DEF ReadUser, Continue
    <3> QED
      BY <1>3, <3>1 DEF LeftoversInv
  <2>3. CASE CheckPassword(r)
    <3>1. r.pc = "check" /\ r \in Request
      BY <2>3 DEF CheckPassword, TypeOK
    <3>2. q.pc = "set"
      BY <1>3, <2>3, <3>1 DEF CheckPassword, Continue, Finish, Request
    <3> QED
      BY <1>3, <3>2
  <2>4. CASE RereadUser(r)
    BY <1>3, <2>4 DEF RereadUser, Continue, Finish
  <2>5. CASE Serve(r) \/ FetchSession(r)
    BY <1>3, <2>5 DEF Serve, FetchSession, Finish
  <2> QED
    BY <2>1, <2>2, <2>3, <2>4, <2>5
<1>4. \A q \in requests' : q.pc \in {"read", "write"} /\ q.claim # Null => q.active = Null
  BY <1>3 DEF LeftoversInv
<1> QED
  BY <1>1, <1>2, <1>4, LeftoversUntouched

\* A login that relied on an old row has set raced; the row it found is the present one.
LEMMA OpenLeaves ==
    ASSUME TypeOK, LeftoversInv, NEW r \in requests, OpenSession(r) PROVE LeftoversInv'
<1> DEFINE t == [token |-> LaterToken(r.n), user |-> r.user, left |-> 2, by |-> r.by]
<1>1. /\ UNCHANGED <<users, faults>> /\ sessions' = sessions \cup {t} /\ r.pc = "open"
      /\ requests \ {r} \subseteq requests'
      /\ \A q \in requests' \ requests : q.pc = "fetch"
  BY DEF OpenSession, Continue
<1>2. \A q \in requests' : q.pc \in {"read", "write"} /\ q.claim # Null => q.active = Null
  BY <1>1 DEF LeftoversInv
<1>3. ASSUME faults = 0, ~raced', NEW s \in sessions', NEW u \in users, u.id = s.user
      PROVE  Tidy(s, u)'
  <2>1. ~raced /\ \A w \in users : w.id = r.user => w.active /\ r.by \in {w.password, w.sub}
    BY <1>3 DEF OpenSession, TypeOK
  <2>2. CASE s \in sessions
    <3>1. Tidy(s, u)
      BY <1>3, <2>1, <2>2 DEF LeftoversInv, Tidy
    <3> QED
      BY <1>1, <3>1, DeletionsKept DEF Tidy
  <2>3. CASE s = t
    <3>1. u.active /\ s.by \in {u.password, u.sub}
      BY <1>3, <2>1, <2>3
    <3>2. u.sub \notin Passwords
      BY Bounds, UserFields DEF TypeOK
    <3> QED
      BY <1>1, <3>1, <3>2 DEF Tidy
  <2> QED
    BY <1>1, <2>2, <2>3
<1> QED
  BY <1>1, <1>2, <1>3 DEF LeftoversInv, Tidy

\* If what update_user read was still so, only a request to deactivate does, and it goes on
\* to delete the sessions.
LEMMA WriteLeaves ==
    ASSUME TypeOK, AccountsInv, LeftoversInv, NEW r \in requests, WriteUser(r)
    PROVE  LeftoversInv'
<1> PICK u \in users : /\ u.id = r.id /\ Put(u, Merged(u, r))
                       /\ raced' = (raced \/ r.seen # [role |-> u.role, active |-> u.active])
  BY DEF WriteUser
<1> DEFINE v == Merged(u, r)
<1>1. /\ UNCHANGED <<sessions, faults>> /\ r.pc = "write" /\ r \in Request /\ u \in User
      /\ requests \ {r} \subseteq requests'
      /\ \A q \in requests' \ requests : q.pc \in {"reread", "revoke"}
      /\ users' = (users \ {u}) \cup {v}
  BY DEF WriteUser, Continue, Finish, TypeOK, Put
<1>2. /\ v.id = u.id /\ v.password = u.password
      /\ v.active = IF r.active = Null THEN r.seen.active ELSE r.active
      /\ r.active \in BOOLEAN \cup {Null}
  BY <1>1, RequestFields DEF Merged, User
<1>3. \A q \in requests' : q.pc \in {"read", "write"} /\ q.claim # Null => q.active = Null
  BY <1>1 DEF LeftoversInv
<1>4. r.claim # Null => r.active = Null
  BY <1>1 DEF LeftoversInv
<1>5. ASSUME faults = 0, ~raced', NEW s \in sessions, NEW w \in users', w.id = s.user
      PROVE  Tidy(s, w)'
  <2>1. ~raced /\ r.seen.active = u.active
    <3>1. ~raced /\ r.seen = [role |-> u.role, active |-> u.active]
      BY <1>5 DEF TypeOK
    <3> QED
      BY <3>1
  <2>2. CASE w \in users
    <3>1. Tidy(s, w)
      BY <1>5, <2>1, <2>2 DEF LeftoversInv, Tidy
    <3> QED
      BY <1>1, <3>1, DeletionsKept DEF Tidy
  <2>3. CASE w = v
    <3>1. Tidy(s, u)
      BY <1>2, <1>5, <2>1, <2>3 DEF LeftoversInv, Tidy
    <3>2. CASE r.active = FALSE
      <4>1. [n |-> r.n, pc |-> "revoke", user |-> r.user, id |-> r.id] \in requests'
        <5>1. r.claim = Null
          BY <1>4, <3>2, AccountsAssumption
        <5> QED
          BY <3>2, <5>1 DEF WriteUser, Continue
      <4>2. Revoking(w.id)'
        BY <1>2, <2>3, <4>1 DEF Revoking
      <4> QED
        BY <1>1, <1>2, <2>3, <3>1, <4>2, DeletionsKept DEF Tidy
    <3>3. CASE r.active # FALSE
      <4>1. u.active => v.active
        BY <1>2, <2>1, <3>3
      <4> QED
        BY <1>1, <1>2, <2>3, <3>1, <4>1, DeletionsKept DEF Tidy
    <3> QED
      BY <3>2, <3>3
  <2> QED
    BY <1>1, <2>2, <2>3
<1> QED
  BY <1>1, <1>3, <1>5 DEF LeftoversInv, Tidy

\* The changer's session has the new password, the others of the account their deletion.
LEMMA SetPasswordLeaves ==
    ASSUME TypeOK, AccountsInv, LeftoversInv, NEW r \in requests, SetPassword(r)
    PROVE  LeftoversInv'
<1> PICK u \in users : u.id = r.id /\ Put(u, [u EXCEPT !.password = r.password])
  BY DEF SetPassword
<1> DEFINE v == [u EXCEPT !.password = r.password]
           o == [r EXCEPT !.pc = "others"]
<1>1. /\ UNCHANGED <<faults, raced>> /\ r.pc = "set" /\ r \in Request /\ u \in User
      /\ requests' = (requests \ {r}) \cup {o}
      /\ users' = (users \ {u}) \cup {v}
  BY DEF SetPassword, Continue, TypeOK, Put
<1>2. /\ v.id = u.id /\ v.active = u.active /\ v.password = r.password
      /\ o.pc = "others" /\ o.id = r.id /\ o.token = r.token
  BY <1>1 DEF User, Request
<1>3. \A q \in requests' : q.pc \in {"read", "write"} /\ q.claim # Null => q.active = Null
  BY <1>1, <1>2 DEF LeftoversInv
<1>4. ASSUME NEW s \in sessions'
      PROVE  \E t \in sessions : /\ s.token = t.token /\ s.user = t.user
                                 /\ IF t.token = r.token /\ t.user = r.id
                                      THEN s.by = r.password ELSE s.by = t.by
  <2> PICK t \in sessions : s = IF t.token = r.token /\ t.user = r.id
                                  THEN [t EXCEPT !.by = r.password] ELSE t
    BY DEF SetPassword
  <2>1. t \in Session
    BY DEF TypeOK
  <2> QED
    BY <2>1 DEF Session
<1>5. ASSUME faults = 0, ~raced, NEW s \in sessions', NEW w \in users', w.id = s.user
      PROVE  Tidy(s, w)'
  <2> PICK t \in sessions : /\ s.token = t.token /\ s.user = t.user
                            /\ IF t.token = r.token /\ t.user = r.id
                                 THEN s.by = r.password ELSE s.by = t.by
    BY <1>4
  <2>1. RevokingOthers(t) => RevokingOthers(s)'
    <3>1. \A x : RevokingOthers(x) => RevokingOthers(x)'
      BY <1>1, DeletionsKept
    <3> QED
      BY <3>1 DEF RevokingOthers
  <2>2. \A id : Revoking(id) => Revoking(id)'
    BY <1>1, DeletionsKept
  <2>3. CASE w = v
    <3>1. Tidy(t, u)
      BY <1>2, <1>5, <2>3 DEF LeftoversInv, Tidy
    <3>2. s.by = r.password \/ RevokingOthers(s)'
      <4>1. CASE t.token = r.token
        BY <1>2, <1>5, <2>3, <4>1
      <4>2. CASE t.token # r.token
        <5>1. o \in requests' /\ o.pc = "others" /\ o.id = s.user /\ o.token # s.token
          BY <1>1, <1>2, <1>5, <2>3, <4>2
        <5> HIDE DEF o
        <5> QED
          BY <5>1 DEF RevokingOthers
      <4> QED
        BY <4>1, <4>2
    <3> QED
      BY <1>2, <2>2, <2>3, <3>1, <3>2 DEF Tidy
  <2>4. CASE w \in users /\ w # u
    <3>1. Tidy(t, w) /\ s.by = t.by
      <4>1. w.id # u.id
        BY <2>4 DEF AccountsInv, UniqueIds
      <4> QED
        BY <1>5, <2>4, <4>1 DEF LeftoversInv, Tidy
    <3> QED
      BY <2>1, <2>2, <3>1 DEF Tidy
  <2> QED
    BY <1>1, <2>3, <2>4
<1> QED
  BY <1>1, <1>3, <1>5 DEF LeftoversInv, Tidy

\* A deletion of sessions leaves none that it was to remove.
LEMMA DeletionLeaves ==
    ASSUME TypeOK, LeftoversInv, NEW r \in requests, Revoke(r) \/ RevokeOthers(r)
    PROVE  LeftoversInv'
<1>1. /\ UNCHANGED <<users, faults, raced>> /\ requests' = requests \ {r}
      /\ sessions' \subseteq sessions /\ r.pc \in {"revoke", "others"}
  BY DEF Revoke, RevokeOthers, Finish
<1>2. \A q \in requests' : q.pc \in {"read", "write"} /\ q.claim # Null => q.active = Null
  BY <1>1 DEF LeftoversInv
<1>3. ASSUME faults = 0, ~raced, NEW s \in sessions', NEW u \in users, u.id = s.user
      PROVE  Tidy(s, u)'
  <2>1. Tidy(s, u)
    BY <1>1, <1>3 DEF LeftoversInv, Tidy
  <2>2. CASE Revoke(r)
    <3>1. s.user # r.id /\ r.pc = "revoke"
      BY <2>2 DEF Revoke
    <3>2. /\ Revoking(u.id) => Revoking(u.id)'
          /\ RevokingOthers(s) => RevokingOthers(s)'
      BY <1>1, <1>3, <3>1 DEF Revoking, RevokingOthers
    <3> QED
      BY <1>1, <2>1, <3>2 DEF Tidy
  <2>3. CASE RevokeOthers(r)
    <3>1. (s.user # r.id \/ s.token = r.token) /\ r.pc = "others"
      BY <2>3 DEF RevokeOthers
    <3>2. /\ Revoking(u.id) => Revoking(u.id)'
          /\ RevokingOthers(s) => RevokingOthers(s)'
      BY <1>1, <1>3, <3>1 DEF Revoking, RevokingOthers
    <3> QED
      BY <1>1, <2>1, <3>2 DEF Tidy
  <2> QED
    BY <2>2, <2>3
<1> QED
  BY <1>1, <1>2, <1>3 DEF LeftoversInv, Tidy

\* A new row has no session yet; a subject bound to a row changes nothing here.
LEMMA InsertLeaves ==
    ASSUME TypeOK, AccountsInv, LeftoversInv, NEW r \in requests,
           InsertUser(r) \/ BindSubject(r)
    PROVE  LeftoversInv'
<1>1. /\ UNCHANGED <<sessions, faults, raced>> /\ r \in Request /\ r.pc \in {"insert", "bind"}
      /\ requests \ {r} \subseteq requests'
  BY DEF InsertUser, BindSubject, Continue, Finish, TypeOK
<1>2. \A q \in requests' \ requests : q.pc \in {"bind", "reread"}
  <2>1. CASE InsertUser(r)
    BY <2>1 DEF InsertUser, Continue, Finish
  <2>2. CASE BindSubject(r)
    <3> DEFINE o == [r EXCEPT !.pc = "reread"]
    <3>1. o.pc = "reread"
      BY <1>1 DEF Request
    <3>2. requests' \subseteq (requests \ {r}) \cup {o}
      BY <2>2 DEF BindSubject, Continue, Finish
    <3> HIDE DEF o
    <3> QED
      BY <3>1, <3>2
  <2> QED
    BY <2>1, <2>2
<1>3. \A q \in requests' : q.pc \in {"read", "write"} /\ q.claim # Null => q.active = Null
  BY <1>1, <1>2 DEF LeftoversInv
<1>4. ASSUME NEW s \in sessions, NEW w \in users', w.id = s.user
      PROVE  \E u \in users : u.id = w.id /\ u.active = w.active /\ u.password = w.password
  <2>1. CASE w \in users
    BY <2>1
  <2>2. CASE w \notin users /\ InsertUser(r)
    <3> PICK id \in Ids : IsNextRowid(users, id) /\ w = NewUser(id, r)
      BY <1>4, <2>2 DEF InsertUser
    <3>1. Known(id)
      BY <1>4 DEF NewUser, AccountsInv, Linked
    <3>2. \A u \in users : u.id \in Nat
      BY Bounds, UserFields DEF TypeOK
    <3> QED
      BY <3>1, <3>2, Bounds DEF Known, IsNextRowid
  <2>3. CASE w \notin users /\ BindSubject(r)
    <3> PICK u \in users : w = [u EXCEPT !.sub = r.claim]
      BY <1>4, <2>3 DEF BindSubject, Put
    <3>1. u \in User
      BY DEF TypeOK
    <3> QED
      BY <3>1 DEF User
  <2> QED
    BY <2>1, <2>2, <2>3
<1>5. ASSUME faults = 0, ~raced, NEW s \in sessions, NEW w \in users', w.id = s.user
      PROVE  Tidy(s, w)'
  <2> PICK u \in users : u.id = w.id /\ u.active = w.active /\ u.password = w.password
    BY <1>4, <1>5
  <2>1. Tidy(s, u)
    BY <1>5 DEF LeftoversInv, Tidy
  <2> QED
    BY <1>1, <2>1, DeletionsKept DEF Tidy
<1> QED
  BY <1>1, <1>3, <1>5 DEF LeftoversInv, Tidy

LEMMA LeftoversStep == TypeOK /\ AccountsInv /\ LeftoversInv /\ [Next]_vars => LeftoversInv'
<1> SUFFICES ASSUME TypeOK, AccountsInv, LeftoversInv, [Next]_vars PROVE LeftoversInv'
  OBVIOUS
<1>1. CASE Arrive
  BY <1>1, ArriveLeaves
<1>2. ASSUME NEW r \in requests, Proceed(r) PROVE LeftoversInv'
  BY <1>2, ReadsLeave, OpenLeaves, WriteLeaves, SetPasswordLeaves, DeletionLeaves, InsertLeaves
  DEF Proceed
<1>3. ASSUME NEW t \in extending, Extend(t) PROVE LeftoversInv'
  <2>1. UNCHANGED <<users, requests, faults, raced>>
    BY <1>3 DEF Extend
  <2>2. ASSUME NEW s \in sessions'
        PROVE  \E x \in sessions : s.token = x.token /\ s.user = x.user /\ s.by = x.by
    <3> PICK x \in sessions : s = IF x.token = t THEN [x EXCEPT !.left = 2] ELSE x
      BY <1>3, <2>2 DEF Extend
    <3>1. x \in Session
      BY DEF TypeOK
    <3> QED
      BY <3>1 DEF Session
  <2>3. \A r \in requests' : r.pc \in {"read", "write"} /\ r.claim # Null => r.active = Null
    BY <2>1 DEF LeftoversInv
  <2> QED
    BY <2>1, <2>2, <2>3, LeftoversUntouched
<1>4. ASSUME NEW s \in sessions, Age(s) PROVE LeftoversInv'
  <2> DEFINE x == [s EXCEPT !.left = s.left - 1]
  <2>1. x.token = s.token /\ x.user = s.user /\ x.by = s.by
    BY DEF TypeOK, Session
  <2>2. sessions' = (sessions \ {s}) \cup {x} /\ UNCHANGED <<users, requests, faults, raced>>
    BY <1>4 DEF Age
  <2> HIDE DEF x
  <2> QED
    BY <2>1, <2>2, LeftoversUntouched DEF LeftoversInv
<1>5. CASE StatementFails \/ Crash
  <2>1. faults' # 0 /\ requests' \subseteq requests
    <3>1. faults \in Nat
      BY Bounds DEF TypeOK
    <3> QED
      BY <1>5, <3>1 DEF StatementFails, Crash, Finish
  <2> QED
    BY <2>1 DEF LeftoversInv
<1>6. CASE UNCHANGED vars
  BY <1>6, LeftoversUntouched DEF vars, LeftoversInv
<1> QED
  BY <1>1, <1>2, <1>3, <1>4, <1>5, <1>6 DEF Next
-----------------------------------------------------------------------------
(* What the answers say: AnswersInv is inductive, given the invariant.      *)

\* A request goes on as one with its number, or ends.
LEMMA ProceedsAsOne ==
    ASSUME TypeOK, NEW r \in requests, Proceed(r)
    PROVE  \E q : q.n = r.n /\ requests' \subseteq (requests \ {r}) \cup {q}
                  /\ requests \ {r} \subseteq requests'
<1>1. r \in Request
  BY DEF TypeOK
<1>2. CASE LookUpUser(r)
  <2>1. CASE Finish(r)
    BY <2>1 DEF Finish
  <2>2. ASSUME NEW u \in users, Admit(r, u)
        PROVE \E q : q.n = r.n /\ requests' = (requests \ {r}) \cup {q}
    <3> PICK q \in Handlers(r, u) : Continue(r, q)
      BY <2>2 DEF Admit
    <3>1. q.n = r.n
      BY DEF Handlers
    <3> QED
      BY <3>1 DEF Continue
  <2> QED
    BY <1>2, <2>1, <2>2 DEF LookUpUser
<1>3. CASE Serve(r) \/ FetchSession(r) \/ Revoke(r) \/ RevokeOthers(r)
  BY <1>3 DEF Serve, FetchSession, Revoke, RevokeOthers, Finish
<1>4. CASE OpenSession(r) \/ ReadUser(r) \/ RereadUser(r)
  BY <1>4 DEF OpenSession, ReadUser, RereadUser, Continue, Finish
<1>5. CASE WriteUser(r) \/ InsertUser(r)
  BY <1>5 DEF WriteUser, InsertUser, Continue, Finish
<1>6. ASSUME NEW pc, Finish(r) \/ Continue(r, [r EXCEPT !.pc = pc])
      PROVE  \E q : q.n = r.n /\ requests' \subseteq (requests \ {r}) \cup {q}
                    /\ requests \ {r} \subseteq requests'
  <2> DEFINE o == [r EXCEPT !.pc = pc]
  <2>1. o.n = r.n
    BY <1>1 DEF Request
  <2>2. requests' \subseteq (requests \ {r}) \cup {o} /\ requests \ {r} \subseteq requests'
    BY <1>6 DEF Finish, Continue
  <2> HIDE DEF o
  <2> QED
    BY <2>1, <2>2
<1>7. CASE CheckPassword(r) \/ SetPassword(r) \/ BindSubject(r)
  BY <1>6, <1>7 DEF CheckPassword, SetPassword, BindSubject
<1> QED
  BY <1>2, <1>3, <1>4, <1>5, <1>7 DEF Proceed

LEMMA ArrivesNumbered ==
    ASSUME TypeOK, Arrive
    PROVE  /\ requests \subseteq requests' /\ began' = began + 1
           /\ \E q : q.n = began' /\ requests' \subseteq requests \cup {q}
<1>1. requests \subseteq requests' /\ began' = began + 1
  BY DEF Arrive, Authenticate, Logout, Login, CreateAdmin, Callback, Come, Begin
<1>2. CASE UNCHANGED requests
  <2>1. \E q : q.n = began'
    <3>1. [n |-> began'].n = began'
      OBVIOUS
    <3> QED
      BY <3>1
  <2> QED
    BY <1>1, <1>2, <2>1
<1>3. ASSUME NEW s \in sessions, Authenticate(s)
      PROVE  \E q : q.n = began' /\ requests' \subseteq requests \cup {q}
  <2> DEFINE q == [n |-> began', pc |-> "user", user |-> Nobody, id |-> s.user,
                   token |-> s.token, late |-> s.left = 1]
  <2>1. q.n = began'
    OBVIOUS
  <2>2. requests' = requests \cup {q}
    BY <1>3 DEF Authenticate, Come
  <2> HIDE DEF q
  <2> QED
    BY <2>1, <2>2
<1>4. ASSUME NEW u \in users, Login(u)
      PROVE  \E q : q.n = began' /\ requests' \subseteq requests \cup {q}
  BY <1>4 DEF Login, Come
<1>5. ASSUME NEW l \in Logins, NEW p \in Passwords, CreateAdmin(l, p)
      PROVE  \E q : q.n = began' /\ requests' \subseteq requests \cup {q}
  BY <1>5 DEF CreateAdmin, Come
<1>6. ASSUME NEW l \in Logins, NEW sub \in Subs, Callback(sub, l)
      PROVE  \E q : q.n = began' /\ requests' \subseteq requests \cup {q}
  BY <1>6 DEF Callback, Come
<1> QED
  BY <1>1, <1>2, <1>3, <1>4, <1>5, <1>6 DEF Arrive, Logout

LEMMA NumbersStep == TypeOK /\ AccountsInv /\ NumbersOnce /\ [Next]_vars => NumbersOnce'
<1> SUFFICES ASSUME TypeOK, AccountsInv, NumbersOnce, [Next]_vars PROVE NumbersOnce'
  OBVIOUS
<1>1. CASE requests' \subseteq requests
  BY <1>1 DEF NumbersOnce
<1>2. CASE Arrive
  <2>1. began \in Nat /\ \A r \in requests : r.n \in Nat /\ r.n <= began
    BY Bounds, RequestFields DEF TypeOK, AccountsInv, Sound, Stamps
  <2>2. \A r \in requests : r.n # began'
    BY <1>2, <2>1, ArrivesNumbered
  <2> QED
    BY <1>2, <2>2, ArrivesNumbered DEF NumbersOnce
<1>3. ASSUME NEW r \in requests, Proceed(r) PROVE NumbersOnce'
  BY <1>3, ProceedsAsOne DEF NumbersOnce
<1>4. ASSUME NEW t \in extending, Extend(t) PROVE NumbersOnce'
  BY <1>1, <1>4 DEF Extend
<1>5. ASSUME NEW s \in sessions, Age(s) PROVE NumbersOnce'
  BY <1>1, <1>5 DEF Age
<1>6. CASE StatementFails \/ Crash \/ UNCHANGED vars
  BY <1>1, <1>6 DEF StatementFails, Crash, Finish, vars
<1> QED
  BY <1>2, <1>3, <1>4, <1>5, <1>6 DEF Next

\* Once an account has a password it keeps one.
LEMMA PasswordsStay ==
    ASSUME TypeOK, AccountsInv, [Next]_vars, NEW w \in users', Known(w.id)
    PROVE  \E u \in users : u.id = w.id /\ (u.password # Null => w.password # Null)
<1>1. CASE w \in users
  BY <1>1
<1>2. ASSUME NEW r \in requests, WriteUser(r), w \notin users
      PROVE  \E u \in users : u.id = w.id /\ u.password = w.password
  <2> PICK u \in users : w = Merged(u, r)
    BY <1>2 DEF WriteUser, Put
  <2>1. u \in User
    BY DEF TypeOK
  <2> QED
    BY <2>1 DEF User, Merged
<1>3. ASSUME NEW r \in requests, SetPassword(r), w \notin users
      PROVE  \E u \in users : u.id = w.id /\ w.password # Null
  <2> PICK u \in users : w = [u EXCEPT !.password = r.password]
    BY <1>3 DEF SetPassword, Put
  <2>1. u \in User /\ r.password \in Passwords
    BY <1>3, RequestFields DEF TypeOK, SetPassword
  <2> QED
    BY <2>1, Bounds DEF User
<1>4. ASSUME NEW r \in requests, InsertUser(r), w \notin users PROVE FALSE
  <2> PICK id \in Ids : IsNextRowid(users, id) /\ w = NewUser(id, r)
    BY <1>4 DEF InsertUser
  <2>1. \A u \in users : u.id \in Nat
    BY Bounds, UserFields DEF TypeOK
  <2> QED
    BY <2>1, Bounds DEF Known, IsNextRowid, NewUser
<1>5. ASSUME NEW r \in requests, BindSubject(r), w \notin users
      PROVE  \E u \in users : u.id = w.id /\ u.password = w.password
  <2> PICK u \in users : w = [u EXCEPT !.sub = r.claim]
    BY <1>5 DEF BindSubject, Put
  <2>1. u \in User
    BY DEF TypeOK
  <2> QED
    BY <2>1 DEF User
<1>6. CASE UNCHANGED users
  BY <1>1, <1>6
<1>7. ASSUME NEW r \in requests, Proceed(r), ~WriteUser(r), ~SetPassword(r), ~InsertUser(r),
             ~BindSubject(r)
      PROVE  UNCHANGED users
  BY <1>7 DEF Proceed, LookUpUser, Serve, OpenSession, FetchSession, ReadUser, Revoke,
     CheckPassword, RevokeOthers, RereadUser
<1>8. CASE Arrive
  BY <1>6, <1>8 DEF Arrive, Authenticate, Logout, Login, CreateAdmin, Callback
<1>9. CASE StatementFails \/ Crash \/ UNCHANGED vars
  BY <1>6, <1>9 DEF StatementFails, Crash, vars
<1>10. CASE (\E t \in extending : Extend(t)) \/ \E s \in sessions : Age(s)
  BY <1>6, <1>10 DEF Extend, Age
<1> QED
  BY <1>1, <1>2, <1>3, <1>4, <1>5, <1>6, <1>7, <1>8, <1>9, <1>10 DEF Next

LEMMA SignInsInit == Init => SignInsStand
<1> SUFFICES ASSUME Init PROVE SignInsStand
  OBVIOUS
<1>1. \A u \in users : u.password # Null
  BY AccountsAssumption DEF Init
<1> QED
  BY <1>1 DEF Init, SignInsStand, SignsIn

\* Where a session of the next state comes from.
LEMMA SessionsFrom ==
    ASSUME TypeOK, [Next]_vars, NEW s \in sessions'
    PROVE  \/ \E t \in sessions : s.user = t.user /\ s.by = t.by
           \/ \E r \in requests : r.pc = "open" /\ s.user = r.user /\ s.by = r.by /\ UNCHANGED users
           \/ \E r \in requests, t \in sessions :
                 SetPassword(r) /\ s.user = r.id /\ s.user = t.user /\ s.by = r.password
<1>1. CASE sessions' \subseteq sessions
  BY <1>1
<1>2. ASSUME NEW r \in requests, OpenSession(r), s \notin sessions
      PROVE  r.pc = "open" /\ s.user = r.user /\ s.by = r.by /\ UNCHANGED users
  BY <1>2 DEF OpenSession
<1>3. ASSUME NEW r \in requests, SetPassword(r)
      PROVE  \E t \in sessions : \/ s.user = t.user /\ s.by = t.by
                                 \/ s.user = r.id /\ s.user = t.user /\ s.by = r.password
  <2> PICK t \in sessions : s = IF t.token = r.token /\ t.user = r.id
                                  THEN [t EXCEPT !.by = r.password] ELSE t
    BY <1>3 DEF SetPassword
  <2>1. t \in Session
    BY DEF TypeOK
  <2> QED
    BY <2>1 DEF Session
<1>4. ASSUME NEW t \in extending, Extend(t)
      PROVE  \E x \in sessions : s.user = x.user /\ s.by = x.by
  <2> PICK x \in sessions : s = IF x.token = t THEN [x EXCEPT !.left = 2] ELSE x
    BY <1>4 DEF Extend
  <2>1. x \in Session
    BY DEF TypeOK
  <2> QED
    BY <2>1 DEF Session
<1>5. ASSUME NEW t \in sessions, Age(t)
      PROVE  \E x \in sessions : s.user = x.user /\ s.by = x.by
  <2>1. s \in sessions \/ s = [t EXCEPT !.left = t.left - 1]
    BY <1>5 DEF Age
  <2>2. t \in Session
    BY DEF TypeOK
  <2> QED
    BY <2>1, <2>2 DEF Session
<1>6. CASE Arrive
  BY <1>1, <1>6 DEF Arrive, Authenticate, Logout, Login, CreateAdmin, Callback
<1>7. ASSUME NEW r \in requests, Proceed(r), ~OpenSession(r), ~SetPassword(r)
      PROVE  sessions' \subseteq sessions
  BY <1>7 DEF Proceed, LookUpUser, Serve, FetchSession, ReadUser, WriteUser, Revoke,
     CheckPassword, RevokeOthers, InsertUser, BindSubject, RereadUser
<1>8. CASE StatementFails \/ Crash \/ UNCHANGED vars
  BY <1>1, <1>8 DEF StatementFails, Crash, vars
<1> QED
  BY <1>1, <1>2, <1>3, <1>4, <1>5, <1>6, <1>7, <1>8 DEF Next

\* A session about to be opened is one already, or that of a password or a subject verified.
LEMMA OpenFrom ==
    ASSUME TypeOK, AccountsInv, [Next]_vars, NEW q \in requests', q.pc = "open"
    PROVE  \/ q \in requests
           \/ q.by \notin Passwords
           \/ \E u \in users : u.id = q.user /\ u.password # Null /\ UNCHANGED users
<1>1. CASE requests' \subseteq requests
  BY <1>1
<1>2. CASE Arrive
  <2>1. ASSUME NEW u \in users, Login(u), q \notin requests
        PROVE  u.id = q.user /\ u.password # Null /\ UNCHANGED users
    BY <2>1 DEF Login, Come, VerifyPassword
  <2> QED
    BY <1>1, <1>2, <2>1 DEF Arrive, Authenticate, Logout, CreateAdmin, Callback, Come
<1>3. ASSUME NEW r \in requests, Proceed(r), q \notin requests PROVE q.by \notin Passwords
  <2>1. r \in Request
    BY DEF TypeOK
  <2>2. CASE LookUpUser(r)
    <3> PICK u \in users : q \in Handlers(r, u)
      BY <1>3, <2>2 DEF LookUpUser, Admit, Continue, Finish
    <3>1. q.pc \in {"serve", "read", "set", "check", "insert"}
      BY DEF Handlers
    <3> QED
      BY <3>1
  <2>3. CASE RereadUser(r)
    <3>1. q.by = r.claim /\ r.claim \in Subs
      BY <1>3, <2>1, <2>3, RequestFields DEF RereadUser, Continue, Finish
    <3> QED
      BY <3>1, Bounds
  <2>4. CASE CheckPassword(r) \/ SetPassword(r) \/ BindSubject(r)
    <3>1. ASSUME NEW pc \in {"set", "others", "reread"}, q = [r EXCEPT !.pc = pc]
          PROVE  q.pc = pc
      BY <2>1, <3>1 DEF Request
    <3>2. q.pc \in {"set", "others", "reread"}
      BY <1>3, <2>4, <3>1 DEF CheckPassword, SetPassword, BindSubject, Continue, Finish
    <3> QED
      BY <3>2
  <2>5. CASE WriteUser(r) \/ InsertUser(r)
    BY <1>3, <2>5 DEF WriteUser, InsertUser, Continue, Finish
  <2>6. CASE Serve(r) \/ FetchSession(r) \/ Revoke(r) \/ RevokeOthers(r)
    BY <1>3, <2>6 DEF Serve, FetchSession, Revoke, RevokeOthers, Finish
  <2>7. CASE OpenSession(r) \/ ReadUser(r)
    BY <1>3, <2>7 DEF OpenSession, ReadUser, Continue
  <2> QED
    BY <1>3, <2>2, <2>3, <2>4, <2>5, <2>6, <2>7 DEF Proceed
<1>4. CASE (\E t \in extending : Extend(t)) \/ \E s \in sessions : Age(s)
  BY <1>1, <1>4 DEF Extend, Age
<1>5. CASE StatementFails \/ Crash \/ UNCHANGED vars
  BY <1>1, <1>5 DEF StatementFails, Crash, Finish, vars
<1> QED
  BY <1>2, <1>3, <1>4, <1>5 DEF Next

LEMMA SignInsStep == TypeOK /\ AccountsInv /\ SignInsStand /\ [Next]_vars => SignInsStand'
<1> SUFFICES ASSUME TypeOK, AccountsInv, SignInsStand, [Next]_vars PROVE SignInsStand'
  OBVIOUS
<1>1. ASSUME NEW id, NEW by, Known(id), SignsIn(id, by) PROVE SignsIn(id, by)'
  BY <1>1, PasswordsStay DEF SignsIn
<1>2. ASSUME NEW s \in sessions' PROVE SignsIn(s.user, s.by)'
  <2>1. ASSUME NEW t \in sessions, s.user = t.user, s.by = t.by PROVE SignsIn(s.user, s.by)'
    <3>1. Known(s.user) /\ SignsIn(s.user, s.by)
      BY <2>1 DEF AccountsInv, Linked, SignInsStand
    <3> QED
      BY <1>1, <3>1
  <2>2. ASSUME NEW r \in requests, r.pc = "open", s.user = r.user, s.by = r.by
        PROVE  SignsIn(s.user, s.by)'
    <3>1. Known(s.user) /\ SignsIn(s.user, s.by)
      BY <2>2 DEF AccountsInv, Sound, SignInsStand
    <3> QED
      BY <1>1, <3>1
  <2>3. ASSUME NEW r \in requests, SetPassword(r), s.user = r.id PROVE SignsIn(s.user, s.by)'
    <3> PICK u \in users : u.id = r.id /\ Put(u, [u EXCEPT !.password = r.password])
      BY <2>3 DEF SetPassword
    <3>1. u \in User /\ r.password \in Passwords
      BY <2>3, RequestFields DEF TypeOK, SetPassword
    <3>2. ASSUME NEW w \in users', w.id = r.id PROVE w.password # Null
      <4>1. w \in users => w = u
        BY <3>2 DEF AccountsInv, UniqueIds
      <4>2. w = [u EXCEPT !.password = r.password]
        BY <4>1 DEF Put
      <4> QED
        BY <3>1, <4>2, Bounds DEF User
    <3> QED
      BY <2>3, <3>2 DEF SignsIn
  <2> QED
    BY <2>1, <2>2, <2>3, SessionsFrom
<1>3. ASSUME NEW q \in requests', q.pc = "open" PROVE SignsIn(q.user, q.by)'
  <2>1. CASE q \in requests
    <3>1. Known(q.user) /\ SignsIn(q.user, q.by)
      BY <1>3, <2>1 DEF AccountsInv, Sound, SignInsStand
    <3> QED
      BY <1>1, <3>1
  <2>2. CASE q.by \notin Passwords
    BY <2>2 DEF SignsIn
  <2>3. ASSUME NEW u \in users, u.id = q.user, u.password # Null, UNCHANGED users
        PROVE  SignsIn(q.user, q.by)'
    BY <2>3 DEF SignsIn, AccountsInv, UniqueIds
  <2> QED
    BY <1>3, <2>1, <2>2, <2>3, OpenFrom
<1> QED
  BY <1>2, <1>3 DEF SignInsStand

\* Every step that follows a request is a step of Accounts.
LEMMA ViewsAreSteps == [ViewsNext]_viewVars => [Next]_vars
<1>1. ASSUME NEW r \in requests, AnswerDeactivation(r) PROVE Next
  BY <1>1 DEF AnswerDeactivation, Next, Proceed, StatementFails
<1>2. ASSUME NEW r \in requests, Admitted(r) \/ AnswerListing(r) \/ Written(r) PROVE Next
  BY <1>2 DEF Admitted, AnswerListing, Written, Next, Proceed
<1>3. CASE Meanwhile \/ Reread \/ Fails \/ UNCHANGED viewVars
  BY <1>3 DEF Meanwhile, Reread, Fails, Next, viewVars
<1> QED
  BY <1>1, <1>2, <1>3 DEF ViewsNext

LEMMA AnswersInit == ViewsInit => AnswersInv
BY SignInsInit DEF ViewsInit, Init, NoView, AnswersInv, NumbersOnce, Followed, AnswersHold

\* Steps of the others leave the followed request and its history what it needs.
LEMMA MeanwhileFollowed ==
    ASSUME TypeOK, AnswersInv, Meanwhile PROVE Followed' /\ AnswersHold'
<1>1. view' = view /\ view.pc # "shown"
  BY DEF Meanwhile
<1>2. view.pc # "none" => were \subseteq were' /\ users' \subseteq were'
  BY DEF Meanwhile
<1>3. \A r \in requests : r.n = view.n => r \in requests'
  <2>1. CASE Arrive
    BY <2>1, ArrivesNumbered
  <2>2. ASSUME NEW r \in requests, r.n # view.n, Proceed(r)
        PROVE  \A q \in requests : q.n = view.n => q \in requests'
    BY <2>2, ProceedsAsOne
  <2>3. CASE (\E t \in extending : Extend(t)) \/ \E s \in sessions : Age(s)
    BY <2>3 DEF Extend, Age
  <2> QED
    BY <2>1, <2>2, <2>3 DEF Meanwhile
<1>4. \A u \in were : u.active => AuthResponse(AuthUser(u, "")) = AuthResponse(AuthUser(u, ""))'
  BY DEF AuthResponse, AuthUser
<1>5. Followed
  BY DEF AnswersInv
<1>6. view.pc = "revoke" => view.shown \subseteq {FullUser(u) : u \in were'}
  BY <1>2, <1>5 DEF Followed
<1>7. view.pc = "list" => \E u \in were' : u.active /\ view.shown = {AuthResponse(AuthUser(u, ""))}
  BY <1>2, <1>5 DEF Followed
<1>8. view.asks = "off" /\ view.pc \in {"reread", "revoke"} =>
         \E r \in requests' : r.n = view.n /\ r.pc = "revoke" /\ r.id = view.id
  BY <1>3, <1>5 DEF Followed
<1>9. Followed'
  <2>1. view.pc # "none" => users' \subseteq were'
    BY <1>2
  <2> QED
    BY <1>1, <1>5, <1>6, <1>7, <1>8, <2>1 DEF Followed, FullUser, AuthResponse, AuthUser
<1> QED
  BY <1>1, <1>9 DEF AnswersHold

\* me is answered with the row the middleware has let in, which was active.
LEMMA AdmittedFollowed ==
    ASSUME TypeOK, AccountsInv, AnswersInv, NEW r \in requests, Admitted(r)
    PROVE  Followed' /\ AnswersHold'
<1> PICK u \in users :
       /\ u.id = r.id /\ [n |-> r.n, pc |-> "serve", user |-> u.id] \in requests'
       /\ \E asks \in Listings(u) :
             view' = [pc |-> "list", n |-> r.n, id |-> u.id, asks |-> asks,
                      shown |-> {AuthResponse(AuthUser(u, r.token))}]
  BY DEF Admitted
<1> PICK asks \in Listings(u) :
       view' = [pc |-> "list", n |-> r.n, id |-> u.id, asks |-> asks,
                shown |-> {AuthResponse(AuthUser(u, r.token))}]
  OBVIOUS
<1>1. /\ LookUpUser(r) /\ UNCHANGED users /\ were' = users
      /\ asks \in {"me", "compact", "active", "all"}
  BY DEF Admitted, LookUpUser, Listings
<1>2. u.active
  <2> DEFINE q == [n |-> r.n, pc |-> "serve", user |-> u.id]
  <2>1. q \notin requests
    <3>1. q.n = r.n /\ q.pc = "serve" /\ r.pc = "user"
      BY <1>1 DEF LookUpUser
    <3> HIDE DEF q
    <3> QED
      BY <3>1 DEF AnswersInv, NumbersOnce
  <2>2. ~Finish(r)
    BY <2>1 DEF Finish
  <2>3. \A w \in users : w.id = u.id => w = u
    BY DEF AccountsInv, UniqueIds
  <2> QED
    BY <1>1, <2>2, <2>3 DEF LookUpUser
<1>3. AuthResponse(AuthUser(u, r.token)) = AuthResponse(AuthUser(u, ""))
  BY DEF AuthResponse, AuthUser
<1>4. view'.pc = "list" /\ view'.asks = asks /\ view'.shown = {AuthResponse(AuthUser(u, ""))}
  BY <1>3
<1> QED
  BY <1>1, <1>2, <1>4 DEF Followed, AnswersHold, AuthResponse, AuthUser

\* A list is made of the rows of one moment; whoever has a session can sign in.
LEMMA ListingFollowed ==
    ASSUME TypeOK, AccountsInv, AnswersInv, NEW r \in requests, AnswerListing(r)
    PROVE  Followed' /\ AnswersHold'
<1>1. /\ UNCHANGED <<users, sessions, were>> /\ view.pc = "list" /\ Followed
      /\ users \subseteq were /\ view.asks \in {"me", "compact", "active", "all"}
  BY DEF AnswerListing, Serve, AnswersInv, Followed
<1> DEFINE list == CASE view.asks = "me" -> view.shown
                     [] view.asks = "compact" -> {CompactUser(u) : u \in ListUsers(FALSE)}
                     [] view.asks = "active" -> {FullUser(u) : u \in ListUsers(FALSE)}
                     [] view.asks = "all" -> {FullUser(u) : u \in ListUsers(TRUE)}
<1>2. view' = [pc |-> "shown", n |-> view.n, id |-> view.id, asks |-> view.asks, shown |-> list]
  <2>1. view = [pc |-> view.pc, n |-> view.n, id |-> view.id, asks |-> view.asks,
                shown |-> view.shown]
    BY <1>1 DEF Followed
  <2>2. view' = [view EXCEPT !.pc = "shown", !.shown = list]
    BY <2>1 DEF AnswerListing
  <2> HIDE DEF list
  <2> QED
    BY <2>1, <2>2
<1>3. CASE view.asks = "me"
  <2>1. list = view.shown
    BY <1>3
  <2> HIDE DEF list
  <2>2. view'.pc = "shown" /\ view'.asks = "me" /\ view'.shown = view.shown
    BY <1>2, <1>3, <2>1
  <2> QED
    BY <1>1, <1>2, <2>2 DEF Followed, AnswersHold, AuthResponse, AuthUser
<1>4. CASE view.asks = "compact"
  <2> HIDE DEF list
  <2> QED
    BY <1>1, <1>2, <1>4 DEF Followed, AnswersHold
<1>5. CASE view.asks = "active"
  <2>1. list \subseteq {FullUser(u) : u \in were}
    BY <1>1, <1>5 DEF ListUsers
  <2> HIDE DEF list
  <2>2. view'.pc = "shown" /\ view'.asks = "active" /\ view'.shown = list
    BY <1>2, <1>5
  <2> QED
    BY <1>1, <1>2, <2>1, <2>2 DEF Followed, AnswersHold, FullUser
<1>6. CASE view.asks = "all"
  <2>1. list = {FullUser(u) : u \in users}
    BY <1>6 DEF ListUsers
  <2> HIDE DEF list
  <2>2. list \subseteq {FullUser(u) : u \in were}
    BY <1>1, <2>1
  <2>3. ASSUME NEW s \in sessions
        PROVE  \E x \in list : x.id = s.user /\ (x.has_password \/ x.has_oidc)
    <3> PICK u \in users : u.id = s.user
      BY DEF AccountsInv, Linked, Known
    <3>1. u.password # Null \/ u.sub # Null
      <4>1. s.by \in Passwords \cup Subs
        BY DEF TypeOK, Session
      <4>2. s.by \in Passwords => u.password # Null
        BY DEF AnswersInv, SignInsStand, SignsIn
      <4>3. s.by \in Subs => u.sub = s.by
        BY DEF AccountsInv, Linked
      <4> QED
        BY <4>1, <4>2, <4>3, Bounds
    <3>2. FullUser(u).id = s.user /\ (FullUser(u).has_password \/ FullUser(u).has_oidc)
      BY <3>1 DEF FullUser
    <3> QED
      BY <2>1, <3>2
  <2>4. view'.pc = "shown" /\ view'.asks = "all" /\ view'.shown = list
    BY <1>2, <1>6
  <2> QED
    BY <1>1, <1>2, <2>2, <2>3, <2>4 DEF Followed, AnswersHold, FullUser
<1> QED
  BY <1>1, <1>3, <1>4, <1>5, <1>6

\* The request that has deactivated an account is still to delete its sessions.
LEMMA WrittenFollowed ==
    ASSUME TypeOK, NEW r \in requests, Written(r)
    PROVE  Followed' /\ AnswersHold'
<1>0. PICK u \in users' :
       /\ IF r.pc = "write" THEN u.id = r.id ELSE u \notin users
       /\ view' = [NoView EXCEPT !.pc = "reread", !.n = r.n, !.id = u.id,
                     !.asks = IF r.pc = "write" /\ r.active = FALSE THEN "off" ELSE "row"]
  BY DEF Written
<1> DEFINE asks == IF r.pc = "write" /\ r.active = FALSE THEN "off" ELSE "row"
<1>1. view' = [pc |-> "reread", n |-> r.n, id |-> u.id, asks |-> asks, shown |-> {}]
  <2> HIDE DEF asks
  <2>1. view' = [NoView EXCEPT !.pc = "reread", !.n = r.n, !.id = u.id, !.asks = asks]
    BY <1>0 DEF asks
  <2> QED
    BY <2>1 DEF NoView
<1>2. ASSUME asks = "off"
      PROVE  \E q \in requests' : q.n = r.n /\ q.pc = "revoke" /\ q.id = u.id
  <2>1. WriteUser(r) /\ r.claim = Null /\ r.active = FALSE /\ u.id = r.id
    BY <1>0, <1>2 DEF Written
  <2>2. [n |-> r.n, pc |-> "revoke", user |-> r.user, id |-> r.id] \in requests'
    BY <2>1 DEF WriteUser, Continue
  <2> QED
    BY <2>1, <2>2
<1>3. were' = users'
  BY DEF Written
<1>4. asks \in {"off", "row"}
  OBVIOUS
<1> HIDE DEF asks
<1>5. /\ view'.pc = "reread" /\ view'.n = r.n /\ view'.id = u.id /\ view'.asks = asks
  BY <1>1
<1>6. AnswersHold'
  BY <1>5 DEF AnswersHold
<1>7. view' = [pc |-> view'.pc, n |-> view'.n, id |-> view'.id, asks |-> view'.asks,
               shown |-> view'.shown]
  BY <1>1
<1>8. view'.asks = "off" => \E q \in requests' : q.n = view'.n /\ q.pc = "revoke" /\ q.id = view'.id
  BY <1>2, <1>5
<1> QED
  BY <1>3, <1>4, <1>5, <1>6, <1>7, <1>8 DEF Followed

LEMMA RereadFollowed == ASSUME AnswersInv, Reread PROVE Followed' /\ AnswersHold'
<1> DEFINE row == {FullUser(u) : u \in {v \in users : v.id = view.id}}
           next == IF \E r \in requests : r.n = view.n THEN "revoke" ELSE "shown"
<1>1. /\ UNCHANGED <<users, were, requests>> /\ view.pc = "reread" /\ Followed
      /\ users \subseteq were /\ view.asks \in {"off", "row"}
  BY DEF Reread, vars, AnswersInv, Followed
<1>2. view' = [pc |-> next, n |-> view.n, id |-> view.id, asks |-> view.asks, shown |-> row]
  <2>1. view = [pc |-> view.pc, n |-> view.n, id |-> view.id, asks |-> view.asks,
                shown |-> view.shown]
    BY <1>1 DEF Followed
  <2>2. view' = [view EXCEPT !.pc = next, !.shown = row]
    BY DEF Reread
  <2> HIDE DEF next, row
  <2> QED
    BY <2>1, <2>2
<1>3. row \subseteq {FullUser(u) : u \in were}
  BY <1>1
<1>4. next \in {"revoke", "shown"}
  OBVIOUS
<1>5. view.asks = "off" =>
         next = "revoke" /\ \E r \in requests : r.n = view.n /\ r.pc = "revoke" /\ r.id = view.id
  BY <1>1 DEF Followed
<1> HIDE DEF next, row
<1>6. /\ view'.pc = next /\ view'.n = view.n /\ view'.id = view.id /\ view'.asks = view.asks
      /\ view'.shown = row
  BY <1>2
<1> QED
  BY <1>1, <1>2, <1>3, <1>4, <1>5, <1>6 DEF Followed, AnswersHold, FullUser

\* The answer leaves when the sessions are gone, or their deletion has failed.
LEMMA DeactivationFollowed ==
    ASSUME TypeOK, AnswersInv, NEW r \in requests, AnswerDeactivation(r)
    PROVE  Followed' /\ AnswersHold'
<1>1. /\ UNCHANGED <<users, were>> /\ view.pc = "revoke" /\ Followed /\ r.n = view.n
      /\ users \subseteq were /\ view.asks \in {"off", "row"}
      /\ view.shown \subseteq {FullUser(u) : u \in were}
  BY DEF AnswerDeactivation, Revoke, AnswersInv, Followed
<1>2. view' = [pc |-> "shown", n |-> view.n, id |-> view.id, asks |-> view.asks,
               shown |-> view.shown]
  BY <1>1 DEF AnswerDeactivation, Followed
<1>3. view.asks = "off" => faults' # 0 \/ \A s \in sessions' : s.user # view.id
  <2>1. view.asks = "off" => r.id = view.id
    BY <1>1 DEF Followed, AnswersInv, NumbersOnce
  <2>2. faults \in Nat
    BY Bounds DEF TypeOK
  <2> QED
    BY <2>1, <2>2 DEF AnswerDeactivation, Revoke
<1>4. /\ view'.pc = "shown" /\ view'.id = view.id /\ view'.asks = view.asks
      /\ view'.shown = view.shown
  BY <1>2
<1> QED
  BY <1>1, <1>2, <1>3, <1>4 DEF Followed, AnswersHold, FullUser

LEMMA AnswersStep ==
    TypeOK /\ AccountsInv /\ AnswersInv /\ [ViewsNext]_viewVars => AnswersInv'
<1> SUFFICES ASSUME TypeOK, AccountsInv, AnswersInv, [ViewsNext]_viewVars PROVE AnswersInv'
  OBVIOUS
<1>1. NumbersOnce' /\ SignInsStand'
  BY ViewsAreSteps, NumbersStep, SignInsStep DEF AnswersInv
<1>2. CASE Meanwhile
  BY <1>1, <1>2, MeanwhileFollowed DEF AnswersInv
<1>3. CASE Reread
  BY <1>1, <1>3, RereadFollowed DEF AnswersInv
<1>4. CASE Fails
  <2>1. view' = NoView
    BY <1>4 DEF Fails
  <2> QED
    BY <1>1, <2>1 DEF AnswersInv, NoView, Followed, AnswersHold
<1>5. ASSUME NEW r \in requests, Admitted(r) \/ AnswerListing(r) \/ Written(r) \/ AnswerDeactivation(r)
      PROVE  AnswersInv'
  BY <1>1, <1>5, AdmittedFollowed, ListingFollowed, WrittenFollowed, DeactivationFollowed
  DEF AnswersInv
<1>6. CASE UNCHANGED viewVars
  <2>1. UNCHANGED <<users, sessions, requests, faults, raced, view, were>>
    BY <1>6 DEF viewVars, vars
  <2>2. Followed' /\ AnswersHold'
    BY <2>1 DEF AnswersInv, Followed, AnswersHold, FullUser, AuthResponse, AuthUser
  <2> QED
    BY <1>1, <2>2 DEF AnswersInv
<1> QED
  BY <1>2, <1>3, <1>4, <1>5, <1>6 DEF ViewsNext
-----------------------------------------------------------------------------
\* The rows of users, sessions and requests always have their types.
THEOREM AccountsTypeCorrect == Spec => []TypeOK
BY AccountsTypeInit, AccountsTypeStep, PTL DEF Spec

\* However requests, logins and administrators' updates interleave, whoever is being served
\* while deactivated had come before the deactivation.
THEOREM DeactivationAdmitsNobody == Spec => []AdmittedBeforeDeactivation
<1>1. Init => TypeOK /\ AccountsInv
  BY AccountsTypeInit, InvInit
<1>2. TypeOK /\ AccountsInv /\ [Next]_vars => (TypeOK /\ AccountsInv)'
  BY AccountsTypeStep, InvStep
<1>3. TypeOK /\ AccountsInv => AdmittedBeforeDeactivation
  BY InvImplies
<1> QED
  BY <1>1, <1>2, <1>3, PTL DEF Spec

\* A session that a callback opened is for the account its subject is bound to.
THEOREM CallbacksNeverLink == Spec => []NoAutoLinking
<1>1. Init => TypeOK /\ AccountsInv
  BY AccountsTypeInit, InvInit
<1>2. TypeOK /\ AccountsInv /\ [Next]_vars => (TypeOK /\ AccountsInv)'
  BY AccountsTypeStep, InvStep
<1>3. TypeOK /\ AccountsInv => NoAutoLinking
  BY InvImplies
<1> QED
  BY <1>1, <1>2, <1>3, PTL DEF Spec

\* No step but a login's brings a token into the table: not the extension that a request
\* started before its session was removed.
THEOREM RevocationIsFinal == Spec => RevokedStaysRevoked
<1>1. TypeOK /\ [Next]_vars =>
         \A s \in sessions' :
            \/ \E t \in sessions : t.token = s.token
            \/ \E r \in requests : r.pc = "open" /\ s.token = LaterToken(r.n)
  <2> SUFFICES ASSUME TypeOK, [Next]_vars, NEW s \in sessions'
               PROVE  \/ \E t \in sessions : t.token = s.token
                      \/ \E r \in requests : r.pc = "open" /\ s.token = LaterToken(r.n)
    OBVIOUS
  <2>1. CASE sessions' \subseteq sessions
    BY <2>1
  <2>2. ASSUME NEW r \in requests, OpenSession(r)
        PROVE  \/ \E t \in sessions : t.token = s.token
               \/ \E q \in requests : q.pc = "open" /\ s.token = LaterToken(q.n)
    BY <2>2 DEF OpenSession
  <2>3. ASSUME NEW r \in requests, SetPassword(r) PROVE \E t \in sessions : t.token = s.token
    <3>1. \A t \in sessions : [t EXCEPT !.by = r.password].token = t.token
      BY DEF TypeOK, Session
    <3> QED
      BY <2>3, <3>1 DEF SetPassword
  <2>4. ASSUME NEW t \in extending, Extend(t) PROVE \E x \in sessions : x.token = s.token
    <3>1. \A x \in sessions : [x EXCEPT !.left = 2].token = x.token
      BY DEF TypeOK, Session
    <3> QED
      BY <2>4, <3>1 DEF Extend
  <2>5. ASSUME NEW t \in sessions, Age(t) PROVE \E x \in sessions : x.token = s.token
    <3>1. [t EXCEPT !.left = t.left - 1].token = t.token
      BY DEF TypeOK, Session
    <3> QED
      BY <2>5, <3>1 DEF Age
  <2>6. CASE Arrive
    BY <2>1, <2>6 DEF Arrive, Authenticate, Logout, Login, CreateAdmin, Callback
  <2>7. ASSUME NEW r \in requests, Proceed(r), ~OpenSession(r), ~SetPassword(r)
        PROVE  sessions' \subseteq sessions
    BY <2>7 DEF Proceed, LookUpUser, Serve, FetchSession, ReadUser, WriteUser, Revoke,
       CheckPassword, RevokeOthers, InsertUser, BindSubject, RereadUser
  <2>8. CASE StatementFails \/ Crash \/ UNCHANGED vars
    BY <2>1, <2>8 DEF StatementFails, Crash, vars
  <2> QED
    BY <2>1, <2>2, <2>3, <2>4, <2>5, <2>6, <2>7, <2>8 DEF Next
<1> QED
  BY <1>1, AccountsTypeInit, AccountsTypeStep, PTL DEF Spec, RevokedStaysRevoked

\* With nothing under way, nothing failed and no row overwritten unseen, the inactive have no
\* session and nobody a session by an old password: whatever the requests and their order.
THEOREM NothingLeftOver == Spec => []LeftoversOnlyByRaces
<1>1. Init => TypeOK /\ AccountsInv /\ LeftoversInv
  BY AccountsTypeInit, InvInit, LeftoversInit
<1>2. TypeOK /\ AccountsInv /\ LeftoversInv /\ [Next]_vars
         => (TypeOK /\ AccountsInv /\ LeftoversInv)'
  BY AccountsTypeStep, InvStep, LeftoversStep
<1>3. TypeOK /\ AccountsInv /\ LeftoversInv => LeftoversOnlyByRaces
  BY DEF LeftoversInv, LeftoversOnlyByRaces, Revoking, RevokingOthers
<1> QED
  BY <1>1, <1>2, <1>3, PTL DEF Spec

\* What an answer says of an account was so at one moment of the request; the answer to a
\* deactivation comes when its sessions are gone, and the list of all accounts shows a way
\* to sign in for whoever is signed in.
THEOREM AnswersAreTrue == ViewsSpec => []AnswersHold
<1>1. ViewsInit => TypeOK /\ AccountsInv /\ AnswersInv
  BY AccountsTypeInit, InvInit, AnswersInit DEF ViewsInit
<1>2. TypeOK /\ AccountsInv /\ AnswersInv /\ [ViewsNext]_viewVars
         => (TypeOK /\ AccountsInv /\ AnswersInv)'
  BY ViewsAreSteps, AccountsTypeStep, InvStep, AnswersStep
<1>3. TypeOK /\ AccountsInv /\ AnswersInv => AnswersHold
  BY DEF AnswersInv
<1> QED
  BY <1>1, <1>2, <1>3, PTL DEF ViewsSpec
=============================================================================
