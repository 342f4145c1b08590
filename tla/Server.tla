------------------------------- MODULE Server -------------------------------
(***************************************************************************)
(* The listening server as browsers meet it: the routes and who may use    *)
(* them (src/src/api/mod.rs, src/src/auth/middleware.rs), the session      *)
(* cookie (src/src/api/auth.rs), and the authorization code flow of OIDC   *)
(* from its redirect to its callback (src/src/api/oidc.rs).                *)
(*                                                                         *)
(* The server keeps no state of a flow: state and nonce are in a cookie of *)
(* the browser, one for all its tabs. Responses arrive in any order or not *)
(* at all, the process may die between the steps of a flow, and the URL of *)
(* a callback may be opened twice, or in another browser. What handlers do *)
(* to their tables is in the other modules; here the accounts stand still, *)
(* and all of them are active.                                             *)
(***************************************************************************)
EXTENDS Startup, FiniteSets

CONSTANTS
    Users,          \* the accounts, which the identity provider knows as well
    Admins,         \* those whose role is admin
    Browsers,       \* the browsers, each with one cookie jar
    MaxFlows,       \* bound: flows begun in a behaviour
    MaxSessions,    \* bound: sessions opened in a behaviour
    MaxInFlight,    \* bound: messages on their way at one time
    Nobody,         \* no account
    Keep            \* what a response without Set-Cookie for a cookie sets it to

ASSUME ServerAssumption ==
    /\ Admins \subseteq Users /\ Nobody \notin Users /\ Keep \notin Nat
    /\ MaxFlows \in Nat /\ MaxSessions \in Nat /\ MaxInFlight \in Nat

VARIABLES
    sessions,       \* the rows of sessions
    jars,           \* the cookies of each browser, s9_session and s9_oidc_state; 0 is none
    flows,          \* the flows begun, and what the identity provider knows of each
    inflight,       \* callbacks at work, and responses on their way to their browser
    opened,         \* history: how each session was opened
    refused,        \* history: flows whose callback was refused for its state in their browser
    excused         \* history: flows whose cookie expired

netVars == <<sessions, jars, flows, inflight, opened, refused, excused>>
serverVars == <<startVars, netVars>>

Tokens == 1 .. MaxSessions
FlowIds == 1 .. MaxFlows
None == 0

\* The number of a flow stands for its state and for its nonce. code: the authorization
\* code, which the provider exchanges once, is still good.
Flow == [flow : FlowIds, browser : Browsers, begun : BOOLEAN, as : Users \cup {Nobody},
         code : BOOLEAN]

\* A callback carries the state cookie of its browser; a response sets the two cookies.
Message ==
    [kind : {"callback"}, browser : Browsers, flow : FlowIds, cookie : {None} \cup FlowIds]
    \cup [kind : {"response"}, browser : Browsers, session : {Keep, None} \cup Tokens,
          oidc : {Keep, None} \cup FlowIds]

ServerInit ==
    /\ StartupInit
    /\ sessions = {} /\ flows = {} /\ inflight = {}
    /\ jars = [b \in Browsers |-> [session |-> None, oidc |-> None]]
    /\ opened = {} /\ refused = {} /\ excused = {}

-----------------------------------------------------------------------------
(* build_router_with_state, the middleware and the extractors.             *)

\* The router's fallback: an embedded file, or index.html for a route of the single page.
StaticHandler == "static_handler"

PublicHandlers == {"login", "logout", "authorize", "callback", "openapi_spec", StaticHandler}

AdminOnlyHandlers ==
    {"create_component", "update_component", "delete_component", "create_milestone",
     "update_milestone", "delete_milestone", "list_users", "create_user"}

AuthenticatedHandlers ==
    {"me", "list_tickets", "create_ticket", "get_ticket", "update_ticket", "list_comments",
     "create_comment", "edit_comment", "delete_comment", "list_components", "list_milestones",
     "upload_attachment", "download_attachment", "list_compact_users", "update_user",
     "set_password", "mute_ticket", "unmute_ticket", "get_mute_status", "event_stream"}
    \cup AdminOnlyHandlers

Handlers == PublicHandlers \cup AuthenticatedHandlers

\* extract_session_cookie, get_valid and get_by_id of validate_session.
UserOf(token) ==
    IF \E s \in sessions : s.token = token
      THEN (CHOOSE s \in sessions : s.token = token).user ELSE Nobody

\* The layers of the group the route is in: require_auth, and require_admin after it.
RouteLayers(h, u) ==
    /\ h \in AuthenticatedHandlers => u # Nobody
    /\ h \in AdminOnlyHandlers => u \in Admins

\* Mutant: delete_comment asks for an AuthUser.
Extractor_CommentsOpen(h, u) ==
    /\ h \in AuthenticatedHandlers => u # Nobody
    /\ h \in AdminOnlyHandlers => u \in Admins

\* The argument of the handler: AuthUser, which every authenticated handler takes, or
\* RequireAdmin.
Extractor(h, u) ==
    /\ h \in AuthenticatedHandlers => u # Nobody
    /\ h \in AdminOnlyHandlers \cup {"delete_comment"} => u \in Admins

\* Four handlers decide for themselves: what a request asks for is its sender's own, or
\* somebody else's; a comment, a ticket's title, an account, and its role or is_active.
Asks(h) == IF h \in {"edit_comment", "update_ticket", "set_password"} THEN {"own", "others"}
           ELSE IF h = "update_user" THEN {"own", "others", "role"}
           ELSE {"own"}

Decides(h, u, ask) == ask = "own" \/ u \in Admins

\* What the handlers' documentation reserves to administrators.
AdminWork(h, ask) == h \in AdminOnlyHandlers \cup {"delete_comment"} \/ ask # "own"

Listening == proc.pc = "up"

\* Bound: steps of the browsers and the provider alone are taken before or after a start of
\* the process, not during one; they read and write nothing of its state.
Settled == proc.pc \in {"down", "up"}

\* What the server does for u, or for Nobody, if it is asked to.
Serves(u) ==
    {w \in UNION {{h} \X Asks(h) : h \in Handlers} :
        RouteLayers(w[1], u) /\ Extractor(w[1], u) /\ Decides(w[1], u, w[2])}

DoesAdminWork == {u \in Users \cup {Nobody} : \E w \in Serves(u) : AdminWork(w[1], w[2])}

(* Sessions and their cookie.                                              *)

Room == Cardinality(inflight) < MaxInFlight

\* Mutant: the two cookies' names are swapped.
Response_CookiesSwapped(b, session, oidc) ==
    [kind |-> "response", browser |-> b, session |-> oidc, oidc |-> session]

Response(b, session, oidc) ==
    [kind |-> "response", browser |-> b, session |-> session, oidc |-> oidc]

\* A response that sets no cookie changes nothing when it arrives, and is not followed.
Followed(m) == {m} \ {Response(m.browser, Keep, Keep)}
Answer(m) == inflight' = inflight \cup Followed(m)

OpenSession(b, u, f) ==
    LET token == Cardinality(opened) + 1
    IN  /\ token \in Tokens
        /\ sessions' = sessions \cup {[token |-> token, user |-> u]}
        /\ opened' = opened \cup {[token |-> token, user |-> u, browser |-> b, flow |-> f]}

\* A right password; a wrong one changes nothing and sets no cookie.
Login(b, u) ==
    /\ Listening /\ Room
    /\ OpenSession(b, u, None)
    /\ Answer(Response(b, Cardinality(opened) + 1, Keep))
    /\ UNCHANGED <<jars, flows, refused, excused>>
    /\ UNCHANGED startVars

\* Even if the DELETE fails.
Logout(b) ==
    /\ Listening /\ Room
    /\ jars[b].session # None
    /\ sessions' \in {{s \in sessions : s.token # jars[b].session}, sessions}
    /\ Answer(Response(b, None, Keep))
    /\ UNCHANGED <<jars, flows, opened, refused, excused>>
    /\ UNCHANGED startVars

(* The authorization code flow.                                            *)

\* authorize: 404 without OIDC.
Authorize(b) ==
    /\ Listening /\ Room
    /\ proc.oidc
    /\ LET f == Cardinality(flows) + 1
       IN  /\ f \in FlowIds
           /\ flows' = flows \cup
                 {[flow |-> f, browser |-> b, begun |-> FALSE, as |-> Nobody, code |-> FALSE]}
           /\ Answer(Response(b, Keep, f))
    /\ UNCHANGED <<sessions, jars, opened, refused, excused>>
    /\ UNCHANGED startVars

\* The identity provider, in the tab that was redirected to it.
SignIn(x, u) ==
    /\ Settled
    /\ x.begun /\ x.as = Nobody
    /\ flows' = (flows \ {x}) \cup {[x EXCEPT !.as = u, !.code = TRUE]}
    /\ UNCHANGED <<sessions, jars, inflight, opened, refused, excused>>
    /\ UNCHANGED startVars

\* The provider's redirect, or the same URL from the history, or pasted elsewhere.
OpenCallback(b, x) ==
    /\ Listening /\ Room
    /\ x.as # Nobody
    /\ Answer([kind |-> "callback", browser |-> b, flow |-> x.flow, cookie |-> jars[b].oidc])
    /\ UNCHANGED <<sessions, jars, flows, opened, refused, excused>>
    /\ UNCHANGED startVars

\* Mutant: a cookie has to be there, but its state and nonce are not compared.
Verified_AnyCookie(cookie, flow) == cookie # None

\* The query's state is the cookie's, and so is the nonce of the ID token.
Verified(cookie, flow) == cookie = flow

FlowOf(f) == CHOOSE x \in flows : x.flow = f

\* Mutant: an error clears the cookie as well.
Refusal_ClearsState(b) == Response(b, Keep, None)

\* oidc_error sets no cookie.
Refusal(b) == Response(b, Keep, Keep)

\* The state; then the exchange, good once, which may fail; then the account; then the
\* session. The redirect names Set-Cookie twice, for the cleared state and for the session;
\* the second takes the place of the first, and the state cookie stays where it is.
Callback(m) ==
    /\ m.kind = "callback"
    /\ LET x == FlowOf(m.flow)
           finish(r) == inflight' = (inflight \ {m}) \cup Followed(r)
       IN  \/ /\ ~Verified(m.cookie, m.flow) \/ ~proc.oidc
              /\ refused' = refused \cup {y.flow : y \in {z \in {x} : proc.oidc /\ z.browser = m.browser}}
              /\ finish(Refusal(m.browser))
              /\ UNCHANGED <<sessions, opened, flows, excused>>
           \/ /\ Verified(m.cookie, m.flow) /\ proc.oidc
              /\ flows' \in {flows, (flows \ {x}) \cup {[x EXCEPT !.code = FALSE]}}
              /\ finish(Refusal(m.browser))
              /\ UNCHANGED <<sessions, opened, refused, excused>>
           \/ /\ Verified(m.cookie, m.flow) /\ proc.oidc
              /\ x.code
              /\ flows' = (flows \ {x}) \cup {[x EXCEPT !.code = FALSE]}
              /\ OpenSession(m.browser, x.as, m.flow)
              /\ finish(Response(m.browser, Cardinality(opened) + 1, Keep))
              /\ UNCHANGED <<refused, excused>>
    /\ UNCHANGED jars
    /\ UNCHANGED startVars

(* Browsers, the network and the clock.                                    *)

Set(old, new) == IF new = Keep THEN old ELSE new

\* Whatever response comes last has the cookie; a redirect takes its tab to the provider.
Receive(m) ==
    /\ Settled
    /\ m.kind = "response"
    /\ jars' = [jars EXCEPT ![m.browser] =
                  [session |-> Set(@.session, m.session), oidc |-> Set(@.oidc, m.oidc)]]
    /\ flows' = {IF x.flow = m.oidc THEN [x EXCEPT !.begun = TRUE] ELSE x : x \in flows}
    /\ inflight' = inflight \ {m}
    /\ UNCHANGED <<sessions, opened, refused, excused>>
    /\ UNCHANGED startVars

\* A connection breaks: the server has done its part, and the browser does not hear of it.
Lose(m) ==
    /\ Settled
    /\ m.kind = "response"
    /\ inflight' = inflight \ {m}
    /\ UNCHANGED <<sessions, jars, flows, opened, refused, excused>>
    /\ UNCHANGED startVars

\* The ten minutes of OIDC_STATE_COOKIE_MAX_AGE are over.
StateExpires(b) ==
    /\ Settled
    /\ jars[b].oidc # None
    /\ jars' = [jars EXCEPT ![b].oidc = None]
    /\ excused' = excused \cup {jars[b].oidc}
    /\ UNCHANGED <<sessions, flows, inflight, opened, refused>>
    /\ UNCHANGED startVars

\* The process dies, with the callbacks it was at work on.
Crash ==
    /\ proc.pc # "down"
    /\ proc' = Down
    /\ inflight' = {m \in inflight : m.kind = "response"}
    /\ UNCHANGED <<disk, starts, sessions, jars, flows, opened, refused, excused>>

Starting == StartupNext /\ UNCHANGED netVars

ServerNext ==
    \/ Starting \/ Crash
    \/ \E b \in Browsers :
          \/ \E u \in Users : Login(b, u)
          \/ Logout(b) \/ Authorize(b) \/ StateExpires(b)
          \/ \E x \in flows : OpenCallback(b, x)
    \/ \E x \in flows, u \in Users : SignIn(x, u)
    \/ \E m \in inflight : Callback(m) \/ Receive(m) \/ Lose(m)

ServerSpec == ServerInit /\ [][ServerNext]_serverVars

-----------------------------------------------------------------------------
(* Correctness.                                                            *)

\* The variables have their types.
TypeOK ==
    /\ StartupTypeOK
    /\ sessions \subseteq [token : Tokens, user : Users]
    /\ jars \in [Browsers -> [session : {None} \cup Tokens, oidc : {None} \cup FlowIds]]
    /\ flows \subseteq Flow
    /\ inflight \subseteq Message
    /\ opened \subseteq [token : Tokens, user : Users, browser : Browsers, flow : {None} \cup FlowIds]
    /\ refused \subseteq FlowIds
    /\ excused \subseteq FlowIds

\* The session a browser carries was opened for somebody who signed in with that browser:
\* by a password typed into it, or at the provider in a flow that this browser began.
\* Responses may be lost and reordered, and callback URLs opened anywhere.
SignedInAsOneself ==
    \A b \in Browsers : jars[b].session # None =>
       \E o \in opened :
          /\ o.token = jars[b].session /\ o.browser = b
          /\ o.flow # None =>
                \E x \in flows : x.flow = o.flow /\ x.browser = b /\ x.as = o.user

\* A callback that is refused for its state in the browser where its flow began has lost
\* its cookie to another flow of that browser or to the ten minutes: not to a restart of the
\* server, a callback gone wrong, a sign-in that was finished, or another browser.
LoneFlowSignsIn ==
    \A x \in flows :
       x.flow \in refused =>
          x.flow \in excused \/ \E y \in flows : y.browser = x.browser /\ y # x

\* What docs/dd/auth.md:295 (step 2 of the callback) and the comment at oidc.rs:257 say: "Clear
\* the OIDC state cookie and set the session cookie." A browser that carries the session a flow
\* opened no longer carries the state of that flow. It does not hold: the response sets one
\* cookie only.
StateCookieCleared ==
    \A o \in opened :
       o.flow # None /\ jars[o.browser].session = o.token => jars[o.browser].oidc # o.flow

\* Whatever protects a route - its group's layer, its handler's extractor or a check of its
\* own - work that is documented as an administrator's is done only for a browser that an
\* administrator signed in with, and not after its session was deleted.
AdminWorkOnlyForAdmins ==
    \A b \in Browsers :
       Listening /\ UserOf(jars[b].session) \in DoesAdminWork =>
          \E o \in opened : /\ o.token = jars[b].session /\ o.user \in Admins
                            /\ \E s \in sessions : s.token = o.token
=============================================================================
