---------------------------- MODULE ServerProofs ----------------------------
(***************************************************************************)
(* Theorems about Server and the start-up it begins with: for every set of *)
(* command lines, accounts and browsers, and every number of starts,       *)
(* flows, sessions and messages on their way.                              *)
(***************************************************************************)
EXTENDS Server, FiniteSetTheorems, TLAPS

-----------------------------------------------------------------------------
(* The process.                                                            *)

Pcs == {"down", "pool", "migrate", "admin", "oidc", "slugs", "dirs", "mailer", "spawn", "bind", "up"}

LEMMA DownType ==
    Down \in [pc : Pcs, cli : CommandLines \cup {NoCli}, config : Configs, oidc : BOOLEAN,
              mail : BOOLEAN, worker : BOOLEAN]
BY DEF Down, Pcs, Configs, NoConfig

LEMMA StartupType == StartupTypeOK /\ StartupNext => StartupTypeOK'
<1> DEFINE Proc == [pc : Pcs, cli : CommandLines \cup {NoCli}, config : Configs, oidc : BOOLEAN,
                    mail : BOOLEAN, worker : BOOLEAN]
<1> SUFFICES ASSUME StartupTypeOK, StartupNext PROVE StartupTypeOK'
  OBVIOUS
<1>1. StartupTypeOK <=> /\ disk \in [migrated : BOOLEAN, tmp : BOOLEAN] /\ proc \in Proc
                        /\ starts \in 0 .. MaxStarts
  BY DEF StartupTypeOK, Pcs
<1>2. Down \in Proc
  BY DownType
<1>3. \A pc \in Pcs : [proc EXCEPT !.pc = pc] \in Proc
  BY <1>1
<1>4. ASSUME NEW cli \in CommandLines, Launch(cli) PROVE StartupTypeOK'
  <2>1. cli.smtp_tls \in {"none", "starttls", "tls", "other"}
    BY StartupAssumption DEF Cli
  <2>2. Config(cli) \in Configs
    BY <2>1 DEF Config, OidcConfig, Configs
  <2>3. [Down EXCEPT !.pc = "pool", !.cli = cli, !.config = Config(cli)] \in Proc
    BY <2>2 DEF Down, Pcs
  <2>4. starts' \in 0 .. MaxStarts /\ UNCHANGED disk
    BY <1>1, <1>4, StartupAssumption DEF Launch
  <2> QED
    BY <1>1, <1>2, <1>4, <2>3, <2>4 DEF Launch, StartupTypeOK, Pcs
<1>5. CASE \/ UNCHANGED <<disk, starts>> /\ proc' = Down
           \/ \E pc \in Pcs : UNCHANGED starts /\ proc' = [proc EXCEPT !.pc = pc]
                              /\ disk' \in [migrated : BOOLEAN, tmp : BOOLEAN]
           \/ \E d \in [migrated : BOOLEAN, tmp : BOOLEAN] :
                 disk' = d /\ UNCHANGED starts /\ proc' = Down
  BY <1>1, <1>2, <1>3, <1>5 DEF StartupTypeOK, Pcs
<1>6. CASE InitPool \/ LoadSlugs \/ Bind \/ CreateAdmin
  BY <1>1, <1>5, <1>6 DEF InitPool, LoadSlugs, Bind, CreateAdmin, Goto, Exit, Pcs
<1>7. CASE RunMigrations
  <2>1. disk' \in [migrated : BOOLEAN, tmp : BOOLEAN]
    BY <1>1, <1>7 DEF RunMigrations
  <2>2. proc.cli.command \in {"serve", "migrate", "create_admin"}
    BY <1>1, StartupAssumption DEF Cli, NoCli
  <2>3. Goto("oidc") \/ Goto("admin") \/ Exit
    BY <1>7, <2>2 DEF RunMigrations
  <2> QED
    BY <1>5, <2>1, <2>3 DEF Goto, Exit, Pcs
<1>8. CASE InitDirs
  <2>1. disk' \in [migrated : BOOLEAN, tmp : BOOLEAN]
    BY <1>1, <1>8 DEF InitDirs
  <2> QED
    BY <1>5, <1>8, <2>1 DEF InitDirs, Goto, Exit, Pcs
<1>9. CASE InitOidc \/ InitMailer \/ SpawnWorker
  <2>1. UNCHANGED <<disk, starts>>
    BY <1>9 DEF InitOidc, InitMailer, SpawnWorker, Exit
  <2>2. proc' \in Proc
    <3>1. CASE InitOidc
      BY <1>1, <1>2, <3>1 DEF InitOidc, Exit, Pcs, Configs
    <3>2. CASE InitMailer
      BY <1>1, <3>2 DEF InitMailer, Mailers, Pcs
    <3>3. CASE SpawnWorker
      BY <1>1, <3>3 DEF SpawnWorker, Pcs
    <3> QED
      BY <1>9, <3>1, <3>2, <3>3
  <2> QED
    BY <1>1, <2>1, <2>2 DEF StartupTypeOK, Pcs
<1> QED
  BY <1>4, <1>6, <1>7, <1>8, <1>9 DEF StartupNext

\* What the process has established by each step, and what its parts were made from.
Established ==
    /\ proc.pc \in {"oidc", "slugs", "dirs", "mailer", "spawn", "bind", "up"} => disk.migrated
    /\ proc.pc \in {"mailer", "spawn", "bind", "up"} => disk.tmp
    /\ proc.pc \in {"bind", "up"} => proc.worker
    /\ proc.pc # "down" => ~ Panics(proc.cli) /\ proc.config = Config(proc.cli)
    /\ proc.pc \in {"slugs", "dirs", "mailer", "spawn", "bind", "up"} => proc.oidc = proc.config.oidc
    /\ proc.mail => proc.pc # "down" /\ proc.config.smtp \notin {"off", "other"}

LEMMA EstablishedStep == StartupTypeOK /\ Established /\ StartupNext => Established'
<1> SUFFICES ASSUME StartupTypeOK, Established, StartupNext PROVE Established'
  OBVIOUS
<1> USE DEF StartupTypeOK, Established, At
<1>1. ASSUME NEW cli \in CommandLines, Launch(cli) PROVE Established'
  <2>1. CASE proc' = Down
    BY <2>1 DEF Down
  <2>2. CASE ~ Panics(cli) /\ proc' = [Down EXCEPT !.pc = "pool", !.cli = cli, !.config = Config(cli)]
    <3>1. proc'.pc = "pool" /\ proc'.cli = cli /\ proc'.config = Config(cli) /\ ~ proc'.mail
      BY <2>2 DEF Down
    <3> QED
      BY <2>2, <3>1
  <2> QED
    BY <1>1, <2>1, <2>2 DEF Launch
<1>2. CASE InitPool \/ LoadSlugs \/ Bind \/ CreateAdmin
  BY <1>2 DEF InitPool, LoadSlugs, Bind, CreateAdmin, Goto, Exit, Down
<1>3. CASE RunMigrations
  <2>1. \/ Exit
        \/ disk' = [disk EXCEPT !.migrated = TRUE] /\ (Goto("oidc") \/ Goto("admin"))
    <3>1. proc.cli.command \in {"serve", "migrate", "create_admin"}
      BY StartupAssumption DEF Cli, NoCli
    <3> QED
      BY <1>3, <3>1 DEF RunMigrations
  <2> QED
    BY <1>3, <2>1 DEF RunMigrations, Goto, Exit, Down
<1>4. CASE InitOidc
  <2>1. CASE Exit /\ UNCHANGED disk
    BY <2>1 DEF Exit, Down
  <2>2. CASE proc' = [proc EXCEPT !.pc = "slugs", !.oidc = proc.config.oidc] /\ UNCHANGED disk
    <3>1. /\ proc'.pc = "slugs" /\ proc'.oidc = proc.config.oidc /\ proc'.mail = proc.mail
          /\ proc'.cli = proc.cli /\ proc'.config = proc.config
      BY <2>2
    <3> QED
      BY <1>4, <2>2, <3>1 DEF InitOidc
  <2> QED
    BY <1>4, <2>1, <2>2 DEF InitOidc
<1>5. CASE InitDirs
  BY <1>5 DEF InitDirs, Goto, Exit, Down
<1>6. CASE InitMailer
  BY <1>6 DEF InitMailer, Mailers
<1>7. CASE SpawnWorker
  BY <1>7 DEF SpawnWorker
<1> QED
  BY <1>1, <1>2, <1>3, <1>4, <1>5, <1>6, <1>7 DEF StartupNext

LEMMA EstablishedServes == StartupTypeOK /\ Established => ServedAsConfigured
BY DEF StartupTypeOK, Established, ServedAsConfigured, Config, OidcConfig, SmtpConfig, Panics

-----------------------------------------------------------------------------
(* Types.                                                                  *)

LEMMA ResponseType ==
    ASSUME NEW b \in Browsers, NEW s \in {Keep, None} \cup Tokens, NEW f \in {Keep, None} \cup FlowIds
    PROVE  Response(b, s, f) \in Message
BY DEF Response, Message

\* A callback is of a flow that was begun, and a code was issued for somebody.
CallbacksKnown == \A m \in inflight : m.kind = "callback" => \E x \in flows : x.flow = m.flow
CodesIssued == \A x \in flows : x.code => x.as # Nobody

LEMMA ServerTypeStep == TypeOK /\ CallbacksKnown /\ CodesIssued /\ [ServerNext]_serverVars => TypeOK'
<1> SUFFICES ASSUME TypeOK, CallbacksKnown, CodesIssued, [ServerNext]_serverVars PROVE TypeOK'
  OBVIOUS
<1> USE DEF TypeOK, Answer, Followed
<1>1. CASE UNCHANGED serverVars
  BY <1>1 DEF serverVars, startVars, netVars, StartupTypeOK
<1>2. CASE Starting
  BY <1>2, StartupType DEF Starting, netVars
<1>3. CASE Crash
  BY <1>3, StartupAssumption DEF Crash, StartupTypeOK, Down, NoConfig, Configs
<1>4. ASSUME UNCHANGED startVars PROVE StartupTypeOK'
  BY <1>4 DEF startVars, StartupTypeOK
<1>5. ASSUME NEW b \in Browsers, NEW u \in Users, Login(b, u) PROVE TypeOK'
  <2>1. Response(b, Cardinality(opened) + 1, Keep) \in Message
    BY <1>5, ResponseType DEF Login, OpenSession
  <2> QED
    BY <1>4, <1>5, <2>1 DEF Login, OpenSession
<1>6. ASSUME NEW b \in Browsers, Logout(b) PROVE TypeOK'
  BY <1>4, <1>6, ResponseType DEF Logout
<1>7. ASSUME NEW b \in Browsers, Authorize(b) PROVE TypeOK'
  <2> DEFINE f == Cardinality(flows) + 1
  <2>1. f \in FlowIds /\ Response(b, Keep, f) \in Message
    BY <1>7, ResponseType DEF Authorize
  <2> QED
    <3>1. [flow |-> f, browser |-> b, begun |-> FALSE, as |-> Nobody, code |-> FALSE] \in Flow
      BY <2>1 DEF Flow
    <3> QED
      BY <1>4, <1>7, <2>1, <3>1 DEF Authorize
<1>8. ASSUME NEW b \in Browsers, StateExpires(b) PROVE TypeOK'
  BY <1>4, <1>8 DEF StateExpires
<1>9. ASSUME NEW b \in Browsers, NEW x \in flows, OpenCallback(b, x) PROVE TypeOK'
  BY <1>4, <1>9 DEF OpenCallback, Message, Flow
<1>10. ASSUME NEW x \in flows, NEW u \in Users, SignIn(x, u) PROVE TypeOK'
  BY <1>4, <1>10 DEF SignIn, Flow
<1>11. ASSUME NEW m \in inflight, Receive(m) PROVE TypeOK'
  <2>1. m.browser \in Browsers /\ m.session \in {Keep, None} \cup Tokens
        /\ m.oidc \in {Keep, None} \cup FlowIds
    BY <1>11 DEF Receive, Message
  <2>2. jars' \in [Browsers -> [session : {None} \cup Tokens, oidc : {None} \cup FlowIds]]
    BY <1>11, <2>1 DEF Receive, Set
  <2>3. flows' \subseteq Flow
    BY <1>11 DEF Receive, Flow
  <2> QED
    BY <1>4, <1>11, <2>2, <2>3 DEF Receive
<1>12. ASSUME NEW m \in inflight, Lose(m) PROVE TypeOK'
  BY <1>4, <1>12 DEF Lose
<1>13. ASSUME NEW m \in inflight, Callback(m) PROVE TypeOK'
  <2> DEFINE x == FlowOf(m.flow)
  <2>1. m.browser \in Browsers /\ m.flow \in FlowIds
    BY <1>13 DEF Callback, Message
  <2>2. x \in flows /\ [x EXCEPT !.code = FALSE] \in Flow
    BY <1>13 DEF Callback, CallbacksKnown, FlowOf, Flow
  <2>3. CASE inflight' = (inflight \ {m}) \cup Followed(Refusal(m.browser))
             /\ UNCHANGED <<sessions, opened>>
             /\ flows' \in {flows, (flows \ {x}) \cup {[x EXCEPT !.code = FALSE]}}
             /\ refused' \subseteq refused \cup {x.flow} /\ UNCHANGED excused
    <3>1. Refusal(m.browser) \in Message
      BY <2>1, ResponseType DEF Refusal
    <3>2. refused' \subseteq FlowIds
      BY <2>2, <2>3 DEF Flow
    <3> QED
      BY <1>4, <1>13, <2>2, <2>3, <3>1, <3>2 DEF Callback
  <2>4. CASE /\ x.code /\ OpenSession(m.browser, x.as, m.flow)
             /\ flows' = (flows \ {x}) \cup {[x EXCEPT !.code = FALSE]}
             /\ inflight' = (inflight \ {m})
                               \cup Followed(Response(m.browser, Cardinality(opened) + 1, Keep))
             /\ UNCHANGED <<refused, excused>>
    <3>1. x.as \in Users
      BY <2>2, <2>4 DEF CodesIssued, Flow
    <3>2. Response(m.browser, Cardinality(opened) + 1, Keep) \in Message
      BY <2>1, <2>4, ResponseType DEF OpenSession
    <3>3. StartupTypeOK' /\ UNCHANGED jars
      BY <1>4, <1>13 DEF Callback
    <3>4. flows' \subseteq Flow /\ inflight' \subseteq Message
      BY <2>2, <2>4, <3>2
    <3>5. /\ sessions' \subseteq [token : Tokens, user : Users]
          /\ opened' \subseteq [token : Tokens, user : Users, browser : Browsers,
                               flow : {None} \cup FlowIds]
      BY <2>1, <2>4, <3>1 DEF OpenSession
    <3> QED
      BY <2>4, <3>3, <3>4, <3>5
  <2> QED
    BY <1>13, <2>3, <2>4 DEF Callback
<1> QED
  BY <1>1, <1>2, <1>3, <1>5, <1>6, <1>7, <1>8, <1>9, <1>10, <1>11, <1>12, <1>13 DEF ServerNext
-----------------------------------------------------------------------------
(* How flows and sessions are numbered.                                    *)

FlowsNumbered ==
    /\ IsFiniteSet(flows)
    /\ \A x \in flows : x.flow <= Cardinality(flows)
    /\ \A x, y \in flows : x.flow = y.flow => x = y

\* The row of a session is the one some sign-in opened.
SessionsNumbered ==
    /\ IsFiniteSet(opened)
    /\ \A o \in opened : o.token <= Cardinality(opened)
    /\ \A o, p \in opened : o.token = p.token => o = p
    /\ \A s \in sessions : \E o \in opened : o.token = s.token /\ o.user = s.user

\* What a step leaves of a flow.
Advances(x, y) ==
    /\ y.flow = x.flow /\ y.browser = x.browser
    /\ x.begun => y.begun
    /\ x.as # Nobody => y.as = x.as /\ (y.code => x.code)

Advance == UNCHANGED flows \/ \E x \in flows : \E y : Advances(x, y) /\ flows' = (flows \ {x}) \cup {y}

LEMMA FlowsAdvance ==
    ASSUME FlowsNumbered, Advance
    PROVE  /\ FlowsNumbered'
           /\ \A x \in flows : \E y \in flows' : Advances(x, y)
           /\ \A y \in flows' : \E x \in flows : Advances(x, y)
<1>1. CASE UNCHANGED flows
  BY <1>1 DEF FlowsNumbered, Advances
<1>2. CASE \E x \in flows : \E y : Advances(x, y) /\ flows' = (flows \ {x}) \cup {y}
  <2> PICK x \in flows : \E y : Advances(x, y) /\ flows' = (flows \ {x}) \cup {y}
    BY <1>2
  <2> PICK y : Advances(x, y) /\ flows' = (flows \ {x}) \cup {y}
    BY <1>2
  <2>1. y \notin flows \ {x}
    BY DEF FlowsNumbered, Advances
  <2>2. IsFiniteSet(flows') /\ Cardinality(flows') = Cardinality(flows)
    <3>1. Cardinality(flows) \in Nat
      BY FS_CardinalityType DEF FlowsNumbered
    <3>2. IsFiniteSet(flows \ {x}) /\ Cardinality(flows \ {x}) = Cardinality(flows) - 1
      BY FS_RemoveElement DEF FlowsNumbered
    <3>3. IsFiniteSet(flows') /\ Cardinality(flows') = Cardinality(flows \ {x}) + 1
      BY <2>1, <3>2, FS_AddElement
    <3> QED
      BY <3>1, <3>2, <3>3
  <2>3. FlowsNumbered'
    BY <2>2 DEF FlowsNumbered, Advances
  <2>4. \A z \in flows : Advances(z, z)
    BY DEF Advances
  <2> QED
    BY <2>3, <2>4
<1> QED
  BY <1>1, <1>2 DEF Advance

\* Every step but authorize advances the flows; authorize adds one, with a number of its own.
Begun(b, f) == [flow |-> f, browser |-> b, begun |-> FALSE, as |-> Nobody, code |-> FALSE]

LEMMA FlowsStep ==
    ASSUME TypeOK, CallbacksKnown, FlowsNumbered, [ServerNext]_serverVars,
           \A b \in Browsers : ~ Authorize(b)
    PROVE  Advance
<1>1. ASSUME NEW x \in flows, NEW u \in Users, SignIn(x, u) PROVE Advance
  <2> DEFINE y == [x EXCEPT !.as = u, !.code = TRUE]
  <2>1. Advances(x, y) /\ flows' = (flows \ {x}) \cup {y}
    BY <1>1 DEF SignIn, Advances, TypeOK, Flow
  <2> QED
    BY <2>1 DEF Advance
<1>2. ASSUME NEW m \in inflight, Receive(m) PROVE Advance
  <2> DEFINE to(x) == IF x.flow = m.oidc THEN [x EXCEPT !.begun = TRUE] ELSE x
  <2>1. flows' = {to(x) : x \in flows}
    BY <1>2 DEF Receive
  <2>2. CASE \A x \in flows : x.flow # m.oidc
    BY <2>1, <2>2 DEF Advance
  <2>3. ASSUME NEW x \in flows, x.flow = m.oidc PROVE Advance
    <3> DEFINE y == [x EXCEPT !.begun = TRUE]
    <3>1. \A z \in flows : to(z) = IF z = x THEN y ELSE z
      BY <2>3 DEF FlowsNumbered
    <3> HIDE DEF to
    <3>2. flows' = (flows \ {x}) \cup {y}
      BY <2>1, <3>1
    <3>3. Advances(x, y)
      BY DEF Advances, TypeOK, Flow
    <3> QED
      BY <3>2, <3>3 DEF Advance
  <2> QED
    BY <2>2, <2>3
<1>3. ASSUME NEW m \in inflight, Callback(m) PROVE Advance
  <2> DEFINE x == FlowOf(m.flow)
             y == [x EXCEPT !.code = FALSE]
  <2>1. UNCHANGED flows \/ flows' = (flows \ {x}) \cup {y}
    BY <1>3 DEF Callback
  <2>2. x \in flows
    BY <1>3 DEF Callback, CallbacksKnown, FlowOf
  <2>3. Advances(x, y)
    BY <2>2 DEF Advances, TypeOK, Flow
  <2> QED
    BY <2>1, <2>2, <2>3 DEF Advance
<1> QED
  BY <1>1, <1>2, <1>3
     DEF ServerNext, serverVars, netVars, Starting, Crash, Login, Logout, StateExpires, OpenCallback,
         Lose, Advance

LEMMA FlowsBegin ==
    ASSUME TypeOK, FlowsNumbered, NEW b \in Browsers, Authorize(b)
    PROVE  /\ FlowsNumbered'
           /\ LET f == Cardinality(flows) + 1
              IN  /\ f \in FlowIds /\ flows' = flows \cup {Begun(b, f)}
                  /\ \A x \in flows : x.flow # f
<1> DEFINE f == Cardinality(flows) + 1
<1>1. flows' = flows \cup {Begun(b, f)} /\ f \in FlowIds
  BY DEF Authorize, Begun
<1>2. Cardinality(flows) \in Nat
  BY FS_CardinalityType DEF FlowsNumbered
<1>3. \A x \in flows : x.flow \in Nat /\ x.flow <= Cardinality(flows)
  BY DEF FlowsNumbered, TypeOK, Flow, FlowIds
<1>4. \A x \in flows : x.flow # f
  BY <1>2, <1>3
<1>5. Begun(b, f) \notin flows /\ Begun(b, f).flow = f
  BY <1>4 DEF Begun
<1>6. IsFiniteSet(flows') /\ Cardinality(flows') = f
  BY <1>1, <1>5, FS_AddElement DEF FlowsNumbered
<1>7. FlowsNumbered'
  <2>1. \A x \in flows' : x.flow <= f
    BY <1>1, <1>2, <1>3, <1>5
  <2>2. \A x, y \in flows' : x.flow = y.flow => x = y
    BY <1>1, <1>4, <1>5 DEF FlowsNumbered
  <2> QED
    BY <1>6, <2>1, <2>2 DEF FlowsNumbered
<1> QED
  BY <1>1, <1>4, <1>7

LEMMA NumberedStep ==
    TypeOK /\ CallbacksKnown /\ FlowsNumbered /\ [ServerNext]_serverVars => FlowsNumbered'
BY FlowsStep, FlowsBegin, FlowsAdvance

LEMMA SessionsOpen ==
    ASSUME TypeOK, SessionsNumbered, NEW b, NEW u, NEW f, OpenSession(b, u, f)
    PROVE  SessionsNumbered'
<1> DEFINE token == Cardinality(opened) + 1
           o == [token |-> token, user |-> u, browser |-> b, flow |-> f]
<1>1. opened' = opened \cup {o} /\ sessions' = sessions \cup {[token |-> token, user |-> u]}
  BY DEF OpenSession
<1>2. Cardinality(opened) \in Nat
  BY FS_CardinalityType DEF SessionsNumbered
<1>3. \A p \in opened : p.token \in Nat /\ p.token <= Cardinality(opened)
  BY DEF SessionsNumbered, TypeOK, Tokens
<1>4. \A p \in opened : p.token # token
  BY <1>2, <1>3
<1>5. o \notin opened /\ o.token = token /\ o.user = u
  BY <1>4
<1>6. IsFiniteSet(opened') /\ Cardinality(opened') = token
  BY <1>1, <1>5, FS_AddElement DEF SessionsNumbered
<1> HIDE DEF o
<1>7. \A p \in opened' : p.token <= token
  BY <1>1, <1>2, <1>3, <1>5
<1>8. \A p, q \in opened' : p.token = q.token => p = q
  BY <1>1, <1>4, <1>5 DEF SessionsNumbered
<1>9. \A s \in sessions' : \E p \in opened' : p.token = s.token /\ p.user = s.user
  BY <1>1, <1>5 DEF SessionsNumbered
<1> QED
  BY <1>6, <1>7, <1>8, <1>9 DEF SessionsNumbered

LEMMA SessionsStep == TypeOK /\ SessionsNumbered /\ [ServerNext]_serverVars => SessionsNumbered'
<1> SUFFICES ASSUME TypeOK, SessionsNumbered, [ServerNext]_serverVars PROVE SessionsNumbered'
  OBVIOUS
<1>1. CASE UNCHANGED opened /\ sessions' \subseteq sessions
  BY <1>1 DEF SessionsNumbered
<1>2. ASSUME NEW b \in Browsers, NEW u \in Users, Login(b, u) PROVE SessionsNumbered'
  BY <1>2, SessionsOpen DEF Login
<1>3. ASSUME NEW m \in inflight, Callback(m) PROVE SessionsNumbered'
  <2>1. UNCHANGED <<opened, sessions>> \/ \E b, u, f : OpenSession(b, u, f)
    BY <1>3 DEF Callback
  <2> QED
    BY <1>1, <2>1, SessionsOpen
<1> QED
  BY <1>1, <1>2, <1>3
     DEF ServerNext, serverVars, netVars, Starting, Crash, Logout, Authorize, StateExpires, SignIn,
         OpenCallback, Receive, Lose
-----------------------------------------------------------------------------
(* Whose cookies they are.                                                 *)

\* Flow f was begun by browser b.
Owned(b, f) == \E x \in flows : x.flow = f /\ x.browser = b

\* Session t was opened for somebody who signed in with browser b.
SignedIn(b, t) ==
    \E o \in opened :
       /\ o.token = t /\ o.browser = b
       /\ o.flow # None => \E x \in flows : x.flow = o.flow /\ x.browser = b /\ x.as = o.user

MessageSound(m) ==
    /\ m.kind = "response" =>
          /\ m.oidc \notin {Keep, None} => Owned(m.browser, m.oidc)
          /\ m.session \notin {Keep, None} => SignedIn(m.browser, m.session)
    /\ m.kind = "callback" =>
          /\ \E x \in flows : x.flow = m.flow
          /\ m.cookie # None => Owned(m.browser, m.cookie)

JarSound(b) ==
    /\ jars[b].oidc # None => Owned(b, jars[b].oidc)
    /\ jars[b].session # None => SignedIn(b, jars[b].session)

CookiesSound ==
    /\ \A m \in inflight : MessageSound(m)
    /\ \A b \in Browsers : JarSound(b)
    /\ CodesIssued

\* No flow is lost, so that what a cookie names is still there.
Kept == opened \subseteq opened' /\ \A x \in flows : \E y \in flows' : Advances(x, y)

LEMMA StillOwned ==
    ASSUME TypeOK, Kept
    PROVE  /\ \A b, f : Owned(b, f) => Owned(b, f)'
           /\ \A b, t : SignedIn(b, t) => SignedIn(b, t)'
<1>1. \A b, f : Owned(b, f) => Owned(b, f)'
  BY DEF Kept, Advances, Owned
<1>2. ASSUME NEW b, NEW t, SignedIn(b, t) PROVE SignedIn(b, t)'
  <2> PICK o \in opened :
         /\ o.token = t /\ o.browser = b
         /\ o.flow # None => \E x \in flows : x.flow = o.flow /\ x.browser = b /\ x.as = o.user
    BY <1>2 DEF SignedIn
  <2>1. o \in opened' /\ o.user # Nobody
    BY ServerAssumption DEF Kept, TypeOK
  <2>2. o.flow # None => \E y \in flows' : y.flow = o.flow /\ y.browser = b /\ y.as = o.user
    BY <2>1 DEF Kept, Advances
  <2> QED
    BY <2>1, <2>2 DEF SignedIn
<1> QED
  BY <1>1, <1>2

LEMMA StillSound ==
    ASSUME TypeOK, Kept
    PROVE  /\ \A m : MessageSound(m) => MessageSound(m)'
           /\ \A b : JarSound(b) /\ jars'[b] = jars[b] => JarSound(b)'
<1>1. \A m : MessageSound(m) => MessageSound(m)'
  <2>1. ASSUME NEW f, \E x \in flows : x.flow = f PROVE \E x \in flows' : x.flow = f
    BY <2>1 DEF Kept, Advances
  <2> QED
    BY <2>1, StillOwned DEF MessageSound
<1>2. \A b : JarSound(b) /\ jars'[b] = jars[b] => JarSound(b)'
  BY StillOwned DEF JarSound
<1> QED
  BY <1>1, <1>2

\* A step that only sends.
LEMMA CookiesKept ==
    ASSUME TypeOK, CookiesSound, Kept, CodesIssued', UNCHANGED jars,
           \A m \in inflight' : m \in inflight \/ MessageSound(m)'
    PROVE  CookiesSound'
BY StillSound DEF CookiesSound

LEMMA KeptStep ==
    TypeOK /\ CallbacksKnown /\ FlowsNumbered /\ [ServerNext]_serverVars => Kept
<1> SUFFICES ASSUME TypeOK, CallbacksKnown, FlowsNumbered, [ServerNext]_serverVars PROVE Kept
  OBVIOUS
<1>1. opened \subseteq opened'
  <2>1. ASSUME NEW m \in inflight, Callback(m) PROVE opened \subseteq opened'
    BY <2>1 DEF Callback, OpenSession
  <2> QED
    BY <2>1 DEF ServerNext, serverVars, netVars, Starting, Crash, Login, OpenSession, Logout, Authorize,
                StateExpires, SignIn, OpenCallback, Receive, Lose
<1>2. CASE \A b \in Browsers : ~ Authorize(b)
  BY <1>1, <1>2, FlowsStep, FlowsAdvance DEF Kept
<1>3. ASSUME NEW b \in Browsers, Authorize(b) PROVE Kept
  BY <1>1, <1>3, FlowsBegin DEF Kept, Advances
<1> QED
  BY <1>2, <1>3

\* The flow of a callback whose cookie is right was begun by the browser that sent it.
LEMMA VerifiedOwn ==
    ASSUME TypeOK, FlowsNumbered, CookiesSound, NEW m \in inflight, m.kind = "callback",
           Verified(m.cookie, m.flow)
    PROVE  FlowOf(m.flow) \in flows /\ FlowOf(m.flow).flow = m.flow
           /\ FlowOf(m.flow).browser = m.browser
<1>1. m.flow \in FlowIds /\ m.cookie = m.flow
  BY DEF TypeOK, Message, Verified
<1>2. Owned(m.browser, m.flow)
  BY <1>1 DEF CookiesSound, MessageSound, FlowIds, None
<1>3. FlowOf(m.flow) \in flows /\ FlowOf(m.flow).flow = m.flow
  BY <1>2 DEF Owned, FlowOf
<1> QED
  BY <1>2, <1>3 DEF Owned, FlowsNumbered

LEMMA CodesStep ==
    TypeOK /\ CookiesSound /\ FlowsNumbered /\ [ServerNext]_serverVars => CodesIssued'
<1> SUFFICES ASSUME TypeOK, CookiesSound, FlowsNumbered, [ServerNext]_serverVars PROVE CodesIssued'
  OBVIOUS
<1>1. CallbacksKnown /\ CodesIssued
  BY DEF CookiesSound, MessageSound, CallbacksKnown
<1>2. CASE UNCHANGED flows
  BY <1>1, <1>2 DEF CodesIssued
<1>3. ASSUME NEW b \in Browsers, Authorize(b) PROVE CodesIssued'
  BY <1>1, <1>3 DEF CodesIssued, Authorize
<1>4. ASSUME NEW x \in flows, NEW u \in Users, SignIn(x, u) PROVE CodesIssued'
  BY <1>1, <1>4, ServerAssumption DEF CodesIssued, SignIn, TypeOK, Flow
<1>5. ASSUME NEW m \in inflight, Receive(m) PROVE CodesIssued'
  BY <1>1, <1>5 DEF CodesIssued, Receive, TypeOK, Flow
<1>6. ASSUME NEW m \in inflight, Callback(m) PROVE CodesIssued'
  <2>1. FlowOf(m.flow) \in flows
    BY <1>1, <1>6 DEF Callback, CallbacksKnown, FlowOf
  <2>2. UNCHANGED flows
        \/ flows' = (flows \ {FlowOf(m.flow)}) \cup {[FlowOf(m.flow) EXCEPT !.code = FALSE]}
    BY <1>6 DEF Callback
  <2> QED
    BY <1>1, <2>1, <2>2 DEF CodesIssued, TypeOK, Flow
<1> QED
  BY <1>2, <1>3, <1>4, <1>5, <1>6
     DEF ServerNext, serverVars, netVars, Starting, Crash, Login, Logout, StateExpires, OpenCallback, Lose

\* A session is opened for whoever signs in, with the browser that is answered.
LEMMA OpenedSignedIn ==
    ASSUME NEW b, NEW u, NEW f, NEW t, t = Cardinality(opened) + 1, OpenSession(b, u, f),
           f # None => \E y \in flows' : y.flow = f /\ y.browser = b /\ y.as = u
    PROVE  SignedIn(b, t)'
<1> DEFINE o == [token |-> t, user |-> u, browser |-> b, flow |-> f]
<1>1. o \in opened'
  BY DEF OpenSession
<1>2. o.token = t /\ o.user = u /\ o.browser = b /\ o.flow = f
  OBVIOUS
<1> HIDE DEF o
<1> QED
  BY <1>1, <1>2 DEF SignedIn

\* Every action keeps the cookies with their browsers.
LEMMA CookiesStep ==
    TypeOK /\ FlowsNumbered /\ CookiesSound /\ [ServerNext]_serverVars => CookiesSound'
<1> SUFFICES ASSUME TypeOK, FlowsNumbered, CookiesSound, [ServerNext]_serverVars
             PROVE  CookiesSound'
  OBVIOUS
<1>1. CallbacksKnown /\ Kept /\ CodesIssued'
  <2>1. CallbacksKnown
    BY DEF CookiesSound, MessageSound, CallbacksKnown
  <2> QED
    BY <2>1, KeptStep, CodesStep
<1>2. CASE UNCHANGED jars /\ inflight' \subseteq inflight
  BY <1>1, <1>2, CookiesKept
<1>3. ASSUME NEW b \in Browsers, NEW u \in Users, Login(b, u) PROVE CookiesSound'
  <2> PICK t : t = Cardinality(opened) + 1
    OBVIOUS
  <2>1. SignedIn(b, t)'
    BY <1>3, OpenedSignedIn DEF Login
  <2>2. MessageSound(Response(b, t, Keep))'
    BY <2>1 DEF MessageSound, Response
  <2> QED
    BY <1>1, <1>3, <2>2, CookiesKept DEF Login, Answer, Followed
<1>4. ASSUME NEW b \in Browsers, Logout(b) PROVE CookiesSound'
  <2>1. MessageSound(Response(b, None, Keep))'
    BY DEF MessageSound, Response
  <2> QED
    BY <1>1, <1>4, <2>1, CookiesKept DEF Logout, Answer, Followed
<1>5. ASSUME NEW b \in Browsers, Authorize(b) PROVE CookiesSound'
  <2> PICK f : f = Cardinality(flows) + 1
    OBVIOUS
  <2>1. Owned(b, f)'
    <3>1. Begun(b, f) \in flows' /\ Begun(b, f).flow = f /\ Begun(b, f).browser = b
      BY <1>5 DEF Authorize, Begun
    <3> QED
      BY <3>1 DEF Owned
  <2>2. MessageSound(Response(b, Keep, f))'
    BY <2>1 DEF MessageSound, Response
  <2> QED
    BY <1>1, <1>5, <2>2, CookiesKept DEF Authorize, Answer, Followed
<1>6. ASSUME NEW b \in Browsers, NEW x \in flows, OpenCallback(b, x) PROVE CookiesSound'
  <2> PICK m : m = [kind |-> "callback", browser |-> b, flow |-> x.flow, cookie |-> jars[b].oidc]
    OBVIOUS
  <2>1. MessageSound(m)
    BY DEF CookiesSound, JarSound, MessageSound
  <2>2. MessageSound(m)'
    BY <1>1, <2>1, StillSound
  <2> QED
    BY <1>1, <1>6, <2>2, CookiesKept DEF OpenCallback, Answer, Followed
<1>7. ASSUME NEW b \in Browsers, StateExpires(b) PROVE CookiesSound'
  <2>1. \A c \in Browsers : jars'[c].session = jars[c].session /\ jars'[c].oidc \in {None, jars[c].oidc}
    BY <1>7 DEF StateExpires, TypeOK
  <2>2. \A c \in Browsers : JarSound(c)'
    BY <1>1, <2>1, StillOwned DEF CookiesSound, JarSound
  <2> QED
    BY <1>1, <1>7, <2>2, StillSound DEF StateExpires, CookiesSound
<1>8. ASSUME NEW m \in inflight, Receive(m) PROVE CookiesSound'
  <2>1. MessageSound(m)' /\ m.kind = "response"
    BY <1>1, <1>8, StillSound DEF CookiesSound, Receive
  <2>2. \A c \in Browsers :
           /\ c # m.browser => jars'[c] = jars[c]
           /\ c = m.browser => /\ jars'[c].session = Set(jars[c].session, m.session)
                               /\ jars'[c].oidc = Set(jars[c].oidc, m.oidc)
    BY <1>8 DEF Receive, TypeOK
  <2>3. ASSUME NEW c \in Browsers PROVE JarSound(c)'
    <3>1. CASE c # m.browser
      BY <1>1, <2>2, <3>1, StillSound DEF CookiesSound
    <3>2. CASE c = m.browser
      <4>1. jars'[c].session = Set(jars[c].session, m.session) /\ jars'[c].oidc = Set(jars[c].oidc, m.oidc)
        BY <2>2, <3>2
      <4>2. ASSUME NEW f, f = jars[c].oidc, f # None PROVE Owned(c, f)'
        <5>1. Owned(c, f)
          BY <4>2 DEF CookiesSound, JarSound
        <5> QED
          BY <1>1, <5>1, StillOwned
      <4>3. ASSUME NEW t, t = jars[c].session, t # None PROVE SignedIn(c, t)'
        <5>1. SignedIn(c, t)
          BY <4>3 DEF CookiesSound, JarSound
        <5> QED
          BY <1>1, <5>1, StillOwned
      <4> QED
        BY <2>1, <3>2, <4>1, <4>2, <4>3 DEF JarSound, MessageSound, Set
    <3> QED
      BY <3>1, <3>2
  <2>4. \A n \in inflight' : MessageSound(n)'
    BY <1>1, <1>8, StillSound DEF CookiesSound, Receive
  <2> QED
    BY <1>1, <2>3, <2>4 DEF CookiesSound
<1>9. ASSUME NEW m \in inflight, Callback(m) PROVE CookiesSound'
  <2> PICK t : t = Cardinality(opened) + 1
    OBVIOUS
  <2> DEFINE x == FlowOf(m.flow)
  <2>1. CASE inflight' = (inflight \ {m}) \cup Followed(Refusal(m.browser)) /\ UNCHANGED jars
    <3>1. inflight' \subseteq inflight
      BY <2>1 DEF Followed, Refusal, Response
    <3> QED
      BY <1>2, <2>1, <3>1
  <2>2. CASE /\ Verified(m.cookie, m.flow) /\ x.code /\ OpenSession(m.browser, x.as, m.flow)
             /\ inflight' = (inflight \ {m}) \cup Followed(Response(m.browser, t, Keep))
             /\ UNCHANGED jars
    <3>1. x \in flows /\ x.flow = m.flow /\ x.browser = m.browser /\ x.as # Nobody
      BY <1>9, <2>2, VerifiedOwn DEF Callback, CookiesSound, CodesIssued
    <3>2. \E y \in flows' : y.flow = m.flow /\ y.browser = m.browser /\ y.as = x.as
      BY <1>1, <3>1 DEF Kept, Advances
    <3>3. SignedIn(m.browser, t)'
      BY <2>2, <3>2, OpenedSignedIn
    <3>4. MessageSound(Response(m.browser, t, Keep))'
      BY <3>3 DEF MessageSound, Response
    <3> QED
      BY <1>1, <2>2, <3>4, CookiesKept DEF Followed
  <2> QED
    BY <1>9, <2>1, <2>2 DEF Callback
<1> QED
  BY <1>2, <1>3, <1>4, <1>5, <1>6, <1>7, <1>8, <1>9
     DEF ServerNext, serverVars, netVars, Starting, Crash, SignIn, Lose
-----------------------------------------------------------------------------
(* Flows that are alone in their browser.                                  *)

Lone(x) == x.flow \notin excused /\ \A y \in flows : y.browser = x.browser => y = x

LoneSound(x) ==
    /\ x.begun => jars[x.browser].oidc = x.flow
    /\ x.flow \notin refused
    /\ \A m \in inflight :
          m.kind = "callback" /\ m.browser = x.browser /\ m.flow = x.flow => m.cookie = x.flow

\* No response clears the state cookie, that of a sign-in included.
NothingClears == \A m \in inflight : m.kind = "response" => m.oidc # None

SignedInBegun == \A x \in flows : x.as # Nobody => x.begun

LoneInv == (\A x \in flows : Lone(x) => LoneSound(x)) /\ NothingClears /\ SignedInBegun

\* A flow that is alone was so before.
LEMMA StillLone ==
    ASSUME FlowsNumbered, Kept, excused \subseteq excused', NEW x \in flows, NEW y \in flows',
           Advances(x, y), Lone(y)'
    PROVE  Lone(x)
<1>1. x.flow \notin excused
  BY DEF Lone, Advances
<1>2. ASSUME NEW z \in flows, z.browser = x.browser PROVE z = x
  <2>1. PICK w \in flows' : Advances(z, w)
    BY DEF Kept
  <2>2. w = y
    BY <1>2, <2>1 DEF Advances, Lone
  <2> QED
    BY <2>1, <2>2 DEF Advances, FlowsNumbered
<1> QED
  BY <1>1, <1>2 DEF Lone

LEMMA LoneAdvance ==
    ASSUME FlowsNumbered, LoneInv, Advance, Kept, excused \subseteq excused',
           \A x \in flows, y \in flows' : Advances(x, y) /\ Lone(x) /\ Lone(y)' => LoneSound(y)',
           \A m \in inflight' : m \in inflight \/ m.kind # "response" \/ m.oidc # None,
           SignedInBegun'
    PROVE  LoneInv'
<1>1. \A y \in flows' : \E x \in flows : Advances(x, y)
  BY FlowsAdvance
<1>2. ASSUME NEW y \in flows', Lone(y)' PROVE LoneSound(y)'
  BY <1>1, <1>2, StillLone
<1>3. NothingClears'
  BY DEF LoneInv, NothingClears
<1> QED
  BY <1>2, <1>3 DEF LoneInv

\* A step that neither begins a flow at its provider nor reads or writes its cookie.
LEMMA LoneApart ==
    ASSUME FlowsNumbered, LoneInv, Advance, Kept, UNCHANGED <<jars, refused>>,
           excused \subseteq excused', SignedInBegun',
           \A y \in flows' : \E x \in flows : x.flow = y.flow /\ (y.begun => x.begun),
           \A m \in inflight' : m \in inflight \/ (m.kind = "response" /\ m.oidc # None)
    PROVE  LoneInv'
<1>1. ASSUME NEW x \in flows, NEW y \in flows', Advances(x, y), Lone(x) PROVE LoneSound(y)'
  <2>1. y.flow = x.flow /\ y.browser = x.browser /\ (y.begun => x.begun)
    BY <1>1 DEF Advances, FlowsNumbered
  <2>2. LoneSound(x)
    BY <1>1 DEF LoneInv
  <2> QED
    BY <2>1, <2>2 DEF LoneSound
<1> QED
  BY <1>1, LoneAdvance

LEMMA LoneReceive ==
    ASSUME TypeOK, FlowsNumbered, CookiesSound, LoneInv, Advance, Kept, NEW m \in inflight, Receive(m)
    PROVE  LoneInv'
<1>1. /\ UNCHANGED <<excused, refused>> /\ inflight' \subseteq inflight /\ m.kind = "response"
      /\ flows' = {IF x.flow = m.oidc THEN [x EXCEPT !.begun = TRUE] ELSE x : x \in flows}
      /\ \A c \in Browsers : jars'[c].oidc = IF c = m.browser THEN Set(jars[c].oidc, m.oidc)
                                             ELSE jars[c].oidc
  BY DEF Receive, TypeOK
<1>2. ASSUME NEW x \in flows, NEW y \in flows', Advances(x, y), Lone(x) PROVE LoneSound(y)'
  <2>1. LoneSound(x) /\ y.flow = x.flow /\ y.browser = x.browser /\ x.browser \in Browsers
        /\ x.flow \in FlowIds
    BY <1>2 DEF LoneInv, Advances, TypeOK, Flow
  <2>2. ASSUME m.browser = x.browser, m.oidc # Keep PROVE m.oidc = x.flow
    <3>1. m.oidc # None
      BY <1>1, <2>2 DEF LoneInv, NothingClears
    <3>2. Owned(x.browser, m.oidc)
      BY <1>1, <2>2, <3>1 DEF CookiesSound, MessageSound
    <3> QED
      BY <1>2, <3>2 DEF Owned, Lone
  <2>3. y.begun /\ ~ x.begun => m.oidc = x.flow /\ m.browser = x.browser
    <3> SUFFICES ASSUME y.begun, ~ x.begun PROVE m.oidc = x.flow /\ m.browser = x.browser
      OBVIOUS
    <3>1. PICK z \in flows : y = IF z.flow = m.oidc THEN [z EXCEPT !.begun = TRUE] ELSE z
      BY <1>1
    <3>2. z = x
      BY <2>1, <3>1 DEF FlowsNumbered, TypeOK, Flow
    <3>3. m.oidc = x.flow
      BY <3>1, <3>2
    <3>4. Owned(m.browser, x.flow)
      BY <1>1, <2>1, <3>3, ServerAssumption DEF CookiesSound, MessageSound, FlowIds, None
    <3> QED
      BY <3>3, <3>4 DEF Owned, FlowsNumbered
  <2>4. y.begun => jars'[x.browser].oidc = x.flow
    <3>1. x.flow # Keep
      BY <2>1, ServerAssumption DEF FlowIds
    <3> QED
      BY <1>1, <2>1, <2>2, <2>3, <3>1 DEF LoneSound, Set
  <2> QED
    BY <1>1, <2>1, <2>4 DEF LoneSound
<1>3. SignedInBegun'
  BY <1>1 DEF LoneInv, SignedInBegun, TypeOK, Flow
<1> QED
  BY <1>1, <1>2, <1>3, LoneAdvance

LEMMA LoneCallback ==
    ASSUME TypeOK, FlowsNumbered, CookiesSound, LoneInv, Advance, Kept, NEW m \in inflight, Callback(m)
    PROVE  LoneInv'
<1> DEFINE x == FlowOf(m.flow)
<1>1. m.kind = "callback" /\ x \in flows /\ x.flow = m.flow /\ UNCHANGED jars
  BY DEF Callback, CookiesSound, MessageSound, FlowOf
<1>2. UNCHANGED flows \/ flows' = (flows \ {x}) \cup {[x EXCEPT !.code = FALSE]}
  BY DEF Callback
<1> HIDE DEF x
<1>3. \A y \in flows' : \E z \in flows : z.flow = y.flow /\ (y.begun => z.begun)
  BY <1>1, <1>2 DEF TypeOK, Flow
<1>4. SignedInBegun'
  BY <1>1, <1>2 DEF LoneInv, SignedInBegun, TypeOK, Flow
<1>5. CASE /\ refused' \subseteq refused \cup {z.flow : z \in {w \in {x} : w.browser = m.browser}}
           /\ refused' # refused => m.cookie # m.flow
           /\ inflight' \subseteq inflight /\ UNCHANGED excused
  <2>1. ASSUME NEW z \in flows, NEW y \in flows', Advances(z, y), Lone(z) PROVE LoneSound(y)'
    <3>1. LoneSound(z)
      BY <2>1 DEF LoneInv
    <3>2. y.flow = z.flow /\ y.browser = z.browser /\ (y.begun => z.begun)
      BY <1>3, <2>1 DEF Advances, FlowsNumbered
    <3>3. z.flow \notin refused'
      <4> SUFFICES ASSUME z.flow \in refused' PROVE FALSE
        OBVIOUS
      <4>1. z.flow = x.flow /\ x.browser = m.browser /\ m.cookie # m.flow
        BY <1>5, <3>1 DEF LoneSound
      <4>2. z = x
        BY <1>1, <4>1 DEF FlowsNumbered
      <4> QED
        BY <1>1, <3>1, <4>1, <4>2 DEF LoneSound
    <3> QED
      BY <1>1, <1>5, <3>1, <3>2, <3>3 DEF LoneSound
  <2> QED
    BY <1>4, <1>5, <2>1, LoneAdvance
<1>6. CASE /\ UNCHANGED <<refused, excused>>
           /\ inflight' \subseteq inflight \cup {Response(m.browser, Cardinality(opened) + 1, Keep)}
  <2>1. \A n \in inflight' : n \in inflight \/ (n.kind = "response" /\ n.oidc # None)
    BY <1>6, ServerAssumption DEF Response, None
  <2> QED
    BY <1>1, <1>3, <1>4, <1>6, <2>1, LoneApart
<1> QED
  <2>1. Followed(Refusal(m.browser)) = {}
    BY DEF Followed, Refusal, Response
  <2>2. Followed(Response(m.browser, Cardinality(opened) + 1, Keep))
          \subseteq {Response(m.browser, Cardinality(opened) + 1, Keep)}
    BY DEF Followed
  <2> QED
    BY <1>5, <1>6, <2>1, <2>2 DEF Callback, Verified, x

RefusedKnown == \A f \in refused : \E x \in flows : x.flow = f

LEMMA RefusedStep ==
    TypeOK /\ CallbacksKnown /\ FlowsNumbered /\ RefusedKnown /\ [ServerNext]_serverVars => RefusedKnown'
<1> SUFFICES ASSUME TypeOK, CallbacksKnown, FlowsNumbered, RefusedKnown, [ServerNext]_serverVars
             PROVE  RefusedKnown'
  OBVIOUS
<1>1. \A f \in refused' : \E x \in flows : x.flow = f
  <2>1. ASSUME NEW m \in inflight, Callback(m) PROVE \A f \in refused' : \E x \in flows : x.flow = f
    <3>1. FlowOf(m.flow) \in flows
      BY <2>1 DEF Callback, CallbacksKnown, FlowOf
    <3>2. refused' \subseteq refused \cup {FlowOf(m.flow).flow}
      BY <2>1 DEF Callback
    <3> QED
      BY <3>1, <3>2 DEF RefusedKnown
  <2> QED
    BY <2>1 DEF RefusedKnown, ServerNext, serverVars, netVars, Starting, Crash, Login, Logout, Authorize,
                StateExpires, SignIn, OpenCallback, Receive, Lose
<1> QED
  BY <1>1, KeptStep DEF RefusedKnown, Kept, Advances

\* Every action keeps the invariant.
LEMMA LoneStep ==
    TypeOK /\ FlowsNumbered /\ CookiesSound /\ RefusedKnown /\ LoneInv /\ [ServerNext]_serverVars => LoneInv'
<1> SUFFICES ASSUME TypeOK, FlowsNumbered, CookiesSound, RefusedKnown, LoneInv, [ServerNext]_serverVars
             PROVE  LoneInv'
  OBVIOUS
<1>1. CallbacksKnown /\ Kept
  <2>1. CallbacksKnown
    BY DEF CookiesSound, MessageSound, CallbacksKnown
  <2> QED
    BY <2>1, KeptStep
<1>2. ASSUME NEW b \in Browsers, Authorize(b) PROVE LoneInv'
  <2> PICK f : f = Cardinality(flows) + 1
    OBVIOUS
  <2>1. flows' = flows \cup {Begun(b, f)} /\ \A x \in flows : x.flow # f
    BY <1>2, FlowsBegin
  <2>2. UNCHANGED <<jars, refused, excused>> /\ inflight' = inflight \cup Followed(Response(b, Keep, f))
    BY <1>2 DEF Authorize, Answer
  <2>3. \A n \in inflight' : n \in inflight \/ (n.kind = "response" /\ n.oidc # None)
    BY <1>2, <2>2 DEF Followed, Response, Authorize, FlowIds, None
  <2>4. Begun(b, f).flow = f /\ Begun(b, f).browser = b /\ ~ Begun(b, f).begun
        /\ Begun(b, f).as = Nobody
    BY DEF Begun
  <2>5. f \notin refused /\ \A m \in inflight : m.kind = "callback" => m.flow # f
    BY <1>1, <2>1 DEF RefusedKnown, CallbacksKnown
  <2>6. ASSUME NEW y \in flows', Lone(y)' PROVE LoneSound(y)'
    <3>1. CASE y = Begun(b, f)
      BY <2>2, <2>3, <2>4, <2>5, <3>1 DEF LoneSound
    <3>2. CASE y \in flows
      <4>1. LoneSound(y)
        BY <2>1, <2>2, <2>6, <3>2 DEF LoneInv, Lone
      <4> QED
        BY <2>2, <2>3, <4>1 DEF LoneSound
    <3> QED
      BY <2>1, <3>1, <3>2
  <2>7. NothingClears' /\ SignedInBegun'
    BY <2>1, <2>2, <2>3, <2>4 DEF LoneInv, NothingClears, SignedInBegun
  <2> QED
    BY <2>6, <2>7 DEF LoneInv
<1>3. CASE \A b \in Browsers : ~ Authorize(b)
  <2>1. Advance
    BY <1>1, <1>3, FlowsStep
  <2>2. CASE UNCHANGED <<jars, refused, flows, excused>>
             /\ \A n \in inflight' : n \in inflight \/ (n.kind = "response" /\ n.oidc # None)
    BY <1>1, <2>1, <2>2, LoneApart DEF LoneInv, SignedInBegun
  <2>3. ASSUME NEW b \in Browsers, (\E u \in Users : Login(b, u)) \/ Logout(b) PROVE LoneInv'
    <3>1. Keep # None
      BY ServerAssumption DEF None
    <3> QED
      BY <2>2, <2>3, <3>1 DEF Login, Logout, Answer, Followed, Response
  <2>4. ASSUME NEW b \in Browsers, StateExpires(b) PROVE LoneInv'
    <3>1. /\ UNCHANGED <<flows, inflight, refused>> /\ excused' = excused \cup {jars[b].oidc}
          /\ \A c \in Browsers \ {b} : jars'[c] = jars[c]
      BY <2>4 DEF StateExpires, TypeOK
    <3>2. ASSUME NEW x \in flows, NEW y \in flows', Advances(x, y), Lone(x), Lone(y)' PROVE LoneSound(y)'
      <4>1. y = x /\ LoneSound(x) /\ x.flow # jars[b].oidc /\ x.browser \in Browsers
        BY <3>1, <3>2 DEF Advances, FlowsNumbered, LoneInv, Lone, TypeOK, Flow
      <4>2. x.begun => x.browser # b
        BY <4>1 DEF LoneSound
      <4> QED
        BY <3>1, <4>1, <4>2 DEF LoneSound
    <3> QED
      BY <1>1, <2>1, <3>1, <3>2, LoneAdvance DEF LoneInv, SignedInBegun
  <2>5. ASSUME NEW b \in Browsers, NEW z \in flows, OpenCallback(b, z) PROVE LoneInv'
    <3> PICK m : m = [kind |-> "callback", browser |-> b, flow |-> z.flow, cookie |-> jars[b].oidc]
      OBVIOUS
    <3>1. /\ UNCHANGED <<flows, jars, refused, excused>> /\ inflight' \subseteq inflight \cup {m}
          /\ z.begun
      BY <2>5 DEF OpenCallback, Answer, Followed, LoneInv, SignedInBegun
    <3>2. ASSUME NEW x \in flows, NEW y \in flows', Advances(x, y), Lone(x) PROVE LoneSound(y)'
      <4>1. y = x /\ LoneSound(x)
        BY <3>1, <3>2 DEF Advances, FlowsNumbered, LoneInv
      <4>2. m.browser = x.browser /\ m.flow = x.flow => m.cookie = x.flow
        BY <3>1, <4>1 DEF LoneSound, FlowsNumbered
      <4> QED
        BY <3>1, <4>1, <4>2 DEF LoneSound
    <3> QED
      BY <1>1, <2>1, <3>1, <3>2, LoneAdvance DEF LoneInv, SignedInBegun
  <2>6. ASSUME NEW x \in flows, NEW u \in Users, SignIn(x, u) PROVE LoneInv'
    <3>1. /\ UNCHANGED <<jars, inflight, refused, excused>> /\ x.begun
          /\ flows' = (flows \ {x}) \cup {[x EXCEPT !.as = u, !.code = TRUE]}
      BY <2>6 DEF SignIn
    <3>2. SignedInBegun'
      BY <3>1 DEF LoneInv, SignedInBegun, TypeOK, Flow
    <3>3. \A y \in flows' : \E z \in flows : z.flow = y.flow /\ (y.begun => z.begun)
      BY <3>1 DEF TypeOK, Flow
    <3> QED
      BY <1>1, <2>1, <3>1, <3>2, <3>3, LoneApart
  <2>7. ASSUME NEW m \in inflight, Receive(m) PROVE LoneInv'
    BY <1>1, <2>1, <2>7, LoneReceive
  <2>8. ASSUME NEW m \in inflight, Callback(m) PROVE LoneInv'
    BY <1>1, <2>1, <2>8, LoneCallback
  <2> QED
    BY <1>3, <2>2, <2>3, <2>4, <2>5, <2>6, <2>7, <2>8
       DEF ServerNext, serverVars, netVars, Starting, Crash, Lose
<1> QED
  BY <1>2, <1>3
-----------------------------------------------------------------------------
(* The theorems.                                                           *)

ServerInv ==
    /\ TypeOK /\ Established
    /\ FlowsNumbered /\ SessionsNumbered
    /\ CookiesSound /\ RefusedKnown /\ LoneInv

LEMMA ServerInvInit == ServerInit => ServerInv
<1> SUFFICES ASSUME ServerInit PROVE ServerInv
  OBVIOUS
<1>1. TypeOK
  BY StartupAssumption, DownType DEF ServerInit, StartupInit, StartupTypeOK, TypeOK, Pcs
<1>2. Established
  BY DEF ServerInit, StartupInit, Down, Established
<1>3. FlowsNumbered /\ SessionsNumbered
  BY FS_EmptySet DEF ServerInit, FlowsNumbered, SessionsNumbered
<1>4. CookiesSound /\ RefusedKnown /\ LoneInv
  BY DEF ServerInit, CookiesSound, JarSound, CodesIssued, RefusedKnown, LoneInv, NothingClears, SignedInBegun
<1> QED
  BY <1>1, <1>2, <1>3, <1>4 DEF ServerInv

LEMMA ServerInvStep == ServerInv /\ [ServerNext]_serverVars => ServerInv'
<1> SUFFICES ASSUME ServerInv, [ServerNext]_serverVars PROVE ServerInv'
  OBVIOUS
<1> USE DEF ServerInv
<1>1. CallbacksKnown /\ CodesIssued
  BY DEF CookiesSound, MessageSound, CallbacksKnown
<1>2. TypeOK'
  BY <1>1, ServerTypeStep
<1>3. Established'
  <2>1. CASE Starting
    BY <2>1, EstablishedStep DEF Starting, TypeOK
  <2>2. CASE Crash
    BY <2>2 DEF Crash, Down, Established
  <2>3. CASE UNCHANGED startVars
    BY <2>3 DEF startVars, Established
  <2> QED
    BY <2>1, <2>2, <2>3 DEF ServerNext, serverVars, Login, Logout, Authorize, StateExpires, OpenCallback,
                            SignIn, Callback, Receive, Lose
<1>4. FlowsNumbered' /\ SessionsNumbered'
  BY <1>1, NumberedStep, SessionsStep
<1>5. CookiesSound' /\ RefusedKnown' /\ LoneInv'
  BY <1>1, CookiesStep, RefusedStep, LoneStep
<1> QED
  BY <1>2, <1>3, <1>4, <1>5

\* The types of the process, of the flows, of what is on its way and of the histories.
THEOREM ServerTypeCorrect == ServerSpec => []TypeOK
<1>1. ServerInv => TypeOK
  BY DEF ServerInv
<1> QED
  BY <1>1, ServerInvInit, ServerInvStep, PTL DEF ServerSpec

\* Whatever steps of its start failed, a server that listens is a whole one, with the parts
\* that its command line configured.
THEOREM ListeningIsWhole == ServerSpec => []ServedAsConfigured
<1>1. ServerInv => ServedAsConfigured
  BY EstablishedServes DEF ServerInv, TypeOK
<1> QED
  BY <1>1, ServerInvInit, ServerInvStep, PTL DEF ServerSpec

\* Nobody is signed in with a browser in which they did not sign in.
THEOREM NoForeignSession == ServerSpec => []SignedInAsOneself
<1>1. ServerInv => SignedInAsOneself
  BY DEF ServerInv, CookiesSound, JarSound, SignedIn, SignedInAsOneself
<1> QED
  BY <1>1, ServerInvInit, ServerInvStep, PTL DEF ServerSpec

\* A flow that is alone in its browser, and in time, is not refused for its state.
THEOREM LoneFlowsPass == ServerSpec => []LoneFlowSignsIn
<1>1. ServerInv => LoneFlowSignsIn
  BY DEF ServerInv, LoneInv, LoneSound, Lone, LoneFlowSignsIn
<1> QED
  BY <1>1, ServerInvInit, ServerInvStep, PTL DEF ServerSpec

\* What the server does for u it does for an administrator, if it is an administrator's.
LEMMA AdminWorkNeedsAdmin == DoesAdminWork \subseteq Admins
<1> SUFFICES ASSUME NEW u, NEW w, w \in Serves(u), AdminWork(w[1], w[2]) PROVE u \in Admins
  BY DEF DoesAdminWork
<1>1. RouteLayers(w[1], u) /\ Extractor(w[1], u) /\ Decides(w[1], u, w[2])
  BY DEF Serves
<1> QED
  BY <1>1 DEF RouteLayers, Extractor, Decides, AdminWork

\* The work of administrators is done for a live session of one of them.
THEOREM AdminWorkAuthorized == ServerSpec => []AdminWorkOnlyForAdmins
<1>1. ServerInv => AdminWorkOnlyForAdmins
  <2> SUFFICES ASSUME ServerInv, NEW b \in Browsers, UserOf(jars[b].session) \in DoesAdminWork
               PROVE  \E o \in opened : /\ o.token = jars[b].session /\ o.user \in Admins
                                        /\ \E s \in sessions : s.token = o.token
    BY DEF AdminWorkOnlyForAdmins
  <2>1. UserOf(jars[b].session) \in Admins
    BY AdminWorkNeedsAdmin
  <2>2. PICK s \in sessions : s.token = jars[b].session /\ s.user = UserOf(jars[b].session)
    BY <2>1, ServerAssumption DEF UserOf
  <2>3. PICK o \in opened : o.token = s.token /\ o.user = s.user
    BY DEF ServerInv, SessionsNumbered
  <2> QED
    BY <2>1, <2>2, <2>3
<1> QED
  BY <1>1, ServerInvInit, ServerInvStep, PTL DEF ServerSpec
=============================================================================
