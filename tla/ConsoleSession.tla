--------------------------- MODULE ConsoleSession ---------------------------
(***************************************************************************)
(* The console at the app origin and the identity session at the auth      *)
(* origin: the one-time handoff that turns an identity session into a      *)
(* console session, and the sign-out that must end both.  The rows are     *)
(* platform.console_auth_transactions ("handoffs") and console_sessions;   *)
(* auth.session belongs to Better Auth (external).  A request is a handler *)
(* up to its next await.                                                   *)
(***************************************************************************)
EXTENDS Integers

CONSTANTS
    Users,      \* owners of accounts
    Browsers,   \* each holds cookies of both origins
    Sessions,   \* identity session ids
    Handoffs,   \* request ids of console_auth_transactions
    Consoles,   \* hashes of console session tokens
    Requests    \* requests in flight

ASSUME ConsoleConstants ==
    "none" \notin Users \cup Browsers \cup Sessions \cup Handoffs \cup Consoles

VARIABLES
    auth,       \* auth.session: the user of a live session
    jar,        \* the identity session cookie of a browser
    active,     \* the users whose account is active
    handoff,    \* console_auth_transactions
    console,    \* console_sessions
    app,        \* the console session cookie of a browser
    req,        \* requests in flight
    minted,     \* console sessions opened through a handoff (history)
    was,        \* identity sessions a browser has had (history)
    done,       \* identity sessions that a sign-out has deleted (history)
    answered    \* identity sessions whose sign-out was answered (history)

vars == <<auth, jar, active, handoff, console, app, req, minted, was, done, answered>>

HandoffRow ==
    [purpose: {"none", "login", "logout"}, b: Browsers \cup {"none"},
     s: Sessions \cup {"none"}, u: Users \cup {"none"},
     to: Browsers \cup {"none"}, used: BOOLEAN]
ConsoleRow == [s: Sessions \cup {"none"}, u: Users \cup {"none"}, revoked: BOOLEAN]
InFlight ==
    [at: {"idle", "binding", "opening", "leaving"}, b: Browsers \cup {"none"},
     h: Handoffs \cup {"none"}, s: Sessions \cup {"none"}, u: Users \cup {"none"}]

NoHandoff == [purpose |-> "none", b |-> "none", s |-> "none", u |-> "none",
              to |-> "none", used |-> FALSE]
NoConsole == [s |-> "none", u |-> "none", revoked |-> FALSE]
Idle == [at |-> "idle", b |-> "none", h |-> "none", s |-> "none", u |-> "none"]

TypeOK ==
    /\ auth \in [Sessions -> Users \cup {"none"}]
    /\ jar \in [Browsers -> Sessions \cup {"none"}]
    /\ active \subseteq Users
    /\ handoff \in [Handoffs -> HandoffRow]
    /\ \A h \in Handoffs : handoff[h].s = "none" <=> handoff[h].u = "none"
    /\ console \in [Consoles -> ConsoleRow]
    /\ app \in [Browsers -> Consoles \cup {"none"}]
    /\ req \in [Requests -> InFlight]
    /\ minted \in [Handoffs -> 0 .. 2]
    /\ was \in [Browsers -> SUBSET Sessions]
    /\ done \subseteq Sessions /\ answered \subseteq Sessions

Init ==
    /\ auth = [s \in Sessions |-> "none"] /\ jar = [b \in Browsers |-> "none"]
    /\ active = Users /\ handoff = [h \in Handoffs |-> NoHandoff]
    /\ console = [c \in Consoles |-> NoConsole] /\ app = [b \in Browsers |-> "none"]
    /\ req = [r \in Requests |-> Idle]
    /\ minted = [h \in Handoffs |-> 0] /\ was = [b \in Browsers |-> {}]
    /\ done = {} /\ answered = {}

-----------------------------------------------------------------------------
(* Rows and locks. *)

Live(s) == s # "none" /\ auth[s] # "none"

\* getSession with the account's link: what the auth origin knows of a browser.
SignedIn(b) == Live(jar[b]) /\ auth[jar[b]] \in active

\* The FOR UPDATE of an exchange, which holds the row over the next await.
Locked(h) == \E r \in Requests : req[r].at = "opening" /\ req[r].h = h

\* Mutants: nobody looks at consumed_at; the code is not compared; the foreign
\* key to auth.session is missing.
Reusable(h) == TRUE
SecretOnly(b, h) == handoff[h].b = b /\ handoff[h].to # "none"
Dangling(s) == TRUE

Unconsumed(h) == ~handoff[h].used

\* The code is in the fragment of the page that the authorizing browser was
\* sent to; a second authorization by the same session replaces it.
HasCode(b, h) == handoff[h].to = b

\* The secret is a cookie of the browser that asked.
Holds(b, h) == handoff[h].b = b /\ HasCode(b, h)

\* The foreign key: a row that names an ended session cannot be written.
Referable(s) == Live(s)

Create(h, row) == /\ handoff[h].purpose = "none"
                  /\ \A r \in Requests : req[r].h # h
                  /\ handoff' = [handoff EXCEPT ![h] = row]

\* resolveSession
Resolves(c) == /\ c # "none" /\ ~console[c].revoked
               /\ Live(console[c].s) /\ console[c].u \in active

-----------------------------------------------------------------------------
(* Signing in to the console. *)

\* GET /v1/console/login, where the pages of the console send a visitor
CreateLogin(b, h) ==
    /\ ~Resolves(app[b])
    /\ Create(h, [NoHandoff EXCEPT !.purpose = "login", !.b = b])
    /\ UNCHANGED <<auth, jar, active, console, app, req, minted, was, done, answered>>

\* GET /v1/account/console/authorize reads the session and its account.
Authorize(r, b, h) ==
    /\ req[r] = Idle /\ SignedIn(b)
    /\ req' = [req EXCEPT ![r] = [at |-> "binding", b |-> b, h |-> h,
                                  s |-> jar[b], u |-> auth[jar[b]]]]
    /\ UNCHANGED <<auth, jar, active, handoff, console, app, minted, was, done, answered>>

\* authorizeLogin: the first authorization fixes the session and the account.
Bind(r) ==
    LET q == req[r]  o == handoff[q.h] IN
    /\ q.at = "binding" /\ ~Locked(q.h)
    /\ req' = [req EXCEPT ![r] = Idle]
    /\ handoff' = IF /\ o.purpose = "login" /\ Unconsumed(q.h)
                     /\ o.s \in {"none", q.s} /\ o.u \in {"none", q.u}
                     /\ Referable(q.s)
                  THEN [handoff EXCEPT ![q.h].s = q.s, ![q.h].u = q.u, ![q.h].to = q.b]
                  ELSE handoff
    /\ UNCHANGED <<auth, jar, active, console, app, minted, was, done, answered>>

\* POST /v1/session/exchange, up to the reading of the authority
Exchange(r, b, h) ==
    LET o == handoff[h] IN
    /\ req[r] = Idle /\ ~Locked(h)
    /\ o.purpose = "login" /\ o.s # "none"
    /\ Unconsumed(h) /\ Holds(b, h)
    /\ Live(o.s) /\ o.u \in active
    /\ req' = [req EXCEPT ![r] = [at |-> "opening", b |-> b, h |-> h, s |-> o.s, u |-> o.u]]
    /\ UNCHANGED <<auth, jar, active, handoff, console, app, minted, was, done, answered>>

\* The insert, the consumption and COMMIT; the answer sets the cookie.
Open(r, c) ==
    LET q == req[r] IN
    /\ q.at = "opening" /\ console[c] = NoConsole
    /\ \A b \in Browsers : app[b] # c
    /\ req' = [req EXCEPT ![r] = Idle]
    /\ IF Referable(q.s) /\ Unconsumed(q.h)
       THEN /\ console' = [console EXCEPT ![c] = [s |-> q.s, u |-> q.u, revoked |-> FALSE]]
            /\ handoff' = [handoff EXCEPT ![q.h].used = TRUE]
            /\ minted' = [minted EXCEPT ![q.h] = @ + 1]
            /\ app' = [app EXCEPT ![q.b] = c]
       ELSE UNCHANGED <<console, handoff, minted, app>>
    /\ UNCHANGED <<auth, jar, active, was, done, answered>>

-----------------------------------------------------------------------------
(* Signing out. *)

\* auth.session rows go, and with them what refers to them; a browser forgets
\* the cookie, or sends one that nothing matches.
End(s) ==
    /\ auth' = [auth EXCEPT ![s] = "none"]
    /\ jar' = [b \in Browsers |-> IF jar[b] = s THEN "none" ELSE jar[b]]
    /\ handoff' = [h \in Handoffs |-> IF handoff[h].s = s THEN NoHandoff ELSE handoff[h]]
    /\ minted' = [h \in Handoffs |-> IF handoff[h].s = s THEN 0 ELSE minted[h]]
    /\ console' = [c \in Consoles |-> IF console[c].s = s THEN NoConsole ELSE console[c]]

LogoutOf(k) == [NoHandoff EXCEPT !.purpose = "logout", !.s = k.s, !.u = k.u]

\* POST /app/logout: beginLogout revokes and leaves a transaction behind.
BeginLogout(b, h) ==
    LET c == app[b] IN
    /\ c # "none" /\ console[c] # NoConsole /\ ~console[c].revoked
    /\ Create(h, LogoutOf(console[c]))
    /\ console' = [console EXCEPT ![c].revoked = TRUE]
    /\ app' = [app EXCEPT ![b] = "none"]
    /\ UNCHANGED <<auth, jar, active, req, minted, was, done, answered>>

\* validateLogout
Validates(h, s) ==
    handoff[h].purpose = "logout" /\ handoff[h].s = s /\ Unconsumed(h)

\* GET /v1/account/console/logout shows the form and changes nothing, so the
\* POST asks the same again.
MayLeave(b, h) == Live(jar[b]) /\ Validates(h, jar[b])

\* POST /v1/account/console/logout: validateLogout consumes, then signOut runs.
Logout(r, b, h) ==
    /\ req[r] = Idle /\ MayLeave(b, h)
    /\ handoff' = [handoff EXCEPT ![h].used = TRUE]
    /\ req' = [req EXCEPT ![r] = [at |-> "leaving", b |-> b, h |-> h, s |-> jar[b], u |-> "none"]]
    /\ UNCHANGED <<auth, jar, active, console, app, minted, was, done, answered>>

SignOut(r) ==
    LET q == req[r] IN
    /\ q.at = "leaving" /\ End(q.s)
    /\ req' = [req EXCEPT ![r] = Idle]
    /\ done' = done \cup {q.s} /\ answered' = answered \cup {q.s}
    /\ UNCHANGED <<active, app, was>>

\* The deletion fails.  Nobody looks at the status of signOut's response: the
\* answer is the same redirect, with whatever cookies that response clears.
SignOutFails(r) ==
    LET q == req[r] IN
    /\ q.at = "leaving"
    /\ req' = [req EXCEPT ![r] = Idle] /\ answered' = answered \cup {q.s}
    /\ jar' \in {jar, [jar EXCEPT ![q.b] = "none"]}
    /\ UNCHANGED <<auth, active, handoff, console, app, minted, was, done>>

-----------------------------------------------------------------------------
(* What goes on around. *)

\* The login of AccountLogin ends with a new identity session in the browser.
SignIn(b, s, u) ==
    /\ auth[s] = "none" /\ s \notin done
    /\ \A r \in Requests : req[r].s # s
    /\ \A x \in Browsers : s \notin was[x]
    /\ auth' = [auth EXCEPT ![s] = u] /\ jar' = [jar EXCEPT ![b] = s]
    /\ was' = [was EXCEPT ![b] = @ \cup {s}]
    /\ UNCHANGED <<active, handoff, console, app, req, minted, done, answered>>

\* An identity session expires or is ended elsewhere.  The purge of an expired
\* row does what a sign-out does, and until then no query matches it.
EndSession(s) == /\ Live(s) /\ End(s) /\ UNCHANGED <<active, app, req, was, done, answered>>

CloseAccount(u) ==
    /\ u \in active /\ active' = active \ {u}
    /\ UNCHANGED <<auth, jar, handoff, console, app, req, minted, was, done, answered>>

\* Five minutes end a handoff, a day later it is purged.
Lapse(h) ==
    /\ handoff[h] # NoHandoff /\ \A r \in Requests : req[r].h # h
    /\ handoff' = [handoff EXCEPT ![h] = NoHandoff]
    /\ minted' = [minted EXCEPT ![h] = 0]
    /\ UNCHANGED <<auth, jar, active, console, app, req, was, done, answered>>

Crash(r) ==
    /\ req[r] # Idle /\ req' = [req EXCEPT ![r] = Idle]
    /\ UNCHANGED <<auth, jar, active, handoff, console, app, minted, was, done, answered>>

Next ==
    \/ \E b \in Browsers, h \in Handoffs : CreateLogin(b, h) \/ BeginLogout(b, h)
    \/ \E r \in Requests, b \in Browsers, h \in Handoffs :
          Authorize(r, b, h) \/ Exchange(r, b, h) \/ Logout(r, b, h)
    \/ \E r \in Requests : Bind(r) \/ SignOut(r) \/ SignOutFails(r) \/ Crash(r)
    \/ \E r \in Requests, c \in Consoles : Open(r, c)
    \/ \E b \in Browsers, s \in Sessions, u \in Users : SignIn(b, s, u)
    \/ \E s \in Sessions : EndSession(s)
    \/ \E u \in Users : CloseAccount(u)
    \/ \E h \in Handoffs : Lapse(h)

Spec == Init /\ [][Next]_vars

-----------------------------------------------------------------------------
(* Properties. *)

\* A handoff opens at most one console session, however many tabs exchange it
\* and whatever dies in between.
SingleUse == \A h \in Handoffs : minted[h] <= 1

\* The console session of a browser comes from an identity session of that same
\* browser: a handoff asked for in one browser and authorized in another never
\* signs the first one in as the second.
SameBrowser ==
    \A b \in Browsers : Resolves(app[b]) => console[app[b]].s \in was[b]

\* Everything of an identity session that is to go with it.
NothingLeft(s) == /\ auth[s] = "none"
                  /\ \A c \in Consoles : console[c].s # s
                  /\ \A h \in Handoffs : handoff[h].s # s

\* Sign-out: once it has deleted the identity session no console session made
\* from it is left, in any browser, and none appears later from a handoff or an
\* exchange that was under way.
SignOutEndsBoth == \A s \in done : NothingLeft(s)

\* "This ends both the console session and its authoritative identity session."
\* (the page of /v1/account/console/logout).  It does not hold of every answered
\* sign-out: one whose deletion fails is answered in the same way.
AnsweredSignOutEndsBoth == \A s \in answered : NothingLeft(s)
=============================================================================
