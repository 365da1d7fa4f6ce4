---------------------------- MODULE AccountLogin ----------------------------
(***************************************************************************)
(* Signing in with an emailed code, and the projection of an identity onto *)
(* an account with a home tenant.  Better Auth (external) keeps the codes  *)
(* and the identity sessions; the control API keeps login transactions and *)
(* calls platform.ensure_account_auth_link.  A request is a handler run up *)
(* to its next await; requests of one browser or of several interleave,    *)
(* and a process may die with a request in it.                             *)
(***************************************************************************)
EXTENDS Integers, Sequences

CONSTANTS
    Users,          \* identities; each has an address of its own
    Browsers,       \* holders of a csrf cookie and of a session cookie
    Sessions,       \* identity session ids
    Txs,            \* login transaction tokens
    Requests,       \* requests in flight
    Leaving         \* users whose home tenant may be deleted

ASSUME LoginConstants ==
    /\ "none" \notin Users \cup Sessions \cup Txs
    /\ Leaving \subseteq Users /\ Browsers # {}

VARIABLES
    tx,       \* account_login_transactions, with the browser of csrf_hash
    otp,      \* whether the owner of an address has its stored code
    auth,     \* auth.session: the user of a live session
    jar,      \* the session cookie of a browser
    account,  \* the account an auth_user_id is linked to
    home,     \* whether that account has a row of account_home_tenants
    req,      \* what each request in flight has learnt
    app,      \* the browsers that were sent on to their return path (history)
    rows,     \* accounts created for a user and not yet purged (history)
    wins      \* who completed a transaction, in order (history)

vars == <<tx, otp, auth, jar, account, home, req, app, rows, wins>>

Transaction == [state: {"gone", "open", "used"}, b: Browsers,
                email: Users \cup {"none"}]
Request == [at: {"idle", "bound", "signed", "known", "held"}, b: Browsers,
            t: Txs \cup {"none"}, u: Users \cup {"none"},
            s: Sessions \cup {"none"}, set: BOOLEAN, found: BOOLEAN]

TypeOK ==
    /\ tx \in [Txs -> Transaction]
    /\ otp \in [Users -> BOOLEAN]
    /\ auth \in [Sessions -> Users \cup {"none"}]
    /\ jar \in [Browsers -> Sessions \cup {"none"}]
    /\ account \in [Users -> {"none", "active", "closed"}]
    /\ home \in [Users -> BOOLEAN]
    /\ req \in [Requests -> Request]
    /\ \A b \in Browsers : jar[b] # "none" => auth[jar[b]] # "none"
    /\ app \subseteq Browsers
    /\ rows \in [Users -> 0 .. 2]
    /\ wins \in [Txs -> Seq(Browsers \X Users)]

Asked(at, b, t, u, s) ==
    [at |-> at, b |-> b, t |-> t, u |-> u, s |-> s, set |-> FALSE, found |-> FALSE]
Idle == Asked("idle", CHOOSE b \in Browsers : TRUE, "none", "none", "none")
Gone == [state |-> "gone", b |-> Idle.b, email |-> "none"]

Init ==
    /\ tx = [t \in Txs |-> Gone]
    /\ otp = [u \in Users |-> FALSE]
    /\ auth = [s \in Sessions |-> "none"]
    /\ jar = [b \in Browsers |-> "none"]
    /\ account = [u \in Users |-> "none"]
    /\ home = [u \in Users |-> FALSE]
    /\ req = [r \in Requests |-> Idle]
    /\ app = {} /\ rows = [u \in Users |-> 0] /\ wins = [t \in Txs |-> <<>>]

-----------------------------------------------------------------------------
(* Reading and answering. *)

\* getSession: the cookie names a session that has not ended.
Live(s) == s # "none" /\ auth[s] # "none"
Alive(b) == Live(jar[b])

\* Mutants: bind and complete do not lock the row; the link is looked up by a
\* key that never matches.
NeverLocked(t) == FALSE
NeverLinked(u) == FALSE

\* The row locks of a transaction that another request has open, and the
\* advisory lock of its user.
TxLocked(t) == t # "none" /\ \E r \in Requests : req[r].at = "held" /\ req[r].t = t
UserLocked(u) == \E r \in Requests : req[r].at = "held" /\ req[r].u = u

\* The handlers that end in a redirect send the cookie of a new session even
\* when what followed the sign-in failed.
Answer(r, ok) ==
    /\ req' = [req EXCEPT ![r] = Idle]
    /\ jar' = IF req[r].set /\ Live(req[r].s)
              THEN [jar EXCEPT ![req[r].b] = req[r].s] ELSE jar
    /\ app' = IF ok /\ req[r].t # "none" /\ Live(req[r].s)
              THEN app \cup {req[r].b} ELSE app

-----------------------------------------------------------------------------
(* The login transaction store.  A csrf cookie ties a form to its browser. *)

Created(b) == [state |-> "open", b |-> b, email |-> "none"]

\* A token is drawn at random; an identifier stands for a new one once no
\* request names the row it stood for.
Unnamed(t) == \A r \in Requests : req[r].t # t

Create(b, t) == /\ tx[t].state # "open" /\ Unnamed(t)
                /\ tx' = [tx EXCEPT ![t] = Created(b)]
                /\ wins' = [wins EXCEPT ![t] = <<>>]

\* validateLoginMutation and csrf_hash: the form, the cookie and the row agree.
SameCsrf(b, t) == tx[t].b = b

\* Mutant: nobody looks at consumed_at.
UsableTwice(b, t) == tx[t].state # "gone" /\ SameCsrf(b, t)

Usable(b, t) == tx[t].state = "open" /\ SameCsrf(b, t)

BindEmail(b, t, u) ==
    /\ ~TxLocked(t) /\ Usable(b, t) /\ tx[t].email \in {"none", u}
    /\ tx' = [tx EXCEPT ![t].email = u]

Restart(b, t, new) ==
    /\ ~TxLocked(t) /\ Usable(b, t) /\ Unnamed(new)
    /\ new # t => tx[new].state # "open"
    /\ tx' = [tx EXCEPT ![t].state = "used", ![new] = Created(b)]
    /\ wins' = [wins EXCEPT ![new] = <<>>]

\* complete up to the lookup of the link: both locks are held from here on.
Completable(b, t, u) == Usable(b, t) /\ tx[t].email \in {"none", u}

\* ensure_account_auth_link looks for a link whose account has a home.
Linked(u) == account[u] # "none" /\ home[u]

Begin(r) ==
    LET q == req[r] IN
    /\ q.at = "known" /\ ~TxLocked(q.t) /\ ~UserLocked(q.u)
    /\ IF q.t = "none" \/ Completable(q.b, q.t, q.u)
       THEN /\ req' = [req EXCEPT ![r].at = "held", ![r].found = Linked(q.u)]
            /\ UNCHANGED <<jar, app>>
       ELSE Answer(r, FALSE)
    /\ UNCHANGED <<tx, otp, auth, account, home, rows, wins>>

\* The inserts of ensure_account_auth_link: the link's primary key admits one
\* account, whatever the lookup said.
Projected(u, found) == found \/ account[u] = "none"

\* Mutant: the account is inserted before the link is looked up.
ProjectFirst(u, found) ==
    /\ account' = [account EXCEPT ![u] = "active"]
    /\ home' = [home EXCEPT ![u] = TRUE]
    /\ rows' = [rows EXCEPT ![u] = @ + 1]

Project(u, found) ==
    IF found THEN UNCHANGED <<account, home, rows>>
    ELSE /\ account' = [account EXCEPT ![u] = "active"]
         /\ home' = [home EXCEPT ![u] = TRUE]
         /\ rows' = [rows EXCEPT ![u] = @ + 1]

\* resolve finds active accounts only.
Refused(q) == ~Projected(q.u, q.found) \/ (q.found /\ account[q.u] # "active")

\* The rest of complete, or of provision when there is no transaction: the
\* transaction is consumed together with the projection.
Commit(r) ==
    LET q == req[r] IN
    /\ q.at = "held" /\ ~Refused(q)
    /\ Project(q.u, q.found)
    /\ IF q.t = "none" THEN UNCHANGED <<tx, wins>>
       ELSE /\ tx' = [tx EXCEPT ![q.t].state = "used"]
            /\ wins' = [wins EXCEPT ![q.t] = Append(@, <<q.b, q.u>>)]
    /\ Answer(r, TRUE)
    /\ UNCHANGED <<otp, auth>>

\* ROLLBACK: the projection was refused, or the database was out of reach.
Rollback(r) ==
    /\ req[r].at = "held" /\ Answer(r, FALSE)
    /\ UNCHANGED <<tx, otp, auth, account, home, rows, wins>>

-----------------------------------------------------------------------------
(* Handlers. *)

\* GET /v1/account/login
OpenLogin(r, b, t) ==
    /\ req[r] = Idle /\ Create(b, t)
    /\ req' = IF Alive(b)
              THEN [req EXCEPT ![r] = Asked("known", b, t, auth[jar[b]], jar[b])]
              ELSE req
    /\ UNCHANGED <<otp, auth, jar, account, home, app, rows>>

\* reserve counts the sends of an hour and of a day; which of its answers a
\* request gets is left open here, and so is claim's, a minute later at most.
Reservations == {"allowed", "limited", "unavailable"}
Claims == BOOLEAN

\* ResendOtpEmailSender: what is not rejected may arrive or not.
Arrives(outcome) == IF outcome = "rejected" THEN {FALSE} ELSE BOOLEAN

\* What the send endpoint leaves of the code: without a reservation the stored
\* one stays, otherwise it is rotated, and the new one is lost with the claim.
Issue(u) ==
    \E reservation \in Reservations, claimed \in Claims,
      outcome \in {"accepted", "rejected", "unknown"} :
        IF reservation # "allowed" THEN UNCHANGED otp
        ELSE \E c \in IF claimed THEN Arrives(outcome) ELSE {FALSE} :
                otp' = [otp EXCEPT ![u] = c]

\* POST /v1/account/email/send and /resend
SendCode(b, t, u) ==
    /\ BindEmail(b, t, u) /\ Issue(u)
    /\ UNCHANGED <<auth, jar, account, home, req, app, rows, wins>>

\* POST /v1/account/email/change
ChangeEmail(b, t, new) ==
    /\ Restart(b, t, new)
    /\ UNCHANGED <<otp, auth, jar, account, home, req, app, rows>>

\* POST /v1/account/email/verify, first await
Verify(r, b, t, u) ==
    /\ req[r] = Idle /\ BindEmail(b, t, u)
    /\ req' = [req EXCEPT ![r] = Asked("bound", b, t, u, jar[b])]
    /\ UNCHANGED <<otp, auth, jar, account, home, app, rows, wins>>

\* A browser that is signed in already needs no code.
ReuseSession(r) ==
    /\ req[r].at = "bound" /\ Live(req[r].s)
    /\ req' = [req EXCEPT ![r].at = "signed"]
    /\ UNCHANGED <<tx, otp, auth, jar, account, home, app, rows, wins>>

\* POST /sign-in/email-otp consumes the code and opens a session.
SignIn(r, s) ==
    LET q == req[r] IN
    /\ q.at = "bound" /\ ~Live(q.s) /\ otp[q.u]
    /\ auth[s] = "none" /\ \A x \in Requests : req[x].s # s
    /\ otp' = [otp EXCEPT ![q.u] = FALSE]
    /\ auth' = [auth EXCEPT ![s] = q.u]
    /\ req' = [req EXCEPT ![r].at = "signed", ![r].s = s, ![r].set = TRUE]
    /\ UNCHANGED <<tx, jar, account, home, app, rows, wins>>

\* A wrong code; the fifth one deletes what is stored.
WrongCode(r) ==
    /\ req[r].at = "bound" /\ ~Live(req[r].s)
    /\ \E c \in {otp[req[r].u], FALSE} : otp' = [otp EXCEPT ![req[r].u] = c]
    /\ Answer(r, FALSE)
    /\ UNCHANGED <<tx, auth, account, home, rows, wins>>

\* POST /v1/account/bootstrap, the retry the failure page offers
Bootstrap(r, b, t) ==
    /\ req[r] = Idle
    /\ req' = [req EXCEPT ![r] = Asked("signed", b, t, "none", jar[b])]
    /\ UNCHANGED <<tx, otp, auth, jar, account, home, app, rows, wins>>

\* completeLogin reads the session; complete works for the user it found.
CompleteLogin(r) ==
    LET q == req[r] IN
    /\ q.at = "signed"
    /\ IF Live(q.s) THEN /\ req' = [req EXCEPT ![r].at = "known", ![r].u = auth[q.s]]
                         /\ UNCHANGED <<jar, app>>
       ELSE Answer(r, FALSE)
    /\ UNCHANGED <<tx, otp, auth, account, home, rows, wins>>

\* Any authenticated route provisions the account of a session that has none.
Authenticate(r, b) ==
    /\ req[r] = Idle /\ Alive(b) /\ ~Linked(auth[jar[b]])
    /\ req' = [req EXCEPT ![r] = Asked("known", b, "none", auth[jar[b]], jar[b])]
    /\ UNCHANGED <<tx, otp, auth, jar, account, home, app, rows, wins>>

\* GET /app with no membership: ensure_personal_workspace gives a home back.
EnsureWorkspace(b) ==
    /\ b \in app /\ Alive(b)
    /\ account[auth[jar[b]]] = "active"
    /\ home' = [home EXCEPT ![auth[jar[b]]] = TRUE]
    /\ UNCHANGED <<tx, otp, auth, jar, account, req, app, rows, wins>>

\* POST /v1/account/logout, and a session that reaches its twelve hours
EndSession(s) ==
    /\ Live(s)
    /\ auth' = [auth EXCEPT ![s] = "none"]
    /\ jar' = [b \in Browsers |-> IF jar[b] = s THEN "none" ELSE jar[b]]
    /\ app' = {b \in app : jar[b] # s}
    /\ UNCHANGED <<tx, otp, account, home, req, rows, wins>>

-----------------------------------------------------------------------------
(* Time, crashes and the deletion of accounts and tenants. *)

\* Ten minutes pass and the row matches no statement any more; handlers run in
\* milliseconds.
Lapse(t) ==
    /\ tx[t].state # "gone" /\ \A r \in Requests : req[r].t # t
    /\ tx' = [tx EXCEPT ![t] = Gone] /\ wins' = [wins EXCEPT ![t] = <<>>]
    /\ UNCHANGED <<otp, auth, jar, account, home, req, app, rows>>

\* The process dies: an open transaction is rolled back, no answer is sent.
Crash(r) ==
    /\ req[r] # Idle /\ req' = [req EXCEPT ![r] = Idle]
    /\ UNCHANGED <<tx, otp, auth, jar, account, home, app, rows, wins>>

\* An account is suspended or marked deleted.
CloseAccount(u) ==
    /\ account[u] = "active" /\ account' = [account EXCEPT ![u] = "closed"]
    /\ UNCHANGED <<tx, otp, auth, jar, home, req, app, rows, wins>>

\* The deletion job purges it; its link and home follow by foreign key.
PurgeAccount(u) ==
    /\ account[u] = "closed" /\ account' = [account EXCEPT ![u] = "none"]
    /\ home' = [home EXCEPT ![u] = FALSE]
    /\ rows' = [rows EXCEPT ![u] = @ - 1]
    /\ UNCHANGED <<tx, otp, auth, jar, req, app, wins>>

\* The deletion job of the home tenant purges it; the home row follows.
DeleteHome(u) ==
    /\ u \in Leaving /\ account[u] = "active" /\ home[u]
    /\ home' = [home EXCEPT ![u] = FALSE]
    /\ UNCHANGED <<tx, otp, auth, jar, account, req, app, rows, wins>>

Handle(r) == \/ ReuseSession(r) \/ WrongCode(r) \/ CompleteLogin(r)
             \/ Begin(r) \/ Commit(r) \/ Rollback(r)
             \/ \E s \in Sessions : SignIn(r, s)

Next ==
    \/ \E r \in Requests : Handle(r) \/ Crash(r)
    \/ \E b \in Browsers : EnsureWorkspace(b)
    \/ \E r \in Requests, b \in Browsers : Authenticate(r, b)
    \/ \E r \in Requests, b \in Browsers, t \in Txs : OpenLogin(r, b, t) \/ Bootstrap(r, b, t)
    \/ \E b \in Browsers, t \in Txs, u \in Users :
          SendCode(b, t, u) \/ \E r \in Requests : Verify(r, b, t, u)
    \/ \E b \in Browsers, t, new \in Txs : ChangeEmail(b, t, new)
    \/ \E s \in Sessions : EndSession(s)
    \/ \E t \in Txs : Lapse(t)
    \/ \E u \in Users : CloseAccount(u) \/ PurgeAccount(u) \/ DeleteHome(u)

Spec == Init /\ [][Next]_vars

\* A signed-in visitor keeps opening the login page until the application lets
\* it in.  Whatever happened before, in the end no process dies, the database
\* answers, and nothing but logins goes on.
Persists(b) == \E r \in Requests, t \in Txs :
                  Alive(b) /\ b \notin app /\ OpenLogin(r, b, t)
Calm == \/ \E r \in Requests : Handle(r) /\ (Rollback(r) => Refused(req[r]))
        \/ \E r \in Requests, b \in Browsers, t \in Txs : OpenLogin(r, b, t)
        \/ \E t \in Txs : Lapse(t)
Fairness ==
    /\ \A r \in Requests : SF_vars(Handle(r))
    /\ \A b \in Browsers : SF_vars(Persists(b))
    /\ \A t \in Txs : WF_vars(Lapse(t))
    /\ <>[][Calm]_vars

FairSpec == Spec /\ Fairness

-----------------------------------------------------------------------------
(* Properties. *)

\* Completion is single-use: however many tabs, retries and crashed attempts
\* share a transaction, at most one of them signs in through it.
CompletedOnce == \A t \in Txs : Len(wins[t]) <= 1

\* A transaction is only completed in the browser that opened it and by the
\* owner of its address, even when that browser holds another user's session or
\* the address is bound while the completion is under way.
CompletedByItsOwner ==
    \A t \in Txs : \A i \in 1 .. Len(wins[t]) :
        wins[t][i][1] = tx[t].b /\ tx[t].email \in {"none", wins[t][i][2]}

\* The projection is one-to-one: concurrent first sign-ins of one user, from
\* the login and from any authenticated route, leave a single account.
OneAccountPerUser ==
    \A u \in Users : rows[u] = IF account[u] = "none" THEN 0 ELSE 1

\* A user whose projection failed keeps the session and gets in by retrying,
\* without a new code, as long as the account is not closed nor its home gone.
Owner(b) == auth[jar[b]]
Welcome(b) == Alive(b) /\ account[Owner(b)] # "closed"
Housed(b) == Welcome(b) /\ (account[Owner(b)] = "none" \/ home[Owner(b)])
RetryGetsIn == \A b \in Browsers : Housed(b) ~> (b \in app \/ ~Housed(b))

\* "If projection fails, [...] a protected retry can complete initialization
\* without a new code" (ADR-019), and only closed accounts are excepted.
EveryRetryGetsIn == \A b \in Browsers : Welcome(b) ~> (b \in app \/ ~Welcome(b))
=============================================================================
