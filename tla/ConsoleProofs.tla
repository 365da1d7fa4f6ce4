---------------------------- MODULE ConsoleProofs ----------------------------
(***************************************************************************)
(* Proofs about the console, for any number of users, browsers, sessions,  *)
(* tenants, grants and requests: how a console session is opened and ended *)
(* (ConsoleSession), and what whoever holds one sees of a tenant and       *)
(* changes in it (TenantAccess).                                           *)
(***************************************************************************)
EXTENDS ConsoleSession, TenantAccess, TLAPS

-----------------------------------------------------------------------------
(* ConsoleSession: OwnInv follows an identity session from the browser     *)
(* that has its cookie through the handoff into the console session;       *)
(* LiveInv says that rows name live sessions only, and what an exchange    *)
(* under way still knows of its handoff.                                   *)


\* Whoever presents an identity session, in a cookie, a request or a handoff it
\* authorized, has signed in with it; so has the browser of a console session.
OwnInv ==
    /\ \A b \in Browsers : jar[b] # "none" => jar[b] \in was[b]
    /\ \A h \in Handoffs : handoff[h].to # "none" => handoff[h].s \in was[handoff[h].to]
    /\ \A r \in Requests : req[r].at # "idle" => req[r].s \in was[req[r].b]
    /\ \A b \in Browsers : app[b] # "none" =>
          console[app[b]] = NoConsole \/ console[app[b]].s \in was[b]
    /\ \A b, x \in Browsers : app[b] # "none" /\ app[b] = app[x] => b = x

\* What a request carries, by how far it has got, and what a console row holds.
CarryInv ==
    /\ \A r \in Requests : req[r].at # "idle" =>
          req[r].b # "none" /\ req[r].h # "none" /\ req[r].s # "none"
    /\ \A r \in Requests : req[r].at \in {"binding", "opening"} => req[r].u # "none"
    /\ \A c \in Consoles :
          console[c] = NoConsole \/ (console[c].s # "none" /\ console[c].u # "none")

\* Rows name live sessions, and a session that was signed out never lives again.
LiveInv ==
    /\ \A s \in done : auth[s] = "none"
    /\ \A c \in Consoles : console[c].s # "none" => auth[console[c].s] # "none"
    /\ \A h \in Handoffs : handoff[h].s # "none" => auth[handoff[h].s] # "none"

\* A handoff that has opened a session is used up; until then an exchange under
\* way finds it as it was, or finds its session ended.
UseInv ==
    /\ \A h \in Handoffs :
          minted[h] = IF handoff[h].purpose = "login" /\ handoff[h].used THEN 1 ELSE 0
    /\ \A r \in Requests :
          req[r].at = "opening" /\ auth[req[r].s] # "none" =>
             handoff[req[r].h].purpose = "login" /\ handoff[req[r].h].s = req[r].s

ConsoleInv == TypeOK /\ OwnInv /\ CarryInv /\ LiveInv /\ UseInv

-----------------------------------------------------------------------------
\* Replacing one row of a table.
LEMMA ReplacedRow ==
    ASSUME NEW Ids, NEW Rows, NEW table \in [Ids -> Rows], NEW i \in Ids, NEW row \in Rows
    PROVE  LET new == [table EXCEPT ![i] = row]
           IN  new \in [Ids -> Rows] /\ new[i] = row /\ \A j \in Ids : j # i => new[j] = table[j]
  OBVIOUS

\* Consuming a handoff changes nothing else of its row.
LEMMA UsedRow ==
    ASSUME NEW o \in HandoffRow
    PROVE  LET p == [o EXCEPT !.used = TRUE]
           IN  /\ p \in HandoffRow /\ p.used
               /\ p.purpose = o.purpose /\ p.s = o.s /\ p.u = o.u /\ p.to = o.to
  BY DEF HandoffRow

LEMMA UsedTable ==
    ASSUME NEW table \in [Handoffs -> HandoffRow], NEW h \in Handoffs
    PROVE  LET new == [table EXCEPT ![h].used = TRUE]
           IN  /\ new \in [Handoffs -> HandoffRow] /\ new[h].used
               /\ \A x \in Handoffs :
                     /\ new[x].purpose = table[x].purpose /\ new[x].s = table[x].s
                     /\ new[x].u = table[x].u /\ new[x].to = table[x].to
                     /\ x # h => new[x] = table[x]
<1> DEFINE p == [table[h] EXCEPT !.used = TRUE]
<1>1. table[h] \in HandoffRow
  OBVIOUS
<1>2. /\ p \in HandoffRow /\ p.used /\ p.purpose = table[h].purpose
      /\ p.s = table[h].s /\ p.u = table[h].u /\ p.to = table[h].to
  BY <1>1, UsedRow
<1> QED  BY <1>2, ReplacedRow

\* Revoking a console session changes nothing else of its row.
LEMMA RevokedRow ==
    ASSUME NEW k \in ConsoleRow
    PROVE  LET p == [k EXCEPT !.revoked = TRUE]
           IN  p \in ConsoleRow /\ p.s = k.s /\ p.u = k.u
  BY DEF ConsoleRow

\* The row that a sign-out leaves.
LEMMA LogoutRow ==
    ASSUME NEW k, k.s \in Sessions, k.u \in Users
    PROVE  /\ LogoutOf(k) \in HandoffRow /\ LogoutOf(k).purpose = "logout"
           /\ LogoutOf(k).s = k.s /\ LogoutOf(k).u = k.u /\ LogoutOf(k).to = "none"
  BY DEF HandoffRow, LogoutOf, NoHandoff

\* Nobody has a session, no request is under way.
LEMMA ConsoleInit == Init => ConsoleInv
  BY ConsoleConstants
  DEF Init, ConsoleInv, TypeOK, OwnInv, CarryInv, LiveInv, UseInv, HandoffRow, ConsoleRow,
      InFlight, NoHandoff, NoConsole, Idle

\* A new handoff: nobody refers to its row yet.
LEMMA CreateLoginKeeps ==
    ASSUME ConsoleInv, NEW b \in Browsers, NEW h \in Handoffs, CreateLogin(b, h)
    PROVE  ConsoleInv'
<1> USE ConsoleConstants DEF ConsoleInv, TypeOK
<1>1. /\ handoff' = [handoff EXCEPT ![h] = [NoHandoff EXCEPT !.purpose = "login", !.b = b]]
      /\ handoff[h].purpose = "none" /\ \A r \in Requests : req[r].h # h
      /\ UNCHANGED <<auth, jar, active, console, app, req, minted, was, done, answered>>
  BY DEF CreateLogin, Create
<1>2. TypeOK'
  BY <1>1 DEF NoHandoff, HandoffRow
<1>3. OwnInv'
  BY <1>1 DEF OwnInv, NoHandoff
<1>4. CarryInv' /\ LiveInv'
  BY <1>1 DEF CarryInv, LiveInv, NoHandoff
<1>5. UseInv'
  BY <1>1 DEF UseInv, CarryInv, NoHandoff
<1> QED  BY <1>2, <1>3, <1>4, <1>5

\* The authorization carries the session of the browser's own cookie.
LEMMA AuthorizeKeeps ==
    ASSUME ConsoleInv, NEW r \in Requests, NEW b \in Browsers, NEW h \in Handoffs,
           Authorize(r, b, h)
    PROVE  ConsoleInv'
<1> USE ConsoleConstants DEF ConsoleInv, TypeOK
<1>1. /\ jar[b] # "none" /\ auth[jar[b]] # "none" /\ jar[b] \in Sessions
      /\ req' = [req EXCEPT ![r] = [at |-> "binding", b |-> b, h |-> h,
                                    s |-> jar[b], u |-> auth[jar[b]]]]
      /\ UNCHANGED <<auth, jar, active, handoff, console, app, minted, was, done, answered>>
  BY DEF Authorize, SignedIn, Live
<1>2. TypeOK'
  BY <1>1 DEF InFlight
<1>3. OwnInv'
  BY <1>1 DEF OwnInv
<1>4. CarryInv' /\ LiveInv'
  BY <1>1 DEF CarryInv, LiveInv
<1>5. UseInv'
  BY <1>1 DEF UseInv
<1> QED  BY <1>2, <1>3, <1>4, <1>5

\* authorizeLogin keeps out of a row that an exchange has locked.
LEMMA BindKeeps ==
    ASSUME ConsoleInv, NEW r \in Requests, Bind(r)
    PROVE  ConsoleInv'
<1> DEFINE q == req[r]
<1> USE ConsoleConstants DEF ConsoleInv, TypeOK
<1>1. /\ q.at = "binding" /\ ~Locked(q.h) /\ req' = [req EXCEPT ![r] = Idle]
      /\ UNCHANGED <<auth, jar, active, console, app, minted, was, done, answered>>
  BY DEF Bind
<1>2. q.b \in Browsers /\ q.h \in Handoffs /\ q.s \in Sessions /\ q.u \in Users
      /\ q.s \in was[q.b]
  BY <1>1 DEF CarryInv, OwnInv, InFlight
<1>3. \/ handoff' = handoff
      \/ /\ handoff[q.h].purpose = "login" /\ ~handoff[q.h].used /\ auth[q.s] # "none"
         /\ handoff' = [handoff EXCEPT ![q.h] =
                           [handoff[q.h] EXCEPT !.s = q.s, !.u = q.u, !.to = q.b]]
  BY <1>2 DEF Bind, Unconsumed, Referable, Live
<1>4. /\ handoff' \in [Handoffs -> HandoffRow]
      /\ \A h \in Handoffs :
            \/ handoff'[h] = handoff[h]
            \/ /\ h = q.h /\ handoff[h].purpose = "login" /\ ~handoff[h].used
               /\ handoff'[h].purpose = "login" /\ ~handoff'[h].used
               /\ handoff'[h].s = q.s /\ handoff'[h].u = q.u /\ handoff'[h].to = q.b
               /\ auth[q.s] # "none"
  <2> DEFINE p == [handoff[q.h] EXCEPT !.s = q.s, !.u = q.u, !.to = q.b]
  <2>1. handoff \in [Handoffs -> HandoffRow] /\ handoff[q.h] \in HandoffRow
    BY <1>2
  <2> HIDE DEF ConsoleInv, TypeOK
  <2>2. /\ p \in HandoffRow /\ p.used = handoff[q.h].used
        /\ p.purpose = handoff[q.h].purpose /\ p.s = q.s /\ p.u = q.u /\ p.to = q.b
    BY <1>2, <2>1 DEF HandoffRow
  <2>3. CASE handoff' = handoff
    BY <2>1, <2>3
  <2>4. CASE /\ handoff[q.h].purpose = "login" /\ ~handoff[q.h].used /\ auth[q.s] # "none"
             /\ handoff' = [handoff EXCEPT ![q.h] = p]
    <3> HIDE DEF p
    <3>1. /\ handoff' \in [Handoffs -> HandoffRow] /\ handoff'[q.h] = p
          /\ \A h \in Handoffs : h # q.h => handoff'[h] = handoff[h]
      BY <1>2, <2>1, <2>2, <2>4, ReplacedRow
    <3>2. ~p.used
      BY <2>2, <2>4
    <3> QED  BY <2>2, <2>4, <3>1, <3>2
  <2> QED  BY <1>3, <2>3, <2>4
<1>5. /\ req' \in [Requests -> InFlight]
      /\ req'[r].at = "idle" /\ \A x \in Requests : x # r => req'[x] = req[x]
  <2>1. Idle \in InFlight /\ Idle.at = "idle"
    BY DEF Idle, InFlight
  <2> QED  BY <1>1, <2>1, ReplacedRow
<1>6. TypeOK'
  BY <1>1, <1>2, <1>4, <1>5
<1>7. OwnInv'
  BY <1>1, <1>2, <1>4, <1>5 DEF OwnInv
<1>8. CarryInv' /\ LiveInv'
  BY <1>1, <1>2, <1>4, <1>5 DEF CarryInv, LiveInv
<1>9. UseInv'
  <2>1. \A h \in Handoffs : minted'[h] = IF handoff'[h].purpose = "login" /\ handoff'[h].used
                                         THEN 1 ELSE 0
    BY <1>1, <1>4 DEF UseInv
  <2>2. \A x \in Requests : req[x].at = "opening" => req[x].h # q.h
    BY <1>1 DEF Locked
  <2>3. ASSUME NEW x \in Requests, req'[x].at = "opening", auth'[req'[x].s] # "none"
        PROVE  handoff'[req'[x].h].purpose = "login" /\ handoff'[req'[x].h].s = req'[x].s
    <3>1. x # r /\ req'[x] = req[x] /\ req[x].h \in Handoffs
      BY <1>5, <2>3 DEF CarryInv, InFlight
    <3>2. handoff'[req[x].h] = handoff[req[x].h]
      BY <1>4, <2>2, <2>3, <3>1
    <3> QED  BY <1>1, <2>3, <3>1, <3>2 DEF UseInv
  <2> QED  BY <2>1, <2>3 DEF UseInv
<1> QED  BY <1>6, <1>7, <1>8, <1>9

\* The browser that exchanges asked for the handoff and authorized it.
LEMMA ExchangeKeeps ==
    ASSUME ConsoleInv, NEW r \in Requests, NEW b \in Browsers, NEW h \in Handoffs,
           Exchange(r, b, h)
    PROVE  ConsoleInv'
<1> USE ConsoleConstants DEF ConsoleInv, TypeOK
<1>1. /\ handoff[h].purpose = "login" /\ handoff[h].s \in Sessions /\ handoff[h].u \in Users
      /\ handoff[h].to = b
      /\ req' = [req EXCEPT ![r] = [at |-> "opening", b |-> b, h |-> h,
                                    s |-> handoff[h].s, u |-> handoff[h].u]]
      /\ UNCHANGED <<auth, jar, active, handoff, console, app, minted, was, done, answered>>
  BY DEF Exchange, Holds, HasCode, HandoffRow
<1>2. TypeOK'
  BY <1>1 DEF InFlight
<1>3. OwnInv'
  BY <1>1 DEF OwnInv
<1>4. CarryInv' /\ LiveInv'
  BY <1>1 DEF CarryInv, LiveInv
<1>5. UseInv'
  BY <1>1 DEF UseInv
<1> QED  BY <1>2, <1>3, <1>4, <1>5

\* A console session is opened while the identity session lives, and the
\* handoff is used up with it.
LEMMA OpenKeeps ==
    ASSUME ConsoleInv, NEW r \in Requests, NEW c \in Consoles, Open(r, c)
    PROVE  ConsoleInv'
<1> DEFINE q == req[r]
<1> USE ConsoleConstants DEF ConsoleInv, TypeOK
<1>1. /\ q.at = "opening" /\ console[c] = NoConsole /\ \A b \in Browsers : app[b] # c
      /\ req' = [req EXCEPT ![r] = Idle] /\ UNCHANGED <<auth, jar, active, was, done, answered>>
  BY DEF Open
<1>2. q.b \in Browsers /\ q.h \in Handoffs /\ q.s \in Sessions /\ q.u \in Users
      /\ q.s \in was[q.b]
  BY <1>1 DEF CarryInv, OwnInv, InFlight
<1>3. CASE UNCHANGED <<console, handoff, minted, app>>
  BY <1>1, <1>3 DEF OwnInv, CarryInv, LiveInv, UseInv, Idle, InFlight
<1>4. CASE /\ auth[q.s] # "none" /\ ~handoff[q.h].used
           /\ console' = [console EXCEPT ![c] = [s |-> q.s, u |-> q.u, revoked |-> FALSE]]
           /\ handoff' = [handoff EXCEPT ![q.h].used = TRUE]
           /\ minted' = [minted EXCEPT ![q.h] = @ + 1]
           /\ app' = [app EXCEPT ![q.b] = c]
  <2>1. handoff[q.h].purpose = "login" /\ minted[q.h] = 0
    BY <1>1, <1>2, <1>4 DEF UseInv
  <2>2. TypeOK'
    <3>1. req' \in [Requests -> InFlight]
      BY <1>1 DEF Idle, InFlight
    <3>2. /\ handoff' \in [Handoffs -> HandoffRow]
          /\ \A h \in Handoffs : handoff'[h].s = handoff[h].s /\ handoff'[h].u = handoff[h].u
      BY <1>2, <1>4, UsedTable
    <3>3. minted' \in [Handoffs -> 0 .. 2] /\ console' \in [Consoles -> ConsoleRow]
          /\ app' \in [Browsers -> Consoles \cup {"none"}]
      BY <1>2, <1>4, <2>1 DEF ConsoleRow
    <3> QED  BY <1>1, <3>1, <3>2, <3>3
  <2>3. OwnInv'
    BY <1>1, <1>2, <1>4 DEF OwnInv, CarryInv, Idle, NoConsole
  <2>4. CarryInv' /\ LiveInv'
    BY <1>1, <1>2, <1>4 DEF CarryInv, LiveInv, Idle
  <2>5. UseInv'
    BY <1>1, <1>2, <1>4, <2>1 DEF UseInv, Idle
  <2> QED  BY <2>2, <2>3, <2>4, <2>5
<1> QED  BY <1>1, <1>3, <1>4 DEF Open, Referable, Live, Unconsumed

\* A sign-out begins: the handoff to the auth origin names the same session.
LEMMA BeginLogoutKeeps ==
    ASSUME ConsoleInv, NEW b \in Browsers, NEW h \in Handoffs, BeginLogout(b, h)
    PROVE  ConsoleInv'
<1> DEFINE c == app[b]
<1> USE ConsoleConstants DEF ConsoleInv, TypeOK
<1>1. /\ c \in Consoles /\ console[c] # NoConsole
      /\ handoff[h].purpose = "none" /\ \A r \in Requests : req[r].h # h
      /\ handoff' = [handoff EXCEPT ![h] = LogoutOf(console[c])]
      /\ console' = [console EXCEPT ![c] = [console[c] EXCEPT !.revoked = TRUE]]
      /\ app' = [app EXCEPT ![b] = "none"]
      /\ UNCHANGED <<auth, jar, active, req, minted, was, done, answered>>
  BY DEF BeginLogout, Create
<1>2. console[c].s \in Sessions /\ console[c].u \in Users
  BY <1>1 DEF CarryInv, ConsoleRow
<1>a. /\ handoff' \in [Handoffs -> HandoffRow]
      /\ handoff'[h].s = console[c].s /\ handoff'[h].u = console[c].u
      /\ handoff'[h].purpose = "logout" /\ handoff'[h].to = "none"
      /\ \A x \in Handoffs : x # h => handoff'[x] = handoff[x]
  <2>1. /\ LogoutOf(console[c]) \in HandoffRow /\ LogoutOf(console[c]).purpose = "logout"
        /\ LogoutOf(console[c]).s = console[c].s /\ LogoutOf(console[c]).u = console[c].u
        /\ LogoutOf(console[c]).to = "none"
    BY <1>2, LogoutRow
  <2> QED  BY <1>1, <2>1, ReplacedRow
<1>b. /\ console' \in [Consoles -> ConsoleRow]
      /\ \A x \in Consoles : /\ console'[x].s = console[x].s /\ console'[x].u = console[x].u
                             /\ (x # c => console'[x] = console[x])
  <2>1. console[c] \in ConsoleRow
    BY <1>1
  <2> QED  BY <1>1, <2>1, RevokedRow, ReplacedRow
<1>c. app' \in [Browsers -> Consoles \cup {"none"}]
  BY <1>1
<1>3. TypeOK'
  BY <1>1, <1>2, <1>a, <1>b, <1>c
<1>4. OwnInv'
  BY <1>1, <1>2, <1>a, <1>b, <1>c DEF OwnInv, CarryInv, NoConsole
<1>5. CarryInv' /\ LiveInv'
  BY <1>1, <1>2, <1>a, <1>b, <1>c DEF CarryInv, LiveInv
<1>6. UseInv'
  <2>1. \A x \in Handoffs : minted'[x] = IF handoff'[x].purpose = "login" /\ handoff'[x].used
                                         THEN 1 ELSE 0
    BY <1>1, <1>a DEF UseInv
  <2> QED  BY <1>1, <1>a, <2>1 DEF UseInv, CarryInv
<1> QED  BY <1>3, <1>4, <1>5, <1>6

\* validateLogout consumes a handoff of the other kind.
LEMMA LogoutKeeps ==
    ASSUME ConsoleInv, NEW r \in Requests, NEW b \in Browsers, NEW h \in Handoffs,
           Logout(r, b, h)
    PROVE  ConsoleInv'
<1> USE ConsoleConstants DEF ConsoleInv, TypeOK
<1>1. /\ jar[b] \in Sessions /\ handoff[h].purpose = "logout"
      /\ handoff' = [handoff EXCEPT ![h].used = TRUE]
      /\ req' = [req EXCEPT ![r] = [at |-> "leaving", b |-> b, h |-> h, s |-> jar[b],
                                    u |-> "none"]]
      /\ UNCHANGED <<auth, jar, active, console, app, minted, was, done, answered>>
  BY DEF Logout, MayLeave, Validates, Live
<1>a. /\ handoff' \in [Handoffs -> HandoffRow]
      /\ \A x \in Handoffs : /\ handoff'[x].s = handoff[x].s /\ handoff'[x].u = handoff[x].u
                             /\ handoff'[x].to = handoff[x].to
                             /\ handoff'[x].purpose = handoff[x].purpose
                             /\ (x # h => handoff'[x] = handoff[x])
  <2>1. handoff \in [Handoffs -> HandoffRow]
    OBVIOUS
  <2> HIDE DEF ConsoleInv, TypeOK
  <2> QED  BY <1>1, <2>1, UsedTable
<1>b. req' \in [Requests -> InFlight]
  BY <1>1 DEF InFlight
<1>2. TypeOK'
  BY <1>1, <1>a, <1>b
<1>3. OwnInv'
  BY <1>1 DEF OwnInv
<1>4. CarryInv' /\ LiveInv'
  BY <1>1 DEF CarryInv, LiveInv
<1>5. UseInv'
  BY <1>1 DEF UseInv
<1> QED  BY <1>2, <1>3, <1>4, <1>5

\* The rows that name an ended session go with it.
LEMMA EndKeeps ==
    ASSUME ConsoleInv, NEW s \in Sessions, End(s), UNCHANGED <<active, app, was>>,
           done' \in {done, done \cup {s}}, answered' \in {answered, answered \cup {s}},
           \/ req' = req
           \/ \E r \in Requests : req[r].at = "leaving" /\ req' = [req EXCEPT ![r] = Idle]
    PROVE  ConsoleInv'
<1> USE ConsoleConstants DEF ConsoleInv, TypeOK
<1>1. /\ req' \in [Requests -> InFlight]
      /\ \A x \in Requests : req'[x] = req[x] \/ req'[x].at = "idle"
  BY DEF InFlight, Idle
<1>2. /\ auth' \in [Sessions -> Users \cup {"none"}] /\ auth'[s] = "none"
      /\ \A x \in Sessions : x # s => auth'[x] = auth[x]
      /\ jar' \in [Browsers -> Sessions \cup {"none"}]
      /\ \A b \in Browsers : jar'[b] # "none" => jar'[b] = jar[b]
  BY DEF End
<1>3. /\ handoff' \in [Handoffs -> HandoffRow]
      /\ \A h \in Handoffs :
            \/ handoff[h].s # s /\ handoff'[h] = handoff[h] /\ minted'[h] = minted[h]
            \/ handoff[h].s = s /\ handoff'[h] = NoHandoff /\ minted'[h] = 0
      /\ minted' \in [Handoffs -> 0 .. 2]
  BY DEF End, NoHandoff, HandoffRow
<1>4. /\ console' \in [Consoles -> ConsoleRow]
      /\ \A c \in Consoles :
            \/ console[c].s # s /\ console'[c] = console[c]
            \/ console[c].s = s /\ console'[c] = NoConsole
  BY DEF End, NoConsole, ConsoleRow
<1>5. TypeOK'
  BY <1>1, <1>2, <1>3, <1>4 DEF NoHandoff
<1>6. OwnInv'
  BY <1>1, <1>2, <1>3, <1>4 DEF OwnInv, NoHandoff, InFlight
<1>7. CarryInv'
  BY <1>1, <1>4 DEF CarryInv
<1>8. LiveInv'
  BY <1>2, <1>3, <1>4 DEF LiveInv, NoHandoff, NoConsole, HandoffRow, ConsoleRow
<1>9. UseInv'
  <2>1. \A h \in Handoffs : minted'[h] = IF handoff'[h].purpose = "login" /\ handoff'[h].used
                                         THEN 1 ELSE 0
    BY <1>3 DEF UseInv, NoHandoff
  <2>2. ASSUME NEW x \in Requests, req'[x].at = "opening", auth'[req'[x].s] # "none"
        PROVE  handoff'[req'[x].h].purpose = "login" /\ handoff'[req'[x].h].s = req'[x].s
    <3>1. req'[x] = req[x] /\ req[x].h \in Handoffs /\ req[x].s \in Sessions
      BY <1>1, <2>2 DEF CarryInv, InFlight
    <3>2. req[x].s # s /\ auth[req[x].s] # "none"
      BY <1>2, <2>2, <3>1
    <3>3. handoff[req[x].h].purpose = "login" /\ handoff[req[x].h].s = req[x].s
      BY <2>2, <3>1, <3>2 DEF UseInv
    <3> QED  BY <1>3, <3>1, <3>2, <3>3
  <2> QED  BY <2>1, <2>2 DEF UseInv
<1> QED  BY <1>5, <1>6, <1>7, <1>8, <1>9

\* A new identity session has a name that nothing refers to.
LEMMA SignInKeeps ==
    ASSUME ConsoleInv, NEW b \in Browsers, NEW s \in Sessions, NEW u \in Users,
           SignIn(b, s, u)
    PROVE  ConsoleInv'
<1> USE ConsoleConstants DEF ConsoleInv, TypeOK
<1>1. /\ auth[s] = "none" /\ s \notin done /\ \A r \in Requests : req[r].s # s
      /\ auth' = [auth EXCEPT ![s] = u] /\ jar' = [jar EXCEPT ![b] = s]
      /\ was' = [was EXCEPT ![b] = was[b] \cup {s}]
      /\ UNCHANGED <<active, handoff, console, app, req, minted, done, answered>>
  BY DEF SignIn
<1>2. TypeOK'
  BY <1>1
<1>3. OwnInv'
  <2>1. \A x \in Browsers : was[x] \subseteq was'[x] /\ was' \in [Browsers -> SUBSET Sessions]
    BY <1>1
  <2>2. \A h \in Handoffs : handoff[h].to # "none" => handoff[h].to \in Browsers
    BY DEF HandoffRow
  <2>3. \A r \in Requests : req[r].at # "idle" => req[r].b \in Browsers
    BY DEF CarryInv, InFlight
  <2> QED  BY <1>1, <2>1, <2>2, <2>3 DEF OwnInv
<1>4. CarryInv' /\ LiveInv'
  BY <1>1 DEF CarryInv, LiveInv
<1>5. UseInv'
  BY <1>1 DEF UseInv
<1> QED  BY <1>2, <1>3, <1>4, <1>5

\* A row that nothing refers to lapses, a request dies or fails, an account is
\* closed.
LEMMA SurroundingsKeep ==
    ASSUME ConsoleInv,
           \/ \E u \in Users : CloseAccount(u)
           \/ \E h \in Handoffs : Lapse(h)
           \/ \E r \in Requests : Crash(r) \/ SignOutFails(r)
    PROVE  ConsoleInv'
<1> USE ConsoleConstants DEF ConsoleInv, TypeOK
<1>1. ASSUME NEW u \in Users, CloseAccount(u) PROVE ConsoleInv'
  BY <1>1 DEF CloseAccount, OwnInv, CarryInv, LiveInv, UseInv
<1>2. ASSUME NEW h \in Handoffs, Lapse(h) PROVE ConsoleInv'
  <2>1. /\ NoHandoff \in HandoffRow /\ \A r \in Requests : req[r].h # h
        /\ handoff' = [handoff EXCEPT ![h] = NoHandoff]
        /\ minted' = [minted EXCEPT ![h] = 0]
        /\ UNCHANGED <<auth, jar, active, console, app, req, was, done, answered>>
    BY <1>2 DEF Lapse, NoHandoff, HandoffRow
  <2>2. TypeOK'
    BY <2>1 DEF NoHandoff
  <2>3. OwnInv'
    BY <2>1 DEF OwnInv, NoHandoff
  <2>4. CarryInv' /\ LiveInv'
    BY <2>1 DEF CarryInv, LiveInv, NoHandoff
  <2>5. UseInv'
    BY <2>1 DEF UseInv, CarryInv, NoHandoff
  <2> QED  BY <2>2, <2>3, <2>4, <2>5
<1>3. ASSUME NEW r \in Requests, Crash(r) PROVE ConsoleInv'
  <2>1. /\ req' \in [Requests -> InFlight]
        /\ \A x \in Requests : req'[x] = req[x] \/ req'[x].at = "idle"
        /\ UNCHANGED <<auth, jar, active, handoff, console, app, minted, was, done, answered>>
    BY <1>3 DEF Crash, Idle, InFlight
  <2> QED  BY <2>1 DEF OwnInv, CarryInv, LiveInv, UseInv
<1>4. ASSUME NEW r \in Requests, SignOutFails(r) PROVE ConsoleInv'
  <2>1. req[r].at = "leaving" /\ req[r].s \in Sessions
    BY <1>4 DEF SignOutFails, CarryInv, InFlight
  <2>2. /\ req' \in [Requests -> InFlight]
        /\ \A x \in Requests : req'[x] = req[x] \/ req'[x].at = "idle"
        /\ answered' \subseteq Sessions
        /\ jar' \in [Browsers -> Sessions \cup {"none"}]
        /\ \A b \in Browsers : jar'[b] # "none" => jar'[b] = jar[b]
        /\ UNCHANGED <<auth, active, handoff, console, app, minted, was, done>>
    BY <1>4, <2>1 DEF SignOutFails, Idle, InFlight
  <2> QED  BY <2>2 DEF OwnInv, CarryInv, LiveInv, UseInv
<1> QED  BY <1>1, <1>2, <1>3, <1>4

\* The inductive invariant: where every session, handoff and request comes from,
\* and that nothing names a session that is over.
THEOREM ConsoleInvariant == Spec => []ConsoleInv
<1>1. ConsoleInv /\ [Next]_vars => ConsoleInv'
  <2> SUFFICES ASSUME ConsoleInv, [Next]_vars PROVE ConsoleInv'
    OBVIOUS
  <2>1. ASSUME NEW r \in Requests, SignOut(r) PROVE ConsoleInv'
    <3>1. req[r].at = "leaving" /\ req[r].s \in Sessions
      BY <2>1, ConsoleConstants DEF SignOut, ConsoleInv, TypeOK, CarryInv, InFlight
    <3> QED  BY <2>1, <3>1, EndKeeps DEF SignOut
  <2>2. ASSUME NEW s \in Sessions, EndSession(s) PROVE ConsoleInv'
    BY <2>2, EndKeeps DEF EndSession
  <2>3. CASE UNCHANGED vars
    BY <2>3 DEF vars, ConsoleInv, TypeOK, OwnInv, CarryInv, LiveInv, UseInv
  <2> QED  BY <2>1, <2>2, <2>3, CreateLoginKeeps, AuthorizeKeeps, BindKeeps, ExchangeKeeps,
              OpenKeeps, BeginLogoutKeeps, LogoutKeeps, SignInKeeps, SurroundingsKeep
           DEF Next
<1> QED  BY ConsoleInit, <1>1, PTL DEF Spec

\* exchangeLogin: however many tabs exchange a handoff, it opens one session.
THEOREM SingleUseCorrect == Spec => []SingleUse
<1>1. ConsoleInv => SingleUse
  BY DEF ConsoleInv, UseInv, SingleUse
<1> QED  BY <1>1, ConsoleInvariant, PTL

\* The browser secret and the code: a browser's console session comes from an
\* identity session it has had itself.
THEOREM SameBrowserCorrect == Spec => []SameBrowser
<1>1. ConsoleInv => SameBrowser
  BY ConsoleConstants
  DEF ConsoleInv, TypeOK, OwnInv, SameBrowser, Resolves, Live, NoConsole
<1> QED  BY <1>1, ConsoleInvariant, PTL

\* validateLogout and signOut: a sign-out that has deleted the identity session
\* leaves no console session made from it and no handoff that could still open
\* one, whatever was under way.  A sign-out whose deletion failed is answered as
\* well: AnsweredSignOutEndsBoth is no theorem.
THEOREM SignOutEndsBothCorrect == Spec => []SignOutEndsBoth
<1>1. ConsoleInv => SignOutEndsBoth
  <2> SUFFICES ASSUME ConsoleInv, NEW s \in done PROVE NothingLeft(s)
    BY DEF SignOutEndsBoth
  <2> QED  BY ConsoleConstants DEF ConsoleInv, TypeOK, LiveInv, NothingLeft
<1> QED  BY <1>1, ConsoleInvariant, PTL

-----------------------------------------------------------------------------
(* Whose sessions they are. *)

\* Whatever is made from an identity session belongs to that session's user.
UserInv ==
    /\ \A c \in Consoles : console[c].s # "none" => auth[console[c].s] = console[c].u
    /\ \A h \in Handoffs : handoff[h].s # "none" => auth[handoff[h].s] = handoff[h].u
    /\ \A r \in Requests :
          req[r].at \in {"binding", "opening"} /\ auth[req[r].s] # "none" =>
             auth[req[r].s] = req[r].u

\* The accounts whose console sessions resolve: what authenticate tells a handler
Principals == {u \in active : \E c \in Consoles : Resolves(c) /\ console[c].u = u}

\* The rows of an ended session go with it; nobody else's user changes.
LEMMA EndKeepsUsers ==
    ASSUME ConsoleInv, UserInv, NEW s \in Sessions, End(s),
           \A x \in Requests : req'[x] = req[x] \/ req'[x].at = "idle"
    PROVE  UserInv'
<1> USE ConsoleConstants DEF ConsoleInv, TypeOK
<1>1. auth'[s] = "none" /\ \A x \in Sessions : x # s => auth'[x] = auth[x]
  BY DEF End
<1>2. ASSUME NEW c \in Consoles, console'[c].s # "none"
      PROVE  auth'[console'[c].s] = console'[c].u
  <2>1. console'[c] = IF console[c].s = s THEN NoConsole ELSE console[c]
    BY DEF End
  <2>2. console[c].s # s /\ console'[c] = console[c]
    BY <1>2, <2>1 DEF NoConsole
  <2> QED  BY <1>1, <1>2, <2>2 DEF UserInv, ConsoleRow
<1>3. ASSUME NEW h \in Handoffs, handoff'[h].s # "none"
      PROVE  auth'[handoff'[h].s] = handoff'[h].u
  <2>1. handoff'[h] = IF handoff[h].s = s THEN NoHandoff ELSE handoff[h]
    BY DEF End
  <2>2. handoff[h].s # s /\ handoff'[h] = handoff[h]
    BY <1>3, <2>1 DEF NoHandoff
  <2> QED  BY <1>1, <1>3, <2>2 DEF UserInv, HandoffRow
<1>4. ASSUME NEW r \in Requests, req'[r].at \in {"binding", "opening"}, auth'[req'[r].s] # "none"
      PROVE  auth'[req'[r].s] = req'[r].u
  <2>1. req'[r] = req[r]
    BY <1>4
  <2>2. req[r].s \in Sessions
    BY <1>4, <2>1 DEF CarryInv, InFlight
  <2> QED  BY <1>1, <1>4, <2>1, <2>2 DEF UserInv
<1> QED  BY <1>2, <1>3, <1>4 DEF UserInv

LEMMA UsersKept ==
    ASSUME ConsoleInv, UserInv, [Next]_vars
    PROVE  UserInv'
<1> USE ConsoleConstants DEF ConsoleInv, TypeOK
<1>1. ASSUME NEW b \in Browsers, NEW h \in Handoffs, CreateLogin(b, h)
      PROVE  UserInv'
  BY <1>1 DEF CreateLogin, Create, NoHandoff, UserInv
<1>2. ASSUME NEW b \in Browsers, NEW h \in Handoffs, BeginLogout(b, h)
      PROVE  UserInv'
  <2>1. /\ app[b] \in Consoles
        /\ handoff' = [handoff EXCEPT ![h] = LogoutOf(console[app[b]])]
        /\ console' = [console EXCEPT ![app[b]] = [console[app[b]] EXCEPT !.revoked = TRUE]]
        /\ UNCHANGED <<auth, req>>
    BY <1>2 DEF BeginLogout, Create
  <2>2. /\ LogoutOf(console[app[b]]).s = console[app[b]].s
        /\ LogoutOf(console[app[b]]).u = console[app[b]].u
    BY DEF LogoutOf, NoHandoff
  <2>3. \A c \in Consoles : console'[c].s = console[c].s /\ console'[c].u = console[c].u
    BY <2>1, RevokedRow, ReplacedRow
  <2>4. \A x \in Handoffs :
           \/ handoff'[x] = handoff[x]
           \/ handoff'[x].s = console[app[b]].s /\ handoff'[x].u = console[app[b]].u
    BY <2>1, <2>2
  <2> QED  BY <2>1, <2>3, <2>4 DEF UserInv
<1>3. ASSUME NEW r \in Requests, NEW b \in Browsers, NEW h \in Handoffs, Authorize(r, b, h)
      PROVE  UserInv'
  BY <1>3 DEF Authorize, UserInv
<1>4. ASSUME NEW r \in Requests, NEW b \in Browsers, NEW h \in Handoffs, Exchange(r, b, h)
      PROVE  UserInv'
  BY <1>4 DEF Exchange, UserInv
<1>5. ASSUME NEW r \in Requests, NEW b \in Browsers, NEW h \in Handoffs, Logout(r, b, h)
      PROVE  UserInv'
  <2>1. \A x \in Handoffs : handoff'[x].s = handoff[x].s /\ handoff'[x].u = handoff[x].u
    BY <1>5, UsedTable DEF Logout
  <2> QED  BY <1>5, <2>1 DEF Logout, UserInv
<1>6. ASSUME NEW r \in Requests, Bind(r)
      PROVE  UserInv'
  <2>1. /\ req[r].at = "binding" /\ req' = [req EXCEPT ![r] = Idle]
        /\ UNCHANGED <<auth, console>>
        /\ \A h \in Handoffs :
              \/ handoff'[h] = handoff[h]
              \/ /\ auth[req[r].s] # "none"
                 /\ handoff'[h].s = req[r].s /\ handoff'[h].u = req[r].u
    BY <1>6 DEF Bind, Referable, Live, HandoffRow
  <2>2. \A x \in Requests : req'[x] = req[x] \/ req'[x].at = "idle"
    BY <2>1 DEF Idle
  <2> QED  BY <2>1, <2>2 DEF UserInv
<1>7. ASSUME NEW r \in Requests, NEW c \in Consoles, Open(r, c)
      PROVE  UserInv'
  <2>1. req[r].at = "opening" /\ req' = [req EXCEPT ![r] = Idle] /\ UNCHANGED auth
    BY <1>7 DEF Open
  <2>2. \A x \in Requests : req'[x] = req[x] \/ req'[x].at = "idle"
    BY <2>1 DEF Idle
  <2>3. CASE UNCHANGED <<console, handoff>>
    BY <2>1, <2>2, <2>3 DEF UserInv
  <2>4. CASE /\ auth[req[r].s] # "none"
             /\ console' = [console EXCEPT ![c] =
                               [s |-> req[r].s, u |-> req[r].u, revoked |-> FALSE]]
             /\ handoff' = [handoff EXCEPT ![req[r].h].used = TRUE]
    <3>1. req[r].h \in Handoffs
      BY <2>1 DEF CarryInv, InFlight
    <3>2. \A x \in Handoffs : handoff'[x].s = handoff[x].s /\ handoff'[x].u = handoff[x].u
      BY <2>4, <3>1, UsedTable
    <3> QED  BY <2>1, <2>2, <2>4, <3>2 DEF UserInv
  <2> QED  BY <1>7, <2>3, <2>4 DEF Open, Referable, Live
<1>8. ASSUME NEW r \in Requests, SignOut(r)
      PROVE  UserInv'
  <2>1. req[r].s \in Sessions /\ End(req[r].s) /\ req' = [req EXCEPT ![r] = Idle]
    BY <1>8 DEF SignOut, CarryInv, InFlight
  <2>2. \A x \in Requests : req'[x] = req[x] \/ req'[x].at = "idle"
    BY <2>1 DEF Idle
  <2> QED  BY <2>1, <2>2, EndKeepsUsers
<1>9. ASSUME NEW s \in Sessions, EndSession(s)
      PROVE  UserInv'
  BY <1>9, EndKeepsUsers DEF EndSession
<1>10. ASSUME NEW b \in Browsers, NEW s \in Sessions, NEW u \in Users, SignIn(b, s, u)
       PROVE  UserInv'
  <2>1. /\ auth[s] = "none" /\ \A r \in Requests : req[r].s # s
        /\ auth' = [auth EXCEPT ![s] = u] /\ UNCHANGED <<handoff, console, req>>
    BY <1>10 DEF SignIn
  <2>2. \A x \in Sessions : x # s => auth'[x] = auth[x]
    BY <2>1
  <2> QED  BY <2>1, <2>2 DEF UserInv, LiveInv, HandoffRow, ConsoleRow, CarryInv, InFlight
<1>11. ASSUME NEW h \in Handoffs, Lapse(h)
       PROVE  UserInv'
  BY <1>11 DEF Lapse, NoHandoff, UserInv
<1>12. ASSUME NEW r \in Requests, Crash(r) \/ SignOutFails(r)
       PROVE  UserInv'
  BY <1>12 DEF Crash, SignOutFails, Idle, UserInv
<1>13. ASSUME NEW u \in Users, CloseAccount(u)
       PROVE  UserInv'
  BY <1>13 DEF CloseAccount, UserInv
<1>14. CASE UNCHANGED vars
  BY <1>14 DEF vars, UserInv
<1> QED
  BY <1>1, <1>2, <1>3, <1>4, <1>5, <1>6, <1>7, <1>8, <1>9, <1>10, <1>11, <1>12, <1>13, <1>14
  DEF Next

\* A console session belongs to the user of the identity session it was made
\* from, through every handoff, tab and restart.
THEOREM UsersCorrect == Spec => []UserInv
<1>1. Init => UserInv
  BY DEF Init, UserInv, NoConsole, NoHandoff, Idle
<1>2. ConsoleInv /\ UserInv /\ [Next]_vars => UserInv'
  BY UsersKept
<1> QED  BY <1>1, <1>2, ConsoleInvariant, PTL DEF Spec

\* One account at a time becomes a principal, or is one no longer.
PrincipalsMove ==
    \/ Principals' = Principals
    \/ \E u \in active : Principals' = Principals \cup {u}
    \/ \E u \in Principals : Principals' = Principals \ {u}

LEMMA SamePrincipals ==
    ASSUME ConsoleInv, UNCHANGED <<auth, active>>,
           \A c \in Consoles : /\ console'[c].s = console[c].s /\ console'[c].u = console[c].u
                               /\ console'[c].revoked = console[c].revoked
    PROVE  Principals' = Principals
<1>1. ASSUME NEW c \in Consoles
      PROVE  Resolves(c)' = Resolves(c)
  BY <1>1 DEF Resolves, Live
<1> QED  BY <1>1 DEF Principals

\* All that an end of one session, a revocation or a closed account takes away
\* belongs to one user.
LEMMA OneLess ==
    ASSUME NEW u, Principals' \subseteq Principals, Principals \ {u} \subseteq Principals'
    PROVE  PrincipalsMove
<1>1. CASE u \in Principals /\ u \notin Principals'
  <2>1. Principals' = Principals \ {u}
    BY <1>1
  <2> QED  BY <1>1, <2>1 DEF PrincipalsMove
<1>2. CASE u \notin Principals \/ u \in Principals'
  <2>1. Principals' = Principals
    BY <1>2
  <2> QED  BY <2>1 DEF PrincipalsMove
<1> QED  BY <1>1, <1>2

LEMMA EndMoves ==
    ASSUME ConsoleInv, UserInv, NEW s \in Sessions, End(s), active' = active
    PROVE  PrincipalsMove
<1> USE ConsoleConstants DEF ConsoleInv, TypeOK
<1>1. \A x \in Sessions : x # s => auth'[x] = auth[x]
  BY DEF End
<1>2. ASSUME NEW c \in Consoles
      PROVE  /\ console[c].s # s => console'[c] = console[c]
             /\ console[c].s = s => console'[c] = NoConsole /\ console[c].u = auth[s]
  <2>1. console'[c] = IF console[c].s = s THEN NoConsole ELSE console[c]
    BY DEF End
  <2> QED  BY <2>1 DEF UserInv
<1>3. ASSUME NEW c \in Consoles, console[c].s # s
      PROVE  Resolves(c)' <=> Resolves(c)
  <2>1. console'[c] = console[c] /\ console[c].s \in Sessions \cup {"none"}
    BY <1>2, <1>3 DEF ConsoleRow
  <2> QED  BY <1>1, <1>3, <2>1 DEF Resolves, Live
<1>4. ASSUME NEW c \in Consoles, console[c].s = s
      PROVE  ~Resolves(c)' /\ console[c].u = auth[s]
  BY <1>2, <1>4 DEF Resolves, Live, NoConsole
<1>5. Principals' \subseteq Principals
  BY <1>2, <1>3, <1>4 DEF Principals
<1>6. Principals \ {auth[s]} \subseteq Principals'
  BY <1>2, <1>3, <1>4 DEF Principals
<1> QED  BY <1>5, <1>6, OneLess

LEMMA StepsMove ==
    ASSUME ConsoleInv, UserInv, [Next]_vars
    PROVE  PrincipalsMove
<1> USE ConsoleConstants DEF ConsoleInv, TypeOK
<1>1. ASSUME UNCHANGED <<auth, active, console>>
      PROVE  PrincipalsMove
  BY <1>1, SamePrincipals DEF PrincipalsMove
<1>2. ASSUME NEW b \in Browsers, NEW h \in Handoffs, BeginLogout(b, h)
      PROVE  PrincipalsMove
  <2>1. PICK k \in Consoles :
           console' = [console EXCEPT ![k] = [console[k] EXCEPT !.revoked = TRUE]]
    BY <1>2 DEF BeginLogout
  <2>2. UNCHANGED <<auth, active>>
    BY <1>2 DEF BeginLogout
  <2>3. console'[k].revoked /\ \A c \in Consoles : c # k => console'[c] = console[c]
    BY <2>1 DEF ConsoleRow
  <2>4. ~Resolves(k)' /\ \A c \in Consoles : c # k => (Resolves(c)' <=> Resolves(c))
    BY <2>2, <2>3 DEF Resolves, Live
  <2>5. Principals' \subseteq Principals
    BY <2>2, <2>3, <2>4 DEF Principals
  <2>6. Principals \ {console[k].u} \subseteq Principals'
    BY <2>2, <2>3, <2>4 DEF Principals
  <2> QED  BY <2>5, <2>6, OneLess
<1>3. ASSUME NEW r \in Requests, NEW c \in Consoles, Open(r, c)
      PROVE  PrincipalsMove
  <2>1. UNCHANGED <<auth, active>> /\ console[c] = NoConsole
    BY <1>3 DEF Open
  <2>2. CASE UNCHANGED console
    BY <1>1, <2>1, <2>2
  <2>3. CASE console' = [console EXCEPT ![c] = [s |-> req[r].s, u |-> req[r].u, revoked |-> FALSE]]
    <3>1. console'[c].u = req[r].u /\ \A x \in Consoles : x # c => console'[x] = console[x]
      BY <2>3
    <3>2. \A x \in Consoles : x # c => (Resolves(x)' <=> Resolves(x))
      BY <2>1, <3>1 DEF Resolves, Live
    <3>3. ~Resolves(c)
      BY <2>1 DEF Resolves, Live, NoConsole
    <3>4. Principals \subseteq Principals' /\ Principals' \subseteq Principals \cup {req[r].u}
      BY <2>1, <3>1, <3>2, <3>3 DEF Principals
    <3>5. Principals' \subseteq active
      BY <2>1 DEF Principals
    <3>6. CASE req[r].u \in Principals'
      <4>1. Principals' = Principals \cup {req[r].u}
        BY <3>4, <3>6
      <4> QED  BY <3>5, <3>6, <4>1 DEF PrincipalsMove
    <3>7. CASE req[r].u \notin Principals'
      <4>1. Principals' \subseteq Principals
        BY <3>4, <3>7
      <4>2. Principals' = Principals
        BY <3>4, <4>1
      <4> QED  BY <4>2 DEF PrincipalsMove
    <3> QED  BY <3>6, <3>7
  <2> QED  BY <1>3, <2>2, <2>3 DEF Open
<1>4. ASSUME NEW r \in Requests, SignOut(r)
      PROVE  PrincipalsMove
  <2>1. req[r].s \in Sessions /\ End(req[r].s) /\ active' = active
    BY <1>4 DEF SignOut, CarryInv, InFlight
  <2> QED  BY <2>1, EndMoves
<1>5. ASSUME NEW s \in Sessions, EndSession(s)
      PROVE  PrincipalsMove
  BY <1>5, EndMoves DEF EndSession
<1>6. ASSUME NEW b \in Browsers, NEW s \in Sessions, NEW u \in Users, SignIn(b, s, u)
      PROVE  PrincipalsMove
  <2>1. auth[s] = "none" /\ auth' = [auth EXCEPT ![s] = u] /\ UNCHANGED <<console, active>>
    BY <1>6 DEF SignIn
  <2>2. ASSUME NEW c \in Consoles
        PROVE  Resolves(c)' <=> Resolves(c)
    <3>1. console[c].s # s /\ console[c].s \in Sessions \cup {"none"}
      BY <2>1 DEF LiveInv, ConsoleRow
    <3> QED  BY <2>1, <3>1 DEF Resolves, Live
  <2>3. Principals' = Principals
    BY <2>1, <2>2 DEF Principals
  <2> QED  BY <2>3 DEF PrincipalsMove
<1>7. ASSUME NEW u \in Users, CloseAccount(u)
      PROVE  PrincipalsMove
  <2>1. active' = active \ {u} /\ UNCHANGED <<auth, console>>
    BY <1>7 DEF CloseAccount
  <2>2. \A c \in Consoles : Resolves(c)' <=> Resolves(c) /\ console[c].u # u
    BY <2>1 DEF Resolves, Live
  <2>3. Principals' \subseteq Principals /\ Principals \ {u} \subseteq Principals'
    BY <2>1, <2>2 DEF Principals
  <2> QED  BY <2>3, OneLess
<1>8. ASSUME NEW b \in Browsers, NEW h \in Handoffs, CreateLogin(b, h)
      PROVE  PrincipalsMove
  BY <1>1, <1>8 DEF CreateLogin
<1>9. ASSUME NEW r \in Requests, NEW b \in Browsers, NEW h \in Handoffs,
             Authorize(r, b, h) \/ Exchange(r, b, h) \/ Logout(r, b, h)
      PROVE  PrincipalsMove
  BY <1>1, <1>9 DEF Authorize, Exchange, Logout
<1>10. ASSUME NEW r \in Requests, Bind(r) \/ Crash(r) \/ SignOutFails(r)
       PROVE  PrincipalsMove
  BY <1>1, <1>10 DEF Bind, Crash, SignOutFails
<1>11. ASSUME NEW h \in Handoffs, Lapse(h)
       PROVE  PrincipalsMove
  BY <1>1, <1>11 DEF Lapse
<1>12. CASE UNCHANGED vars
  BY <1>1, <1>12 DEF vars
<1> QED
  BY <1>2, <1>3, <1>4, <1>5, <1>6, <1>7, <1>8, <1>9, <1>10, <1>11, <1>12 DEF Next

\* What TenantAccess takes for granted of its "signedIn": whatever happens to
\* sessions, handoffs and accounts, one account at a time comes to be
\* authenticated or stops to be.
THEOREM PrincipalsCorrect == Spec => [][PrincipalsMove]_vars
<1>1. ConsoleInv /\ UserInv /\ [Next]_vars => [PrincipalsMove]_vars
  BY StepsMove
<1> QED  BY <1>1, ConsoleInvariant, UsersCorrect, PTL DEF Spec

-----------------------------------------------------------------------------
(* TenantAccess: the tables only age (Aged), so that what a request was    *)
(* told when it was let in stays true until it is answered (CallInv).      *)


\* Grants and sites belong to tenants that exist: nobody becomes a member of
\* their tenants any more.
ExistInv ==
    /\ \A g \in Grants : tenant[TenantOf[g]] # "none"
    /\ \A t \in connected : tenant[t] # "none"

\* The home of an active account is a tenant it is a member of, and not purged.
HomeInv ==
    \A a \in Accounts :
       home[a] # "none" /\ account[a] = "active" =>
          Member(home[a], a) /\ tenant[home[a]] \in {"active", "deleted"}

\* What a request is about, by how far it has got.
Shape(q) ==
    /\ q.at \in {"asked", "member", "reading"} => q.op = "page"
    /\ q.at \in {"homeless", "housed"} => q.op = "land"
    /\ q.op = "land" => q.a \in Accounts
    /\ q.at = "stranger" => q.op \in {"page", "look"}
    /\ q.op \in {"page", "look"} => q.t \in Tenants
    /\ q.op = "revoke" => q.g \in Grants /\ q.t = TenantOf[q.g]

\* A late page gets no further than the list of memberships.
LateRow(q) == q.late => q.at = "asked" /\ q.shown = {} /\ Outside(q.t, q.a)

\* What "303" and "204" promise whoever was entitled to the call.
TrueRow(q) ==
    q.at = "answered" =>
       /\ q.op = "revoke" /\ MayRevoke(q.g, q.a) => grant[q.g] # "active"
       /\ q.op = "disconnect" /\ Owner(q.t, q.a) => q.t \notin connected

CallInv == \A r \in Calls : Shape(call[r]) /\ LateRow(call[r]) /\ TrueRow(call[r])

AccessInv == AccessTypeOK /\ ExistInv /\ HomeInv /\ CallInv

\* What the steps of TenantAccess do to the tables: none makes a tenant serve
\* again, lets anyone into a tenant that exists, revives a grant or reconnects a
\* site.  (Invitations, consents and pairings, which make new rows, are not among
\* them.)
Aged ==
    /\ \A t \in Tenants : /\ tenant[t] # "none" => tenant'[t] \in {"active", "deleted", "gone"}
                          /\ tenant[t] \in {"deleted", "gone"} => tenant'[t] \in {"deleted", "gone"}
    /\ \A m \in members' : m \in members \/ tenant[m.t] = "none"
    /\ \A g \in Grants : grant[g] # "active" => grant'[g] # "active"
    /\ connected' \subseteq connected

-----------------------------------------------------------------------------
LEMMA NoCallRow == NoCall \in CallRow /\ Shape(NoCall) /\ ~NoCall.late /\ NoCall.at = "idle"
  BY DEF NoCall, CallRow, Shape, Parts

LEMMA AccessInitInv == AccessInit => AccessInv
<1> SUFFICES ASSUME AccessInit  PROVE AccessInv
  OBVIOUS
<1> USE AccessConstants
<1> DEFINE HomeOf(a) == IF \E h \in Homes : h.a = a
                        THEN (CHOOSE h \in Homes : h.a = a).t ELSE "none"
<1>1. \A a \in Accounts :
         \/ HomeOf(a) = "none"
         \/ HomeOf(a) \in Tenants /\ \E m \in Roles : m.t = HomeOf(a) /\ m.a = a
  <2>1. TAKE a \in Accounts
  <2>2. CASE \E h \in Homes : h.a = a
    <3>1. PICK h \in Homes : h = (CHOOSE x \in Homes : x.a = a) /\ h.a = a
      BY <2>2
    <3>2. HomeOf(a) = h.t
      BY <2>2, <3>1
    <3>3. h.t \in Tenants
      OBVIOUS
    <3> QED  BY <3>1, <3>2, <3>3
  <2>3. CASE ~\E h \in Homes : h.a = a
    BY <2>3
  <2> QED  BY <2>2, <2>3
<1>2. home = [a \in Accounts |-> HomeOf(a)]
  BY DEF AccessInit
<1> HIDE DEF HomeOf
<1>3. AccessTypeOK
  <2>1. home \in [Accounts -> Tenants \cup {"none"}]
    BY <1>1, <1>2
  <2>2. connected \subseteq Tenants
    BY DEF AccessInit
  <2> QED  BY <2>1, <2>2, NoCallRow DEF AccessInit, AccessTypeOK
<1>4. ExistInv
  BY DEF AccessInit, ExistInv
<1>5. HomeInv
  <2> SUFFICES ASSUME NEW a \in Accounts, home[a] # "none"
               PROVE  Member(home[a], a) /\ tenant[home[a]] = "active"
    BY DEF HomeInv
  <2>1. home[a] \in Tenants /\ \E m \in Roles : m.t = home[a] /\ m.a = a
    BY <1>1, <1>2
  <2> QED  BY <2>1 DEF AccessInit, Member
<1>6. CallInv
  BY NoCallRow DEF AccessInit, CallInv, LateRow, TrueRow
<1> QED  BY <1>3, <1>4, <1>5, <1>6 DEF AccessInv

-----------------------------------------------------------------------------
(* The tables only age. *)

\* An action that leaves the rows alone
LEMMA SameRows ==
    ASSUME AccessTypeOK, UNCHANGED rows
    PROVE  Aged
  BY DEF rows, Aged, AccessTypeOK

LEMMA AgedMembers ==
    ASSUME AccessTypeOK, Aged, NEW t \in Tenants, NEW a, tenant[t] # "none"
    PROVE  /\ Member(t, a)' => Member(t, a)
           /\ Owner(t, a)' => Owner(t, a)
  BY DEF AccessTypeOK, Aged, Member, Owner

LEMMA StepsAge ==
    ASSUME AccessInv, [AccessNext]_accessVars
    PROVE  Aged
<1>0. AccessTypeOK
  BY DEF AccessInv
<1> USE <1>0 DEF AccessTypeOK
<1>1. CASE UNCHANGED rows
  BY <1>1, SameRows
<1>2. ASSUME NEW r \in Calls, NEW a \in Accounts,
             \/ Visit(r, a)
             \/ \E t \in Tenants : \/ OpenPage(r, a, t) \/ Ask(r, a, "look", t, "none")
                                    \/ RequestDisconnect(r, a, t)
             \/ \E g \in Grants : RequestRevoke(r, a, g)
      PROVE  Aged
  <2>1. UNCHANGED rows
    BY <1>2 DEF Visit, OpenPage, Ask, RequestDisconnect, RequestRevoke
  <2> QED  BY <2>1, SameRows
<1>3. ASSUME NEW r \in Calls, Find(r) \/ Look(r) \/ ReadSites(r) \/ ReadGrants(r) \/ ReadEvents(r)
                              \/ Settle(r) \/ Finish(r)
      PROVE  Aged
  <2>1. UNCHANGED rows
    BY <1>3 DEF Find, Look, ReadSites, ReadGrants, ReadEvents, ReadPart, Settle, Finish
  <2> QED  BY <2>1, SameRows
<1>4. ASSUME NEW r \in Calls, Deny(r)
      PROVE  Aged
  BY <1>4 DEF Deny, Aged
<1>5. ASSUME NEW r \in Calls, RevokeGrant(r)
      PROVE  Aged
  BY <1>5 DEF RevokeGrant, Aged
<1>6. ASSUME NEW r \in Calls, DisconnectSite(r)
      PROVE  Aged
  <2>1. UNCHANGED <<tenant, members>> /\ connected' \subseteq connected
    BY <1>6 DEF DisconnectSite
  <2>2. \A g \in Grants : grant[g] # "active" => grant'[g] # "active"
    BY <1>6 DEF DisconnectSite
  <2> QED  BY <2>1, <2>2 DEF Aged
<1>7. ASSUME NEW r \in Calls, Ensure(r)
      PROVE  Aged
  <2>1. UNCHANGED <<grant, connected>>
    BY <1>7 DEF Ensure
  <2>2. CASE UNCHANGED <<tenant, members>>
    BY <2>1, <2>2 DEF Aged
  <2>3. CASE \E t \in Tenants :
               /\ tenant[t] = "none" /\ tenant' = [tenant EXCEPT ![t] = "active"]
               /\ members' = members \cup {[t |-> t, a |-> call[r].a, role |-> "owner"]}
    BY <2>1, <2>3 DEF Aged
  <2> QED  BY <1>7, <2>2, <2>3 DEF Ensure
<1>8. ASSUME NEW a \in Accounts, OpenSession(a) \/ CloseSession(a)
      PROVE  Aged
  BY <1>8, SameRows DEF OpenSession, CloseSession
<1>9. ASSUME NEW a \in Accounts, DeleteAccount(a)
      PROVE  Aged
  BY <1>9 DEF DeleteAccount, Aged
<1>10. ASSUME NEW t \in Tenants, Refuse(t)
       PROVE  Aged
  BY <1>10 DEF Refuse, Aged
<1>11. ASSUME NEW t \in Tenants, DeleteTenant(t)
       PROVE  Aged
  BY <1>11 DEF DeleteTenant, Aged
<1>12. ASSUME NEW t \in Tenants, PurgeTenant(t)
       PROVE  Aged
  BY <1>12 DEF PurgeTenant, Aged
<1> QED
  BY <1>1, <1>2, <1>3, <1>4, <1>5, <1>6, <1>7, <1>8, <1>9, <1>10, <1>11, <1>12
  DEF AccessNext, accessVars, rows

-----------------------------------------------------------------------------
(* What a step does to the requests: at most one of them changes. *)

\* A row that promises nothing about the tables
Quiet(row) ==
    /\ row \in CallRow /\ Shape(row) /\ ~row.late
    /\ row.at = "answered" => row.op \notin {"revoke", "disconnect"}

\* A request changes to a row that is as it should be in the next state.
Served ==
    \/ call' = call
    \/ \E r \in Calls, row \in CallRow :
          /\ call' = [call EXCEPT ![r] = row]
          /\ Shape(row) /\ LateRow(row)' /\ TrueRow(row)'

LEMMA QuietServes ==
    ASSUME NEW r \in Calls, NEW row, Quiet(row), call' = [call EXCEPT ![r] = row]
    PROVE  Served
<1>1. LateRow(row)' /\ TrueRow(row)'
  BY DEF Quiet, LateRow, TrueRow
<1> QED  BY <1>1 DEF Served, Quiet

\* Moving a request on keeps what it is about.
LEMMA MovedRow ==
    ASSUME AccessTypeOK, NEW r \in Calls,
           NEW to \in {"idle", "login", "asked", "known", "member", "reading", "answered",
                       "homeless", "housed", "landed", "failed", "stranger"},
           NEW row, row = [call[r] EXCEPT !.at = to]
    PROVE  /\ row \in CallRow /\ row.at = to
           /\ row.op = call[r].op /\ row.a = call[r].a /\ row.t = call[r].t
           /\ row.g = call[r].g /\ row.late = call[r].late /\ row.shown = call[r].shown
           /\ Move(r, to) => call' = [call EXCEPT ![r] = row]
<1>1. call[r] \in CallRow
  BY DEF AccessTypeOK
<1>2. Move(r, to) => call' = [call EXCEPT ![r] = [call[r] EXCEPT !.at = to]]
  BY DEF Move
<1>3. /\ row \in CallRow /\ row.at = to
      /\ row.op = call[r].op /\ row.a = call[r].a /\ row.t = call[r].t
      /\ row.g = call[r].g /\ row.late = call[r].late /\ row.shown = call[r].shown
  BY <1>1 DEF CallRow
<1> QED  BY <1>2, <1>3

\* A request that is not late moves on to a row that promises nothing.
LEMMA MoveServes ==
    ASSUME AccessTypeOK, CallInv, NEW r \in Calls,
           NEW to \in {"member", "answered", "housed", "failed", "stranger"},
           Move(r, to), ~call[r].late,
           to = "member" => call[r].op = "page",
           to = "housed" => call[r].op = "land",
           to = "stranger" => call[r].op \in {"page", "look"},
           to = "answered" => call[r].op \notin {"revoke", "disconnect"}
    PROVE  Served
<1>0. PICK row : row = [call[r] EXCEPT !.at = to]
  OBVIOUS
<1>1. /\ row \in CallRow /\ row.at = to
      /\ row.op = call[r].op /\ row.a = call[r].a /\ row.t = call[r].t
      /\ row.g = call[r].g /\ row.late = call[r].late /\ row.shown = call[r].shown
      /\ call' = [call EXCEPT ![r] = row]
  BY <1>0, MovedRow
<1>2. Shape(call[r])
  BY DEF CallInv
<1>3. Quiet(row)
  BY <1>1, <1>2 DEF Quiet, Shape
<1> QED  BY <1>1, <1>3, QuietServes

LEMMA CloseServes ==
    ASSUME NEW r \in Calls, Close(r)
    PROVE  Served
<1>1. Quiet(NoCall)
  BY NoCallRow DEF Quiet, NoCall
<1> QED  BY <1>1, QuietServes DEF Close

\* A late request leaves at the list of memberships; nobody is late after it.
LEMMA LateCalls ==
    ASSUME CallInv, NEW r \in Calls
    PROVE  /\ call[r].at # "asked" => ~call[r].late
           /\ call[r].late => call[r].t \notin Memberships(call[r].a)
<1>1. Shape(call[r]) /\ LateRow(call[r])
  BY DEF CallInv
<1> QED  BY <1>1 DEF Shape, LateRow, Outside, Memberships

-----------------------------------------------------------------------------
\* A request that is admitted starts with a row of its kind.
LEMMA AdmitServes ==
    ASSUME NEW r \in Calls, NEW a, NEW q, Admit(r, a, q),
           Quiet(q)
    PROVE  Served
<1>0. PICK login : login = [NoCall EXCEPT !.at = "login"]
  OBVIOUS
<1>1. Quiet(login)
  <2>1. login =
           [at |-> "login", op |-> "none", a |-> "none", t |-> "none", g |-> "none",
            late |-> FALSE, left |-> {}, shown |-> {}]
    BY <1>0 DEF NoCall
  <2>2. login \in CallRow
    BY <2>1 DEF CallRow
  <2> QED  BY <2>1, <2>2 DEF Quiet, Shape
<1>2. CASE Authenticated(a)
  BY <1>2, QuietServes DEF Admit
<1>3. CASE ~Authenticated(a)
  <2>1. call' = [call EXCEPT ![r] = login]
    BY <1>0, <1>3 DEF Admit
  <2> QED  BY <1>1, <2>1, QuietServes
<1> QED  BY <1>2, <1>3

LEMMA OpenServes ==
    ASSUME AccessInv, NEW r \in Calls, NEW a \in Accounts, NEW t \in Tenants, OpenPage(r, a, t)
    PROVE  Served
<1>0. PICK row : row = [NoCall EXCEPT !.at = "asked", !.op = "page", !.a = a, !.t = t,
                                      !.late = Outside(t, a)]
  OBVIOUS
<1>1. row = [at |-> "asked", op |-> "page", a |-> a, t |-> t, g |-> "none",
             late |-> Outside(t, a), left |-> {}, shown |-> {}]
  BY <1>0 DEF NoCall
<1>2. Outside(t, a) \in BOOLEAN
  BY DEF Outside
<1>3. row \in CallRow /\ Shape(row)
  <2>1. row \in CallRow
    BY <1>1, <1>2 DEF CallRow
  <2> QED  BY <1>1, <2>1 DEF Shape
<1>4. Admit(r, a, row) /\ UNCHANGED rows
  BY <1>0 DEF OpenPage
<1>5. CASE Authenticated(a)
  <2>1. call' = [call EXCEPT ![r] = row]
    BY <1>4, <1>5 DEF Admit
  <2>2. (row.late => Outside(row.t, row.a)) /\ row.shown = {} /\ row.at = "asked"
    BY <1>1
  <2>3. LateRow(row)'
    BY <1>4, <2>2 DEF LateRow, Outside, Member, rows
  <2>4. TrueRow(row)'
    BY <2>2 DEF TrueRow
  <2> QED  BY <1>3, <2>1, <2>3, <2>4 DEF Served
<1>6. CASE ~Authenticated(a)
  <2>1. Quiet(NoCall)
    BY NoCallRow DEF Quiet, NoCall
  <2>2. Admit(r, a, NoCall)
    BY <1>4, <1>6 DEF Admit
  <2> QED  BY <2>1, <2>2, AdmitServes
<1> QED  BY <1>5, <1>6

LEMMA AskServes ==
    ASSUME NEW r \in Calls, NEW a \in Accounts, NEW t \in Tenants, NEW g \in Grants \cup {"none"},
           NEW op \in {"look", "revoke", "disconnect"}, Ask(r, a, op, t, g),
           op = "revoke" => g \in Grants /\ t = TenantOf[g]
    PROVE  Served
<1>0. PICK row : row = [NoCall EXCEPT !.at = "known", !.op = op, !.a = a, !.t = t, !.g = g]
  OBVIOUS
<1>1. row = [at |-> "known", op |-> op, a |-> a, t |-> t, g |-> g,
             late |-> FALSE, left |-> {}, shown |-> {}]
  BY <1>0 DEF NoCall
<1>2. row \in CallRow
  BY <1>1 DEF CallRow
<1>3. Quiet(row)
  BY <1>1, <1>2 DEF Quiet, Shape
<1>4. call' = [call EXCEPT ![r] = row]
  BY <1>0 DEF Ask
<1> QED  BY <1>3, <1>4, QuietServes

LEMMA VisitServes ==
    ASSUME AccessInv, NEW r \in Calls, NEW a \in Accounts, Visit(r, a)
    PROVE  Served
<1>0. PICK q : q = [NoCall EXCEPT !.op = "land", !.a = a]
  OBVIOUS
<1>1. q = [at |-> "idle", op |-> "land", a |-> a, t |-> "none", g |-> "none",
           late |-> FALSE, left |-> {}, shown |-> {}]
  BY <1>0 DEF NoCall
<1>2. CASE Memberships(a) = {}
  <2>1. PICK row : row = [q EXCEPT !.at = "homeless"]
    OBVIOUS
  <2>2. row = [at |-> "homeless", op |-> "land", a |-> a, t |-> "none", g |-> "none",
               late |-> FALSE, left |-> {}, shown |-> {}]
    BY <1>1, <2>1
  <2>3. row \in CallRow
    BY <2>2 DEF CallRow
  <2>4. Quiet(row)
    BY <2>2, <2>3 DEF Quiet, Shape
  <2>5. Admit(r, a, row)
    BY <1>0, <1>2, <2>1 DEF Visit
  <2> QED  BY <2>4, <2>5, AdmitServes
<1>3. CASE Memberships(a) # {}
  <2>1. PICK t \in Landings(a) : Admit(r, a, [q EXCEPT !.at = "landed", !.t = t])
    BY <1>0, <1>3 DEF Visit
  <2>2. PICK row : row = [q EXCEPT !.at = "landed", !.t = t]
    OBVIOUS
  <2>3. row = [at |-> "landed", op |-> "land", a |-> a, t |-> t, g |-> "none",
               late |-> FALSE, left |-> {}, shown |-> {}]
    BY <1>1, <2>2
  <2>4. t \in Tenants
    BY DEF Landings, Memberships
  <2>5. row \in CallRow
    BY <2>3, <2>4 DEF CallRow
  <2>6. Quiet(row)
    BY <2>3, <2>5 DEF Quiet, Shape
  <2> QED  BY <2>1, <2>2, <2>6, AdmitServes
<1> QED  BY <1>2, <1>3

LEMMA LookServes ==
    ASSUME AccessInv, NEW r \in Calls, Look(r)
    PROVE  Served
<1> USE DEF AccessInv
<1>1. Shape(call[r])
  BY DEF CallInv
<1>2. call[r].at \in {"member", "known"} /\ ~call[r].late /\ call[r].op \in {"page", "look"}
  BY <1>1, LateCalls DEF Look, Shape
<1>3. CASE Move(r, "answered") /\ call[r].op # "page"
  BY <1>2, <1>3, MoveServes
<1>4. CASE Move(r, "stranger")
  BY <1>2, <1>4, MoveServes
<1>5. CASE Close(r)
  BY <1>5, CloseServes
<1>6. CASE call[r].op = "page" /\ call' = [call EXCEPT ![r].at = "reading", ![r].left = Parts]
  <2>1. PICK row : row = [call[r] EXCEPT !.at = "reading", !.left = Parts]
    OBVIOUS
  <2>2. call' = [call EXCEPT ![r] = row] /\ call[r] \in CallRow
    BY <1>6, <2>1 DEF AccessTypeOK
  <2>3. /\ row \in CallRow /\ row.at = "reading" /\ row.op = "page"
        /\ row.t = call[r].t /\ row.g = call[r].g /\ row.late = call[r].late
    BY <1>6, <2>1, <2>2 DEF CallRow
  <2>4. Quiet(row)
    BY <1>1, <1>2, <1>6, <2>3 DEF Quiet, Shape
  <2> QED  BY <2>2, <2>4, QuietServes
<1> QED  BY <1>3, <1>4, <1>5, <1>6 DEF Look

LEMMA ReadServes ==
    ASSUME AccessInv, NEW r \in Calls, NEW p \in Parts, NEW visible \in BOOLEAN,
           ReadPart(r, p, visible)
    PROVE  Served
<1> USE DEF AccessInv
<1>0. PICK row : row = [call[r] EXCEPT !.left = @ \ {p},
                                       !.shown = IF visible THEN @ \cup {p} ELSE @,
                                       !.at = IF call[r].left = {p} THEN "answered" ELSE "reading"]
  OBVIOUS
<1>1. Shape(call[r]) /\ call[r] \in CallRow
  BY DEF CallInv, AccessTypeOK
<1>2. call[r].at = "reading" /\ ~call[r].late /\ call[r].op = "page"
  BY <1>1, LateCalls DEF ReadPart, Shape
<1>3. call' = [call EXCEPT ![r] = row]
  BY <1>0 DEF ReadPart, AccessTypeOK
<1>4. /\ row \in CallRow /\ row.at \in {"answered", "reading"}
      /\ row.op = call[r].op /\ row.t = call[r].t /\ row.g = call[r].g /\ row.late = call[r].late
  BY <1>0, <1>1 DEF CallRow
<1>5. Quiet(row)
  BY <1>1, <1>2, <1>4 DEF Quiet, Shape
<1> QED  BY <1>3, <1>5, QuietServes

\* The two mutations: what their answer says is so when it is given.
LEMMA AnswersServe ==
    ASSUME AccessInv, NEW r \in Calls, RevokeGrant(r) \/ DisconnectSite(r)
    PROVE  Served
<1> USE DEF AccessInv
<1>0. PICK row : row = [call[r] EXCEPT !.at = "answered"]
  OBVIOUS
<1>1. /\ row \in CallRow /\ row.at = "answered"
      /\ row.op = call[r].op /\ row.a = call[r].a /\ row.t = call[r].t
      /\ row.g = call[r].g /\ row.late = call[r].late
      /\ call' = [call EXCEPT ![r] = row]
  BY <1>0, MovedRow DEF RevokeGrant, DisconnectSite
<1>2. Shape(row) /\ ~row.late
  <2>1. Shape(call[r]) /\ ~call[r].late
    BY LateCalls DEF CallInv, RevokeGrant, DisconnectSite
  <2> QED  BY <1>1, <2>1 DEF Shape, RevokeGrant, DisconnectSite
<1>3. TrueRow(row)'
  <2>1. CASE RevokeGrant(r)
    <3>1. row.op = "revoke" /\ row.g \in Grants /\ row.t = TenantOf[row.g]
      BY <1>1, <1>2, <2>1 DEF RevokeGrant, Shape
    <3>2. MayRevoke(row.g, row.a)' => MayRevoke(row.g, row.a)
      BY <2>1 DEF RevokeGrant, MayRevoke, Member, Owner
    <3>3. MayRevoke(row.g, row.a) => grant'[row.g] # "active"
      BY <1>1, <2>1, <3>1 DEF RevokeGrant, AccessTypeOK
    <3> QED  BY <3>1, <3>2, <3>3 DEF TrueRow
  <2>2. CASE DisconnectSite(r)
    <3>1. row.op = "disconnect"
      BY <1>1, <2>2 DEF DisconnectSite
    <3>2. Owner(row.t, row.a) => row.t \notin connected'
      BY <1>1, <2>2 DEF DisconnectSite
    <3>3. Owner(row.t, row.a)' => Owner(row.t, row.a)
      BY <2>2 DEF DisconnectSite, Owner
    <3> QED  BY <3>1, <3>2, <3>3 DEF TrueRow
  <2> QED  BY <2>1, <2>2
<1>4. LateRow(row)'
  BY <1>2 DEF LateRow
<1> QED  BY <1>1, <1>2, <1>3, <1>4 DEF Served

LEMMA SettleServes ==
    ASSUME AccessInv, NEW r \in Calls, Settle(r)
    PROVE  Served
<1> USE DEF AccessInv
<1>1. /\ Shape(call[r]) /\ ~call[r].late /\ call[r].at = "housed" /\ call[r].op = "land"
      /\ call[r] \in CallRow
  BY LateCalls DEF Settle, CallInv, Shape, AccessTypeOK
<1>2. CASE Move(r, "failed")
  BY <1>1, <1>2, MoveServes
<1>3. CASE \E t \in Landings(call[r].a) : call' = [call EXCEPT ![r].at = "landed", ![r].t = t]
  <2>1. PICK t \in Landings(call[r].a) : call' = [call EXCEPT ![r].at = "landed", ![r].t = t]
    BY <1>3
  <2>2. PICK row : row = [call[r] EXCEPT !.at = "landed", !.t = t]
    OBVIOUS
  <2>3. t \in Tenants
    BY DEF Landings, Memberships
  <2>4. /\ row \in CallRow /\ row.at = "landed" /\ row.op = "land" /\ row.a = call[r].a
        /\ row.late = call[r].late
    BY <1>1, <2>2, <2>3 DEF CallRow
  <2>5. Quiet(row)
    BY <1>1, <2>4 DEF Quiet, Shape
  <2>6. call' = [call EXCEPT ![r] = row]
    BY <2>1, <2>2 DEF AccessTypeOK
  <2> QED  BY <2>5, <2>6, QuietServes
<1> QED  BY <1>2, <1>3 DEF Settle

LEMMA StepsServe ==
    ASSUME AccessInv, [AccessNext]_accessVars
    PROVE  Served
<1>0. AccessTypeOK /\ CallInv
  BY DEF AccessInv
<1>1. ASSUME NEW r \in Calls, NEW a \in Accounts,
             \/ Visit(r, a)
             \/ \E t \in Tenants : \/ OpenPage(r, a, t) \/ Ask(r, a, "look", t, "none")
                                    \/ RequestDisconnect(r, a, t)
             \/ \E g \in Grants : RequestRevoke(r, a, g)
      PROVE  Served
  <2>1. CASE Visit(r, a)
    BY <2>1, VisitServes
  <2>2. ASSUME NEW t \in Tenants, OpenPage(r, a, t)
        PROVE  Served
    BY <2>2, OpenServes
  <2>3. ASSUME NEW t \in Tenants, Ask(r, a, "look", t, "none")
        PROVE  Served
    BY <2>3, AskServes
  <2>4. ASSUME NEW t \in Tenants, RequestDisconnect(r, a, t)
        PROVE  Served
    BY <2>4, AskServes DEF RequestDisconnect
  <2>5. ASSUME NEW g \in Grants, RequestRevoke(r, a, g)
        PROVE  Served
    <3>1. TenantOf[g] \in Tenants
      BY AccessConstants
    <3>2. Ask(r, a, "revoke", TenantOf[g], g)
      BY <2>5 DEF RequestRevoke
    <3> QED  BY <3>1, <3>2, AskServes
  <2> QED  BY <1>1, <2>1, <2>2, <2>3, <2>4, <2>5
<1>2. ASSUME NEW r \in Calls, Find(r)
      PROVE  Served
  <2>1. CASE Close(r)
    BY <2>1, CloseServes
  <2>2. CASE Move(r, "member") /\ call[r].t \in Memberships(call[r].a)
    <3>1. ~call[r].late /\ call[r].op = "page"
      BY <1>0, <1>2, <2>2, LateCalls DEF Find, CallInv, Shape
    <3> QED  BY <1>0, <2>2, <3>1, MoveServes
  <2> QED  BY <1>2, <2>1, <2>2 DEF Find
<1>3. ASSUME NEW r \in Calls, Deny(r)
      PROVE  Served
  BY <1>3, CloseServes DEF Deny
<1>4. ASSUME NEW r \in Calls, ReadSites(r) \/ ReadGrants(r) \/ ReadEvents(r)
      PROVE  Served
  <2>1. {"sites", "grants", "events"} = Parts
    BY DEF Parts
  <2>2. VisibleSites(call[r].t, call[r].a) \in BOOLEAN
    BY DEF VisibleSites
  <2>3. VisibleGrants(call[r].t, call[r].a) \in BOOLEAN
    BY DEF VisibleGrants
  <2>4. VisibleEvents(call[r].t, call[r].a) \in BOOLEAN
    BY DEF VisibleEvents
  <2>5. CASE ReadSites(r)
    BY <2>1, <2>2, <2>5, ReadServes DEF ReadSites
  <2>6. CASE ReadGrants(r)
    BY <2>1, <2>3, <2>6, ReadServes DEF ReadGrants
  <2>7. CASE ReadEvents(r)
    BY <2>1, <2>4, <2>7, ReadServes DEF ReadEvents
  <2> QED  BY <1>4, <2>5, <2>6, <2>7
<1>5. ASSUME NEW r \in Calls, Ensure(r)
      PROVE  Served
  <2>1. ~call[r].late /\ call[r].op = "land"
    BY <1>0, <1>5, LateCalls DEF Ensure, CallInv, Shape
  <2>2. Move(r, "housed") \/ Move(r, "failed")
    BY <1>5 DEF Ensure
  <2> QED  BY <1>0, <2>1, <2>2, MoveServes
<1>6. ASSUME NEW r \in Calls, Finish(r)
      PROVE  Served
  BY <1>6, CloseServes DEF Finish
<1>7. CASE UNCHANGED call
  BY <1>7 DEF Served
<1>8. ASSUME NEW a \in Accounts, OpenSession(a) \/ CloseSession(a) \/ DeleteAccount(a)
      PROVE  Served
  BY <1>8 DEF OpenSession, CloseSession, DeleteAccount, Served
<1>9. ASSUME NEW t \in Tenants, Refuse(t) \/ DeleteTenant(t) \/ PurgeTenant(t)
      PROVE  Served
  BY <1>9 DEF Refuse, DeleteTenant, PurgeTenant, Served
<1> QED
  BY <1>1, <1>2, <1>3, <1>4, <1>5, <1>6, <1>7, <1>8, <1>9,
     LookServes, AnswersServe, SettleServes
  DEF AccessNext, accessVars

\* A row that was true stays true while the tables age.
LEMMA CallsKeep ==
    ASSUME AccessInv, Aged, Served
    PROVE  call' \in [Calls -> CallRow] /\ CallInv'
<1> USE DEF AccessInv
<1>1. ASSUME NEW q \in CallRow, Shape(q), LateRow(q), TrueRow(q)
      PROVE  LateRow(q)' /\ TrueRow(q)'
  <2>1. ASSUME q.late
        PROVE  Outside(q.t, q.a)'
    <3>1. q.t \in Tenants /\ Outside(q.t, q.a)
      BY <1>1, <2>1 DEF LateRow, Shape
    <3>2. CASE tenant[q.t] \in {"deleted", "gone"}
      <4>1. tenant'[q.t] \in {"deleted", "gone"}
        BY <3>1, <3>2 DEF Aged
      <4> QED  BY <4>1 DEF Outside
    <3>3. CASE tenant[q.t] = "active" /\ ~Member(q.t, q.a)
      <4>1. tenant[q.t] # "none"
        BY <3>3
      <4>2. ~Member(q.t, q.a)'
        BY <3>1, <3>3, <4>1, AgedMembers
      <4>3. tenant'[q.t] \in {"active", "deleted", "gone"}
        BY <3>1, <4>1 DEF Aged
      <4> QED  BY <4>2, <4>3 DEF Outside
    <3> QED  BY <3>1, <3>2, <3>3 DEF Outside
  <2>2. ASSUME q.op = "revoke", MayRevoke(q.g, q.a)'
        PROVE  MayRevoke(q.g, q.a)
    <3>1. q.g \in Grants /\ TenantOf[q.g] \in Tenants
      BY <1>1, <2>2, AccessConstants DEF Shape
    <3>2. tenant[TenantOf[q.g]] # "none"
      BY <3>1 DEF ExistInv
    <3> QED  BY <2>2, <3>1, <3>2, AgedMembers DEF MayRevoke
  <2>3. ASSUME q.op = "disconnect", Owner(q.t, q.a)', q.t \in connected'
        PROVE  Owner(q.t, q.a)
    <3>1. q.t \in connected /\ q.t \in Tenants /\ tenant[q.t] # "none"
      BY <2>3 DEF Aged, AccessTypeOK, ExistInv
    <3> QED  BY <2>3, <3>1, AgedMembers
  <2>4. q.op = "revoke" /\ grant[q.g] # "active" => grant'[q.g] # "active"
    BY <1>1 DEF Aged, Shape
  <2>5. connected' \subseteq connected
    BY DEF Aged
  <2>6. LateRow(q)'
    BY <1>1, <2>1 DEF LateRow
  <2>7. TrueRow(q)'
    BY <1>1, <2>2, <2>3, <2>4, <2>5 DEF TrueRow
  <2> QED  BY <2>6, <2>7
<1>2. ASSUME NEW r \in Calls
      PROVE  call[r] \in CallRow /\ Shape(call[r]) /\ LateRow(call[r]) /\ TrueRow(call[r])
  BY DEF CallInv, AccessTypeOK
<1>3. ASSUME NEW r \in Calls, call'[r] = call[r]
      PROVE  call'[r] \in CallRow /\ Shape(call'[r]) /\ LateRow(call[r])' /\ TrueRow(call[r])'
  <2>1. PICK q \in CallRow : q = call[r]
    BY <1>2
  <2>2. Shape(q) /\ LateRow(q)' /\ TrueRow(q)' /\ call'[r] = q
    BY <1>1, <1>2, <1>3, <2>1
  <2> QED  BY <2>1, <2>2 DEF LateRow, TrueRow
<1>4. CASE call' = call
  BY <1>3, <1>4 DEF CallInv, AccessTypeOK, Shape
<1>5. ASSUME NEW r \in Calls, NEW row \in CallRow, call' = [call EXCEPT ![r] = row],
             Shape(row), LateRow(row)', TrueRow(row)'
      PROVE  call' \in [Calls -> CallRow] /\ CallInv'
  <2>1. call' \in [Calls -> CallRow] /\ call'[r] = row
    BY <1>5 DEF AccessTypeOK
  <2>2. ASSUME NEW x \in Calls
        PROVE  Shape(call[x])' /\ LateRow(call[x])' /\ TrueRow(call[x])'
    <3>1. CASE x = r
      BY <1>5, <2>1, <3>1 DEF Shape, LateRow, TrueRow
    <3>2. CASE x # r
      <4>1. call'[x] = call[x]
        BY <1>5, <3>2 DEF AccessTypeOK
      <4> QED  BY <1>3, <4>1 DEF Shape
    <3> QED  BY <3>1, <3>2
  <2> QED  BY <2>1, <2>2 DEF CallInv
<1> QED  BY <1>4, <1>5 DEF Served

-----------------------------------------------------------------------------
(* The tables. *)

TablesTyped ==
    /\ signedIn \subseteq Accounts /\ account \in [Accounts -> {"active", "deleted"}]
    /\ tenant \in [Tenants -> {"none", "active", "deleted", "gone"}]
    /\ members \subseteq [t: Tenants, a: Accounts, role: {"owner", "member"}]
    /\ home \in [Accounts -> Tenants \cup {"none"}]
    /\ grant \in [Grants -> {"active", "revoked", "gone"}]
    /\ connected \subseteq Tenants /\ log \subseteq Tenants

LEMMA EnsureStep ==
    ASSUME AccessInv, NEW r \in Calls, Ensure(r)
    PROVE  TablesTyped' /\ HomeInv'
<1> USE DEF AccessInv
<1>1. UNCHANGED <<signedIn, account, grant, connected, log>>
  BY DEF Ensure
<1>2. CASE UNCHANGED <<tenant, members, home>>
  BY <1>1, <1>2 DEF AccessTypeOK, TablesTyped, HomeInv, Member
<1>3. CASE /\ account[call[r].a] = "active" /\ home[call[r].a] = "none"
           /\ \E t \in Tenants :
                 /\ tenant[t] = "none" /\ tenant' = [tenant EXCEPT ![t] = "active"]
                 /\ members' = members \cup {[t |-> t, a |-> call[r].a, role |-> "owner"]}
                 /\ home' = [home EXCEPT ![call[r].a] = t]
  <2>1. PICK t \in Tenants :
           /\ tenant[t] = "none" /\ tenant' = [tenant EXCEPT ![t] = "active"]
           /\ members' = members \cup {[t |-> t, a |-> call[r].a, role |-> "owner"]}
           /\ home' = [home EXCEPT ![call[r].a] = t]
    BY <1>3
  <2>2. call[r].a \in Accounts
    BY DEF Ensure, CallInv, Shape
  <2>3. TablesTyped'
    BY <1>1, <2>1, <2>2 DEF AccessTypeOK, TablesTyped
  <2>4. ASSUME NEW x \in Accounts, home'[x] # "none", account'[x] = "active"
        PROVE  Member(home[x], x)' /\ tenant'[home'[x]] \in {"active", "deleted"}
    <3>1. CASE x = call[r].a
      <4>1. home'[x] = t /\ tenant'[t] = "active"
        BY <2>1, <3>1 DEF AccessTypeOK
      <4>2. [t |-> t, a |-> x, role |-> "owner"] \in members'
        BY <2>1, <3>1
      <4> QED  BY <4>1, <4>2 DEF Member
    <3>2. CASE x # call[r].a
      <4>1. home'[x] = home[x] /\ account[x] = "active" /\ home[x] # "none"
        BY <1>1, <2>1, <2>4, <3>2 DEF AccessTypeOK
      <4>2. Member(home[x], x) /\ tenant[home[x]] \in {"active", "deleted"}
        BY <4>1 DEF HomeInv
      <4>3. tenant'[home[x]] = tenant[home[x]]
        BY <2>1, <4>2 DEF AccessTypeOK
      <4> QED  BY <2>1, <4>1, <4>2, <4>3 DEF Member
    <3> QED  BY <3>1, <3>2
  <2> QED  BY <2>3, <2>4 DEF HomeInv
<1> QED  BY <1>2, <1>3 DEF Ensure

LEMMA TablesStep ==
    ASSUME AccessInv, [AccessNext]_accessVars
    PROVE  TablesTyped' /\ HomeInv'
<1>0. AccessTypeOK /\ HomeInv
  BY DEF AccessInv
<1>1. ASSUME UNCHANGED <<account, tenant, members, home>>
      PROVE  HomeInv'
  BY <1>0, <1>1 DEF HomeInv, Member
<1>2. CASE UNCHANGED <<signedIn, rows>>
  BY <1>0, <1>1, <1>2 DEF rows, AccessTypeOK, TablesTyped
<1>3. ASSUME NEW r \in Calls, NEW a \in Accounts,
             \/ Visit(r, a)
             \/ \E t \in Tenants : \/ OpenPage(r, a, t) \/ Ask(r, a, "look", t, "none")
                                    \/ RequestDisconnect(r, a, t)
             \/ \E g \in Grants : RequestRevoke(r, a, g)
      PROVE  UNCHANGED <<signedIn, rows>>
  BY <1>3 DEF Visit, OpenPage, Ask, RequestDisconnect, RequestRevoke
<1>4. ASSUME NEW r \in Calls, Find(r) \/ Look(r) \/ ReadSites(r) \/ ReadGrants(r) \/ ReadEvents(r)
                              \/ Settle(r) \/ Finish(r)
      PROVE  UNCHANGED <<signedIn, rows>>
  BY <1>4 DEF Find, Look, ReadSites, ReadGrants, ReadEvents, ReadPart, Settle, Finish
<1>5. ASSUME NEW t \in Tenants, Audit(t)
      PROVE  log' \subseteq Tenants
  BY <1>0, <1>5 DEF Audit, AccessTypeOK
<1>6. ASSUME NEW r \in Calls, Deny(r)
      PROVE  TablesTyped' /\ HomeInv'
  <2>1. UNCHANGED <<signedIn, account, tenant, members, home, grant, connected>> /\ Audit(call[r].t)
    BY <1>6 DEF Deny
  <2>2. call[r].t \in Tenants
    BY <1>6 DEF Deny, AccessInv, CallInv, Shape
  <2>3. log' \subseteq Tenants
    BY <1>5, <2>1, <2>2
  <2> QED  BY <1>0, <1>1, <2>1, <2>3 DEF AccessTypeOK, TablesTyped
<1>7. ASSUME NEW r \in Calls, RevokeGrant(r)
      PROVE  TablesTyped' /\ HomeInv'
  <2>1. UNCHANGED <<signedIn, account, tenant, members, home, connected, log>>
    BY <1>7 DEF RevokeGrant
  <2>2. grant' \in [Grants -> {"active", "revoked", "gone"}]
    BY <1>0, <1>7 DEF RevokeGrant, AccessTypeOK
  <2> QED  BY <1>0, <1>1, <2>1, <2>2 DEF AccessTypeOK, TablesTyped
<1>8. ASSUME NEW r \in Calls, DisconnectSite(r)
      PROVE  TablesTyped' /\ HomeInv'
  <2>1. UNCHANGED <<signedIn, account, tenant, members, home, log>>
    BY <1>8 DEF DisconnectSite
  <2>2. grant' \in [Grants -> {"active", "revoked", "gone"}] /\ connected' \subseteq Tenants
    BY <1>0, <1>8 DEF DisconnectSite, AccessTypeOK
  <2> QED  BY <1>0, <1>1, <2>1, <2>2 DEF AccessTypeOK, TablesTyped
<1>9. ASSUME NEW a \in Accounts, OpenSession(a) \/ CloseSession(a)
      PROVE  TablesTyped' /\ HomeInv'
  <2>1. UNCHANGED rows /\ signedIn' \subseteq Accounts
    BY <1>0, <1>9 DEF OpenSession, CloseSession, AccessTypeOK
  <2> QED  BY <1>0, <1>1, <2>1 DEF AccessTypeOK, TablesTyped, rows
<1>10. ASSUME NEW a \in Accounts, DeleteAccount(a)
       PROVE  TablesTyped' /\ HomeInv'
  <2>1. TablesTyped'
    BY <1>0, <1>10 DEF DeleteAccount, AccessTypeOK, TablesTyped
  <2>2. HomeInv'
    BY <1>0, <1>10 DEF DeleteAccount, AccessTypeOK, HomeInv, Member
  <2> QED  BY <2>1, <2>2
<1>11. ASSUME NEW t \in Tenants, Refuse(t)
       PROVE  TablesTyped' /\ HomeInv'
  <2>1. UNCHANGED <<signedIn, account, tenant, members, home, grant, connected>>
    BY <1>11 DEF Refuse
  <2>2. log' \subseteq Tenants
    BY <1>5, <1>11 DEF Refuse
  <2> QED  BY <1>0, <1>1, <2>1, <2>2 DEF AccessTypeOK, TablesTyped
<1>12. ASSUME NEW t \in Tenants, DeleteTenant(t)
       PROVE  TablesTyped' /\ HomeInv'
  <2>1. TablesTyped'
    BY <1>0, <1>12 DEF DeleteTenant, AccessTypeOK, TablesTyped
  <2>2. HomeInv'
    BY <1>0, <1>12 DEF DeleteTenant, AccessTypeOK, HomeInv, Member
  <2> QED  BY <2>1, <2>2
<1>13. ASSUME NEW t \in Tenants, PurgeTenant(t)
       PROVE  TablesTyped' /\ HomeInv'
  <2>1. TablesTyped'
    BY <1>0, <1>13 DEF PurgeTenant, AccessTypeOK, TablesTyped
  <2>2. HomeInv'
    BY <1>0, <1>13 DEF PurgeTenant, AccessTypeOK, HomeInv, Member
  <2> QED  BY <2>1, <2>2
<1>14. CASE UNCHANGED accessVars
  BY <1>2, <1>14 DEF accessVars, rows
<1> QED
  BY <1>2, <1>3, <1>4, <1>6, <1>7, <1>8, <1>9, <1>10, <1>11, <1>12, <1>13, <1>14, EnsureStep
  DEF AccessNext

-----------------------------------------------------------------------------
(* /app *)

\* Whatever is not a look for a home leads to no error page of /app.
LEMMA OnlyVisitsFail ==
    ASSUME AccessInv, [AccessNext]_accessVars, NEW x \in Calls,
           call[x].at # "failed", call'[x].at = "failed"
    PROVE  Ensure(x) \/ Settle(x)
<1>0. call \in [Calls -> CallRow]
  BY DEF AccessInv, AccessTypeOK
<1>1. ASSUME NEW r \in Calls, NEW row \in CallRow, call' = [call EXCEPT ![r] = row],
             row.at # "failed"
      PROVE  FALSE
  BY <1>0, <1>1
<1>2. ASSUME NEW r \in Calls, NEW to, Move(r, to), to # "failed"
      PROVE  FALSE
  <2>1. call'[x].at = IF x = r THEN to ELSE call[x].at
    BY <1>0, <1>2 DEF Move, CallRow
  <2> QED  BY <1>2, <2>1
<1>3. ASSUME NEW r \in Calls, Close(r)
      PROVE  FALSE
  BY <1>1, <1>3, NoCallRow DEF Close
<1>4. ASSUME NEW r \in Calls, NEW a, NEW q, q.at # "failed", Admit(r, a, q)
      PROVE  FALSE
  <2>1. [NoCall EXCEPT !.at = "login"].at = "login"
    BY DEF NoCall
  <2>2. call'[x] = call[x] \/ call'[x] = q \/ call'[x] = [NoCall EXCEPT !.at = "login"]
    BY <1>0, <1>4 DEF Admit
  <2> QED  BY <1>4, <2>1, <2>2
<1>5. ASSUME NEW r \in Calls, NEW a \in Accounts, NEW t \in Tenants, OpenPage(r, a, t)
      PROVE  FALSE
  <2>1. PICK q : q = [NoCall EXCEPT !.at = "asked", !.op = "page", !.a = a, !.t = t,
                                    !.late = Outside(t, a)]
    OBVIOUS
  <2>2. q.at = "asked" /\ Admit(r, a, q)
    BY <1>5, <2>1 DEF OpenPage, NoCall
  <2> QED  BY <1>4, <2>2
<1>6. ASSUME NEW r \in Calls, NEW a, NEW op, NEW t, NEW g, Ask(r, a, op, t, g)
      PROVE  FALSE
  <2>1. PICK q : q = [NoCall EXCEPT !.at = "known", !.op = op, !.a = a, !.t = t, !.g = g]
    OBVIOUS
  <2>2. q.at = "known" /\ call' = [call EXCEPT ![r] = q]
    BY <1>6, <2>1 DEF Ask, NoCall
  <2> QED  BY <1>0, <2>2
<1>7. ASSUME NEW r \in Calls, NEW a \in Accounts, Visit(r, a)
      PROVE  FALSE
  <2>1. PICK q : q = [NoCall EXCEPT !.op = "land", !.a = a]
    OBVIOUS
  <2>2. CASE Admit(r, a, [q EXCEPT !.at = "homeless"])
    <3>1. [q EXCEPT !.at = "homeless"].at = "homeless"
      BY <2>1 DEF NoCall
    <3> QED  BY <1>4, <2>2, <3>1
  <2>3. ASSUME NEW t, Admit(r, a, [q EXCEPT !.at = "landed", !.t = t])
        PROVE  FALSE
    <3>1. [q EXCEPT !.at = "landed", !.t = t].at = "landed"
      BY <2>1 DEF NoCall
    <3> QED  BY <1>4, <2>3, <3>1
  <2> QED  BY <1>7, <2>1, <2>2, <2>3 DEF Visit
<1>8. ASSUME NEW r \in Calls, Find(r) \/ Look(r)
      PROVE  FALSE
  <2>1. CASE call' = [call EXCEPT ![r].at = "reading", ![r].left = Parts]
    BY <1>0, <2>1 DEF CallRow
  <2> QED  BY <1>2, <1>3, <1>8, <2>1 DEF Find, Look
<1>9. ASSUME NEW r \in Calls, NEW p, NEW visible, ReadPart(r, p, visible)
      PROVE  FALSE
  <2>1. call'[x].at \in {"answered", "reading", call[x].at}
    BY <1>0, <1>9 DEF ReadPart, CallRow
  <2> QED  BY <2>1
<1>10. ASSUME NEW r \in Calls, RevokeGrant(r) \/ DisconnectSite(r)
       PROVE  FALSE
  BY <1>2, <1>10 DEF RevokeGrant, DisconnectSite
<1>11. ASSUME NEW r \in Calls, Deny(r) \/ Finish(r)
       PROVE  FALSE
  BY <1>3, <1>11 DEF Deny, Finish
<1>12. ASSUME NEW r \in Calls, Ensure(r) \/ Settle(r)
       PROVE  r = x
  <2>1. r # x => call'[x] = call[x]
    BY <1>0, <1>12 DEF Ensure, Settle, Move
  <2> QED  BY <2>1
<1>13. call' # call
  OBVIOUS
<1>14. ASSUME \/ \E a \in Accounts : OpenSession(a) \/ CloseSession(a) \/ DeleteAccount(a)
              \/ \E t \in Tenants : Refuse(t) \/ DeleteTenant(t) \/ PurgeTenant(t)
              \/ UNCHANGED accessVars
       PROVE  FALSE
  BY <1>13, <1>14
  DEF OpenSession, CloseSession, DeleteAccount, Refuse, DeleteTenant, PurgeTenant, accessVars
<1> QED
  BY <1>5, <1>6, <1>7, <1>8, <1>9, <1>10, <1>11, <1>12, <1>14
  DEF AccessNext, RequestRevoke, RequestDisconnect, ReadSites, ReadGrants, ReadEvents

-----------------------------------------------------------------------------
(* The theorems. *)

\* AccessInv is inductive.
THEOREM AccessInvariant == AccessSpec => []AccessInv
<1>1. AccessInit => AccessInv
  BY AccessInitInv
<1>2. ASSUME AccessInv, [AccessNext]_accessVars
      PROVE  AccessInv'
  <2>1. Aged /\ Served /\ TablesTyped' /\ HomeInv'
    BY <1>2, StepsAge, StepsServe, TablesStep
  <2>2. call' \in [Calls -> CallRow] /\ CallInv'
    BY <1>2, <2>1, CallsKeep
  <2>3. ExistInv'
    <3>1. ASSUME NEW g \in Grants
          PROVE  tenant'[TenantOf[g]] # "none"
      BY <1>2, <2>1, AccessConstants DEF Aged, AccessInv, ExistInv
    <3>2. ASSUME NEW t \in connected'
          PROVE  tenant'[t] # "none"
      BY <1>2, <2>1 DEF Aged, AccessInv, ExistInv, AccessTypeOK
    <3> QED  BY <3>1, <3>2 DEF ExistInv
  <2> QED  BY <2>1, <2>2, <2>3 DEF AccessInv, AccessTypeOK, TablesTyped
<1> QED  BY <1>1, <1>2, PTL DEF AccessSpec

\* The tables and the requests keep their types.
THEOREM AccessTypeCorrect == AccessSpec => []AccessTypeOK
<1>1. AccessInv => AccessTypeOK
  BY DEF AccessInv
<1> QED  BY <1>1, AccessInvariant, PTL

\* A page asked for after the tenant's deletion has begun, or by an account that
\* is no member of it, shows nothing: the membership list is read before anything
\* that row-level security would still let through.
THEOREM LatePageCorrect == AccessSpec => []LatePageIsEmpty
<1>1. AccessInv => LatePageIsEmpty
  BY DEF AccessInv, CallInv, LateRow, LatePageIsEmpty
<1> QED  BY <1>1, AccessInvariant, PTL

\* "303" and "204" are true for whoever was entitled to the call, whatever is
\* revoked, disconnected or deleted by others meanwhile.
THEOREM AnswersCorrect == AccessSpec => []AnswerIsTrue
<1>1. ASSUME AccessInv
      PROVE  AnswerIsTrue
  <2>1. ASSUME NEW r \in Calls, call[r].at = "answered"
        PROVE  /\ call[r].op = "revoke" /\ Member(call[r].t, call[r].a)
                     /\ (SubjectOf[call[r].g] = call[r].a \/ Owner(call[r].t, call[r].a))
                     => grant[call[r].g] # "active"
               /\ call[r].op = "disconnect" /\ Owner(call[r].t, call[r].a)
                     => call[r].t \notin connected
    <3>1. Shape(call[r]) /\ TrueRow(call[r])
      BY <1>1 DEF AccessInv, CallInv
    <3> QED  BY <2>1, <3>1 DEF Shape, TrueRow, MayRevoke
  <2> QED  BY <2>1 DEF AnswerIsTrue
<1> QED  BY <1>1, AccessInvariant, PTL

\* /app ends in an error only for an account whose deletion, or the deletion of
\* whose home, has begun.
THEOREM VisitsLandCorrect == AccessSpec => VisitsLand
<1> DEFINE Lands(r) ==
       call[r].at # "failed" /\ call'[r].at = "failed" =>
          \/ account[call[r].a] # "active"
          \/ call[r].at = "homeless" /\ tenant[home[call[r].a]] = "deleted"
          \/ call[r].at = "housed" /\ Memberships(call[r].a) = {}
<1>1. ASSUME AccessInv, [AccessNext]_accessVars, NEW r \in Calls,
             call[r].at # "failed", call'[r].at = "failed"
      PROVE  Ensure(r) \/ Settle(r)
  BY <1>1, OnlyVisitsFail
<1>2. ASSUME AccessInv, NEW r \in Calls, Ensure(r), call'[r].at = "failed"
      PROVE  Lands(r)
  <2>1. call[r].at = "homeless" /\ call[r].a \in Accounts
    BY <1>2 DEF AccessInv, CallInv, Shape, Ensure
  <2>2. ~Move(r, "housed")
    BY <1>2 DEF Move, AccessInv, AccessTypeOK, CallRow
  <2>3. CASE account[call[r].a] = "active"
    <3>1. home[call[r].a] # "none" /\ home[call[r].a] \notin Memberships(call[r].a)
      BY <1>2, <2>2, <2>3 DEF Ensure, NoHome
    <3>2. Member(home[call[r].a], call[r].a) /\ tenant[home[call[r].a]] \in {"active", "deleted"}
      BY <1>2, <2>1, <2>3, <3>1 DEF HomeInv, AccessInv
    <3>3. home[call[r].a] \in Tenants
      BY <1>2, <2>1, <3>1 DEF AccessInv, AccessTypeOK
    <3> QED  BY <2>1, <3>1, <3>2, <3>3 DEF Memberships
  <2> QED  BY <2>3
<1>3. ASSUME AccessInv, NEW r \in Calls, Settle(r), call'[r].at = "failed"
      PROVE  Lands(r)
  <2>1. call[r].at = "housed" /\ call[r] \in CallRow
    BY <1>3 DEF Settle, AccessInv, AccessTypeOK
  <2>2. ASSUME NEW t \in Landings(call[r].a),
               call' = [call EXCEPT ![r].at = "landed", ![r].t = t]
        PROVE  FALSE
    <3>1. call'[r].at = "landed"
      BY <1>3, <2>1, <2>2 DEF AccessInv, AccessTypeOK, CallRow
    <3> QED  BY <1>3, <3>1
  <2> QED  BY <1>3, <2>1, <2>2 DEF Settle
<1>4. AccessInv /\ [AccessNext]_accessVars => [\A r \in Calls : Lands(r)]_accessVars
  BY <1>1, <1>2, <1>3
<1>5. VisitsLand <=> [][\A r \in Calls : Lands(r)]_accessVars
  BY DEF VisitsLand
<1> HIDE DEF Lands
<1> QED  BY <1>4, <1>5, AccessInvariant, PTL DEF AccessSpec
==============================================================================
