------------------------- MODULE AccountLoginProofs -------------------------
(***************************************************************************)
(* Proofs about AccountLogin for any number of users, browsers, sessions,  *)
(* transactions and requests.                                              *)
(*                                                                         *)
(* A completion spans two awaits.  What it found when it locked the row of *)
(* its transaction is still so when it commits, because the lock keeps     *)
(* everybody else off (HeldInv); and a row that somebody signed in through *)
(* is used, and is written by nobody before it stands for a new token      *)
(* (WinsInv).                                                              *)
(***************************************************************************)
EXTENDS AccountLogin, TLAPS

\* What a request has learnt by the time it is at each await.
CarryInv ==
    \A r \in Requests :
        req[r].at \in {"bound", "known", "held"} => req[r].u # "none"

\* Requests that have locked the same row of a transaction, or the same user.
OneHolder ==
    \A r, x \in Requests : req[r].at = "held" /\ req[x].at = "held" =>
        \/ r = x
        \/ req[r].u # req[x].u /\ (req[r].t = "none" \/ req[r].t # req[x].t)

HeldInv ==
    \A r \in Requests : req[r].at = "held" /\ req[r].t # "none" =>
        Completable(req[r].b, req[r].t, req[r].u)

WinsInv ==
    \A t \in Txs : wins[t] # <<>> =>
        /\ tx[t].state = "used"
        /\ \E u \in Users : wins[t] = << <<tx[t].b, u>> >> /\ tx[t].email \in {"none", u}

LoginInv == TypeOK /\ CarryInv /\ OneHolder /\ HeldInv /\ WinsInv /\ OneAccountPerUser

-----------------------------------------------------------------------------
(* Types. *)

LEMMA IdleTypes == Idle \in Request /\ Idle.at = "idle" /\ Idle.b \in Browsers /\ Gone \in Transaction
<1>1. (CHOOSE b \in Browsers : TRUE) \in Browsers
  BY LoginConstants
<1> QED  BY <1>1 DEF Idle, Asked, Request, Gone, Transaction

LEMMA AskedTypes ==
    ASSUME NEW at \in {"bound", "signed", "known"}, NEW b \in Browsers, NEW t \in Txs \cup {"none"},
           NEW u \in Users \cup {"none"}, NEW s \in Sessions \cup {"none"}
    PROVE  /\ Asked(at, b, t, u, s) \in Request /\ Asked(at, b, t, u, s).at = at
           /\ Asked(at, b, t, u, s).b = b /\ Asked(at, b, t, u, s).t = t
           /\ Asked(at, b, t, u, s).u = u /\ Asked(at, b, t, u, s).s = s
  BY DEF Asked, Request

LEMMA CreatedType == \A b \in Browsers : Created(b) \in Transaction
  BY DEF Created, Transaction

LEMMA RowTypes ==
    ASSUME NEW o \in Transaction
    PROVE  /\ LET used == [o EXCEPT !.state = "used"]
              IN  /\ used \in Transaction /\ used.state = "used"
                  /\ used.b = o.b /\ used.email = o.email
           /\ \A u \in Users :
                 LET bound == [o EXCEPT !.email = u]
                 IN  /\ bound \in Transaction /\ bound.email = u
                     /\ bound.b = o.b /\ bound.state = o.state
  BY DEF Transaction

\* What the awaits of a handler add to a request.
LEMMA StepTypes ==
    ASSUME NEW q \in Request
    PROVE  /\ [q EXCEPT !.at = "signed"] \in Request
           /\ \A s \in Sessions : [q EXCEPT !.at = "signed", !.s = s, !.set = TRUE] \in Request
           /\ \A u \in Users : [q EXCEPT !.at = "known", !.u = u] \in Request
           /\ \A found \in BOOLEAN : [q EXCEPT !.at = "held", !.found = found] \in Request
  BY DEF Request

\* An answer ends the request, and sets the cookie of a session that lives.
LEMMA AnswerTypes ==
    ASSUME TypeOK, NEW r \in Requests, NEW ok \in BOOLEAN, Answer(r, ok)
    PROVE  /\ req' \in [Requests -> Request]
           /\ jar' \in [Browsers -> Sessions \cup {"none"}]
           /\ \A b \in Browsers : jar'[b] # "none" => auth[jar'[b]] # "none"
           /\ app' \subseteq Browsers
<1>1. req[r] \in Request
  BY DEF TypeOK
<1>2. req[r].b \in Browsers /\ req[r].s \in Sessions \cup {"none"}
  BY <1>1 DEF Request
<1> QED  BY <1>2, IdleTypes DEF Answer, Live, TypeOK

LEMMA TypesInit == Init => TypeOK
<1>1. <<>> \in Seq(Browsers \X Users)
  OBVIOUS
<1> QED  BY <1>1, IdleTypes DEF Init, TypeOK

\* The statements of the login transaction store keep its types.
LEMMA StoreTypes ==
    ASSUME TypeOK, NEW b \in Browsers, NEW t \in Txs
    PROVE  /\ Create(b, t) => /\ tx' \in [Txs -> Transaction]
                              /\ wins' \in [Txs -> Seq(Browsers \X Users)]
           /\ \A u \in Users : BindEmail(b, t, u) => tx' \in [Txs -> Transaction]
           /\ \A n \in Txs : Restart(b, t, n) => /\ tx' \in [Txs -> Transaction]
                                                 /\ wins' \in [Txs -> Seq(Browsers \X Users)]
<1>1. <<>> \in Seq(Browsers \X Users) /\ Created(b) \in Transaction
  BY CreatedType
<1>2. \A i \in Txs : tx[i] \in Transaction
  BY DEF TypeOK
<1>3. /\ \A i \in Txs : [tx[i] EXCEPT !.state = "used"] \in Transaction
      /\ \A i \in Txs, u \in Users : [tx[i] EXCEPT !.email = u] \in Transaction
  BY <1>2, RowTypes
<1>4. ASSUME NEW n \in Txs, Restart(b, t, n) PROVE tx' \in [Txs -> Transaction]
  <2> DEFINE used == [tx EXCEPT ![t].state = "used"]
  <2>1. used \in [Txs -> Transaction]
    BY <1>3 DEF TypeOK
  <2>2. tx' = [used EXCEPT ![n] = Created(b)]
    BY <1>4 DEF Restart
  <2> QED  BY <2>1, <2>2, <1>1
<1> QED  BY <1>1, <1>3, <1>4 DEF TypeOK, Create, BindEmail, Restart

LEMMA TypesStep == LoginInv /\ [Next]_vars => TypeOK'
<1> SUFFICES ASSUME LoginInv, [Next]_vars PROVE TypeOK'
  OBVIOUS
<1>0. /\ \A r \in Requests : req[r] \in Request
      /\ \A r \in Requests : req[r].b \in Browsers /\ req[r].t \in Txs \cup {"none"}
      /\ \A r \in Requests : req[r].u \in Users \cup {"none"} /\ req[r].s \in Sessions \cup {"none"}
      /\ \A r \in Requests : req[r].at \in {"bound", "known", "held"} => req[r].u \in Users
  BY DEF LoginInv, TypeOK, CarryInv, Request
<1>a. TypeOK
  BY DEF LoginInv
<1>1. ASSUME NEW r \in Requests, Begin(r) PROVE TypeOK'
  <2>1. Linked(req[r].u) \in BOOLEAN /\ req[r].u \in Users
    BY <1>0, <1>1 DEF Begin, Linked
  <2>2. [req[r] EXCEPT !.at = "held", !.found = Linked(req[r].u)] \in Request
    BY <2>1, <1>0, StepTypes
  <2> QED  BY <1>1, <1>a, <2>2, AnswerTypes DEF Begin, TypeOK
<1>2. ASSUME NEW r \in Requests, Commit(r) PROVE TypeOK'
  <2>1. req[r].u \in Users
    BY <1>0, <1>2 DEF Commit
  <2>2. Answer(r, TRUE) /\ UNCHANGED <<otp, auth>>
    BY <1>2 DEF Commit
  <2>3. /\ account' \in [Users -> {"none", "active", "closed"}] /\ home' \in [Users -> BOOLEAN]
        /\ rows' \in [Users -> 0 .. 2]
    <3>1. CASE req[r].found
      BY <1>2, <1>a, <3>1 DEF Commit, Project, TypeOK
    <3>2. CASE ~req[r].found
      <4>1. account[req[r].u] = "none"
        BY <1>2, <3>2 DEF Commit, Refused, Projected
      <4>2. rows[req[r].u] = 0
        BY <2>1, <4>1 DEF LoginInv, OneAccountPerUser
      <4>3. /\ account' = [account EXCEPT ![req[r].u] = "active"]
            /\ home' = [home EXCEPT ![req[r].u] = TRUE]
            /\ rows' = [rows EXCEPT ![req[r].u] = rows[req[r].u] + 1]
        BY <1>2, <3>2 DEF Commit, Project
      <4> QED  BY <1>a, <2>1, <4>2, <4>3 DEF TypeOK
    <3> QED  BY <3>1, <3>2
  <2>4. tx' \in [Txs -> Transaction] /\ wins' \in [Txs -> Seq(Browsers \X Users)]
    <3>1. CASE req[r].t = "none"
      BY <1>2, <1>a, <3>1 DEF Commit, TypeOK
    <3>2. CASE req[r].t # "none"
      <4>1. req[r].t \in Txs /\ [tx[req[r].t] EXCEPT !.state = "used"] \in Transaction
        BY <1>0, <1>a, <2>1, <3>2, RowTypes DEF TypeOK
      <4>2. Append(wins[req[r].t], <<req[r].b, req[r].u>>) \in Seq(Browsers \X Users)
        BY <1>0, <1>a, <2>1, <4>1 DEF TypeOK
      <4> QED  BY <1>2, <1>a, <3>2, <4>1, <4>2 DEF Commit, TypeOK
    <3> QED  BY <3>1, <3>2
  <2> QED  BY <1>a, <2>2, <2>3, <2>4, AnswerTypes DEF TypeOK
<1>3. ASSUME NEW r \in Requests, Rollback(r) PROVE TypeOK'
  BY <1>3, <1>a, AnswerTypes DEF Rollback, TypeOK
<1>4. ASSUME NEW r \in Requests, ReuseSession(r) PROVE TypeOK'
  <2>1. [req[r] EXCEPT !.at = "signed"] \in Request
    BY <1>0 DEF Request
  <2> QED  BY <1>4, <1>a, <2>1 DEF ReuseSession, TypeOK
<1>5. ASSUME NEW r \in Requests, NEW s \in Sessions, SignIn(r, s) PROVE TypeOK'
  <2>1. [req[r] EXCEPT !.at = "signed", !.s = s, !.set = TRUE] \in Request /\ req[r].u \in Users
    BY <1>0, <1>5, StepTypes DEF SignIn
  <2>2. auth[s] = "none" /\ auth' = [auth EXCEPT ![s] = req[r].u]
    BY <1>5 DEF SignIn
  <2>3. \A b \in Browsers : jar'[b] # "none" => auth'[jar'[b]] # "none"
    BY <1>5, <1>a, <2>1, <2>2, LoginConstants DEF SignIn, TypeOK
  <2> QED  BY <1>5, <1>a, <2>1, <2>2, <2>3 DEF SignIn, TypeOK
<1>6. ASSUME NEW r \in Requests, WrongCode(r) PROVE TypeOK'
  <2>1. otp' \in [Users -> BOOLEAN]
    BY <1>0, <1>6, <1>a DEF WrongCode, TypeOK
  <2> QED  BY <1>6, <1>a, <2>1, AnswerTypes DEF WrongCode, TypeOK
<1>7. ASSUME NEW r \in Requests, CompleteLogin(r) PROVE TypeOK'
  <2>1. CASE Live(req[r].s)
    <3>1. auth[req[r].s] \in Users
      BY <1>0, <1>a, <2>1 DEF Live, TypeOK
    <3>2. [req[r] EXCEPT !.at = "known", !.u = auth[req[r].s]] \in Request
      BY <1>0, <3>1 DEF Request
    <3> QED  BY <1>7, <1>a, <2>1, <3>2 DEF CompleteLogin, TypeOK
  <2>2. CASE ~Live(req[r].s)
    BY <1>7, <1>a, <2>2, AnswerTypes DEF CompleteLogin, TypeOK
  <2> QED  BY <2>1, <2>2
<1>8. ASSUME NEW r \in Requests, Crash(r) PROVE TypeOK'
  BY <1>8, <1>a, IdleTypes DEF Crash, TypeOK
<1>9. ASSUME NEW b \in Browsers, EnsureWorkspace(b) PROVE TypeOK'
  BY <1>9, <1>a DEF EnsureWorkspace, TypeOK
<1>10. ASSUME NEW r \in Requests, NEW b \in Browsers, Authenticate(r, b) PROVE TypeOK'
  <2>1. auth[jar[b]] \in Users /\ jar[b] \in Sessions
    BY <1>10, <1>a DEF Authenticate, Alive, Live, TypeOK
  <2>2. Asked("known", b, "none", auth[jar[b]], jar[b]) \in Request
    BY <2>1 DEF Asked, Request
  <2> QED  BY <1>10, <1>a, <2>2 DEF Authenticate, TypeOK
<1>11. ASSUME NEW r \in Requests, NEW b \in Browsers, NEW t \in Txs, OpenLogin(r, b, t)
       PROVE TypeOK'
  <2>1. Alive(b) => auth[jar[b]] \in Users /\ jar[b] \in Sessions
    BY <1>a DEF Alive, Live, TypeOK
  <2>2. req' \in [Requests -> Request]
    BY <1>11, <1>a, <2>1, AskedTypes DEF OpenLogin, TypeOK
  <2> QED  BY <1>11, <1>a, <2>2, StoreTypes DEF OpenLogin, TypeOK
<1>12. ASSUME NEW r \in Requests, NEW b \in Browsers, NEW t \in Txs, Bootstrap(r, b, t)
       PROVE TypeOK'
  <2>1. Asked("signed", b, t, "none", jar[b]) \in Request
    BY <1>a DEF Asked, Request, TypeOK
  <2> QED  BY <1>12, <1>a, <2>1 DEF Bootstrap, TypeOK
<1>13. ASSUME NEW b \in Browsers, NEW t \in Txs, NEW u \in Users, SendCode(b, t, u)
       PROVE TypeOK'
  <2>1. otp' \in [Users -> BOOLEAN]
    BY <1>13, <1>a DEF SendCode, Issue, Arrives, Claims, TypeOK
  <2> QED  BY <1>13, <1>a, <2>1, StoreTypes DEF SendCode, TypeOK
<1>14. ASSUME NEW r \in Requests, NEW b \in Browsers, NEW t \in Txs, NEW u \in Users,
              Verify(r, b, t, u)
       PROVE TypeOK'
  <2>1. Asked("bound", b, t, u, jar[b]) \in Request
    BY <1>a, AskedTypes DEF TypeOK
  <2> QED  BY <1>14, <1>a, <2>1, StoreTypes DEF Verify, TypeOK
<1>15. ASSUME NEW b \in Browsers, NEW t \in Txs, NEW new \in Txs, ChangeEmail(b, t, new)
       PROVE TypeOK'
  BY <1>15, <1>a, StoreTypes DEF ChangeEmail, TypeOK
<1>16. ASSUME NEW s \in Sessions, EndSession(s) PROVE TypeOK'
  BY <1>16, <1>a DEF EndSession, TypeOK
<1>17. ASSUME NEW t \in Txs, Lapse(t) PROVE TypeOK'
  BY <1>17, <1>a, IdleTypes DEF Lapse, TypeOK
<1>18. ASSUME NEW u \in Users, CloseAccount(u) \/ PurgeAccount(u) \/ DeleteHome(u) PROVE TypeOK'
  <2>1. account[u] = "closed" => rows[u] = 1
    BY DEF LoginInv, OneAccountPerUser
  <2>2. CASE PurgeAccount(u)
    <3>1. rows' = [rows EXCEPT ![u] = rows[u] - 1] /\ rows[u] = 1
      BY <2>1, <2>2 DEF PurgeAccount
    <3> QED  BY <1>a, <2>2, <3>1 DEF PurgeAccount, TypeOK
  <2> QED  BY <1>18, <1>a, <2>2 DEF CloseAccount, DeleteHome, TypeOK
<1>19. CASE UNCHANGED vars
  BY <1>19, <1>a DEF vars, TypeOK
<1> QED  BY <1>1, <1>2, <1>3, <1>4, <1>5, <1>6, <1>7, <1>8, <1>9, <1>10, <1>11, <1>12, <1>13,
            <1>14, <1>15, <1>16, <1>17, <1>18, <1>19
         DEF Next, Handle

-----------------------------------------------------------------------------
(* Locks. *)

\* A step takes no lock, and tells a request who its user is in time.
Learns ==
    \A r \in Requests :
        \/ req'[r] = req[r]
        \/ /\ req'[r].at # "held"
           /\ req'[r].at \in {"bound", "known"} => req'[r].u # "none"

\* A step leaves the rows of the transactions that others have locked alone.
Spared ==
    \A r \in Requests : req[r].at = "held" /\ req[r].t # "none" /\ req'[r] = req[r] =>
        tx'[req[r].t] = tx[req[r].t]

LEMMA Spares ==
    ASSUME LoginInv, Learns, Spared
    PROVE  CarryInv' /\ OneHolder' /\ HeldInv'
<1>1. CarryInv'
  BY DEF LoginInv, CarryInv, Learns
<1>2. OneHolder'
  BY DEF LoginInv, OneHolder, Learns
<1>3. HeldInv'
  BY DEF LoginInv, HeldInv, Learns, Spared, Completable, Usable, SameCsrf
<1> QED  BY <1>1, <1>2, <1>3

\* After an answer its request is idle and the others are where they were.
LEMMA AnswerEnds ==
    ASSUME TypeOK, NEW r \in Requests, NEW ok \in BOOLEAN, Answer(r, ok)
    PROVE  Learns /\ req'[r].at = "idle"
  BY IdleTypes DEF Answer, Learns, TypeOK

\* A request that has asked for something knows what it was asked.
LEMMA AskedLearns ==
    ASSUME TypeOK, NEW r \in Requests, NEW at \in {"bound", "signed", "known"}, NEW b, NEW t, NEW u,
           NEW s, at # "signed" => u # "none", req' = [req EXCEPT ![r] = Asked(at, b, t, u, s)]
    PROVE  Learns
  BY DEF Asked, Learns, TypeOK

\* The store writes rows that are not locked, or that nobody names.
LEMMA StoreSpares ==
    ASSUME TypeOK, NEW b \in Browsers, NEW t \in Txs,
           \/ Create(b, t)
           \/ \E u \in Users : BindEmail(b, t, u)
           \/ \E new \in Txs : Restart(b, t, new)
    PROVE  Spared
<1>1. CASE Create(b, t)
  BY <1>1 DEF Create, Unnamed, Spared, TypeOK
<1>2. ASSUME NEW u \in Users, BindEmail(b, t, u) PROVE Spared
  BY <1>2 DEF BindEmail, TxLocked, Spared, TypeOK
<1>3. ASSUME NEW new \in Txs, Restart(b, t, new) PROVE Spared
  <2>1. \A x \in Txs \ {t, new} : tx'[x] = tx[x]
    BY <1>3 DEF Restart, TypeOK
  <2>2. \A r \in Requests : req[r].at = "held" /\ req[r].t # "none" => req[r].t \in Txs \ {t, new}
    BY <1>3, LoginConstants DEF Restart, TxLocked, Unnamed, TypeOK, Request
  <2> QED  BY <2>1, <2>2 DEF Spared
<1> QED  BY <1>1, <1>2, <1>3

LEMMA LocksStep == LoginInv /\ [Next]_vars => CarryInv' /\ OneHolder' /\ HeldInv'
<1> SUFFICES ASSUME LoginInv, [Next]_vars PROVE CarryInv' /\ OneHolder' /\ HeldInv'
  OBVIOUS
<1> DEFINE Locks == CarryInv' /\ OneHolder' /\ HeldInv'
<1>a. TypeOK
  BY DEF LoginInv
<1>b. tx' = tx => Spared
  BY DEF Spared
<1>1. ASSUME NEW r \in Requests, Begin(r) PROVE Locks
  <2>1. CASE req[r].t = "none" \/ Completable(req[r].b, req[r].t, req[r].u)
    <3>1. req[r] \in Request
      BY <1>a DEF TypeOK
    <3>2. /\ req'[r].at = "held" /\ req'[r].t = req[r].t /\ req'[r].u = req[r].u
          /\ req'[r].b = req[r].b
          /\ \A x \in Requests \ {r} : req'[x] = req[x]
          /\ tx' = tx
      <4>1. /\ req' = [req EXCEPT ![r].at = "held", ![r].found = Linked(req[r].u)]
            /\ tx' = tx
        BY <1>1, <2>1 DEF Begin
      <4> HIDE DEF Linked
      <4> QED  BY <1>a, <3>1, <4>1 DEF TypeOK, Request
    <3>3. /\ req[r].at = "known" /\ ~UserLocked(req[r].u) /\ ~TxLocked(req[r].t)
      BY <1>1 DEF Begin
    <3>4. CarryInv'
      BY <3>2, <3>3 DEF LoginInv, CarryInv
    <3>5. OneHolder'
      BY <3>2, <3>3 DEF LoginInv, OneHolder, UserLocked, TxLocked
    <3>6. HeldInv'
      BY <2>1, <3>2 DEF LoginInv, HeldInv, Completable, Usable, SameCsrf
    <3> QED  BY <3>4, <3>5, <3>6
  <2>2. CASE ~(req[r].t = "none" \/ Completable(req[r].b, req[r].t, req[r].u))
    BY <1>1, <1>a, <1>b, <2>2, AnswerEnds, Spares DEF Begin
  <2> QED  BY <2>1, <2>2
<1>2. ASSUME NEW r \in Requests, Commit(r) PROVE Locks
  <2>1. Learns /\ req'[r].at = "idle" /\ req[r].at = "held"
    BY <1>2, <1>a, AnswerEnds DEF Commit
  <2>2. ASSUME NEW x \in Requests, req[x].at = "held", req[x].t # "none", req'[x] = req[x]
        PROVE  tx'[req[x].t] = tx[req[x].t]
    <3>1. req[r].t = "none" \/ req[r].t # req[x].t
      BY <2>1, <2>2 DEF LoginInv, OneHolder
    <3>2. CASE req[r].t = "none"
      BY <1>2, <3>2 DEF Commit
    <3>3. CASE req[r].t # "none"
      <4>1. tx' = [tx EXCEPT ![req[r].t].state = "used"]
        BY <1>2, <3>3 DEF Commit
      <4>2. req[r] \in Request /\ req[x] \in Request
        BY <1>a DEF TypeOK
      <4> QED  BY <1>a, <2>2, <3>1, <3>3, <4>1, <4>2 DEF TypeOK, Request
    <3> QED  BY <3>2, <3>3
  <2>3. Spared
    BY <2>2 DEF Spared
  <2> QED  BY <2>1, <2>3, Spares
<1>3. ASSUME NEW r \in Requests, Rollback(r) \/ WrongCode(r) PROVE Locks
  BY <1>3, <1>a, <1>b, AnswerEnds, Spares DEF Rollback, WrongCode
<1>4. ASSUME NEW r \in Requests, ReuseSession(r) PROVE Locks
  <2>1. Learns
    BY <1>4, <1>a DEF ReuseSession, Learns, TypeOK, Request
  <2> QED  BY <1>4, <1>b, <2>1, Spares DEF ReuseSession
<1>5. ASSUME NEW r \in Requests, NEW s \in Sessions, SignIn(r, s) PROVE Locks
  <2>1. Learns
    BY <1>5, <1>a DEF SignIn, Learns, TypeOK, Request
  <2> QED  BY <1>5, <1>b, <2>1, Spares DEF SignIn
<1>6. ASSUME NEW r \in Requests, CompleteLogin(r) PROVE Locks
  <2>1. CASE Live(req[r].s)
    <3>1. auth[req[r].s] # "none" /\ req[r] \in Request
      BY <1>a, <2>1 DEF Live, TypeOK
    <3>2. req' = [req EXCEPT ![r].at = "known", ![r].u = auth[req[r].s]] /\ tx' = tx
      BY <1>6, <2>1 DEF CompleteLogin
    <3>3. Learns
      BY <1>a, <3>1, <3>2 DEF Learns, TypeOK, Request
    <3> QED  BY <1>b, <3>2, <3>3, Spares
  <2>2. CASE ~Live(req[r].s)
    BY <1>6, <1>a, <1>b, <2>2, AnswerEnds, Spares DEF CompleteLogin
  <2> QED  BY <2>1, <2>2
<1>7. ASSUME NEW r \in Requests, Crash(r) PROVE Locks
  <2>1. Learns
    BY <1>7, <1>a, IdleTypes DEF Crash, Learns, TypeOK
  <2> QED  BY <1>7, <1>b, <2>1, Spares DEF Crash
<1>8. ASSUME NEW r \in Requests, NEW b \in Browsers, Authenticate(r, b) PROVE Locks
  <2>1. auth[jar[b]] # "none"
    BY <1>8 DEF Authenticate, Alive, Live
  <2>2. Learns
    BY <1>8, <1>a, <2>1, AskedLearns DEF Authenticate
  <2> QED  BY <1>8, <1>b, <2>2, Spares DEF Authenticate
<1>9. ASSUME NEW r \in Requests, NEW b \in Browsers, NEW t \in Txs, OpenLogin(r, b, t)
      PROVE  Locks
  <2>1. Alive(b) => auth[jar[b]] # "none"
    BY DEF Alive, Live
  <2>2. Learns
    BY <1>9, <1>a, <2>1, AskedLearns DEF OpenLogin, Learns
  <2> QED  BY <1>9, <1>a, <2>2, StoreSpares, Spares DEF OpenLogin
<1>10. ASSUME NEW r \in Requests, NEW b \in Browsers, NEW t \in Txs, Bootstrap(r, b, t)
       PROVE  Locks
  <2>1. Learns
    BY <1>10, <1>a, AskedLearns DEF Bootstrap
  <2> QED  BY <1>10, <1>b, <2>1, Spares DEF Bootstrap
<1>11. ASSUME NEW r \in Requests, NEW b \in Browsers, NEW t \in Txs, NEW u \in Users,
              Verify(r, b, t, u)
       PROVE  Locks
  <2>1. Learns
    BY <1>11, <1>a, AskedLearns, LoginConstants DEF Verify
  <2> QED  BY <1>11, <1>a, <2>1, StoreSpares, Spares DEF Verify
<1>12. ASSUME NEW b \in Browsers, NEW t \in Txs,
              \/ \E u \in Users : SendCode(b, t, u)
              \/ \E new \in Txs : ChangeEmail(b, t, new)
       PROVE  Locks
  <2>1. Learns
    BY <1>12 DEF SendCode, ChangeEmail, Learns
  <2> QED  BY <1>12, <1>a, <2>1, StoreSpares, Spares DEF SendCode, ChangeEmail
<1>13. ASSUME NEW t \in Txs, Lapse(t) PROVE Locks
  <2>1. Learns /\ Spared
    BY <1>13, <1>a DEF Lapse, Learns, Spared, TypeOK
  <2> QED  BY <2>1, Spares
<1>14. ASSUME req' = req, tx' = tx PROVE Locks
  <2>1. Learns
    BY <1>14 DEF Learns
  <2> QED  BY <1>14, <1>b, <2>1, Spares
<1>15. ASSUME \/ \E b \in Browsers : EnsureWorkspace(b)
              \/ \E s \in Sessions : EndSession(s)
              \/ \E u \in Users : CloseAccount(u) \/ PurgeAccount(u) \/ DeleteHome(u)
              \/ UNCHANGED vars
       PROVE  req' = req /\ tx' = tx
  BY <1>15 DEF EnsureWorkspace, EndSession, CloseAccount, PurgeAccount, DeleteHome, vars
<1> HIDE DEF Locks
<1>q. Locks
  BY <1>1, <1>2, <1>3, <1>4, <1>5, <1>6, <1>7, <1>8, <1>9, <1>10, <1>11, <1>12, <1>13, <1>14, <1>15
  DEF Next, Handle
<1> QED  BY <1>q DEF Locks

-----------------------------------------------------------------------------
(* Who signed in, and which account it got. *)

\* A step that uses up no row keeps what is known of those that were used.
LEMMA SameWins ==
    ASSUME LoginInv, NEW t \in Txs, wins'[t] = <<>> \/ (wins'[t] = wins[t] /\ tx'[t] = tx[t])
    PROVE  wins'[t] # <<>> =>
              /\ tx'[t].state = "used"
              /\ \E u \in Users : wins'[t] = << <<tx'[t].b, u>> >> /\ tx'[t].email \in {"none", u}
  BY DEF LoginInv, WinsInv

LEMMA WinsStep == LoginInv /\ [Next]_vars => WinsInv'
<1> SUFFICES ASSUME LoginInv, [Next]_vars, NEW t \in Txs, wins'[t] # <<>>
             PROVE  /\ tx'[t].state = "used"
                    /\ \E u \in Users : /\ wins'[t] = << <<tx'[t].b, u>> >>
                                        /\ tx'[t].email \in {"none", u}
  BY DEF WinsInv
<1> DEFINE Known == /\ tx'[t].state = "used"
                    /\ \E u \in Users : /\ wins'[t] = << <<tx'[t].b, u>> >>
                                        /\ tx'[t].email \in {"none", u}
<1>a. TypeOK
  BY DEF LoginInv
<1>b. tx[t].state # "used" => wins[t] = <<>>
  BY DEF LoginInv, WinsInv
<1>1. ASSUME NEW r \in Requests, Commit(r) PROVE Known
  <2>1. CASE req[r].t = t
    <3>1. Completable(req[r].b, t, req[r].u) /\ req[r].u \in Users /\ t # "none"
      <4>1. req[r] \in Request /\ t # "none" /\ req[r].at = "held"
        BY <1>1, <1>a, LoginConstants DEF Commit, TypeOK
      <4> QED  BY <2>1, <4>1 DEF LoginInv, HeldInv, CarryInv, Request
    <3>2. /\ tx[t].state = "open" /\ tx[t].b = req[r].b /\ tx[t].email \in {"none", req[r].u}
          /\ wins[t] = <<>>
      BY <1>b, <3>1 DEF Completable, Usable, SameCsrf
    <3>3. /\ tx' = [tx EXCEPT ![t].state = "used"]
          /\ wins' = [wins EXCEPT ![t] = Append(wins[t], <<req[r].b, req[r].u>>)]
      BY <1>1, <2>1, <3>1 DEF Commit
    <3>4. tx[t] \in Transaction /\ tx'[t] = [tx[t] EXCEPT !.state = "used"]
      BY <1>a, <3>3 DEF TypeOK
    <3>5. tx'[t].state = "used" /\ tx'[t].b = tx[t].b /\ tx'[t].email = tx[t].email
      BY <3>4, RowTypes
    <3>6. wins'[t] = << <<req[r].b, req[r].u>> >>
      BY <1>a, <3>2, <3>3 DEF TypeOK
    <3> QED  BY <3>1, <3>2, <3>5, <3>6
  <2>2. CASE req[r].t # t
    <3>1. wins'[t] = wins[t] /\ tx'[t] = tx[t]
      BY <1>1, <1>a, <2>2 DEF Commit, TypeOK
    <3> QED  BY <3>1, SameWins
  <2> QED  BY <2>1, <2>2
<1>2. ASSUME NEW b \in Browsers, NEW x \in Txs, Create(b, x) PROVE Known
  BY <1>2, <1>a, SameWins DEF Create, TypeOK
<1>3. ASSUME NEW b \in Browsers, NEW x \in Txs, NEW u \in Users, BindEmail(b, x, u), wins' = wins
      PROVE  Known
  <2>1. t = x => wins[t] = <<>>
    BY <1>3, <1>b DEF BindEmail, Usable
  <2> QED  BY <1>3, <1>a, <2>1, SameWins DEF BindEmail, TypeOK
<1>4. ASSUME NEW b \in Browsers, NEW x \in Txs, NEW new \in Txs, Restart(b, x, new) PROVE Known
  <2>1. t = x => wins[t] = <<>>
    BY <1>4, <1>b DEF Restart, Usable
  <2>2. t = new => wins'[t] = <<>>
    BY <1>4, <1>a DEF Restart, TypeOK
  <2>3. t # new => wins'[t] = wins[t]
    BY <1>4, <1>a DEF Restart, TypeOK
  <2>4. t # x /\ t # new => tx'[t] = tx[t]
    BY <1>4, <1>a DEF Restart, TypeOK
  <2> QED  BY <2>1, <2>2, <2>3, <2>4, SameWins
<1>5. ASSUME NEW x \in Txs, Lapse(x) PROVE Known
  BY <1>5, <1>a, SameWins DEF Lapse, TypeOK
<1>6. ASSUME tx' = tx, wins' = wins PROVE Known
  BY <1>6, SameWins
<1>7. ASSUME \/ \E r \in Requests : \/ Begin(r) \/ Rollback(r) \/ ReuseSession(r) \/ WrongCode(r)
                                    \/ CompleteLogin(r) \/ Crash(r)
                                    \/ \E s \in Sessions : SignIn(r, s)
                                    \/ \E b \in Browsers : Authenticate(r, b)
                                    \/ \E b \in Browsers, x \in Txs : Bootstrap(r, b, x)
             \/ \E b \in Browsers : EnsureWorkspace(b)
             \/ \E s \in Sessions : EndSession(s)
             \/ \E u \in Users : CloseAccount(u) \/ PurgeAccount(u) \/ DeleteHome(u)
             \/ UNCHANGED vars
      PROVE  tx' = tx /\ wins' = wins
  BY <1>7 DEF Begin, Rollback, ReuseSession, WrongCode, CompleteLogin, Crash, SignIn, Authenticate,
              Bootstrap, EnsureWorkspace, EndSession, CloseAccount, PurgeAccount, DeleteHome, vars
<1> HIDE DEF Known
<1>q. Known
  BY <1>1, <1>2, <1>3, <1>4, <1>5, <1>6, <1>7
  DEF Next, Handle, OpenLogin, SendCode, Verify, ChangeEmail
<1> QED  BY <1>q DEF Known

LEMMA AccountsStep == LoginInv /\ [Next]_vars => OneAccountPerUser'
<1> SUFFICES ASSUME LoginInv, [Next]_vars, NEW u \in Users
             PROVE  rows'[u] = IF account'[u] = "none" THEN 0 ELSE 1
  BY DEF OneAccountPerUser
<1> DEFINE One == rows'[u] = IF account'[u] = "none" THEN 0 ELSE 1
<1>a. TypeOK /\ rows[u] = IF account[u] = "none" THEN 0 ELSE 1
  BY DEF LoginInv, OneAccountPerUser
<1>1. ASSUME NEW r \in Requests, Commit(r) PROVE One
  <2>1. CASE req[r].found
    BY <1>1, <1>a, <2>1 DEF Commit, Project
  <2>2. CASE ~req[r].found
    <3>1. account[req[r].u] = "none"
      BY <1>1, <2>2 DEF Commit, Refused, Projected
    <3>2. /\ account' = [account EXCEPT ![req[r].u] = "active"]
          /\ rows' = [rows EXCEPT ![req[r].u] = rows[req[r].u] + 1]
      BY <1>1, <2>2 DEF Commit, Project
    <3> QED  BY <1>a, <3>1, <3>2 DEF TypeOK
  <2> QED  BY <2>1, <2>2
<1>2. ASSUME NEW x \in Users, CloseAccount(x) PROVE One
  BY <1>2, <1>a DEF CloseAccount, TypeOK
<1>3. ASSUME NEW x \in Users, PurgeAccount(x) PROVE One
  <2>1. /\ account' = [account EXCEPT ![x] = "none"] /\ account[x] = "closed"
        /\ rows' = [rows EXCEPT ![x] = rows[x] - 1]
    BY <1>3 DEF PurgeAccount
  <2> QED  BY <1>a, <2>1 DEF TypeOK
<1>4. ASSUME rows' = rows, account' = account PROVE One
  BY <1>4, <1>a
<1>5. ASSUME \/ \E r \in Requests : \/ Begin(r) \/ Rollback(r) \/ ReuseSession(r) \/ WrongCode(r)
                                    \/ CompleteLogin(r) \/ Crash(r)
                                    \/ \E s \in Sessions : SignIn(r, s)
                                    \/ \E b \in Browsers : Authenticate(r, b)
                                    \/ \E b \in Browsers, t \in Txs :
                                          \/ Bootstrap(r, b, t) \/ OpenLogin(r, b, t)
                                          \/ \E x \in Users : Verify(r, b, t, x)
             \/ \E b \in Browsers : EnsureWorkspace(b)
             \/ \E b \in Browsers, t \in Txs : \/ \E x \in Users : SendCode(b, t, x)
                                               \/ \E new \in Txs : ChangeEmail(b, t, new)
             \/ \E s \in Sessions : EndSession(s)
             \/ \E t \in Txs : Lapse(t)
             \/ \E x \in Users : DeleteHome(x)
             \/ UNCHANGED vars
      PROVE  rows' = rows /\ account' = account
  BY <1>5 DEF Begin, Rollback, ReuseSession, WrongCode, CompleteLogin, Crash, SignIn, Authenticate,
              Bootstrap, OpenLogin, Verify, EnsureWorkspace, SendCode, ChangeEmail, EndSession,
              Lapse, DeleteHome, vars
<1> HIDE DEF One
<1>q. One
  BY <1>1, <1>2, <1>3, <1>4, <1>5 DEF Next, Handle
<1> QED  BY <1>q DEF One

-----------------------------------------------------------------------------
LEMMA LoginInit == Init => LoginInv
<1> SUFFICES ASSUME Init PROVE LoginInv
  OBVIOUS
<1>1. CarryInv /\ OneHolder /\ HeldInv
  BY IdleTypes DEF Init, CarryInv, OneHolder, HeldInv
<1>2. WinsInv /\ OneAccountPerUser
  BY DEF Init, WinsInv, OneAccountPerUser
<1> QED  BY <1>1, <1>2, TypesInit DEF LoginInv

\* The inductive invariant: types, what requests have learnt, who holds which
\* lock, what a holder may rely on, who has signed in.
THEOREM LoginInvariant == Spec => []LoginInv
<1>1. LoginInv /\ [Next]_vars => LoginInv'
  BY TypesStep, LocksStep, WinsStep, AccountsStep DEF LoginInv
<1> QED  BY <1>1, LoginInit, PTL DEF Spec

\* For any number of users, browsers and requests every handler keeps the types
\* of the tables, and a session cookie of a browser names a live session.
THEOREM LoginTypeCorrect == Spec => []TypeOK
<1>1. LoginInv => TypeOK
  BY DEF LoginInv
<1> QED  BY <1>1, LoginInvariant, PTL

\* However many tabs, retries and requests that died share a login transaction,
\* complete lets at most one of them sign in through it.
THEOREM CompletedOnceCorrect == Spec => []CompletedOnce
<1>1. LoginInv => CompletedOnce
  <2> SUFFICES ASSUME LoginInv, NEW t \in Txs PROVE Len(wins[t]) <= 1
    BY DEF CompletedOnce
  <2>1. wins[t] = <<>> \/ \E u \in Users : wins[t] = << <<tx[t].b, u>> >>
    BY DEF LoginInv, WinsInv
  <2> QED  BY <2>1
<1> QED  BY <1>1, LoginInvariant, PTL

\* Whoever completes a transaction does it in the browser that opened it, and
\* owns the address that is bound to it, however binding and completion race.
THEOREM CompletedByItsOwnerCorrect == Spec => []CompletedByItsOwner
<1>1. LoginInv => CompletedByItsOwner
  <2> SUFFICES ASSUME LoginInv, NEW t \in Txs, NEW i \in 1 .. Len(wins[t])
               PROVE  wins[t][i][1] = tx[t].b /\ tx[t].email \in {"none", wins[t][i][2]}
    BY DEF CompletedByItsOwner
  <2>1. wins[t] # <<>>
    OBVIOUS
  <2>2. PICK u \in Users : wins[t] = << <<tx[t].b, u>> >> /\ tx[t].email \in {"none", u}
    BY <2>1 DEF LoginInv, WinsInv
  <2>3. i = 1
    BY <2>2
  <2> QED  BY <2>2, <2>3
<1> QED  BY <1>1, LoginInvariant, PTL

\* Concurrent first sign-ins of one user, at the login and at any authenticated
\* route, leave one account (ensure_account_auth_link), for any number of them.
THEOREM OneAccountCorrect == Spec => []OneAccountPerUser
<1>1. LoginInv => OneAccountPerUser
  BY DEF LoginInv
<1> QED  BY <1>1, LoginInvariant, PTL
=============================================================================
