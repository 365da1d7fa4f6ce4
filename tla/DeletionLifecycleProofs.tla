----------------------- MODULE DeletionLifecycleProofs -----------------------
(***************************************************************************)
(* Proofs of the safety properties of DeletionLifecycle for any number of  *)
(* accounts, sites, grants and overlapping jobs.                           *)
(*                                                                         *)
(* What a first advance has found it revokes when it commits: until then   *)
(* the rows are either in reach of its writes or no longer in use          *)
(* (SweepingInv), afterwards they stay out of use (SweptInv), and their    *)
(* tokens run out as its window does, but those signed late (QuietInv).    *)
(***************************************************************************)
EXTENDS DeletionLifecycle, FiniteSetTheorems, WellFoundedInduction, TLAPS

EndedStates == {"denied", "revoked", "gone"}

\* The part of TypeOK that the argument needs: numbers of events are left out.
RowsTyped ==
    /\ account \in [Accounts -> {"active", "deleted", "gone"}]
    /\ owner \in [Accounts -> {"active", "revoked", "gone"}]
    /\ site \in [Sites -> {"absent", "active", "revoked", "gone"}]
    /\ grant \in [Grants -> {"absent", "open", "pending", "active", "denied", "revoked", "gone"}]
    /\ tokenLife \in [Grants -> 0 .. AccessLife]
    /\ job \in [Jobs -> JobRow \cup {NoJob}]
    /\ swept \in [Jobs -> Found]

\* What a committed first advance has found is no longer in use.
SweptInv ==
    \A j \in Jobs : Committed(j) =>
        /\ \A g \in swept[j].grants : grant[g] \in EndedStates
        /\ \A s \in swept[j].sites : site[s] \in {"revoked", "gone"}

\* What one that is about to commit has found exists, and is in use only where its
\* writes will reach it: in the loop's list, or on a site it has found.
SweepingInv ==
    \A j \in Jobs : job[j].status = "revoking" =>
        /\ swept[j].listed \subseteq swept[j].grants
        /\ job[j].scope.kind = "account" => swept[j].sites = {}
        /\ \A g \in swept[j].grants :
              /\ grant[g] \notin {"absent", "open"}
              /\ g \in swept[j].listed \/ grant[g] \in EndedStates
              /\ job[j].scope.kind # "account" => SiteOf[g] \in swept[j].sites

\* A token of a grant that was found dies within the window, unless it is late.
QuietInv ==
    \A j \in Jobs : job[j].status = "waiting" =>
        \A g \in swept[j].grants : g \in late \/ tokenLife[g] <= job[j].wait

\* What was revoked was announced.
RevokedInv == \A g \in Grants : grant[g] = "revoked" => Announced(g)

\* A grant has a site, and a site that is purged takes its grants along.
SitePresentInv ==
    \A g \in Grants : grant[g] \notin {"absent", "gone"} => site[SiteOf[g]] \notin {"absent", "gone"}

AccountInv ==
    \A j \in Jobs : Committed(j) /\ job[j].scope.kind = "account" =>
        account[job[j].scope.id] # "active"

DeletionInv ==
    /\ RowsTyped
    /\ SweptInv /\ SweepingInv /\ QuietInv /\ TokensDeadBeforePurge
    /\ RevokedInv /\ SitePresentInv /\ AccountInv

-----------------------------------------------------------------------------
LEMMA DeletionInit == Init => DeletionInv
<1> SUFFICES ASSUME Init PROVE DeletionInv
  OBVIOUS
<1>1. \A j \in Jobs : job[j].status = "none"
  BY DEF Init, NoJob
<1>2. Nothing \in Found
  BY DEF Nothing, Found
<1>3. RowsTyped
  BY <1>2, DeletionConstants DEF Init, RowsTyped
<1>4. SweptInv /\ SweepingInv /\ QuietInv /\ TokensDeadBeforePurge /\ AccountInv
  BY <1>1 DEF SweptInv, SweepingInv, QuietInv, TokensDeadBeforePurge, AccountInv, Committed
<1>5. RevokedInv /\ SitePresentInv
  BY DEF Init, RevokedInv, SitePresentInv
<1> QED  BY <1>3, <1>4, <1>5 DEF DeletionInv

\* The loop over a set of grants publishes an event for each.
LEMMA GrantsAnnounced ==
    ASSUME NEW R \in SUBSET Grants, NEW g \in R
    PROVE  \E e \in GrantEvents(R) : e.site = SiteOf[g] /\ e.target = g
<1> DEFINE Number(h) == MaxSequence(SiteOf[h])
                           + Cardinality({i \in R : SiteOf[i] = SiteOf[h] /\ i <= h})
           Of(h) == [site |-> SiteOf[h], type |-> "grant", target |-> h, seq |-> Number(h)]
<1>1. GrantEvents(R) = {Of(h) : h \in R}
  BY Zenon DEF GrantEvents
<1>2. Of(g).site = SiteOf[g] /\ Of(g).target = g
  <2> HIDE DEF Number
  <2> QED  OBVIOUS
<1> HIDE DEF Of
<1> QED  BY <1>1, <1>2

LEMMA SitesAnnounced ==
    ASSUME NEW S \in SUBSET Sites, NEW s \in S
    PROVE  \E e \in SiteEvents(S) : e.site = s /\ e.target = s
<1> DEFINE Number(t) == MaxSequence(t) + 1
           Of(t) == [site |-> t, type |-> "site", target |-> t, seq |-> Number(t)]
<1>1. SiteEvents(S) = {Of(t) : t \in S}
  BY Zenon DEF SiteEvents
<1>2. Of(s).site = s /\ Of(s).target = s
  <2> HIDE DEF Number
  <2> QED  OBVIOUS
<1> HIDE DEF Of
<1> QED  BY <1>1, <1>2

-----------------------------------------------------------------------------
(* What the steps do to the rows of jobs *)

Purge(j) == PurgeAccount(j) \/ PurgeSite(j) \/ PurgeTenant(j)
Commit(j, d) == CommitAccount(j, d) \/ CommitSites(j, d)

Pairing == \E s \in Sites : BeginPairing(s) \/ CompletePairing(s)
Consent ==
    \E g \in Grants : InsertPending(g) \/ CommitPending(g) \/ FindPending(g)
                         \/ Activate(g) \/ Deny(g)
Revocation == \E g \in Grants : RevokeGrant(g)
Token == \E g \in Grants : CheckClaims(g) \/ SignToken(g)
Failure == \E j \in Jobs : AdvanceFails(j)

\* The steps, grouped by what they change.
LEMMA Steps ==
    ASSUME [Next]_vars
    PROVE  \/ Pairing \/ Consent \/ Revocation \/ Token \/ Failure \/ Tick
           \/ UNCHANGED vars
           \/ \E j \in Jobs, sc \in Scopes : Begin(j, sc)
           \/ \E j \in Jobs : Sweep(j) \/ RollBack(j) \/ Purge(j)
           \/ \E j \in Jobs, d \in 0 .. SafeWindow : Commit(j, d)
  BY DEF Next, Advance, Pairing, Consent, Revocation, Token, Failure, Purge, Commit

LEMMA Bystanders ==
    ASSUME Pairing \/ Consent \/ Revocation \/ Token \/ Failure \/ UNCHANGED vars
    PROVE  job' = job /\ swept' = swept
<1>1. CASE Pairing
  BY <1>1 DEF Pairing, BeginPairing, CompletePairing
<1>2. CASE Consent
  BY <1>2 DEF Consent, InsertPending, CommitPending, FindPending, Activate, Deny, OnlyGrantChanges
<1>3. CASE Revocation
  BY <1>3 DEF Revocation, RevokeGrant, OnlyGrantChanges
<1>4. CASE Token
  BY <1>4 DEF Token, CheckClaims, SignToken, OnlyTokensChange
<1>5. CASE Failure
  BY <1>5 DEF Failure, AdvanceFails
<1>6. CASE UNCHANGED vars
  BY <1>6 DEF vars
<1> QED  BY <1>1, <1>2, <1>3, <1>4, <1>5, <1>6

\* A job that was begun has a scope.
LEMMA BegunJob ==
    ASSUME RowsTyped, NEW j \in Jobs, job[j].status # "none"
    PROVE  /\ job[j] \in JobRow
           /\ job[j].scope \in Scopes /\ job[j].wait \in 0 .. SafeWindow
<1>1. job[j] \in JobRow
  BY DEF RowsTyped, NoJob
<1> QED  BY <1>1 DEF JobRow

\* A row of deletion_jobs with another status, and with another window.
LEMMA JobRows ==
    ASSUME NEW r \in JobRow, NEW st \in {"pending", "revoking", "waiting", "complete"},
           NEW n \in 0 .. SafeWindow
    PROVE  /\ [r EXCEPT !.status = st] \in JobRow
           /\ [r EXCEPT !.status = st].status = st
           /\ [r EXCEPT !.status = st].scope = r.scope
           /\ [r EXCEPT !.status = st].wait = r.wait
           /\ [r EXCEPT !.wait = n] \in JobRow
           /\ [r EXCEPT !.wait = n].status = r.status
           /\ [r EXCEPT !.wait = n].scope = r.scope
           /\ [r EXCEPT !.wait = n].wait = n
<1>1. PICK sc \in Scopes, m \in 0 .. SafeWindow,
           t \in {"pending", "revoking", "waiting", "complete"} :
        r = [status |-> t, scope |-> sc, wait |-> m]
  BY DEF JobRow
<1>2. [r EXCEPT !.status = st] = [status |-> st, scope |-> sc, wait |-> m]
  BY <1>1
<1>3. [r EXCEPT !.wait = n] = [status |-> t, scope |-> sc, wait |-> n]
  BY <1>1
<1>4. /\ [status |-> st, scope |-> sc, wait |-> m] \in JobRow
      /\ [status |-> t, scope |-> sc, wait |-> n] \in JobRow
  BY DEF JobRow
<1> QED  BY <1>1, <1>2, <1>3, <1>4

\* The row of a job after its status was set.
LEMMA SetStatus ==
    ASSUME RowsTyped, NEW j \in Jobs, job[j].status # "none",
           NEW st \in {"pending", "revoking", "waiting", "complete"},
           job' = [job EXCEPT ![j].status = st]
    PROVE  /\ job' \in [Jobs -> JobRow \cup {NoJob}]
           /\ job'[j].status = st /\ job'[j].scope = job[j].scope /\ job'[j].wait = job[j].wait
           /\ \A i \in Jobs \ {j} : job'[i] = job[i]
<1>1. PICK r \in JobRow : r = job[j]
  BY BegunJob
<1>2. PICK n \in 0 .. SafeWindow : TRUE
  BY DeletionConstants
<1>3. job' = [job EXCEPT ![j] = [r EXCEPT !.status = st]]
  BY <1>1
<1>4. job'[j] = [r EXCEPT !.status = st] /\ \A i \in Jobs \ {j} : job'[i] = job[i]
  BY <1>3 DEF RowsTyped
<1>5. /\ [r EXCEPT !.status = st] \in JobRow
      /\ [r EXCEPT !.status = st].status = st
      /\ [r EXCEPT !.status = st].scope = r.scope
      /\ [r EXCEPT !.status = st].wait = r.wait
  BY <1>2, JobRows
<1>6. job' \in [Jobs -> JobRow \cup {NoJob}]
  BY <1>3, <1>5 DEF RowsTyped
<1> QED  BY <1>1, <1>4, <1>5, <1>6

\* What the commit of a first advance makes of its job.
LEMMA RevokedResult ==
    ASSUME RowsTyped, NEW j \in Jobs, job[j].status = "revoking",
           NEW G \in SUBSET Grants, NEW d \in 0 .. SafeWindow, Revoked(j, G, d)
    PROVE  /\ job' \in [Jobs -> JobRow \cup {NoJob}] /\ swept' \in [Jobs -> Found]
           /\ job'[j].status = "waiting" /\ job'[j].scope = job[j].scope
           /\ job'[j].wait = SafeWindow - d
           /\ swept'[j].grants = G /\ swept'[j].sites = swept[j].sites
           /\ \A i \in Jobs \ {j} : job'[i] = job[i] /\ swept'[i] = swept[i]
<1>1. PICK r \in JobRow : r = job[j]
  BY BegunJob
<1>2. PICK n \in 0 .. SafeWindow : n = SafeWindow - d
  BY DeletionConstants
<1>3. PICK w \in JobRow : w = [r EXCEPT !.status = "waiting"]
  BY <1>2, JobRows
<1>4. w.scope = r.scope /\ w.status = "waiting"
  BY <1>2, <1>3, JobRows
<1>5. /\ [w EXCEPT !.wait = n] \in JobRow /\ [w EXCEPT !.wait = n].status = "waiting"
      /\ [w EXCEPT !.wait = n].scope = r.scope /\ [w EXCEPT !.wait = n].wait = n
  BY <1>4, JobRows
<1>6. job' = [job EXCEPT ![j] = [w EXCEPT !.wait = n]]
  BY <1>1, <1>2, <1>3 DEF Revoked, Waiting, RowsTyped
<1>7. PICK f \in Found : f = swept[j]
  BY DEF RowsTyped
<1>8. swept' = [swept EXCEPT ![j] = [grants |-> G, sites |-> f.sites, listed |-> {}]]
  BY <1>7 DEF Revoked, Found, RowsTyped
<1>9. [grants |-> G, sites |-> f.sites, listed |-> {}] \in Found
  BY <1>7 DEF Found
<1>10. job' \in [Jobs -> JobRow \cup {NoJob}] /\ swept' \in [Jobs -> Found]
  BY <1>5, <1>6, <1>8, <1>9 DEF RowsTyped
<1>11. job'[j] = [w EXCEPT !.wait = n] /\ \A i \in Jobs \ {j} : job'[i] = job[i]
  BY <1>6 DEF RowsTyped
<1>12. /\ swept'[j] = [grants |-> G, sites |-> f.sites, listed |-> {}]
       /\ \A i \in Jobs \ {j} : swept'[i] = swept[i]
  BY <1>8 DEF RowsTyped
<1> QED  BY <1>1, <1>2, <1>5, <1>7, <1>10, <1>11, <1>12

\* The grants a commit marks as found.
LEMMA CommitRevokes ==
    ASSUME RowsTyped, NEW j \in Jobs, NEW d \in 0 .. SafeWindow, Commit(j, d)
    PROVE  \E G \in SUBSET Grants :
              /\ Revoked(j, G, d)
              /\ CommitAccount(j, d) => G = swept[j].grants
              /\ CommitSites(j, d) => StrikeSites(j, G) /\ swept[j].grants \subseteq G
                                         /\ G \ swept[j].grants \subseteq Newer(j)
<1>1. swept[j].grants \in SUBSET Grants
  BY DEF RowsTyped, Found
<1>2. CASE CommitAccount(j, d)
  <2>1. job[j].scope.kind = "account" /\ Revoked(j, swept[j].grants, d)
    BY <1>2 DEF CommitAccount
  <2>2. ~CommitSites(j, d)
    BY <2>1 DEF CommitSites, CanAnnounce
  <2> QED  BY <1>1, <2>1, <2>2
<1>3. CASE CommitSites(j, d)
  <2>1. job[j].scope.kind # "account"
    BY <1>3 DEF CommitSites, CanAnnounce
  <2>2. ~CommitAccount(j, d)
    BY <2>1 DEF CommitAccount
  <2>3. PICK more \in SUBSET Newer(j) :
          /\ StrikeSites(j, swept[j].grants \cup more)
          /\ Revoked(j, swept[j].grants \cup more, d)
    BY <1>3 DEF CommitSites
  <2>4. PICK G : G = swept[j].grants \cup more
    OBVIOUS
  <2>5. G \in SUBSET Grants /\ swept[j].grants \subseteq G /\ G \ swept[j].grants \subseteq Newer(j)
    BY <1>1, <2>4 DEF Newer, Covered
  <2> QED  BY <2>2, <2>3, <2>4, <2>5
<1> QED  BY <1>2, <1>3 DEF Commit

-----------------------------------------------------------------------------
\* Every action keeps the types of the rows.
LEMMA RowsStep == RowsTyped /\ [Next]_vars => RowsTyped'
<1> SUFFICES ASSUME RowsTyped, [Next]_vars PROVE RowsTyped'
  OBVIOUS
<1>1. CASE Pairing
  <2>1. PICK s \in Sites : BeginPairing(s) \/ CompletePairing(s)
    BY <1>1 DEF Pairing
  <2> QED  BY <2>1 DEF BeginPairing, CompletePairing, RowsTyped
<1>2. CASE Consent
  <2>1. PICK g \in Grants : InsertPending(g) \/ CommitPending(g) \/ FindPending(g)
                               \/ Activate(g) \/ Deny(g)
    BY <1>2 DEF Consent
  <2> QED  BY <2>1 DEF InsertPending, CommitPending, FindPending, Activate, Deny,
              OnlyGrantChanges, RowsTyped
<1>3. CASE Revocation
  BY <1>3 DEF Revocation, RevokeGrant, OnlyGrantChanges, RowsTyped
<1>4. CASE Token
  BY <1>4, DeletionConstants DEF Token, CheckClaims, SignToken, OnlyTokensChange, RowsTyped
<1>5. CASE Failure \/ UNCHANGED vars
  BY <1>5 DEF Failure, AdvanceFails, vars, RowsTyped
<1>6. CASE Tick
  <2>1. ASSUME NEW j \in Jobs, job[j].status = "waiting"
        PROVE  [job[j] EXCEPT !.wait = Less(@)] \in JobRow
    <3>1. PICK r \in JobRow : r = job[j]
      BY <2>1, BegunJob
    <3>2. PICK n \in 0 .. SafeWindow : n = Less(r.wait)
      BY DeletionConstants DEF JobRow, Less
    <3>3. [r EXCEPT !.wait = n] \in JobRow
      BY <3>2, JobRows
    <3> QED  BY <3>1, <3>2, <3>3
  <2>2. job' \in [Jobs -> JobRow \cup {NoJob}]
    BY <1>6, <2>1 DEF Tick, RowsTyped
  <2>3. \A g \in Grants : Less(tokenLife[g]) \in 0 .. AccessLife
    BY DeletionConstants DEF Less, RowsTyped
  <2>4. tokenLife' \in [Grants -> 0 .. AccessLife]
    BY <1>6, <2>3 DEF Tick
  <2> QED  BY <1>6, <2>2, <2>4 DEF Tick, RowsTyped
<1>7. ASSUME NEW j \in Jobs, NEW sc \in Scopes, Begin(j, sc) PROVE RowsTyped'
  <2>1. [status |-> "pending", scope |-> sc, wait |-> 0] \in JobRow
    BY DeletionConstants DEF JobRow
  <2>2. job' \in [Jobs -> JobRow \cup {NoJob}]
    BY <1>7, <2>1 DEF Begin, RowsTyped
  <2> QED  BY <1>7, <2>2 DEF Begin, RowsTyped
<1>8. ASSUME NEW j \in Jobs, Sweep(j) PROVE RowsTyped'
  <2>1. job' \in [Jobs -> JobRow \cup {NoJob}]
    BY <1>8, SetStatus DEF Sweep
  <2>2. [grants |-> Covered(job[j].scope), sites |-> SitesIn(job[j].scope),
         listed |-> {g \in Covered(job[j].scope) : grant[g] \notin {"denied", "revoked"}}] \in Found
    BY DEF Found, Covered, SitesIn
  <2>3. swept' \in [Jobs -> Found]
    BY <1>8, <2>2 DEF Sweep, RowsTyped
  <2> QED  BY <1>8, <2>1, <2>3 DEF Sweep, RowsTyped
<1>9. ASSUME NEW j \in Jobs, RollBack(j) PROVE RowsTyped'
  <2>1. job' \in [Jobs -> JobRow \cup {NoJob}]
    BY <1>9, SetStatus DEF RollBack
  <2>2. swept' \in [Jobs -> Found]
    BY <1>9 DEF RollBack, RowsTyped, Found, Nothing
  <2> QED  BY <1>9, <2>1, <2>2 DEF RollBack, RowsTyped
<1>10. ASSUME NEW j \in Jobs, Purge(j) PROVE RowsTyped'
  <2>1. job[j].status = "waiting" /\ job' = [job EXCEPT ![j].status = "complete"]
    BY <1>10 DEF Purge, PurgeAccount, PurgeSite, PurgeTenant, Purgeable, Complete
  <2>2. job' \in [Jobs -> JobRow \cup {NoJob}]
    BY <2>1, SetStatus
  <2>3. swept' = swept /\ tokenLife' = tokenLife
    BY <1>10 DEF Purge, PurgeAccount, PurgeSite, PurgeTenant
  <2>4. grant' \in [Grants -> {"absent", "open", "pending", "active", "denied", "revoked", "gone"}]
    BY <1>10 DEF Purge, PurgeAccount, PurgeSite, PurgeTenant, Gone, RowsTyped
  <2>5. /\ account' \in [Accounts -> {"active", "deleted", "gone"}]
        /\ owner' \in [Accounts -> {"active", "revoked", "gone"}]
        /\ site' \in [Sites -> {"absent", "active", "revoked", "gone"}]
    BY <1>10 DEF Purge, PurgeAccount, PurgeSite, PurgeTenant, RowsTyped
  <2> QED  BY <2>2, <2>3, <2>4, <2>5 DEF RowsTyped
<1>11. ASSUME NEW j \in Jobs, NEW d \in 0 .. SafeWindow, Commit(j, d) PROVE RowsTyped'
  <2>1. job[j].status = "revoking"
    BY <1>11 DEF Commit, CommitAccount, CommitSites, CanAnnounce
  <2>2. PICK G \in SUBSET Grants :
               Revoked(j, G, d) /\ (CommitSites(j, d) => StrikeSites(j, G))
    BY <1>11, CommitRevokes
  <2>3. job' \in [Jobs -> JobRow \cup {NoJob}] /\ swept' \in [Jobs -> Found]
    BY <2>1, <2>2, RevokedResult
  <2>4. tokenLife' = tokenLife
    BY <2>2 DEF Revoked
  <2>5. CASE CommitAccount(j, d)
    BY <2>3, <2>4, <2>5 DEF CommitAccount, RowsTyped
  <2>6. CASE CommitSites(j, d)
    BY <2>2, <2>3, <2>4, <2>6 DEF StrikeSites, RowsTyped
  <2> QED  BY <1>11, <2>5, <2>6 DEF Commit
<1> QED  BY <1>1, <1>2, <1>3, <1>4, <1>5, <1>6, <1>7, <1>8, <1>9, <1>10, <1>11, Steps

\* No step brings a row back: what is out of use, revoked or purged stays so.
Forward ==
    /\ \A g \in Grants :
          /\ grant[g] \in EndedStates => grant'[g] \in EndedStates
          /\ grant[g] = "gone" => grant'[g] = "gone"
          /\ grant[g] \notin {"absent", "open"} => grant'[g] \notin {"absent", "open"}
    /\ \A s \in Sites : /\ site[s] = "revoked" => site'[s] \in {"revoked", "gone"}
                        /\ site[s] = "gone" => site'[s] = "gone"
    /\ \A a \in Accounts : account[a] # "active" => account'[a] # "active"

LEMMA StepsForward == RowsTyped /\ [Next]_vars => Forward
<1> SUFFICES ASSUME RowsTyped, [Next]_vars PROVE Forward
  OBVIOUS
<1>1. CASE grant' = grant /\ site' = site /\ account' = account
  BY <1>1 DEF Forward
<1>2. CASE Pairing
  <2>1. PICK s \in Sites : BeginPairing(s) \/ CompletePairing(s)
    BY <1>2 DEF Pairing
  <2> QED  BY <2>1 DEF BeginPairing, CompletePairing, RowsTyped, Forward
<1>3. CASE Consent \/ Revocation
  <2>1. PICK g \in Grants : InsertPending(g) \/ CommitPending(g) \/ FindPending(g)
                               \/ Activate(g) \/ Deny(g) \/ RevokeGrant(g)
    BY <1>3 DEF Consent, Revocation
  <2>2. site' = site /\ account' = account
    BY <2>1 DEF InsertPending, CommitPending, FindPending, Activate, Deny, RevokeGrant,
       OnlyGrantChanges
  <2>3. \A h \in Grants \ {g} : grant'[h] = grant[h]
    BY <2>1 DEF InsertPending, CommitPending, FindPending, Activate, Deny, RevokeGrant, RowsTyped
  <2>4. \/ grant'[g] = grant[g]
        \/ grant[g] \in {"absent", "open"}
        \/ grant[g] \in {"pending", "active"} /\ grant'[g] \in {"active", "denied", "revoked"}
    BY <2>1 DEF InsertPending, CommitPending, FindPending, Activate, Deny, RevokeGrant, RowsTyped
  <2> QED  BY <2>2, <2>3, <2>4 DEF Forward, EndedStates
<1>4. CASE Token \/ Failure \/ Tick \/ UNCHANGED vars
  BY <1>1, <1>4 DEF Token, CheckClaims, SignToken, OnlyTokensChange, Failure, AdvanceFails,
     Tick, vars
<1>5. ASSUME NEW j \in Jobs, (\E sc \in Scopes : Begin(j, sc)) \/ Sweep(j) \/ RollBack(j)
      PROVE  Forward
  BY <1>1, <1>5 DEF Begin, Sweep, RollBack
<1>6. ASSUME NEW j \in Jobs, Purge(j) PROVE Forward
  <2>1. \A g \in Grants : grant'[g] \in {grant[g], "gone"}
    BY <1>6 DEF Purge, PurgeAccount, PurgeSite, PurgeTenant, Gone, RowsTyped
  <2>2. \A s \in Sites : site'[s] \in {site[s], "gone"}
    BY <1>6 DEF Purge, PurgeAccount, PurgeSite, PurgeTenant, RowsTyped
  <2>3. \A a \in Accounts : account'[a] \in {account[a], "gone"}
    BY <1>6 DEF Purge, PurgeAccount, PurgeSite, PurgeTenant, RowsTyped
  <2> QED  BY <2>1, <2>2, <2>3 DEF Forward, EndedStates
<1>7. ASSUME NEW j \in Jobs, NEW d \in 0 .. SafeWindow, Commit(j, d) PROVE Forward
  <2>1. CASE CommitAccount(j, d)
    <3>1. \A g \in Grants : \/ grant'[g] = grant[g]
                            \/ grant[g] # "gone" /\ grant'[g] = "revoked"
      BY <2>1 DEF CommitAccount
    <3>2. site' = site /\ \A a \in Accounts : account'[a] \in {account[a], "deleted"}
      BY <2>1 DEF CommitAccount, RowsTyped
    <3> QED  BY <3>1, <3>2 DEF Forward, EndedStates
  <2>2. CASE CommitSites(j, d)
    <3>1. PICK G \in SUBSET Grants : StrikeSites(j, G)
      BY <2>2, CommitRevokes DEF Commit
    <3>2. \A g \in Grants : \/ grant'[g] = grant[g]
                            \/ grant[g] \in {"pending", "active"} /\ grant'[g] = "revoked"
      BY <3>1 DEF StrikeSites
    <3>3. \A s \in Sites : \/ site'[s] = site[s]
                           \/ site[s] # "gone" /\ site'[s] = "revoked"
      BY <3>1 DEF StrikeSites
    <3>4. account' = account
      BY <3>1 DEF StrikeSites
    <3> QED  BY <3>2, <3>3, <3>4 DEF Forward, EndedStates
  <2> QED  BY <1>7, <2>1, <2>2 DEF Commit
<1> QED  BY <1>2, <1>3, <1>4, <1>5, <1>6, <1>7, Steps

\* What a step may do to one job.
LEMMA JobSteps ==
    ASSUME RowsTyped, [Next]_vars, NEW i \in Jobs
    PROVE  \/ job'[i] = job[i] /\ swept'[i] = swept[i]
           \/ job'[i].status = "pending"
           \/ Sweep(i)
           \/ \E d \in 0 .. SafeWindow : Commit(i, d)
           \/ Purge(i)
           \/ Tick /\ job[i].status = "waiting"
<1> DEFINE Goal == \/ job'[i] = job[i] /\ swept'[i] = swept[i]
                   \/ job'[i].status = "pending"
                   \/ Sweep(i)
                   \/ \E d \in 0 .. SafeWindow : Commit(i, d)
                   \/ Purge(i)
                   \/ Tick /\ job[i].status = "waiting"
<1>1. CASE Pairing \/ Consent \/ Revocation \/ Token \/ Failure \/ UNCHANGED vars
  BY <1>1, Bystanders
<1>2. CASE Tick
  BY <1>2 DEF Tick
<1>3. ASSUME NEW j \in Jobs, NEW sc \in Scopes, Begin(j, sc) PROVE Goal
  <2>1. CASE i = j
    <3>1. job'[i] = [status |-> "pending", scope |-> sc, wait |-> 0]
      BY <1>3, <2>1 DEF Begin, RowsTyped
    <3> QED  BY <3>1
  <2>2. CASE i # j
    BY <1>3, <2>2 DEF Begin, RowsTyped
  <2> QED  BY <2>1, <2>2
<1>4. ASSUME NEW j \in Jobs, Sweep(j) \/ RollBack(j) PROVE Goal
  <2>1. CASE i = j
    <3>1. Sweep(i) \/ RollBack(i)
      BY <1>4, <2>1
    <3>2. RollBack(i) => job'[i].status = "pending"
      BY SetStatus DEF RollBack
    <3> QED  BY <3>1, <3>2
  <2>2. CASE i # j
    BY <1>4, <2>2 DEF Sweep, RollBack, RowsTyped
  <2> QED  BY <2>1, <2>2
<1>5. ASSUME NEW j \in Jobs, Purge(j) PROVE Goal
  <2>1. job' = Complete(j) /\ swept' = swept
    BY <1>5 DEF Purge, PurgeAccount, PurgeSite, PurgeTenant
  <2>2. i # j => job'[i] = job[i] /\ swept'[i] = swept[i]
    BY <2>1 DEF Complete, RowsTyped
  <2> QED  BY <1>5, <2>2
<1>6. ASSUME NEW j \in Jobs, NEW d \in 0 .. SafeWindow, Commit(j, d) PROVE Goal
  <2>1. job[j].status = "revoking"
    BY <1>6 DEF Commit, CommitAccount, CommitSites, CanAnnounce
  <2>2. PICK G \in SUBSET Grants : Revoked(j, G, d)
    BY <1>6, CommitRevokes
  <2>3. i # j => job'[i] = job[i] /\ swept'[i] = swept[i]
    BY <2>1, <2>2, RevokedResult
  <2> QED  BY <1>6, <2>3
<1> QED  BY <1>1, <1>2, <1>3, <1>4, <1>5, <1>6, Steps

\* The same, by the status that the job has after the step.
LEMMA RevokingAfter ==
    ASSUME RowsTyped, [Next]_vars, NEW i \in Jobs, job'[i].status = "revoking"
    PROVE  \/ job'[i] = job[i] /\ swept'[i] = swept[i]
           \/ Sweep(i)
<1>1. ASSUME NEW d \in 0 .. SafeWindow, Commit(i, d) PROVE FALSE
  <2>1. job[i].status = "revoking"
    BY <1>1 DEF Commit, CommitAccount, CommitSites, CanAnnounce
  <2>2. PICK G \in SUBSET Grants : Revoked(i, G, d)
    BY <1>1, CommitRevokes
  <2> QED  BY <2>1, <2>2, RevokedResult
<1>2. ~Purge(i)
  BY SetStatus DEF Purge, PurgeAccount, PurgeSite, PurgeTenant, Purgeable, Complete
<1>3. CASE Tick /\ job[i].status = "waiting"
  <2>1. PICK r \in JobRow : r = job[i]
    BY <1>3, BegunJob
  <2>2. job'[i] = [r EXCEPT !.wait = Less(@)] /\ r.status = "waiting"
    BY <1>3, <2>1 DEF Tick
  <2>3. job'[i].status = "waiting"
    BY <2>2 DEF JobRow
  <2> QED  BY <2>3
<1> QED  BY <1>1, <1>2, <1>3, JobSteps

LEMMA WaitingAfter ==
    ASSUME RowsTyped, [Next]_vars, NEW i \in Jobs, job'[i].status = "waiting"
    PROVE  \/ job'[i] = job[i] /\ swept'[i] = swept[i]
           \/ \E d \in 0 .. SafeWindow : Commit(i, d)
           \/ /\ Tick /\ swept' = swept /\ job[i].status = "waiting"
              /\ job'[i].scope = job[i].scope /\ job'[i].wait = Less(job[i].wait)
<1>1. ~Sweep(i)
  BY SetStatus DEF Sweep
<1>2. ~Purge(i)
  BY SetStatus DEF Purge, PurgeAccount, PurgeSite, PurgeTenant, Purgeable, Complete
<1>3. CASE Tick /\ job[i].status = "waiting"
  <2>1. PICK r \in JobRow : r = job[i]
    BY <1>3, BegunJob
  <2>2. job'[i] = [r EXCEPT !.wait = Less(@)]
    BY <1>3, <2>1 DEF Tick
  <2>3. job'[i].scope = r.scope /\ job'[i].wait = Less(r.wait)
    BY <2>2 DEF JobRow
  <2> QED  BY <1>3, <2>1, <2>3 DEF Tick
<1> QED  BY <1>1, <1>2, <1>3, JobSteps

LEMMA CompleteAfter ==
    ASSUME RowsTyped, [Next]_vars, NEW i \in Jobs, job'[i].status = "complete"
    PROVE  \/ job'[i] = job[i] /\ swept'[i] = swept[i]
           \/ /\ Purge(i) /\ swept' = swept
              /\ job[i].status = "waiting" /\ job[i].wait = 0 /\ job'[i].scope = job[i].scope
<1>1. ~Sweep(i)
  BY SetStatus DEF Sweep
<1>2. ASSUME NEW d \in 0 .. SafeWindow, Commit(i, d) PROVE FALSE
  <2>1. job[i].status = "revoking"
    BY <1>2 DEF Commit, CommitAccount, CommitSites, CanAnnounce
  <2>2. PICK G \in SUBSET Grants : Revoked(i, G, d)
    BY <1>2, CommitRevokes
  <2> QED  BY <2>1, <2>2, RevokedResult
<1>3. CASE Purge(i)
  <2>1. /\ job[i].status = "waiting" /\ job[i].wait = 0 /\ swept' = swept
        /\ job' = [job EXCEPT ![i].status = "complete"]
    BY <1>3 DEF Purge, PurgeAccount, PurgeSite, PurgeTenant, Purgeable, Complete
  <2> QED  BY <1>3, <2>1, SetStatus
<1>4. ~(Tick /\ job[i].status = "waiting")
  <2> SUFFICES ASSUME Tick, job[i].status = "waiting" PROVE FALSE
    OBVIOUS
  <2>1. PICK r \in JobRow : r = job[i]
    BY BegunJob
  <2>2. job'[i] = [r EXCEPT !.wait = Less(@)] /\ r.status = "waiting"
    BY <2>1 DEF Tick
  <2>3. job'[i].status = "waiting"
    BY <2>2 DEF JobRow
  <2> QED  BY <2>3
<1> QED  BY <1>1, <1>2, <1>3, <1>4, JobSteps

\* A job that has committed had done so before, unless this step is its commit.
LEMMA CommittedAfter ==
    ASSUME RowsTyped, [Next]_vars, NEW i \in Jobs, Committed(i)'
    PROVE  \/ Committed(i) /\ swept'[i] = swept[i] /\ job'[i].scope = job[i].scope
           \/ \E d \in 0 .. SafeWindow : Commit(i, d)
<1>1. job'[i].status \in {"waiting", "complete"}
  BY DEF Committed
<1> QED  BY <1>1, WaitingAfter, CompleteAfter DEF Committed

-----------------------------------------------------------------------------
(* The parts of the invariant, one lemma each *)

LEMMA SweptStep ==
    ASSUME DeletionInv, [Next]_vars
    PROVE  SweptInv'
<1> USE DEF DeletionInv
<1>1. Forward
  BY StepsForward
<1>2. ASSUME NEW i \in Jobs, Committed(i)'
      PROVE  /\ \A g \in swept'[i].grants : grant'[g] \in EndedStates
             /\ \A s \in swept'[i].sites : site'[s] \in {"revoked", "gone"}
  <2>1. swept \in [Jobs -> Found] /\ swept' \in [Jobs -> Found]
    BY RowsStep DEF RowsTyped
  <2>2. CASE Committed(i) /\ swept'[i] = swept[i]
    BY <1>1, <2>1, <2>2 DEF SweptInv, Forward, Found
  <2>3. ASSUME NEW d \in 0 .. SafeWindow, CommitAccount(i, d)
        PROVE  /\ \A g \in swept'[i].grants : grant'[g] \in EndedStates
               /\ swept'[i].sites = {}
    <3>1. job[i].status = "revoking" /\ job[i].scope.kind = "account"
      BY <2>3 DEF CommitAccount
    <3>2. swept'[i].grants = swept[i].grants /\ swept'[i].sites = swept[i].sites
      BY <2>3, <3>1, CommitRevokes, RevokedResult DEF Commit
    <3>3. \A g \in swept[i].grants : grant'[g] \in EndedStates
      BY <2>1, <2>3, <3>1 DEF CommitAccount, SweepingInv, EndedStates, Found
    <3> QED  BY <3>1, <3>2, <3>3 DEF SweepingInv
  <2>4. ASSUME NEW d \in 0 .. SafeWindow, CommitSites(i, d)
        PROVE  /\ \A g \in swept'[i].grants : grant'[g] \in EndedStates
               /\ \A s \in swept'[i].sites : site'[s] \in {"revoked", "gone"}
    <3>1. job[i].status = "revoking"
      BY <2>4 DEF CommitSites, CanAnnounce
    <3>2. PICK G \in SUBSET Grants :
                 Revoked(i, G, d) /\ StrikeSites(i, G) /\ G \ swept[i].grants \subseteq Newer(i)
      BY <2>4, CommitRevokes DEF Commit
    <3>3. swept'[i].grants = G /\ swept'[i].sites = swept[i].sites
      BY <3>1, <3>2, RevokedResult
    <3>4. \A g \in G : grant[g] \notin {"absent", "open"}
      BY <3>1, <3>2 DEF SweepingInv, Newer, Covered
    <3>5. \A g \in G : grant'[g] \in EndedStates
      BY <3>2, <3>4 DEF StrikeSites, EndedStates, RowsTyped
    <3>6. \A s \in swept[i].sites : site'[s] \in {"revoked", "gone"}
      BY <2>1, <3>2 DEF StrikeSites, Found
    <3> QED  BY <3>3, <3>5, <3>6
  <2> QED  BY <1>2, <2>2, <2>3, <2>4, CommittedAfter DEF Commit
<1> QED  BY <1>2 DEF SweptInv, Committed

LEMMA SweepingStep ==
    ASSUME DeletionInv, [Next]_vars
    PROVE  SweepingInv'
<1> USE DEF DeletionInv
<1>1. Forward
  BY StepsForward
<1>2. ASSUME NEW i \in Jobs, job'[i].status = "revoking"
      PROVE  /\ swept'[i].listed \subseteq swept'[i].grants
             /\ job'[i].scope.kind = "account" => swept'[i].sites = {}
             /\ \A g \in swept'[i].grants :
                   /\ grant'[g] \notin {"absent", "open"}
                   /\ g \in swept'[i].listed \/ grant'[g] \in EndedStates
                   /\ job'[i].scope.kind # "account" => SiteOf[g] \in swept'[i].sites
  <2>1. CASE job'[i] = job[i] /\ swept'[i] = swept[i]
    <3>1. swept[i].grants \subseteq Grants
      BY DEF RowsTyped, Found
    <3> QED  BY <1>1, <1>2, <2>1, <3>1 DEF SweepingInv, Forward
  <2>2. CASE Sweep(i)
    <3>1. PICK sc \in Scopes : sc = job[i].scope
      BY <2>2, BegunJob DEF Sweep
    <3>2. job'[i].scope = sc /\ grant' = grant
      BY <2>2, <3>1, SetStatus DEF Sweep
    <3>3. /\ swept'[i].grants = Covered(sc) /\ swept'[i].sites = SitesIn(sc)
          /\ swept'[i].listed = {g \in Covered(sc) : grant[g] \notin {"denied", "revoked"}}
      BY <2>2, <3>1 DEF Sweep, RowsTyped
    <3>4. sc.kind = "account" => SitesIn(sc) = {}
      BY DEF SitesIn
    <3>5. ASSUME NEW g \in Covered(sc)
          PROVE  /\ grant[g] \notin {"absent", "open"}
                 /\ sc.kind # "account" => SiteOf[g] \in SitesIn(sc)
      <4>1. g \in Grants /\ grant[g] \notin {"absent", "open", "gone"}
        BY DEF Covered
      <4>2. SiteOf[g] \in Sites /\ site[SiteOf[g]] \notin {"absent", "gone"}
        BY <4>1, DeletionConstants DEF SitePresentInv
      <4>3. sc.kind = "site" => SiteOf[g] = sc.id
        BY DEF Covered
      <4> QED  BY <4>1, <4>2, <4>3 DEF SitesIn
    <3>6. \A g \in Covered(sc) : g \in swept'[i].listed \/ grant[g] \in EndedStates
      BY <3>3 DEF EndedStates
    <3> QED  BY <3>2, <3>3, <3>4, <3>5, <3>6
  <2> QED  BY <1>2, <2>1, <2>2, RevokingAfter
<1> QED  BY <1>2 DEF SweepingInv

\* Only a signature makes a token's life longer.
LEMMA TokensFrame ==
    ASSUME RowsTyped, [Next]_vars
    PROVE  /\ late \subseteq late'
           /\ \A g \in Grants : tokenLife'[g] <= tokenLife[g] \/ g \in late' \/ GrantEscaped(g)
<1> DEFINE Goal == /\ late \subseteq late'
                   /\ \A g \in Grants : \/ tokenLife'[g] <= tokenLife[g]
                                        \/ g \in late' \/ GrantEscaped(g)
<1>0. \A g \in Grants : tokenLife[g] \in Nat
  BY DeletionConstants DEF RowsTyped
<1>1. CASE tokenLife' = tokenLife /\ late \subseteq late'
  BY <1>0, <1>1
<1>2. CASE Pairing \/ Consent \/ Revocation \/ Failure \/ UNCHANGED vars
  BY <1>1, <1>2 DEF Pairing, BeginPairing, CompletePairing, Consent, InsertPending, CommitPending,
     FindPending, Activate, Deny, Revocation, RevokeGrant, OnlyGrantChanges, Failure, AdvanceFails,
     vars
<1>3. CASE Token
  <2>1. PICK g \in Grants : CheckClaims(g) \/ SignToken(g)
    BY <1>3 DEF Token
  <2>2. CASE CheckClaims(g)
    BY <1>1, <2>2 DEF CheckClaims
  <2>3. CASE SignToken(g)
    <3>1. \A h \in Grants \ {g} : tokenLife'[h] = tokenLife[h]
      BY <2>3 DEF SignToken, RowsTyped
    <3>2. late \subseteq late' /\ (g \in late' \/ GrantEscaped(g))
      BY <2>3 DEF SignToken
    <3> QED  BY <1>0, <3>1, <3>2
  <2> QED  BY <2>1, <2>2, <2>3
<1>4. CASE Tick
  BY <1>0, <1>4 DEF Tick, Less
<1>5. ASSUME NEW j \in Jobs,
             (\E sc \in Scopes : Begin(j, sc)) \/ Sweep(j) \/ RollBack(j) \/ Purge(j)
      PROVE  Goal
  BY <1>1, <1>5 DEF Begin, Sweep, RollBack, Purge, PurgeAccount, PurgeSite, PurgeTenant
<1>6. ASSUME NEW j \in Jobs, NEW d \in 0 .. SafeWindow, Commit(j, d) PROVE Goal
  <2>1. PICK G \in SUBSET Grants : Revoked(j, G, d)
    BY <1>6, CommitRevokes
  <2> QED  BY <1>1, <2>1 DEF Revoked
<1> QED  BY <1>2, <1>3, <1>4, <1>5, <1>6, Steps

LEMMA QuietStep ==
    ASSUME DeletionInv, [Next]_vars
    PROVE  QuietInv'
<1> USE DEF DeletionInv
<1>0. \A g \in Grants : tokenLife[g] \in 0 .. AccessLife /\ tokenLife'[g] \in 0 .. AccessLife
  BY RowsStep DEF RowsTyped
<1>1. ASSUME NEW i \in Jobs, job'[i].status = "waiting", NEW g \in swept'[i].grants
      PROVE  g \in late' \/ tokenLife'[g] <= job'[i].wait
  <2>0. g \in Grants
    BY RowsStep DEF RowsTyped, Found
  <2>1. ASSUME job'[i] = job[i], swept'[i] = swept[i]
        PROVE  g \in late' \/ tokenLife'[g] <= job'[i].wait
    <3>1. job[i].status = "waiting" /\ g \in swept[i].grants
      BY <1>1, <2>1
    <3>2. ~GrantEscaped(g) /\ job[i].wait \in 0 .. SafeWindow
      BY <3>1, BegunJob DEF GrantEscaped, Committed
    <3>3. g \in late \/ tokenLife[g] <= job[i].wait
      BY <3>1 DEF QuietInv
    <3> QED  BY <1>0, <2>0, <2>1, <3>2, <3>3, TokensFrame, DeletionConstants
  <2>2. ASSUME NEW d \in 0 .. SafeWindow, Commit(i, d)
        PROVE  g \in late' \/ tokenLife'[g] <= job'[i].wait
    <3>1. job[i].status = "revoking"
      BY <2>2 DEF Commit, CommitAccount, CommitSites, CanAnnounce
    <3>2. PICK G \in SUBSET Grants : Revoked(i, G, d)
      BY <2>2, CommitRevokes
    <3>3. job'[i].wait = SafeWindow - d /\ g \in G
      BY <1>1, <3>1, <3>2, RevokedResult
    <3>4. /\ tokenLife' = tokenLife
          /\ late' = late \cup {h \in G : tokenLife[h] > 0 /\ tokenLife[h] + d > AccessLife}
      BY <3>2 DEF Revoked
    <3>5. CASE tokenLife[g] > 0 /\ tokenLife[g] + d > AccessLife
      BY <3>3, <3>4, <3>5
    <3>6. CASE tokenLife[g] = 0 \/ tokenLife[g] + d <= AccessLife
      BY <1>0, <2>0, <3>3, <3>4, <3>6, DeletionConstants
    <3> QED  BY <1>0, <2>0, <3>5, <3>6, DeletionConstants
  <2>3. ASSUME Tick, swept' = swept, job[i].status = "waiting",
               job'[i].wait = Less(job[i].wait)
        PROVE  g \in late' \/ tokenLife'[g] <= job'[i].wait
    <3>1. g \in late \/ tokenLife[g] <= job[i].wait
      BY <1>1, <2>3 DEF QuietInv
    <3>2. tokenLife'[g] = Less(tokenLife[g]) /\ late' = late
      BY <2>0, <2>3 DEF Tick
    <3>3. job[i].wait \in 0 .. SafeWindow
      BY <2>3, BegunJob
    <3> QED  BY <1>0, <2>0, <2>3, <3>1, <3>2, <3>3, DeletionConstants DEF Less
  <2> QED  BY <1>1, <2>1, <2>2, <2>3, WaitingAfter
<1> QED  BY <1>1 DEF QuietInv

LEMMA TokensStep ==
    ASSUME DeletionInv, [Next]_vars
    PROVE  TokensDeadBeforePurge'
<1> USE DEF DeletionInv
<1>0. \A g \in Grants : tokenLife[g] \in Nat /\ tokenLife'[g] \in Nat
  BY RowsStep, DeletionConstants DEF RowsTyped
<1>1. ASSUME NEW i \in Jobs, job'[i].status = "complete", NEW g \in swept'[i].grants
      PROVE  tokenLife'[g] = 0 \/ g \in late'
  <2>0. g \in Grants
    BY RowsStep DEF RowsTyped, Found
  <2>1. CASE job'[i] = job[i] /\ swept'[i] = swept[i]
    <3>1. tokenLife[g] = 0 \/ g \in late
      BY <1>1, <2>1 DEF TokensDeadBeforePurge
    <3>2. ~GrantEscaped(g)
      BY <1>1, <2>1 DEF GrantEscaped, Committed
    <3> QED  BY <1>0, <2>0, <3>1, <3>2, TokensFrame
  <2>2. CASE Purge(i) /\ swept' = swept /\ job[i].status = "waiting" /\ job[i].wait = 0
    <3>1. tokenLife' = tokenLife /\ late' = late
      BY <2>2 DEF Purge, PurgeAccount, PurgeSite, PurgeTenant
    <3>2. g \in late \/ tokenLife[g] <= 0
      BY <1>1, <2>2 DEF QuietInv
    <3> QED  BY <1>0, <2>0, <3>1, <3>2
  <2> QED  BY <1>1, <2>1, <2>2, CompleteAfter
<1> QED  BY <1>1 DEF TokensDeadBeforePurge

LEMMA AccountStep ==
    ASSUME DeletionInv, [Next]_vars
    PROVE  AccountInv'
<1> USE DEF DeletionInv
<1>1. Forward
  BY StepsForward
<1>2. ASSUME NEW i \in Jobs, Committed(i)', job'[i].scope.kind = "account"
      PROVE  account'[job'[i].scope.id] # "active"
  <2>1. CASE Committed(i) /\ job'[i].scope = job[i].scope
    <3>1. PICK sc \in Scopes : sc = job[i].scope
      BY <2>1, BegunJob DEF Committed
    <3>2. sc.kind = "account" => sc.id \in Accounts
      BY DEF Scopes
    <3> QED  BY <1>1, <1>2, <2>1, <3>1, <3>2 DEF Forward, AccountInv
  <2>2. ASSUME NEW d \in 0 .. SafeWindow, Commit(i, d)
        PROVE  account'[job'[i].scope.id] # "active"
    <3>1. job[i].status = "revoking"
      BY <2>2 DEF Commit, CommitAccount, CommitSites, CanAnnounce
    <3>2. job'[i].scope = job[i].scope
      BY <2>2, <3>1, CommitRevokes, RevokedResult
    <3>3. CommitAccount(i, d)
      BY <1>2, <2>2, <3>2 DEF Commit, CommitSites, CanAnnounce
    <3>4. PICK sc \in Scopes : sc = job[i].scope
      BY <3>1, BegunJob
    <3>5. sc.id \in Accounts
      BY <1>2, <3>2, <3>4 DEF Scopes
    <3>6. account' = [account EXCEPT ![sc.id] = IF @ = "gone" THEN @ ELSE "deleted"]
      BY <3>3, <3>4 DEF CommitAccount
    <3>7. account'[sc.id] # "active"
      BY <3>5, <3>6 DEF RowsTyped
    <3> QED  BY <3>2, <3>4, <3>7
  <2> QED  BY <1>2, <2>1, <2>2, CommittedAfter
<1> QED  BY <1>2 DEF AccountInv, Committed

LEMMA PublishedGrows == [Next]_vars => published \subseteq published'
<1> SUFFICES ASSUME [Next]_vars PROVE published \subseteq published'
  OBVIOUS
<1>1. CASE published' = published
  BY <1>1
<1>2. CASE Pairing \/ Consent \/ Token \/ Failure \/ Tick \/ UNCHANGED vars
  BY <1>1, <1>2 DEF Pairing, BeginPairing, CompletePairing, Consent, InsertPending, CommitPending,
     FindPending, Activate, Deny, Token, CheckClaims, SignToken, OnlyTokensChange, Failure,
     AdvanceFails, Tick, vars
<1>3. CASE Revocation
  BY <1>3 DEF Revocation, RevokeGrant, Publish
<1>4. ASSUME NEW j \in Jobs,
             (\E sc \in Scopes : Begin(j, sc)) \/ Sweep(j) \/ RollBack(j) \/ Purge(j)
      PROVE  published \subseteq published'
  BY <1>1, <1>4 DEF Begin, Sweep, RollBack, Purge, PurgeAccount, PurgeSite, PurgeTenant
<1>5. ASSUME NEW j \in Jobs, NEW d \in 0 .. SafeWindow, Commit(j, d)
      PROVE  published \subseteq published'
  BY <1>5 DEF Commit, CommitAccount, CommitSites, Publish
<1> QED  BY <1>2, <1>3, <1>4, <1>5, Steps

\* Every step that revokes a grant sends its site an event that covers it.
LEMMA RevokesAloud ==
    ASSUME DeletionInv, [Next]_vars, NEW g \in Grants,
           grant[g] # "revoked", grant'[g] = "revoked"
    PROVE  \E e \in published' : e.site = SiteOf[g] /\ e.target \in {g, SiteOf[g]}
<1> USE DEF DeletionInv
<1> DEFINE Goal == \E e \in published' : e.site = SiteOf[g] /\ e.target \in {g, SiteOf[g]}
<1>1. grant' # grant
  OBVIOUS
<1>2. ASSUME Pairing \/ Token \/ Failure \/ Tick \/ UNCHANGED vars PROVE FALSE
  BY <1>1, <1>2 DEF Pairing, BeginPairing, CompletePairing, Token, CheckClaims, SignToken,
     OnlyTokensChange, Failure, AdvanceFails, Tick, vars
<1>3. ASSUME Consent PROVE FALSE
  <2>1. PICK h \in Grants : InsertPending(h) \/ CommitPending(h) \/ FindPending(h)
                               \/ Activate(h) \/ Deny(h)
    BY <1>3 DEF Consent
  <2> QED  BY <2>1 DEF InsertPending, CommitPending, FindPending, Activate, Deny, RowsTyped
<1>4. CASE Revocation
  <2>1. PICK h \in Grants : RevokeGrant(h)
    BY <1>4 DEF Revocation
  <2>2. h = g
    BY <2>1 DEF RevokeGrant, RowsTyped
  <2>3. PICK E : E = GrantEvents({g})
    OBVIOUS
  <2>4. published' = published \cup E
    BY <2>1, <2>2, <2>3 DEF RevokeGrant, Publish
  <2>5. \E e \in E : e.site = SiteOf[g] /\ e.target = g
    BY <2>3, GrantsAnnounced
  <2> QED  BY <2>4, <2>5
<1>5. ASSUME NEW j \in Jobs,
             (\E sc \in Scopes : Begin(j, sc)) \/ Sweep(j) \/ RollBack(j) \/ Purge(j)
      PROVE  FALSE
  BY <1>1, <1>5 DEF Begin, Sweep, RollBack, Purge, PurgeAccount, PurgeSite, PurgeTenant, Gone
<1>6. ASSUME NEW j \in Jobs, NEW d \in 0 .. SafeWindow, CommitAccount(j, d) PROVE Goal
  <2>1. job[j].status = "revoking" /\ g \in swept[j].listed /\ grant[g] # "gone"
    BY <1>6 DEF CommitAccount
  <2>2. grant[g] # "absent" /\ swept[j].listed \subseteq Grants
    BY <2>1 DEF SweepingInv, RowsTyped, Found
  <2>3. site[SiteOf[g]] # "gone"
    BY <2>1, <2>2 DEF SitePresentInv
  <2>4. PICK R \in SUBSET Grants : R = {h \in swept[j].listed : site[SiteOf[h]] # "gone"}
    BY <2>2
  <2>5. PICK E : E = GrantEvents(R)
    OBVIOUS
  <2>6. published' = published \cup E
    BY <1>6, <2>4, <2>5 DEF CommitAccount, Publish
  <2>7. g \in R
    BY <2>1, <2>3, <2>4
  <2>8. \E e \in E : e.site = SiteOf[g] /\ e.target = g
    BY <2>5, <2>7, GrantsAnnounced
  <2> QED  BY <2>6, <2>8
<1>7. ASSUME NEW j \in Jobs, NEW d \in 0 .. SafeWindow, CommitSites(j, d) PROVE Goal
  <2>1. job[j].status = "revoking" /\ job[j].scope.kind # "account"
    BY <1>7 DEF CommitSites, CanAnnounce
  <2>2. PICK G \in SUBSET Grants : StrikeSites(j, G) /\ G \ swept[j].grants \subseteq Newer(j)
    BY <1>7, CommitRevokes DEF Commit
  <2>3. g \in G
    BY <2>2 DEF StrikeSites
  <2>4. PICK S \in SUBSET Sites : S = swept[j].sites
    BY DEF RowsTyped, Found
  <2>5. SiteOf[g] \in S
    BY <2>1, <2>2, <2>3, <2>4 DEF SweepingInv, Newer
  <2>6. PICK E : E = SiteEvents(S)
    OBVIOUS
  <2>7. published' = published \cup E
    BY <1>7, <2>4, <2>6 DEF CommitSites, Publish
  <2>8. \E e \in E : e.site = SiteOf[g] /\ e.target = SiteOf[g]
    BY <2>5, <2>6, SitesAnnounced
  <2> QED  BY <2>7, <2>8
<1> QED  BY <1>2, <1>3, <1>4, <1>5, <1>6, <1>7, Steps DEF Commit

LEMMA RevokedStep ==
    ASSUME DeletionInv, [Next]_vars
    PROVE  RevokedInv'
<1> SUFFICES ASSUME NEW g \in Grants, grant'[g] = "revoked"
             PROVE  \E e \in published' : e.site = SiteOf[g] /\ e.target \in {g, SiteOf[g]}
  BY DEF RevokedInv, Announced
<1>1. CASE grant[g] = "revoked"
  BY <1>1, PublishedGrows DEF DeletionInv, RevokedInv, Announced
<1>2. CASE grant[g] # "revoked"
  BY <1>2, RevokesAloud
<1> QED  BY <1>1, <1>2

\* A grant is inserted at an active site, and the purge of a site waits for open
\* inserts and takes all other grants of the site.
LEMMA SitePresentStep ==
    ASSUME DeletionInv, [Next]_vars
    PROVE  SitePresentInv'
<1> USE DEF DeletionInv
<1> DEFINE Goal == \A g \in Grants : grant'[g] \notin {"absent", "gone"} =>
                                         site'[SiteOf[g]] \notin {"absent", "gone"}
<1>0. \A g \in Grants : SiteOf[g] \in Sites
  BY DeletionConstants
<1>1. CASE grant' = grant /\ site' = site
  BY <1>1 DEF SitePresentInv
<1>2. CASE Pairing
  <2>1. PICK s \in Sites : BeginPairing(s) \/ CompletePairing(s)
    BY <1>2 DEF Pairing
  <2>2. grant' = grant /\ \A t \in Sites : site'[t] = site[t] \/ site'[t] = "active"
    BY <2>1 DEF BeginPairing, CompletePairing, RowsTyped
  <2> QED  BY <1>0, <2>2 DEF SitePresentInv
<1>3. CASE Consent \/ Revocation
  <2>1. PICK g \in Grants : InsertPending(g) \/ CommitPending(g) \/ FindPending(g)
                               \/ Activate(g) \/ Deny(g) \/ RevokeGrant(g)
    BY <1>3 DEF Consent, Revocation
  <2>2. site' = site /\ \A h \in Grants \ {g} : grant'[h] = grant[h]
    BY <2>1 DEF InsertPending, CommitPending, FindPending, Activate, Deny, RevokeGrant,
       OnlyGrantChanges, RowsTyped
  <2>3. \/ grant'[g] = grant[g]
        \/ site[SiteOf[g]] = "active"
        \/ grant[g] \in {"open", "pending", "active"}
    BY <2>1 DEF InsertPending, CommitPending, FindPending, Activate, Deny, RevokeGrant
  <2> QED  BY <2>2, <2>3 DEF SitePresentInv
<1>4. CASE Token \/ Failure \/ Tick \/ UNCHANGED vars
  BY <1>1, <1>4 DEF Token, CheckClaims, SignToken, OnlyTokensChange, Failure, AdvanceFails,
     Tick, vars
<1>5. ASSUME NEW j \in Jobs, (\E sc \in Scopes : Begin(j, sc)) \/ Sweep(j) \/ RollBack(j)
      PROVE  Goal
  BY <1>1, <1>5 DEF Begin, Sweep, RollBack, SitePresentInv
<1>6. ASSUME NEW j \in Jobs, PurgeAccount(j) PROVE Goal
  <2>1. site' = site /\ \A g \in Grants : grant'[g] \in {grant[g], "gone"}
    BY <1>6 DEF PurgeAccount, Gone
  <2> QED  BY <2>1 DEF SitePresentInv
<1>7. ASSUME NEW j \in Jobs, PurgeSite(j) PROVE Goal
  <2>1. PICK sc \in Scopes : sc = job[j].scope
    BY <1>7, BegunJob DEF PurgeSite, Purgeable
  <2>2. sc.kind = "site" /\ ~Held({sc.id})
    BY <1>7, <2>1 DEF PurgeSite
  <2>3. \A g \in Grants : grant'[g] = IF g \in Covered(sc) THEN "gone" ELSE grant[g]
    BY <1>7, <2>1 DEF PurgeSite, Gone
  <2>4. \A s \in Sites \ {sc.id} : site'[s] = site[s]
    BY <1>7, <2>1 DEF PurgeSite, RowsTyped
  <2>5. \A g \in Grants : SiteOf[g] = sc.id => grant'[g] \in {"absent", "gone"}
    BY <2>2, <2>3 DEF Covered, Held
  <2> QED  BY <1>0, <2>3, <2>4, <2>5 DEF SitePresentInv
<1>8. ASSUME NEW j \in Jobs, PurgeTenant(j) PROVE Goal
  <2>1. job[j].scope.kind = "tenant" /\ ~Held(Sites)
    BY <1>8 DEF PurgeTenant
  <2>2. \A g \in Grants : grant'[g] = IF g \in Covered(job[j].scope) THEN "gone" ELSE grant[g]
    BY <1>8 DEF PurgeTenant, Gone
  <2>3. \A g \in Grants : grant'[g] \in {"absent", "gone"}
    BY <1>0, <2>1, <2>2 DEF Covered, Held
  <2> QED  BY <2>3
<1>9. ASSUME NEW j \in Jobs, NEW d \in 0 .. SafeWindow, CommitAccount(j, d) PROVE Goal
  <2>1. site' = site
    BY <1>9 DEF CommitAccount
  <2>2. job[j].status = "revoking"
    BY <1>9 DEF CommitAccount
  <2>3. \A g \in swept[j].listed : grant[g] # "absent"
    BY <2>2 DEF SweepingInv
  <2>4. \A g \in Grants : \/ grant'[g] = grant[g]
                          \/ grant[g] \notin {"absent", "gone"}
    BY <1>9, <2>3 DEF CommitAccount
  <2> QED  BY <2>1, <2>4 DEF SitePresentInv
<1>10. ASSUME NEW j \in Jobs, NEW d \in 0 .. SafeWindow, CommitSites(j, d) PROVE Goal
  <2>1. PICK G \in SUBSET Grants : StrikeSites(j, G)
    BY <1>10, CommitRevokes DEF Commit
  <2>2. \A g \in Grants : \/ grant'[g] = grant[g]
                          \/ grant[g] \in {"pending", "active"}
    BY <2>1 DEF StrikeSites
  <2>3. \A s \in Sites : site'[s] = site[s] \/ site'[s] = "revoked"
    BY <2>1 DEF StrikeSites
  <2> QED  BY <1>0, <2>2, <2>3 DEF SitePresentInv
<1> QED  BY <1>2, <1>3, <1>4, <1>5, <1>6, <1>7, <1>8, <1>9, <1>10, Steps
         DEF SitePresentInv, Purge, Commit

-----------------------------------------------------------------------------
\* The inductive invariant of the deletion life cycle: what a first advance is about
\* to revoke is within reach of its writes, what it has revoked stays out of use,
\* was announced and has only tokens that die within the window or were signed late.
THEOREM LifecycleInvariant == Spec => []DeletionInv
<1>1. DeletionInv /\ [Next]_vars => DeletionInv'
  BY RowsStep, SweptStep, SweepingStep, QuietStep, TokensStep, RevokedStep, SitePresentStep,
     AccountStep DEF DeletionInv
<1> QED  BY DeletionInit, <1>1, PTL DEF Spec

\* When the rows are purged, the only access tokens of the grants found that a
\* connector still accepts are those signed after the clock reading of the deletion.
THEOREM TokensDeadCorrect == Spec => []TokensDeadBeforePurge
<1>1. DeletionInv => TokensDeadBeforePurge
  BY DEF DeletionInv
<1> QED  BY <1>1, LifecycleInvariant, PTL

\* A grant that disappears was announced to its site, unless no first advance had
\* found it.
THEOREM PurgedWasAnnouncedCorrect == Spec => PurgedWasAnnounced
<1>1. DeletionInv /\ [Next]_vars
         => [\A g \in Grants :
                grant[g] \in {"pending", "active", "revoked"} /\ grant'[g] = "gone"
                    => Announced(g) \/ GrantEscaped(g)]_vars
  BY DEF DeletionInv, SweptInv, RevokedInv, GrantEscaped, EndedStates
<1> QED  BY <1>1, LifecycleInvariant, PTL DEF Spec, PurgedWasAnnounced

\* No row comes back, no row that a first advance has found is purged while in use,
\* and no account is purged before it was deleted.
THEOREM MonotonicCorrect == Spec => DeletionIsMonotonic
<1> DEFINE A == /\ \A g \in Grants :
                      /\ grant[g] \in {"denied", "revoked"} =>
                             grant'[g] \in {"denied", "revoked", "gone"}
                      /\ grant[g] = "gone" => grant'[g] = "gone"
                      /\ grant[g] \in {"pending", "active"} /\ grant'[g] = "gone"
                             => GrantEscaped(g)
                /\ \A s \in Sites :
                      /\ site[s] = "revoked" => site'[s] \in {"revoked", "gone"}
                      /\ site[s] = "gone" => site'[s] = "gone"
                      /\ site[s] = "active" /\ site'[s] = "gone" => SiteEscaped(s)
                /\ \A a \in Accounts : /\ account[a] = "deleted" => account'[a] # "active"
                                       /\ account[a] = "active" => account'[a] # "gone"
<1>1. ASSUME DeletionInv, [Next]_vars PROVE A
  <2> USE DEF DeletionInv
  <2>1. Forward
    BY <1>1, StepsForward
  <2>2. ASSUME NEW g \in Grants, grant[g] \in {"pending", "active"} PROVE GrantEscaped(g)
    BY <1>1, <2>2 DEF SweptInv, GrantEscaped, EndedStates
  <2>3. ASSUME NEW s \in Sites, site[s] = "active" PROVE SiteEscaped(s)
    BY <1>1, <2>3 DEF SweptInv, SiteEscaped
  <2>4. ASSUME NEW a \in Accounts, account[a] = "active", account'[a] = "gone" PROVE FALSE
    <3>1. account' # account
      BY <2>4
    <3>2. ~(Pairing \/ Consent \/ Revocation \/ Token \/ Failure \/ Tick \/ UNCHANGED vars)
      BY <3>1 DEF Pairing, BeginPairing, CompletePairing, Consent, InsertPending, CommitPending,
         FindPending, Activate, Deny, Revocation, RevokeGrant, OnlyGrantChanges, Token,
         CheckClaims, SignToken, OnlyTokensChange, Failure, AdvanceFails, Tick, vars
    <3>3. \A j \in Jobs : ~((\E sc \in Scopes : Begin(j, sc)) \/ Sweep(j) \/ RollBack(j))
      BY <3>1 DEF Begin, Sweep, RollBack
    <3>4. ASSUME NEW j \in Jobs, NEW d \in 0 .. SafeWindow, Commit(j, d) PROVE FALSE
      BY <1>1, <2>4, <3>4 DEF Commit, CommitAccount, CommitSites, StrikeSites, RowsTyped
    <3>5. ASSUME NEW j \in Jobs, Purge(j) PROVE FALSE
      <4>1. PurgeAccount(j)
        BY <3>1, <3>5 DEF Purge, PurgeSite, PurgeTenant
      <4>2. PICK sc \in Scopes : sc = job[j].scope
        BY <1>1, <4>1, BegunJob DEF PurgeAccount, Purgeable
      <4>3. sc.kind = "account" /\ account' = [account EXCEPT ![sc.id] = "gone"] /\ Committed(j)
        BY <4>1, <4>2 DEF PurgeAccount, Purgeable, Committed
      <4>4. sc.id = a
        BY <1>1, <2>4, <4>3 DEF RowsTyped
      <4> QED  BY <1>1, <2>4, <4>2, <4>3, <4>4 DEF AccountInv
    <3> QED  BY <1>1, <3>2, <3>3, <3>4, <3>5, Steps
  <2>5. \A g \in Grants : /\ grant[g] \in {"denied", "revoked"} =>
                                grant'[g] \in {"denied", "revoked", "gone"}
                          /\ grant[g] = "gone" => grant'[g] = "gone"
    BY <2>1 DEF Forward, EndedStates
  <2> QED  BY <2>1, <2>2, <2>3, <2>4, <2>5 DEF Forward
<1>2. DeletionInv /\ [Next]_vars => [A]_vars
  BY <1>1
<1> QED  BY <1>2, LifecycleInvariant, PTL DEF Spec, DeletionIsMonotonic

-----------------------------------------------------------------------------
(* The numbers of the events.  MAX + 1 is a number because a site has       *)
(* finitely many events at a time, and the loop over the grants of an       *)
(* account is finite.                                                       *)

\* A finite set of numbers has a greatest one: a smallest finite set without one
\* would, with one element less, have one.
LEMMA FiniteTop ==
    ASSUME NEW S \in SUBSET Nat, IsFiniteSet(S), S # {}
    PROVE  \E m \in S : \A n \in S : n <= m
<1> DEFINE Top(U) == \E m \in U : \A n \in U : n <= m
           Bad == {U \in FiniteSubsetsOf(S) : U # {} /\ ~Top(U)}
<1>1. S \in FiniteSubsetsOf(S)
  BY DEF FiniteSubsetsOf
<1>2. ASSUME Bad # {} PROVE FALSE
  <2>1. Bad \subseteq FiniteSubsetsOf(S)
    OBVIOUS
  <2>2. IsWellFoundedOn(StrictSubsetOrdering(S), FiniteSubsetsOf(S))
    BY FS_StrictSubsetOrderingWellFounded
  <2>3. PICK U \in Bad : \A V \in Bad : ~(<<V, U>> \in StrictSubsetOrdering(S))
    <3> HIDE DEF Bad
    <3> QED  BY <1>2, <2>1, <2>2, WFMin
  <2>4. PICK x \in U : TRUE
    OBVIOUS
  <2> DEFINE V == U \ {x}
  <2>5. U \in SUBSET S /\ IsFiniteSet(U) /\ V \in SUBSET U
    BY DEF FiniteSubsetsOf
  <2>6. V \in FiniteSubsetsOf(S)
    BY <2>5, FS_Subset DEF FiniteSubsetsOf
  <2>7. <<V, U>> \in StrictSubsetOrdering(S)
    BY <2>4, <2>5 DEF StrictSubsetOrdering
  <2>8. V = {} \/ Top(V)
    BY <2>3, <2>6, <2>7
  <2>9. x \in Nat /\ \A n \in U : n \in Nat
    BY <2>4, <2>5
  <2>10. CASE V = {}
    <3>1. \A n \in U : n <= x
      BY <2>9, <2>10
    <3> QED  BY <2>4, <3>1
  <2>11. ASSUME NEW m \in V, \A n \in V : n <= m PROVE FALSE
    <3>1. CASE m <= x
      <4>1. \A n \in U : n <= x
        BY <2>9, <2>11, <3>1
      <4> QED  BY <2>4, <4>1
    <3>2. CASE ~(m <= x)
      <4>1. \A n \in U : n <= m
        BY <2>9, <2>11, <3>2
      <4> QED  BY <2>11, <4>1
    <3> QED  BY <3>1, <3>2
  <2> QED  BY <2>8, <2>10, <2>11
<1> QED  BY <1>1, <1>2

\* What COALESCE(MAX(event_sequence), 0) returns.
LEMMA MaxValue ==
    ASSUME NEW S \in SUBSET Nat, IsFiniteSet(S), S # {}
    PROVE  Max(S) \in S /\ \A n \in S : n <= Max(S)
<1>1. PICK m \in S : \A n \in S : n <= m
  BY FiniteTop
<1>2. \A n \in S : m >= n
  BY <1>1
<1>3. Max(S) \in S /\ \A n \in S : Max(S) >= n
  BY <1>2 DEF Max
<1> QED  BY <1>3

\* The number that an event of a grant gets in the loop over R depends on its
\* place among the grants of R with the same site.
Before(R, g) == {h \in R : SiteOf[h] = SiteOf[g] /\ h <= g}

LEMMA Places ==
    ASSUME NEW R \in SUBSET Grants, IsFiniteSet(R)
    PROVE  /\ Cardinality(R) \in Nat
           /\ \A g \in R : Cardinality(Before(R, g)) \in 1 .. Cardinality(R)
           /\ \A g, h \in R : /\ SiteOf[g] = SiteOf[h]
                              /\ Cardinality(Before(R, g)) = Cardinality(Before(R, h))
                              => g = h
<1>0. \A g \in R : g \in Nat
  BY DeletionConstants
<1>1. Cardinality(R) \in Nat
  BY FS_CardinalityType
<1>2. ASSUME NEW g \in R PROVE Cardinality(Before(R, g)) \in 1 .. Cardinality(R)
  <2>1. Before(R, g) \in SUBSET R /\ g \in Before(R, g)
    BY <1>0 DEF Before
  <2>2. IsFiniteSet(Before(R, g)) /\ Cardinality(Before(R, g)) <= Cardinality(R)
    BY <2>1, FS_Subset
  <2>3. Cardinality(Before(R, g)) \in Nat /\ Cardinality(Before(R, g)) # 0
    BY <2>1, <2>2, FS_CardinalityType, FS_EmptySet
  <2> QED  BY <1>1, <2>2, <2>3
<1>3. ASSUME NEW g \in R, NEW h \in R, SiteOf[g] = SiteOf[h], g <= h,
             Cardinality(Before(R, g)) = Cardinality(Before(R, h))
      PROVE  g = h
  <2>1. Before(R, g) \in SUBSET Before(R, h) /\ Before(R, h) \in SUBSET R
    BY <1>0, <1>3 DEF Before
  <2>2. IsFiniteSet(Before(R, h))
    BY <2>1, FS_Subset
  <2>3. Before(R, g) = Before(R, h)
    BY <1>3, <2>1, <2>2, FS_Subset
  <2>4. h \in Before(R, g)
    BY <1>0, <2>3 DEF Before
  <2> QED  BY <1>0, <1>3, <2>4 DEF Before
<1> QED  BY <1>0, <1>1, <1>2, <1>3

-----------------------------------------------------------------------------
\* UNIQUE (tenant_id, site_id, event_sequence), kept without ever being violated.
OutboxNumbersUnique == \A e, f \in outbox : e.site = f.site /\ e.seq = f.seq => e = f

OutboxInv ==
    /\ outbox \subseteq published /\ published \subseteq Event
    /\ \A s \in Sites : \E b \in Nat : \A e \in outbox : e.site = s => e.seq <= b
    /\ OutboxNumbersUnique

\* Only finitely many grants exist at a time, whatever Grants is.
FewGrants == IsFiniteSet({g \in Grants : grant[g] # "absent"})

OtherRowsTyped ==
    /\ tenant \in {"active", "deleted", "gone"}
    /\ found \subseteq Grants /\ checked \subseteq Grants /\ late \subseteq Grants
    /\ artifacts \subseteq Grants
    /\ pairings \subseteq Sites
    /\ tombstones \in [Jobs -> SUBSET Grants]
    /\ errors \subseteq Jobs

NumbersInv == RowsTyped /\ OtherRowsTyped /\ FewGrants /\ OutboxInv

\* MAX is a number, and no event in the outbox has a greater one.
LEMMA MaxSequenceValue ==
    ASSUME OutboxInv, NEW s \in Sites
    PROVE  /\ MaxSequence(s) \in Nat
           /\ \A e \in outbox : e.site = s => e.seq <= MaxSequence(s)
<1> DEFINE S == {e.seq : e \in {f \in outbox : f.site = s}} \cup {0}
<1>1. S \in SUBSET Nat
  BY DEF OutboxInv, Event
<1>2. PICK b \in Nat : \A e \in outbox : e.site = s => e.seq <= b
  BY DEF OutboxInv
<1>3. \A n \in S : n <= b
  BY <1>2
<1>4. \A e \in outbox : e.site = s => e.seq \in S
  OBVIOUS
<1>5. MaxSequence(s) = Max(S) /\ S # {}
  BY DEF MaxSequence
<1> HIDE DEF S
<1>6. IsFiniteSet(S)
  BY <1>1, <1>3, FS_BoundedSetOfNaturals
<1> QED  BY <1>1, <1>4, <1>5, <1>6, MaxValue

\* Events that continue the numbers of their sites, each with one of its own.
Continues(E) ==
    /\ E \subseteq Event
    /\ \A e \in E : e.seq > MaxSequence(e.site)
    /\ \E n \in Nat : \A e \in E : e.seq <= MaxSequence(e.site) + n
    /\ \A e, f \in E : e.site = f.site /\ e.seq = f.seq => e = f

LEMMA PublishStep ==
    ASSUME OutboxInv, NEW E, Continues(E), outbox' = outbox \cup E,
           published' = published \cup E
    PROVE  OutboxInv'
<1>1. outbox' \subseteq published' /\ published' \subseteq Event
  BY DEF OutboxInv, Continues
<1>2. PICK n \in Nat : \A e \in E : e.seq <= MaxSequence(e.site) + n
  BY DEF Continues
<1>3. ASSUME NEW s \in Sites
      PROVE  \E b \in Nat : \A e \in outbox' : e.site = s => e.seq <= b
  <2>1. PICK m \in Nat : m = MaxSequence(s)
    BY MaxSequenceValue
  <2>2. \A e \in outbox : e.site = s => e.seq <= m /\ e.seq \in Nat
    BY <2>1, MaxSequenceValue DEF OutboxInv, Event
  <2>3. \A e \in outbox \cup E : e.site = s => e.seq <= m + n
    BY <1>2, <2>1, <2>2
  <2> QED  BY <2>3
<1>4. \A e \in outbox, f \in E : e.site = f.site => e.seq # f.seq
  <2> SUFFICES ASSUME NEW e \in outbox, NEW f \in E, e.site = f.site, e.seq = f.seq
               PROVE  FALSE
    OBVIOUS
  <2>1. f.site \in Sites /\ e.seq \in Nat
    BY DEF Continues, OutboxInv, Event
  <2>2. e.seq <= MaxSequence(f.site) /\ MaxSequence(f.site) \in Nat
    BY <2>1, MaxSequenceValue
  <2> QED  BY <2>1, <2>2 DEF Continues
<1>5. OutboxNumbersUnique'
  BY <1>4 DEF OutboxInv, OutboxNumbersUnique, Continues
<1> QED  BY <1>1, <1>3, <1>5 DEF OutboxInv

\* The loop over the grants of an account continues the numbers.
LEMMA GrantEventsContinue ==
    ASSUME OutboxInv, NEW R \in SUBSET Grants, IsFiniteSet(R)
    PROVE  Continues(GrantEvents(R))
<1> DEFINE Of(g) == [site |-> SiteOf[g], type |-> "grant", target |-> g,
                     seq |-> MaxSequence(SiteOf[g]) + Cardinality(Before(R, g))]
<1>1. GrantEvents(R) = {Of(g) : g \in R}
  BY Zenon DEF GrantEvents, Before
<1>2. ASSUME NEW g \in R
      PROVE  /\ SiteOf[g] \in Sites /\ MaxSequence(SiteOf[g]) \in Nat
             /\ Cardinality(Before(R, g)) \in 1 .. Cardinality(R)
  BY MaxSequenceValue, Places, DeletionConstants
<1>3. /\ \A g \in R : /\ Of(g) \in Event
                      /\ Of(g).seq > MaxSequence(Of(g).site)
                      /\ Of(g).seq <= MaxSequence(Of(g).site) + Cardinality(R)
      /\ Cardinality(R) \in Nat
  <2>1. Cardinality(R) \in Nat
    BY FS_CardinalityType
  <2>2. ASSUME NEW g \in R
        PROVE  /\ Of(g) \in Event
               /\ Of(g).seq > MaxSequence(Of(g).site)
               /\ Of(g).seq <= MaxSequence(Of(g).site) + Cardinality(R)
    <3>1. PICK m \in Nat, c \in 1 .. Cardinality(R) :
            m = MaxSequence(SiteOf[g]) /\ c = Cardinality(Before(R, g))
      BY <1>2
    <3>2. Of(g) = [site |-> SiteOf[g], type |-> "grant", target |-> g, seq |-> m + c]
      BY <3>1
    <3>3. Of(g).seq = m + c /\ Of(g).site = SiteOf[g]
      BY <3>2
    <3>4. m + c \in Nat \ {0} /\ m + c > m /\ m + c <= m + Cardinality(R)
      BY <2>1
    <3>5. Of(g) \in Event
      BY <1>2, <3>2, <3>4 DEF Event
    <3> QED  BY <3>1, <3>3, <3>4, <3>5
  <2> QED  BY <2>1, <2>2
<1>4. \A g, h \in R : Of(g).site = Of(h).site /\ Of(g).seq = Of(h).seq => g = h
  <2> SUFFICES ASSUME NEW g \in R, NEW h \in R, Of(g).site = Of(h).site, Of(g).seq = Of(h).seq
               PROVE  g = h
    OBVIOUS
  <2>1. SiteOf[g] = SiteOf[h]
    OBVIOUS
  <2>2. MaxSequence(SiteOf[g]) + Cardinality(Before(R, g))
           = MaxSequence(SiteOf[g]) + Cardinality(Before(R, h))
    BY <2>1
  <2>3. Cardinality(Before(R, g)) = Cardinality(Before(R, h))
    BY <1>2, <2>2
  <2> QED  BY <2>1, <2>3, Places
<1> HIDE DEF Of
<1> QED  BY <1>1, <1>3, <1>4 DEF Continues

\* So does the one event per site of a site or tenant deletion.
LEMMA SiteEventsContinue ==
    ASSUME OutboxInv, NEW S \in SUBSET Sites
    PROVE  Continues(SiteEvents(S))
<1> DEFINE Of(s) == [site |-> s, type |-> "site", target |-> s, seq |-> MaxSequence(s) + 1]
<1>1. SiteEvents(S) = {Of(s) : s \in S}
  BY Zenon DEF SiteEvents
<1>2. ASSUME NEW s \in S
      PROVE  /\ Of(s) \in Event /\ Of(s).site = s
             /\ Of(s).seq > MaxSequence(s) /\ Of(s).seq <= MaxSequence(s) + 1
  <2>1. PICK m \in Nat : m = MaxSequence(s)
    BY MaxSequenceValue
  <2>2. Of(s) = [site |-> s, type |-> "site", target |-> s, seq |-> m + 1]
    BY <2>1
  <2>3. Of(s) \in Event /\ Of(s).site = s /\ Of(s).seq = m + 1
    BY <2>2 DEF Event
  <2> QED  BY <2>1, <2>3
<1> HIDE DEF Of
<1>3. \A e \in {Of(s) : s \in S} :
         /\ e \in Event /\ e.seq > MaxSequence(e.site) /\ e.seq <= MaxSequence(e.site) + 1
  BY <1>2
<1>4. \A e, f \in {Of(s) : s \in S} : e.site = f.site => e = f
  BY <1>2
<1>5. 1 \in Nat
  OBVIOUS
<1> QED  BY <1>1, <1>3, <1>4, <1>5 DEF Continues

\* A purge only takes events away.
LEMMA PurgeStep ==
    ASSUME OutboxInv, outbox' \subseteq outbox, published' = published
    PROVE  OutboxInv'
<1>1. \A s \in Sites : \E b \in Nat : \A e \in outbox' : e.site = s => e.seq <= b
  BY DEF OutboxInv
<1> QED  BY <1>1 DEF OutboxInv, OutboxNumbersUnique

LEMMA NumbersInit == Init => NumbersInv
<1> SUFFICES ASSUME Init PROVE NumbersInv
  OBVIOUS
<1>1. RowsTyped
  BY DeletionInit DEF DeletionInv
<1>2. {g \in Grants : grant[g] # "absent"} = {}
  BY DEF Init
<1>3. FewGrants
  BY <1>2, FS_EmptySet DEF FewGrants
<1>4. OutboxInv
  BY DEF Init, OutboxInv, OutboxNumbersUnique
<1>5. OtherRowsTyped
  BY DeletionConstants DEF Init, OtherRowsTyped
<1> QED  BY <1>1, <1>3, <1>4, <1>5 DEF NumbersInv

\* Only a consent inserts a grant, one at a time.
LEMMA FewStep == NumbersInv /\ DeletionInv /\ [Next]_vars => FewGrants'
<1> SUFFICES ASSUME NumbersInv, DeletionInv, [Next]_vars PROVE FewGrants'
  OBVIOUS
<1> DEFINE P == {g \in Grants : grant[g] # "absent"}
<1> USE DEF NumbersInv
<1>1. IsFiniteSet(P)
  BY DEF FewGrants
<1>2. ASSUME NEW h \in Grants, P' \subseteq P \cup {h} PROVE FewGrants'
  <2>1. IsFiniteSet(P \cup {h})
    BY <1>1, FS_AddElement
  <2>2. P' \in SUBSET (P \cup {h})
    BY <1>2
  <2>3. IsFiniteSet(P')
    <3> HIDE DEF P
    <3> QED  BY <2>1, <2>2, FS_Subset
  <2> QED  BY <2>3 DEF FewGrants
<1>3. ASSUME \A g \in Grants : grant[g] = "absent" => grant'[g] = "absent" PROVE FewGrants'
  <2>1. P' \in SUBSET P
    BY <1>3
  <2>2. IsFiniteSet(P')
    <3> HIDE DEF P
    <3> QED  BY <1>1, <2>1, FS_Subset
  <2> QED  BY <2>2 DEF FewGrants
<1>4. CASE grant' = grant
  BY <1>3, <1>4
<1>5. CASE Pairing \/ Token \/ Failure \/ Tick \/ UNCHANGED vars
  BY <1>4, <1>5 DEF Pairing, BeginPairing, CompletePairing, Token, CheckClaims, SignToken,
     OnlyTokensChange, Failure, AdvanceFails, Tick, vars
<1>6. CASE Consent \/ Revocation
  <2>1. PICK h \in Grants : InsertPending(h) \/ CommitPending(h) \/ FindPending(h)
                               \/ Activate(h) \/ Deny(h) \/ RevokeGrant(h)
    BY <1>6 DEF Consent, Revocation
  <2>2. P' \subseteq P \cup {h}
    BY <2>1 DEF InsertPending, CommitPending, FindPending, Activate, Deny, RevokeGrant, RowsTyped
  <2> QED  BY <1>2, <2>2
<1>7. ASSUME NEW j \in Jobs, (\E sc \in Scopes : Begin(j, sc)) \/ Sweep(j) \/ RollBack(j)
      PROVE  FewGrants'
  BY <1>4, <1>7 DEF Begin, Sweep, RollBack
<1>8. ASSUME NEW j \in Jobs, Purge(j)
      PROVE  \A g \in Grants : grant[g] = "absent" => grant'[g] = "absent"
  BY <1>8 DEF Purge, PurgeAccount, PurgeSite, PurgeTenant, Gone, Covered
<1>9. ASSUME NEW j \in Jobs, NEW d \in 0 .. SafeWindow, Commit(j, d)
      PROVE  \A g \in Grants : grant[g] = "absent" => grant'[g] = "absent"
  <2>1. CASE CommitAccount(j, d)
    BY <2>1 DEF CommitAccount, DeletionInv, SweepingInv
  <2>2. CASE CommitSites(j, d)
    BY <2>2 DEF CommitSites, StrikeSites
  <2> QED  BY <1>9, <2>1, <2>2 DEF Commit
<1> QED  BY <1>3, <1>5, <1>6, <1>7, <1>8, <1>9, Steps

LEMMA OutboxStep == NumbersInv /\ DeletionInv /\ [Next]_vars => OutboxInv'
<1> SUFFICES ASSUME NumbersInv, DeletionInv, [Next]_vars PROVE OutboxInv'
  OBVIOUS
<1> USE DEF NumbersInv
<1>1. CASE UNCHANGED <<outbox, published>>
  BY <1>1, PurgeStep
<1>2. ASSUME NEW R \in SUBSET {g \in Grants : grant[g] # "absent"}, Publish(GrantEvents(R))
      PROVE  OutboxInv'
  <2>1. IsFiniteSet(R) /\ R \in SUBSET Grants
    BY FS_Subset DEF FewGrants
  <2>2. PICK E : E = GrantEvents(R)
    OBVIOUS
  <2>3. Continues(E) /\ outbox' = outbox \cup E /\ published' = published \cup E
    BY <1>2, <2>1, <2>2, GrantEventsContinue DEF Publish
  <2> QED  BY <2>3, PublishStep
<1>3. ASSUME NEW S \in SUBSET Sites, Publish(SiteEvents(S)) PROVE OutboxInv'
  <2>1. PICK E : E = SiteEvents(S)
    OBVIOUS
  <2>2. Continues(E) /\ outbox' = outbox \cup E /\ published' = published \cup E
    BY <1>3, <2>1, SiteEventsContinue DEF Publish
  <2> QED  BY <2>2, PublishStep
<1>4. CASE Revocation
  <2>1. PICK g \in Grants : RevokeGrant(g)
    BY <1>4 DEF Revocation
  <2>2. {g} \in SUBSET {h \in Grants : grant[h] # "absent"} /\ Publish(GrantEvents({g}))
    BY <2>1 DEF RevokeGrant
  <2> QED  BY <1>2, <2>2
<1>5. ASSUME NEW j \in Jobs, NEW d \in 0 .. SafeWindow, CommitAccount(j, d) PROVE OutboxInv'
  <2>1. PICK R : R = {g \in swept[j].listed : site[SiteOf[g]] # "gone"}
    OBVIOUS
  <2>2. Publish(GrantEvents(R))
    BY <1>5, <2>1 DEF CommitAccount
  <2>3. R \in SUBSET {h \in Grants : grant[h] # "absent"}
    BY <1>5, <2>1 DEF CommitAccount, DeletionInv, SweepingInv, RowsTyped, Found
  <2> QED  BY <1>2, <2>2, <2>3
<1>6. ASSUME NEW j \in Jobs, NEW d \in 0 .. SafeWindow, CommitSites(j, d) PROVE OutboxInv'
  <2>1. PICK S : S = swept[j].sites
    OBVIOUS
  <2>2. S \in SUBSET Sites /\ Publish(SiteEvents(S))
    BY <1>6, <2>1 DEF CommitSites, RowsTyped, Found
  <2> QED  BY <1>3, <2>2
<1>7. ASSUME NEW j \in Jobs, Purge(j) PROVE OutboxInv'
  BY <1>7, PurgeStep DEF Purge, PurgeAccount, PurgeSite, PurgeTenant
<1>8. CASE Pairing \/ Consent \/ Token \/ Failure \/ Tick \/ UNCHANGED vars
  BY <1>1, <1>8 DEF Pairing, BeginPairing, CompletePairing, Consent, InsertPending, CommitPending,
     FindPending, Activate, Deny, Token, CheckClaims, SignToken, OnlyTokensChange, Failure,
     AdvanceFails, Tick, vars
<1>9. ASSUME NEW j \in Jobs, (\E sc \in Scopes : Begin(j, sc)) \/ Sweep(j) \/ RollBack(j)
      PROVE  OutboxInv'
  BY <1>1, <1>9 DEF Begin, Sweep, RollBack
<1> QED  BY <1>4, <1>5, <1>6, <1>7, <1>8, <1>9, Steps DEF Commit

LEMMA OtherRowsStep == NumbersInv /\ [Next]_vars => OtherRowsTyped'
<1> SUFFICES ASSUME NumbersInv, [Next]_vars PROVE OtherRowsTyped'
  OBVIOUS
<1> USE DEF NumbersInv, OtherRowsTyped
<1>1. CASE Pairing
  BY <1>1 DEF Pairing, BeginPairing, CompletePairing
<1>2. CASE Consent \/ Revocation
  BY <1>2 DEF Consent, InsertPending, CommitPending, FindPending, Activate, Deny, Revocation,
     RevokeGrant, OnlyGrantChanges
<1>3. CASE Token
  BY <1>3 DEF Token, CheckClaims, SignToken, OnlyTokensChange
<1>4. CASE Failure \/ Tick \/ UNCHANGED vars
  BY <1>4 DEF Failure, AdvanceFails, Tick, vars
<1>5. ASSUME NEW j \in Jobs, NEW sc \in Scopes, Begin(j, sc) PROVE OtherRowsTyped'
  BY <1>5 DEF Begin, Covered
<1>6. ASSUME NEW j \in Jobs, Sweep(j) \/ RollBack(j) PROVE OtherRowsTyped'
  BY <1>6 DEF Sweep, RollBack
<1>7. ASSUME NEW j \in Jobs, Purge(j) PROVE OtherRowsTyped'
  BY <1>7 DEF Purge, PurgeAccount, PurgeSite, PurgeTenant
<1>8. ASSUME NEW j \in Jobs, NEW d \in 0 .. SafeWindow, Commit(j, d) PROVE OtherRowsTyped'
  <2>1. PICK G \in SUBSET Grants : Revoked(j, G, d)
    BY <1>8, CommitRevokes
  <2>2. tenant' \in {"active", "deleted", "gone"}
    BY <1>8 DEF Commit, CommitAccount, CommitSites, StrikeSites
  <2> QED  BY <2>1, <2>2 DEF Revoked
<1> QED  BY <1>1, <1>2, <1>3, <1>4, <1>5, <1>6, <1>7, <1>8, Steps

\* The inductive invariant about the events of the outbox and their numbers.
THEOREM NumbersInvariant == Spec => []NumbersInv
<1>1. NumbersInv /\ DeletionInv /\ [Next]_vars => NumbersInv'
  BY RowsStep, OtherRowsStep, FewStep, OutboxStep DEF NumbersInv
<1> QED  BY NumbersInit, LifecycleInvariant, <1>1, PTL DEF Spec

\* Every row and every event is of its type: MAX(event_sequence) + 1 is a positive
\* number also after a purge has taken events out of the middle.
THEOREM LifecycleTypeCorrect == Spec => []TypeOK
<1>1. NumbersInv => TypeOK
  BY DEF NumbersInv, RowsTyped, OtherRowsTyped, OutboxInv, TypeOK
<1> QED  BY <1>1, NumbersInvariant, PTL

\* The loop of advance_deletion_job never runs into the UNIQUE constraint of the
\* outbox, whatever was revoked, announced and purged before: the numbers of the
\* events of a site that are still there are distinct.
THEOREM OutboxNumbersCorrect == Spec => []OutboxNumbersUnique
<1>1. NumbersInv => OutboxNumbersUnique
  BY DEF NumbersInv, OutboxInv
<1> QED  BY <1>1, NumbersInvariant, PTL
=============================================================================
