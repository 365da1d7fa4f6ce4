------------------------- MODULE DeletionLifecycle -------------------------
(***************************************************************************)
(* Deletion of an account, a site or a whole tenant: begin_deletion_job    *)
(* records what is to go, a first advance_deletion_job revokes and         *)
(* announces it, a later one, after a safety window, purges the rows.      *)
(* Meanwhile sites are paired, consents given and answered, tokens checked *)
(* and signed, grants revoked, and other jobs cover the same rows.         *)
(*                                                                         *)
(* One tenant.  A call is one transaction; those whose effect depends on   *)
(* when they read and when they commit take two steps.  Time is the number *)
(* of ticks a token or a safety window has left.                           *)
(***************************************************************************)
EXTENDS Integers, FiniteSets, FiniteSetsExt

CONSTANTS
    Accounts, Sites,
    Grants,       \* grant ids, positive numbers: the order in which loops visit them
    SubjectOf,    \* the account of a grant
    SiteOf,       \* the site of a grant
    Initiator,    \* the account that pairs a site
    Jobs,
    AccessLife,   \* ticks an access token is accepted (5 minutes and 60 s of skew)
    SafeWindow    \* ticks between the revocation's clock reading and the purge (6 minutes)

ASSUME DeletionConstants ==
    /\ Grants \subseteq Nat \ {0}
    /\ SubjectOf \in [Grants -> Accounts] /\ SiteOf \in [Grants -> Sites]
    /\ Initiator \in [Sites -> Accounts]
    /\ AccessLife \in Nat \ {0} /\ SafeWindow \in Nat \ {0}
    /\ AccessLife <= SafeWindow

VARIABLES
    account,    \* accounts.status
    owner,      \* tenant_memberships: every account is an owner of the tenant
    tenant,     \* tenants.status
    site,       \* sites.status
    grant,      \* grants.status; "open" is an insert that has not committed
    found,      \* grants whose completion has read the row as pending
    checked,    \* grants for which a token request has passed the claims check
    tokenLife,  \* ticks until the last access token of a grant expires
    artifacts,  \* grants that have rows in secret_artifacts or provider_artifacts
    outbox,     \* oauth.revocation_outbox
    published,  \* every event ever committed to the outbox (history)
    pairings,   \* the sites that have a row in pairing_attempts
    job,        \* deletion_jobs; "revoking" is a first advance that has not committed
    tombstones, \* the grants in a job's deletion_tombstones
    swept,      \* the rows that the first advance of a job has found
    late,       \* grants with a token signed after the clock reading of the deletion
                \* that revoked them (history)
    errors      \* jobs of which a call of advance has raised an error (history)

vars == <<account, owner, tenant, site, grant, found, checked, tokenLife, artifacts, outbox,
          published, pairings, job, tombstones, swept, late, errors>>

Scopes == [kind: {"account"}, id: Accounts] \cup [kind: {"site"}, id: Sites]
              \cup {[kind |-> "tenant", id |-> "tenant"]}

Event == [site: Sites, seq: Nat \ {0}, type: {"grant", "site"}, target: Grants \cup Sites]

NoJob == [status |-> "none"]
JobRow == [status: {"pending", "revoking", "waiting", "complete"}, scope: Scopes,
           wait: 0 .. SafeWindow]

\* listed: the grants over which the loop of an account deletion runs.
Found == [grants: SUBSET Grants, sites: SUBSET Sites, listed: SUBSET Grants]
Nothing == [grants |-> {}, sites |-> {}, listed |-> {}]

TypeOK ==
    /\ account \in [Accounts -> {"active", "deleted", "gone"}]
    /\ owner \in [Accounts -> {"active", "revoked", "gone"}]
    /\ tenant \in {"active", "deleted", "gone"}
    /\ site \in [Sites -> {"absent", "active", "revoked", "gone"}]
    /\ grant \in [Grants -> {"absent", "open", "pending", "active", "denied", "revoked", "gone"}]
    /\ found \subseteq Grants /\ checked \subseteq Grants
    /\ tokenLife \in [Grants -> 0 .. AccessLife]
    /\ artifacts \subseteq Grants
    /\ outbox \subseteq published /\ published \subseteq Event
    /\ pairings \subseteq Sites
    /\ job \in [Jobs -> JobRow \cup {NoJob}]
    /\ tombstones \in [Jobs -> SUBSET Grants]
    /\ swept \in [Jobs -> Found]
    /\ late \subseteq Grants
    /\ errors \subseteq Jobs

-----------------------------------------------------------------------------
(* Events *)

MaxSequence(s) == Max({e.seq : e \in {f \in outbox : f.site = s}} \cup {0})

\* One event for each grant of R, in the order of the loop.
GrantEvents(R) ==
    {[site |-> SiteOf[g], type |-> "grant", target |-> g,
      seq |-> MaxSequence(SiteOf[g])
                 + Cardinality({h \in R : SiteOf[h] = SiteOf[g] /\ h <= g})] : g \in R}

SiteEvents(S) ==
    {[site |-> s, type |-> "site", target |-> s, seq |-> MaxSequence(s) + 1] : s \in S}

Publish(E) == outbox' = outbox \cup E /\ published' = published \cup E

\* The connector was sent an event that covers the grant.
Announced(g) == \E e \in published : e.site = SiteOf[g] /\ e.target \in {g, SiteOf[g]}

\* The first advance of the job has committed.
Committed(j) == job[j].status \in {"waiting", "complete"}

\* No first advance that has committed had found the row.
GrantEscaped(g) == \A j \in Jobs : Committed(j) => g \notin swept[j].grants
SiteEscaped(s) == \A j \in Jobs : Committed(j) => s \notin swept[j].sites

-----------------------------------------------------------------------------
(* Pairing: the tenant is looked at once, when the request begins; then come *)
(* a call to the site and a transaction under row-level security, which      *)
(* looks at the membership.                                                  *)

BeginPairing(s) ==
    /\ s \notin pairings /\ site[s] = "absent"
    /\ tenant = "active" /\ owner[Initiator[s]] = "active"
    /\ pairings' = pairings \cup {s}
    /\ UNCHANGED <<account, owner, tenant, site, grant, found, checked, tokenLife, artifacts,
                   outbox, published, job, tombstones, swept, late, errors>>

\* The rows of the attempt and of the tenant are referenced, so they must exist.
CompletePairing(s) ==
    /\ s \in pairings /\ site[s] = "absent"
    /\ tenant # "gone" /\ owner[Initiator[s]] = "active"
    /\ site' = [site EXCEPT ![s] = "active"]
    /\ UNCHANGED <<account, owner, tenant, grant, found, checked, tokenLife, artifacts,
                   outbox, published, pairings, job, tombstones, swept, late, errors>>

-----------------------------------------------------------------------------
(* Consent.  Row-level security shows a site, and lets an idempotency record *)
(* be written, only to an active member.                                     *)

OnlyGrantChanges ==
    UNCHANGED <<account, owner, tenant, site, checked, tokenLife, artifacts, pairings, job,
                tombstones, swept, late, errors>>

InsertPending(g) ==
    /\ grant[g] = "absent"
    /\ site[SiteOf[g]] = "active" /\ owner[SubjectOf[g]] = "active"
    /\ grant' = [grant EXCEPT ![g] = "open"]
    /\ UNCHANGED <<found, outbox, published>> /\ OnlyGrantChanges

CommitPending(g) ==
    /\ grant[g] = "open"
    /\ grant' = [grant EXCEPT ![g] = "pending"]
    /\ UNCHANGED <<found, outbox, published>> /\ OnlyGrantChanges

FindPending(g) ==
    /\ g \notin found /\ grant[g] = "pending"
    /\ site[SiteOf[g]] = "active" /\ owner[SubjectOf[g]] = "active"
    /\ found' = found \cup {g}
    /\ UNCHANGED <<grant, outbox, published>> /\ OnlyGrantChanges

\* Mutant: the status is not looked at again.
ActivateAnyway(g) ==
    /\ g \in found /\ grant[g] # "gone" /\ owner[SubjectOf[g]] = "active"
    /\ grant' = [grant EXCEPT ![g] = "active"]
    /\ found' = found \ {g}
    /\ UNCHANGED <<outbox, published>> /\ OnlyGrantChanges

\* The status is looked at again, the site is not.
Activate(g) ==
    /\ g \in found /\ grant[g] = "pending" /\ owner[SubjectOf[g]] = "active"
    /\ grant' = [grant EXCEPT ![g] = "active"]
    /\ found' = found \ {g}
    /\ UNCHANGED <<outbox, published>> /\ OnlyGrantChanges

\* The user says no: the row is revoked with reason consent_denied, and no event is sent.
Deny(g) ==
    /\ g \in found /\ grant[g] = "pending" /\ owner[SubjectOf[g]] = "active"
    /\ grant' = [grant EXCEPT ![g] = "denied"]
    /\ found' = found \ {g}
    /\ UNCHANGED <<outbox, published>> /\ OnlyGrantChanges

\* revoke_grant
RevokeGrant(g) ==
    /\ grant[g] \in {"pending", "active"}
    /\ grant' = [grant EXCEPT ![g] = "revoked"]
    /\ Publish(GrantEvents({g}))
    /\ UNCHANGED found /\ OnlyGrantChanges

-----------------------------------------------------------------------------
(* Tokens: the claims resolver asks for an active grant and an active site,  *)
(* and what it answered is signed some time later.                           *)

OnlyTokensChange ==
    UNCHANGED <<account, owner, tenant, site, grant, found, outbox, published, pairings, job,
                tombstones, swept, errors>>

CheckClaims(g) ==
    /\ g \notin checked
    /\ grant[g] = "active" /\ site[SiteOf[g]] = "active"
    /\ checked' = checked \cup {g}
    /\ UNCHANGED <<tokenLife, artifacts, late>> /\ OnlyTokensChange

\* Any number of requests may have passed the check, so one more always can sign.
SignToken(g) ==
    /\ g \in checked
    /\ tokenLife' = [tokenLife EXCEPT ![g] = AccessLife]
    /\ artifacts' = artifacts \cup {g}
    /\ late' = IF GrantEscaped(g) THEN late ELSE late \cup {g}
    /\ UNCHANGED checked /\ OnlyTokensChange

Less(n) == IF n = 0 THEN 0 ELSE n - 1

Tick ==
    /\ \/ \E g \in Grants : tokenLife[g] > 0
       \/ \E j \in Jobs : job[j].status = "waiting" /\ job[j].wait > 0
    /\ tokenLife' = [g \in Grants |-> Less(tokenLife[g])]
    /\ job' = [j \in Jobs |-> IF job[j].status = "waiting"
                              THEN [job[j] EXCEPT !.wait = Less(@)] ELSE job[j]]
    /\ UNCHANGED <<account, owner, tenant, site, grant, found, checked, artifacts, outbox,
                   published, pairings, tombstones, swept, late, errors>>

-----------------------------------------------------------------------------
(* begin_deletion_job *)

SitesIn(sc) ==
    {s \in Sites : /\ site[s] \notin {"absent", "gone"}
                   /\ sc.kind = "site" => s = sc.id
                   /\ sc.kind # "account"}

\* The rows of grants that a scope covers.
Covered(sc) ==
    {g \in Grants : /\ grant[g] \notin {"absent", "open", "gone"}
                    /\ \/ sc.kind = "account" /\ SubjectOf[g] = sc.id
                       \/ sc.kind = "site" /\ SiteOf[g] = sc.id
                       \/ sc.kind = "tenant"}

Exists(sc) ==
    \/ sc.kind = "account" /\ account[sc.id] # "gone"
    \/ sc.kind = "site" /\ SitesIn(sc) # {}
    \/ sc.kind = "tenant" /\ tenant # "gone"

\* An active owner without an active fellow owner must hand the tenant over.
SoleOwner(a) ==
    owner[a] = "active" /\ \A b \in Accounts \ {a} : owner[b] # "active"

Begin(j, sc) ==
    /\ job[j] = NoJob
    /\ Exists(sc)
    /\ sc.kind = "account" => ~SoleOwner(sc.id)
    /\ job' = [job EXCEPT ![j] = [status |-> "pending", scope |-> sc, wait |-> 0]]
    /\ tombstones' = [tombstones EXCEPT ![j] = Covered(sc)]
    /\ UNCHANGED <<account, owner, tenant, site, grant, found, checked, tokenLife, artifacts,
                   outbox, published, pairings, swept, late, errors>>

-----------------------------------------------------------------------------
(* advance_deletion_job of a pending job: revoke and announce.  Sweep is the *)
(* moment its queries read, Commit the one its writes are seen.  Until then  *)
(* it holds an advisory lock for its scope and, from its updates on, locks   *)
(* of rows: what others do to these rows in between is done before the       *)
(* updates.  A call that is rolled back leaves nothing.                      *)

Locked(sc) == \E k \in Jobs : job[k].status = "revoking" /\ job[k].scope = sc

Sweep(j) ==
    LET sc == job[j].scope
    IN  /\ job[j].status = "pending" /\ ~Locked(sc)
        /\ job' = [job EXCEPT ![j].status = "revoking"]
        /\ swept' = [swept EXCEPT ![j] =
                        [grants |-> Covered(sc), sites |-> SitesIn(sc),
                         listed |-> {g \in Covered(sc) : grant[g] \notin {"denied", "revoked"}}]]
        /\ UNCHANGED <<account, owner, tenant, site, grant, found, checked, tokenLife, artifacts,
                       outbox, published, pairings, tombstones, late, errors>>

\* The window is counted from a clock that the caller read d ticks ago.
Waiting(j, d) == [job EXCEPT ![j].status = "waiting", ![j].wait = SafeWindow - d]

\* What the job has revoked, of which some has a token younger than the reading.
Revoked(j, G, d) ==
    /\ swept' = [swept EXCEPT ![j] = [grants |-> G, sites |-> @.sites, listed |-> {}]]
    /\ late' = late \cup {g \in G : tokenLife[g] > 0 /\ tokenLife[g] + d > AccessLife}
    /\ job' = Waiting(j, d)
    /\ UNCHANGED <<found, checked, tokenLife, artifacts, pairings, tombstones, errors>>

\* The loop revokes what it has listed whatever has become of it since; there is
\* an event where the grant's site still is.
CommitAccount(j, d) ==
    LET a == job[j].scope.id
    IN  /\ job[j].status = "revoking" /\ job[j].scope.kind = "account"
        /\ owner' = [owner EXCEPT ![a] = IF @ = "active" THEN "revoked" ELSE @]
        /\ account' = [account EXCEPT ![a] = IF @ = "gone" THEN @ ELSE "deleted"]
        /\ grant' = [g \in Grants |-> IF g \in swept[j].listed /\ grant[g] # "gone"
                                      THEN "revoked" ELSE grant[g]]
        /\ Publish(GrantEvents({g \in swept[j].listed : site[SiteOf[g]] # "gone"}))
        /\ Revoked(j, swept[j].grants, d)
        /\ UNCHANGED <<tenant, site>>

\* Grants of the sites found that came after: the UPDATE of a site's grants may
\* still see them.
Newer(j) ==
    {g \in Covered(job[j].scope) : SiteOf[g] \in swept[j].sites /\ g \notin swept[j].grants}

StrikeSites(j, G) ==
    /\ site' = [s \in Sites |-> IF s \in swept[j].sites /\ site[s] # "gone"
                                THEN "revoked" ELSE site[s]]
    /\ grant' = [g \in Grants |-> IF g \in G /\ grant[g] \in {"pending", "active"}
                                  THEN "revoked" ELSE grant[g]]
    /\ tenant' = IF job[j].scope.kind = "tenant" /\ tenant # "gone" THEN "deleted" ELSE tenant
    /\ UNCHANGED <<account, owner>>

\* The outbox refers to tenants.
CanAnnounce(j) ==
    /\ job[j].status = "revoking" /\ job[j].scope.kind # "account"
    /\ swept[j].sites # {} => tenant # "gone"

\* Mutant: the events are forgotten.
CommitSitesSilently(j, d) ==
    /\ CanAnnounce(j)
    /\ \E more \in SUBSET Newer(j) :
          StrikeSites(j, swept[j].grants \cup more) /\ Revoked(j, swept[j].grants \cup more, d)
    /\ UNCHANGED <<outbox, published>>

\* A site that is already revoked is announced again, and so is one that another
\* job has purged since it was found.
CommitSites(j, d) ==
    /\ CanAnnounce(j)
    /\ \E more \in SUBSET Newer(j) :
          StrikeSites(j, swept[j].grants \cup more) /\ Revoked(j, swept[j].grants \cup more, d)
    /\ Publish(SiteEvents(swept[j].sites))

\* After the purge of the tenant the insert of an event fails.
RollBack(j) ==
    /\ job[j].status = "revoking" /\ swept[j].sites # {} /\ tenant = "gone"
    /\ job' = [job EXCEPT ![j].status = "pending"]
    /\ swept' = [swept EXCEPT ![j] = Nothing]
    /\ UNCHANGED <<account, owner, tenant, site, grant, found, checked, tokenLife, artifacts,
                   outbox, published, pairings, tombstones, late, errors>>

-----------------------------------------------------------------------------
(* advance_deletion_job of a waiting job: purge, once the window has passed *)

PurgeableAtOnce(j) == job[j].status = "waiting"   \* mutant
Purgeable(j) == job[j].status = "waiting" /\ job[j].wait = 0

StillWaiting(j) == job   \* mutant
Complete(j) == [job EXCEPT ![j].status = "complete"]

Gone(G) == [g \in Grants |-> IF g \in G THEN "gone" ELSE grant[g]]

\* pairing_attempts.initiator_account_id refers to accounts, and the account
\* branch does not delete pairing attempts.
Referenced(a) == \E s \in pairings : Initiator[s] = a

\* An insert of a grant locks the rows of its site and tenant until it commits;
\* a purge of them waits for it, fails and is called again.
Held(S) == \E g \in Grants : grant[g] = "open" /\ SiteOf[g] \in S

\* The outbox loses the events of the recorded grants.
PurgeAccount(j) ==
    LET a == job[j].scope.id
    IN  /\ Purgeable(j) /\ job[j].scope.kind = "account" /\ ~Referenced(a)
        /\ artifacts' = artifacts \ tombstones[j]
        /\ outbox' = {e \in outbox : e.target \notin tombstones[j]}
        /\ grant' = Gone(Covered(job[j].scope))
        /\ owner' = [owner EXCEPT ![a] = "gone"]
        /\ account' = [account EXCEPT ![a] = "gone"]
        /\ job' = Complete(j)
        /\ UNCHANGED <<tenant, site, found, checked, tokenLife, published, pairings, tombstones,
                       swept, late, errors>>

PurgeSite(j) ==
    LET s == job[j].scope.id
    IN  /\ Purgeable(j) /\ job[j].scope.kind = "site" /\ ~Held({s})
        /\ artifacts' = artifacts \ tombstones[j]
        /\ outbox' = {e \in outbox : e.site # s}
        /\ pairings' = pairings \ {s}
        /\ grant' = Gone(Covered(job[j].scope))
        /\ site' = [site EXCEPT ![s] = "gone"]
        /\ job' = Complete(j)
        /\ UNCHANGED <<account, owner, tenant, found, checked, tokenLife, published, tombstones,
                       swept, late, errors>>

\* The provider's artifacts carry no tenant_id, so here too they go by grant.
PurgeTenant(j) ==
    /\ Purgeable(j) /\ job[j].scope.kind = "tenant" /\ ~Held(Sites)
    /\ artifacts' = artifacts \ tombstones[j]
    /\ outbox' = {} /\ pairings' = {}
    /\ grant' = Gone(Covered(job[j].scope))
    /\ site' = [s \in Sites |-> IF site[s] = "absent" THEN "absent" ELSE "gone"]
    /\ owner' = [a \in Accounts |-> "gone"]
    /\ tenant' = "gone"
    /\ job' = Complete(j)
    /\ UNCHANGED <<account, found, checked, tokenLife, published, tombstones, swept, late, errors>>

\* An error inside the function: the handler writes status 'failed' and returns a
\* report without scopeKind, scopeId and counts; parseDeletionReport rejects that
\* report, and withAuthorizationService rolls the write back.
AdvanceFails(j) ==
    /\ Purgeable(j) /\ job[j].scope.kind = "account" /\ Referenced(job[j].scope.id)
    /\ errors' = errors \cup {j}
    /\ UNCHANGED <<account, owner, tenant, site, grant, found, checked, tokenLife, artifacts,
                   outbox, published, pairings, job, tombstones, swept, late>>

Advance(j) ==
    \/ Sweep(j)
    \/ \E d \in 0 .. SafeWindow : CommitAccount(j, d) \/ CommitSites(j, d)
    \/ RollBack(j)
    \/ PurgeAccount(j) \/ PurgeSite(j) \/ PurgeTenant(j)
    \/ AdvanceFails(j)

-----------------------------------------------------------------------------

Init ==
    /\ account = [a \in Accounts |-> "active"] /\ owner = [a \in Accounts |-> "active"]
    /\ tenant = "active" /\ site = [s \in Sites |-> "absent"]
    /\ grant = [g \in Grants |-> "absent"] /\ found = {}
    /\ checked = {} /\ tokenLife = [g \in Grants |-> 0]
    /\ artifacts = {} /\ outbox = {} /\ published = {}
    /\ pairings = {}
    /\ job = [j \in Jobs |-> NoJob] /\ tombstones = [j \in Jobs |-> {}]
    /\ swept = [j \in Jobs |-> Nothing] /\ late = {} /\ errors = {}

Next ==
    \/ \E s \in Sites : BeginPairing(s) \/ CompletePairing(s)
    \/ \E g \in Grants : InsertPending(g) \/ CommitPending(g) \/ FindPending(g)
                            \/ Activate(g) \/ Deny(g) \/ RevokeGrant(g)
    \/ \E g \in Grants : CheckClaims(g) \/ SignToken(g)
    \/ \E j \in Jobs, sc \in Scopes : Begin(j, sc)
    \/ \E j \in Jobs : Advance(j)
    \/ Tick

Spec == Init /\ [][Next]_vars

\* Whoever began a deletion calls advance until it is complete; an open insert is
\* committed; time passes.
FairSpec ==
    /\ Spec /\ WF_vars(Tick)
    /\ \A j \in Jobs : WF_vars(Advance(j))
    /\ \A g \in Grants : WF_vars(CommitPending(g))

-----------------------------------------------------------------------------
(* Properties *)

\* "Purging waits six minutes: five-minute access-token lifetime plus the
\* sixty-second clock-skew allowance" (ADR-012).  Once a deletion is complete, no
\* connector accepts a token of a grant that its first advance found, but one that
\* was signed after that advance's clock reading: the window has no room for a
\* request that was checked before and signs after it.
TokensDeadBeforePurge ==
    \A j \in Jobs : job[j].status = "complete" =>
        \A g \in swept[j].grants : tokenLife[g] = 0 \/ g \in late

\* No grant that a client may hold disappears unannounced: the connector was sent
\* an event that covers it, by this job, by another or by an earlier revocation,
\* unless the row appeared after the queries of every first advance (a consent or
\* a pairing in flight) and so was found by none.
PurgedWasAnnounced ==
    [][\A g \in Grants :
          grant[g] \in {"pending", "active", "revoked"} /\ grant'[g] = "gone"
              => Announced(g) \/ GrantEscaped(g)]_vars

\* "An accepted deletion is monotonic" (ADR-012): overlapping jobs, also those of
\* which one has purged what the other still has to revoke, requests in flight and
\* consents answered late never bring a revoked or purged row back, and a row that
\* a first advance has found is not purged before it was revoked.
DeletionIsMonotonic ==
    [][/\ \A g \in Grants :
             /\ grant[g] \in {"denied", "revoked"} =>
                    grant'[g] \in {"denied", "revoked", "gone"}
             /\ grant[g] = "gone" => grant'[g] = "gone"
             /\ grant[g] \in {"pending", "active"} /\ grant'[g] = "gone" => GrantEscaped(g)
       /\ \A s \in Sites :
             /\ site[s] = "revoked" => site'[s] \in {"revoked", "gone"}
             /\ site[s] = "gone" => site'[s] = "gone"
             /\ site[s] = "active" /\ site'[s] = "gone" => SiteEscaped(s)
       /\ \A a \in Accounts : /\ account[a] = "deleted" => account'[a] # "active"
                              /\ account[a] = "active" => account'[a] # "gone"]_vars

\* A job that was begun ends: complete, or with an error for an operator.
JobsEnd ==
    \A j \in Jobs : job[j].status = "pending" ~> job[j].status = "complete" \/ j \in errors

\* "The first transaction immediately revokes sessions, grants, refresh families,
\* and site trust" (ADR-012).  It does not hold: a pairing that began before
\* completes after it, and its site is active in a deleted tenant.
DeletedTenantIsShut ==
    tenant = "deleted" => \A s \in Sites : site[s] # "active"

\* The six minutes of ADR-012 as an unconditional promise.  It does not hold: they
\* are counted from the caller's clock, and a token that was checked before the
\* revocation and signed after it is accepted for longer.
NoTokenOutlivesPurge ==
    \A j \in Jobs : job[j].status = "complete" =>
        \A g \in swept[j].grants : tokenLife[g] = 0

\* "Any failure leaves a failed job and safe error category for operator review"
\* (ADR-012).  It does not hold: the write of status 'failed' is rolled back.
FailureIsRecorded == \A j \in errors : job[j].status = "failed"

\* The "monotonic site sequence" of ADR-009: no number of a site is given to two
\* events.  It does not hold: purging an account deletes its grants' events, and
\* MAX + 1 starts again below numbers the connector has already accepted.
SequenceNeverReused ==
    \A e, f \in published : e.site = f.site /\ e.seq = f.seq => e = f

\* "Account deletion refuses an active sole-owner membership" (ADR-012).  It does
\* not hold: only begin_deletion_job looks, and the deletions of two co-owners that
\* are both begun before either is advanced leave the tenant without an owner.
TenantKeepsOwner ==
    tenant = "active" => \E a \in Accounts : owner[a] = "active"
=============================================================================
