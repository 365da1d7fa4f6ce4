-------------------------- MODULE GrantRevocation --------------------------
(***************************************************************************)
(* Grants, sites and signing keys of the wepuu control plane, and the      *)
(* transactional outbox that tells the WordPress connector of every        *)
(* revocation.                                                             *)
(*                                                                         *)
(* The unit of interleaving is the SQL statement.  Several database        *)
(* sessions (control-api requests, the authorization service, an operator) *)
(* run transactions under READ COMMITTED: a statement sees what was        *)
(* committed when it began, row locks and the per-site advisory lock are   *)
(* held to the end of the transaction, and nothing a transaction wrote is  *)
(* visible before COMMIT.  `tx' keeps what an open transaction has done so *)
(* far; the other variables are the committed tables.                      *)
(***************************************************************************)
EXTENDS Integers, FiniteSets, FiniteSetsExt

CONSTANTS
    Sites,      \* platform.sites.id (random, never reused)
    Grants,     \* platform.grants.id (random, never reused)
    Parties,    \* the (subject_id, client_id) pairs that ask for consent
    Keys,       \* oauth.signing_key_metadata.kid
    Sessions,   \* database sessions that may have a transaction open
    SiteOf,     \* the site_id of a grant
    PartyOf     \* the (subject_id, client_id) of a grant

ASSUME GrantColumns == /\ SiteOf \in [Grants -> Sites]
                       /\ PartyOf \in [Grants -> Parties]

VARIABLES
    site,       \* sites.status
    status,     \* grants.status
    reason,     \* grants.revocation_reason
    lapsed,     \* the grants whose consent_expires_at has passed
    key,        \* signing_key_metadata.status: usable covers published..retiring
    outbox,     \* committed rows of oauth.revocation_outbox
    tx          \* what each session's open transaction has done

vars == <<site, status, reason, lapsed, key, outbox, tx>>

-----------------------------------------------------------------------------
(* Types *)

SiteStatus  == {"absent", "active", "revoked"}
GrantStatus == {"absent", "pending", "active", "revoked"}
KeyStatus   == {"usable", "revoked"}

\* What revokeByGrantId passes to revoke_refresh_grant.
TokenReasons == {"refresh_replay", "token_revoked"}
GrantReasons == TokenReasons \cup {"platform_user_revoked"}
Reasons      == GrantReasons \cup {"site_disconnected", "key_revoked"}

Event == [site: Sites, seq: Nat \ {0}, type: {"grant", "site", "key"},
          target: Grants \cup Sites \cup Keys, reason: Reasons]

\* op     where the transaction stands
\* rows   the grant row it inserted ("create"), was told of ("consent") or
\*        has updated and so locked ("announce")
\* sites  the site row it has updated; keys: the key row it has updated
\* why    the reason its events carry
\* todo   the sites that must still get an event
\* adv    the per-site advisory locks it holds
\* events the outbox rows it has inserted
Transaction ==
    [op: {"idle", "create", "consent", "disconnect", "announce"},
     rows: SUBSET Grants, sites: SUBSET Sites, keys: SUBSET Keys,
     why: Reasons \cup {"none"}, todo: SUBSET Sites, adv: SUBSET Sites,
     events: SUBSET Event]

Begun(op, rows, sites, keys, why, todo) ==
    [op |-> op, rows |-> rows, sites |-> sites, keys |-> keys,
     why |-> why, todo |-> todo, adv |-> {}, events |-> {}]

Idle == Begun("idle", {}, {}, {}, "none", {})

\* Type correctness of the tables and of the open transactions.
TypeOK ==
    /\ site \in [Sites -> SiteStatus]
    /\ status \in [Grants -> GrantStatus]
    /\ reason \in [Grants -> Reasons \cup {"none", "consent_denied"}]
    /\ lapsed \subseteq Grants
    /\ key \in [Keys -> KeyStatus]
    /\ outbox \subseteq Event
    /\ tx \in [Sessions -> Transaction]
    /\ \A p \in Sessions :
          tx[p].op \in {"disconnect", "announce"} => tx[p].why \in Reasons

-----------------------------------------------------------------------------
(* Derived state *)

OnlyActive(g) == status[g] = "active"   \* mutant

\* status IN ('pending', 'active', 'suspended'): nothing ever writes 'suspended'.
Live(g) == status[g] \in {"pending", "active"}

SameTuple(g, h) == SiteOf[g] = SiteOf[h] /\ PartyOf[g] = PartyOf[h]

Ops(q) == tx[q].op

\* A row that an open transaction has updated makes other writers wait.
RowLockIgnored(g) == TRUE   \* mutant
GrantRowFree(g) == \A q \in Sessions : ~(Ops(q) = "announce" /\ g \in tx[q].rows)
SiteRowFree(s)  == \A q \in Sessions : s \notin tx[q].sites
KeyRowFree(k)   == \A q \in Sessions : k \notin tx[q].keys
NoAdvisoryLock(s) == TRUE   \* mutant
AdvisoryFree(s) == \A q \in Sessions : s \notin tx[q].adv

Inserted(g) == \E q \in Sessions : Ops(q) = "create" /\ g \in tx[q].rows

EventsOf(s) == {e \in outbox : e.site = s}

\* Mutant: the maximum is taken over every site's events.
GlobalSequence(s) == Max({e.seq : e \in outbox} \cup {0}) + 1

\* COALESCE(MAX(event_sequence), 0) + 1
NextSequence(s) == Max({e.seq : e \in EventsOf(s)} \cup {0}) + 1

-----------------------------------------------------------------------------
(* Sites appear, consent is asked for and answered *)

\* PairingRepository.complete inserts the active site of a verified pairing.
ConnectSite(s) ==
    /\ site[s] = "absent"
    /\ site' = [site EXCEPT ![s] = "active"]
    /\ UNCHANGED <<status, reason, lapsed, key, outbox, tx>>

\* createPending: INSERT ... SELECT from an active site.  The unique index on
\* live grants makes the statement wait for an uncommitted rival and fail on a
\* committed one.  The foreign key takes no lock that a disconnect waits for.
CreatePending(p, g) ==
    /\ Ops(p) = "idle"
    /\ status[g] = "absent" /\ ~Inserted(g)
    /\ site[SiteOf[g]] = "active"
    /\ \A h \in Grants : SameTuple(g, h) => ~Live(h) /\ ~Inserted(h)
    /\ tx' = [tx EXCEPT ![p] = Begun("create", {g}, {}, {}, "none", {})]
    /\ UNCHANGED <<site, status, reason, lapsed, key, outbox>>

CommitCreate(p) ==
    /\ Ops(p) = "create"
    /\ status' = [g \in Grants |-> IF g \in tx[p].rows THEN "pending" ELSE status[g]]
    /\ tx' = [tx EXCEPT ![p] = Idle]
    /\ UNCHANGED <<site, reason, lapsed, key, outbox>>

\* Two minutes after GrantService.begin.
LapseConsent(g) ==
    /\ status[g] = "pending" /\ g \notin lapsed
    /\ lapsed' = lapsed \cup {g}
    /\ UNCHANGED <<site, status, reason, key, outbox, tx>>

\* GrantService.complete reads the pending grant and the active site, then
\* verifies the site's proof outside any transaction.
FindPending(p, g) ==
    /\ Ops(p) = "idle"
    /\ status[g] = "pending" /\ g \notin lapsed
    /\ site[SiteOf[g]] = "active"
    /\ tx' = [tx EXCEPT ![p] = Begun("consent", {g}, {}, {}, "none", {})]
    /\ UNCHANGED <<site, status, reason, lapsed, key, outbox>>

\* Mutant: the UPDATE relies on what FindPending saw.
PendingWhenRead(g) == g \notin lapsed /\ GrantRowFree(g)

\* The UPDATE of activate and deny: one statement, committed at once, that
\* looks again at the status and the deadline but not at the site.
StillPending(g) == status[g] = "pending" /\ g \notin lapsed /\ GrantRowFree(g)

Activate(p) ==
    /\ Ops(p) = "consent"
    /\ \E g \in tx[p].rows :
          /\ StillPending(g)
          /\ status' = [status EXCEPT ![g] = "active"]
    /\ tx' = [tx EXCEPT ![p] = Idle]
    /\ UNCHANGED <<site, reason, lapsed, key, outbox>>

Deny(p) ==
    /\ Ops(p) = "consent"
    /\ \E g \in tx[p].rows :
          /\ StillPending(g)
          /\ status' = [status EXCEPT ![g] = "revoked"]
          /\ reason' = [reason EXCEPT ![g] = "consent_denied"]
    /\ tx' = [tx EXCEPT ![p] = Idle]
    /\ UNCHANGED <<site, lapsed, key, outbox>>

-----------------------------------------------------------------------------
(* Revocation: update the rows, take a sequence number per site, commit *)

\* revoke_grant_with_event, up to its wait for the advisory lock.
RevokeGrant(p, g) ==
    /\ Ops(p) = "idle"
    /\ Live(g) /\ GrantRowFree(g)
    /\ tx' = [tx EXCEPT ![p] =
                Begun("announce", {g}, {}, {}, "platform_user_revoked", {SiteOf[g]})]
    /\ UNCHANGED <<site, status, reason, lapsed, key, outbox>>

\* revoke_refresh_grant: a grant that has tokens was active when they were
\* issued.  A grant that is no longer live gets no second event.
RevokeRefreshGrant(p, g, why) ==
    /\ Ops(p) = "idle"
    /\ status[g] = "active" /\ GrantRowFree(g)
    /\ tx' = [tx EXCEPT ![p] =
                Begun("announce", {g}, {}, {}, why, {SiteOf[g]})]
    /\ UNCHANGED <<site, status, reason, lapsed, key, outbox>>

\* disconnect_site_with_event, first statement: the site row.
DisconnectSite(p, s) ==
    /\ Ops(p) = "idle"
    /\ site[s] = "active" /\ SiteRowFree(s)
    /\ tx' = [tx EXCEPT ![p] =
                Begun("disconnect", {}, {s}, {}, "site_disconnected", {s})]
    /\ UNCHANGED <<site, status, reason, lapsed, key, outbox>>

LiveGrantsOf(s) == {g \in Grants : SiteOf[g] = s /\ Live(g)}

\* Mutant: the list of grants is read before the row locks are waited for.
DisconnectWithoutWaiting(p) ==
    /\ Ops(p) = "disconnect"
    /\ \E s \in tx[p].sites :
          tx' = [tx EXCEPT ![p] =
             Begun("announce", LiveGrantsOf(s), {s}, {}, "site_disconnected", {s})]
    /\ UNCHANGED <<site, status, reason, lapsed, key, outbox>>

\* Second statement: the live grants it can see, once no other transaction
\* holds one of them.
DisconnectGrants(p) ==
    /\ Ops(p) = "disconnect"
    /\ \E s \in tx[p].sites :
          /\ \A g \in LiveGrantsOf(s) : GrantRowFree(g)
          /\ tx' = [tx EXCEPT ![p] =
                Begun("announce", LiveGrantsOf(s), {s}, {}, "site_disconnected", {s})]
    /\ UNCHANGED <<site, status, reason, lapsed, key, outbox>>

\* revoke_signing_key: the key row, then the list of active sites its loop
\* will visit.
RevokeKey(p, k) ==
    /\ Ops(p) = "idle"
    /\ key[k] = "usable" /\ KeyRowFree(k)
    /\ tx' = [tx EXCEPT ![p] =
                Begun("announce", {}, {}, {k}, "key_revoked",
                      {s \in Sites : site[s] = "active"})]
    /\ UNCHANGED <<site, status, reason, lapsed, key, outbox>>

\* The outbox row that transaction t inserts for site s.
EventType(t) == IF t.keys # {} THEN "key" ELSE IF t.sites # {} THEN "site" ELSE "grant"

Targets(t) == CASE EventType(t) = "key"  -> t.keys
                [] EventType(t) = "site" -> t.sites
                [] OTHER                 -> t.rows

EventFor(t, s, x) ==
    [site |-> s, seq |-> NextSequence(s), type |-> EventType(t), target |-> x,
     reason |-> t.why]

\* pg_advisory_xact_lock, SELECT MAX + 1 and the INSERT.
TakeSequence(p, s) ==
    /\ Ops(p) = "announce" /\ s \in tx[p].todo
    /\ AdvisoryFree(s)
    /\ \E x \in Targets(tx[p]) :
          tx' = [tx EXCEPT ![p].todo = @ \ {s},
                           ![p].adv = @ \cup {s},
                           ![p].events = @ \cup {EventFor(tx[p], s, x)}]
    /\ UNCHANGED <<site, status, reason, lapsed, key, outbox>>

\* UNIQUE (tenant_id, site_id, event_sequence).
Conflicts(e) == \E f \in outbox : f.site = e.site /\ f.seq = e.seq

\* A conflicting INSERT rolls the transaction back, except in
\* revoke_refresh_grant, whose ON CONFLICT DO NOTHING loses the event.
Insertable(p) == tx[p].why \in TokenReasons \/ \A e \in tx[p].events : ~Conflicts(e)

\* Mutant: advisory locks of the database session, not of the transaction.
CommitKeepingLocks(p) ==
    /\ Ops(p) = "announce" /\ tx[p].todo = {}
    /\ Insertable(p)
    /\ site' = [s \in Sites |-> IF s \in tx[p].sites THEN "revoked" ELSE site[s]]
    /\ status' = [g \in Grants |-> IF g \in tx[p].rows THEN "revoked" ELSE status[g]]
    /\ reason' = [g \in Grants |-> IF g \in tx[p].rows THEN tx[p].why ELSE reason[g]]
    /\ key' = [k \in Keys |-> IF k \in tx[p].keys THEN "revoked" ELSE key[k]]
    /\ outbox' = outbox \cup {e \in tx[p].events : ~Conflicts(e)}
    /\ tx' = [tx EXCEPT ![p] = [tx[p] EXCEPT !.op = "idle", !.rows = {}, !.sites = {},
                                             !.keys = {}, !.events = {}]]
    /\ UNCHANGED lapsed

CommitRevocation(p) ==
    /\ Ops(p) = "announce" /\ tx[p].todo = {}
    /\ Insertable(p)
    /\ site' = [s \in Sites |-> IF s \in tx[p].sites THEN "revoked" ELSE site[s]]
    /\ status' = [g \in Grants |-> IF g \in tx[p].rows THEN "revoked" ELSE status[g]]
    /\ reason' = [g \in Grants |-> IF g \in tx[p].rows THEN tx[p].why ELSE reason[g]]
    /\ key' = [k \in Keys |-> IF k \in tx[p].keys THEN "revoked" ELSE key[k]]
    /\ outbox' = outbox \cup {e \in tx[p].events : ~Conflicts(e)}
    /\ tx' = [tx EXCEPT ![p] = Idle]
    /\ UNCHANGED lapsed

-----------------------------------------------------------------------------
(* Transactions that end without effect *)

\* The process dies, the connection is lost, the statement fails, or the
\* consent proof does not verify: ROLLBACK.
Abort(p) ==
    /\ Ops(p) # "idle"
    /\ tx' = [tx EXCEPT ![p] = Idle]
    /\ UNCHANGED <<site, status, reason, lapsed, key, outbox>>

\* A ring of transactions each of which waits for an advisory lock of another.
\* The rows of oauth.secret_artifacts are left out: a replayed refresh can hold
\* that of its token while it waits for the grant, and a revocation of the grant
\* the other way round, another ring that the same detector breaks.
Deadlocked(p) ==
    \E ring \in SUBSET Sessions :
        /\ p \in ring
        /\ \A q \in ring :
              /\ Ops(q) = "announce" /\ tx[q].todo # {}
              /\ \A s \in tx[q].todo : \E r \in ring \ {q} : s \in tx[r].adv

\* PostgreSQL's deadlock detector rolls one of them back.
BreakDeadlock(p) == Deadlocked(p) /\ Abort(p)

-----------------------------------------------------------------------------

Init ==
    /\ site \in [Sites -> {"absent", "active"}]
    /\ status = [g \in Grants |-> "absent"]
    /\ reason = [g \in Grants |-> "none"]
    /\ lapsed = {}
    /\ key = [k \in Keys |-> "usable"]
    /\ outbox = {}
    /\ tx = [p \in Sessions |-> Idle]

\* A step of a session's open transaction, which the database runs as soon as
\* the locks it waits for are granted.
Proceed(p) ==
    \/ CommitCreate(p)
    \/ DisconnectGrants(p)
    \/ \E s \in Sites : TakeSequence(p, s)
    \/ CommitRevocation(p)
    \/ BreakDeadlock(p)

Request(p) ==
    \/ \E g \in Grants : \/ CreatePending(p, g)
                         \/ FindPending(p, g)
                         \/ RevokeGrant(p, g)
                         \/ \E why \in TokenReasons : RevokeRefreshGrant(p, g, why)
    \/ Activate(p)
    \/ Deny(p)
    \/ \E s \in Sites : DisconnectSite(p, s)
    \/ \E k \in Keys : RevokeKey(p, k)

Next ==
    \/ \E s \in Sites : ConnectSite(s)
    \/ \E g \in Grants : LapseConsent(g)
    \/ \E p \in Sessions : Request(p) \/ Proceed(p) \/ Abort(p)

Spec == Init /\ [][Next]_vars

\* Lock queues are first come, first served, so a transaction that is able to
\* go on again and again does go on: strong fairness of its steps.
FairSpec == Spec /\ \A p \in Sessions : SF_vars(Proceed(p))

-----------------------------------------------------------------------------
(* Properties *)

GrantEvent(g, e) == /\ e.type = "grant" /\ e.target = g
                    /\ e.site = SiteOf[g] /\ e.reason = reason[g]
SiteEvent(s, e)  == e.type = "site" /\ e.target = s /\ e.site = s

Announced(g) ==
    \/ reason[g] = "consent_denied"
    \/ reason[g] = "site_disconnected" /\ \E e \in outbox : SiteEvent(SiteOf[g], e)
    \/ reason[g] \in GrantReasons /\ \E e \in outbox : GrantEvent(g, e)

\* Revocation state and its event are durable together (ADR-009: the event is
\* enqueued in the revoking transaction): every revoked grant has an event in
\* the outbox that covers it and gives the same reason as the row, whichever of
\* the four ways it was revoked and whoever raced with whom.  A denied consent
\* never was a grant of the connector and needs none.
RevocationIsAnnounced ==
    /\ \A g \in Grants : status[g] = "revoked" => Announced(g)
    /\ \A s \in Sites : site[s] = "revoked" => \E e \in outbox : SiteEvent(s, e)

\* No event speaks of a revocation that was rolled back, and nothing is
\* announced twice to the same site: revoke_grant_with_event,
\* revoke_refresh_grant and disconnect_site_with_event may all be after the
\* same grant at once.
EventsTellTheTruth ==
    /\ \A e \in outbox :
          /\ e.type = "grant" => status[e.target] = "revoked" /\ GrantEvent(e.target, e)
          /\ e.type = "site"  => site[e.target] = "revoked"
          /\ e.type = "key"   => key[e.target] = "revoked"
    /\ \A e, f \in outbox :
          e.site = f.site /\ e.type = f.type /\ e.target = f.target => e = f

\* "Monotonic site sequence" (ADR-009): the committed events of a site are
\* numbered 1, 2, 3, ... with no number used twice and none left out, although
\* the number is read with MAX + 1 by concurrent transactions that may abort.
SequencesGapless ==
    \A s \in Sites : {e.seq : e \in EventsOf(s)} = 1 .. Cardinality(EventsOf(s))

\* Why the numbers are safe: at most one open transaction holds the advisory
\* lock of a site, and an event not yet committed has the number after the
\* committed ones, because its transaction holds the lock to the end.
AdvisoryExclusive ==
    \A p, q \in Sessions : \A s \in Sites :
        s \in tx[p].adv /\ s \in tx[q].adv => p = q

OpenEventsNumbered ==
    \A p \in Sessions : \A e \in tx[p].events :
        /\ e.site \in tx[p].adv
        /\ e.seq = Cardinality(EventsOf(e.site)) + 1
        /\ \A f \in tx[p].events : f.site = e.site => f = e

OutboxFinite == \A s \in Sites : IsFiniteSet(EventsOf(s))

NumberingInv == /\ TypeOK
                /\ OutboxFinite
                /\ SequencesGapless
                /\ AdvisoryExclusive
                /\ OpenEventsNumbered

\* The consent screen may be answered after a user, a replay or a disconnect
\* revoked the grant: a revoked grant stays revoked, for the reason first
\* recorded, and a grant never becomes pending again.
RevokedIsFinal ==
    [][\A g \in Grants :
          /\ status[g] = "revoked" => status'[g] = "revoked" /\ reason'[g] = reason[g]
          /\ status[g] = "active" => status'[g] # "pending"]_vars

\* At most one live grant for a site, subject and client (migration 004), also
\* while a new consent is created as the old grant is being revoked.
OneLiveGrantPerTuple ==
    \A g, h \in Grants : SameTuple(g, h) /\ Live(g) /\ Live(h) => g = h

\* The Sites page promises that "disconnecting revokes the site relationship and
\* its grants".  It does not hold: createPending neither locks the site nor looks
\* at it again, so a grant inserted before the disconnect and committed after its
\* UPDATE of the grants stays live under the revoked site.
DisconnectLeavesNoLiveGrant ==
    \A g \in Grants : Live(g) => site[SiteOf[g]] # "revoked"

\* A transaction that has begun to revoke ends, committed or rolled back: the
\* row locks, the site lock and the advisory locks are never waited for in a
\* ring that nobody breaks.
RevocationEnds ==
    \A p \in Sessions : Ops(p) \in {"disconnect", "announce"} ~> Ops(p) = "idle"

\* The committed tables behave as if every transaction were one atomic step.
Ledger == INSTANCE RevocationLedger
ImplementsLedger == Ledger!Spec
=============================================================================
