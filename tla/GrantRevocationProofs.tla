----------------------- MODULE GrantRevocationProofs -----------------------
(***************************************************************************)
(* Proofs about GrantRevocation, for every set of sites, grants, keys and  *)
(* sessions: the numbers of the events; then, from the locks, that a       *)
(* revocation is final, is announced, and is announced truthfully; then    *)
(* that RevocationLedger is implemented.                                   *)
(***************************************************************************)
EXTENDS GrantRevocation, FiniteSetTheorems, TLAPS

\* What an open transaction looks like right after its first statement.
LEMMA IdleType ==
  Idle \in Transaction /\ Idle.op = "idle" /\ Idle.adv = {} /\ Idle.events = {}
BY DEF Idle, Begun, Transaction

\* NextSequence reads the successor of the number of committed events, once
\* those are numbered from 1 without a gap.
LEMMA MaxOfRun ==
  ASSUME NEW n \in Nat
  PROVE  Max((1 .. n) \cup {0}) = n
<1> DEFINE S == (1 .. n) \cup {0}
<1>1. n \in S /\ \A y \in S : n >= y
  OBVIOUS
<1>2. \A x \in S : (\A y \in S : x >= y) => x = n
  BY <1>1
<1> QED
  BY <1>1, <1>2 DEF Max

\* The number TakeSequence gives to an event is new and the next one.
LEMMA NextSequenceValue ==
  ASSUME NEW s \in Sites, OutboxFinite, SequencesGapless
  PROVE  /\ Cardinality(EventsOf(s)) \in Nat
         /\ NextSequence(s) = Cardinality(EventsOf(s)) + 1
<1>1. Cardinality(EventsOf(s)) \in Nat
  BY FS_CardinalityType DEF OutboxFinite
<1>2. {e.seq : e \in EventsOf(s)} = 1 .. Cardinality(EventsOf(s))
  BY DEF SequencesGapless
<1> QED
  BY <1>1, <1>2, MaxOfRun DEF NextSequence

\* The initial tables and idle sessions are well typed.
LEMMA InitType ==
  Init => TypeOK
BY IdleType DEF Init, TypeOK, SiteStatus, GrantStatus, KeyStatus, Event

\* Every step keeps the types.  The only numbers written are those of
\* TakeSequence, which is why the outbox must be known to be gapless.
LEMMA StepType ==
  ASSUME TypeOK, OutboxFinite, SequencesGapless, [Next]_vars
  PROVE  TypeOK'
<1> USE GrantColumns
<1> USE DEF TypeOK, SiteStatus, GrantStatus, KeyStatus, Ops
<1>1. ASSUME NEW s \in Sites, ConnectSite(s) PROVE TypeOK'
  BY <1>1 DEF ConnectSite
<1>2. ASSUME NEW g \in Grants, LapseConsent(g) PROVE TypeOK'
  BY <1>2 DEF LapseConsent
<1>3. ASSUME NEW p \in Sessions, NEW t \in Transaction,
             t.op \in {"disconnect", "announce"} => t.why \in Reasons,
             tx' = [tx EXCEPT ![p] = t],
             UNCHANGED <<site, status, reason, lapsed, key, outbox>>
      PROVE  TypeOK'
  BY <1>3
<1>4. ASSUME NEW p \in Sessions, Request(p) PROVE TypeOK'
  <2>1. CASE \E g \in Grants : CreatePending(p, g)
    BY <2>1, <1>3 DEF CreatePending, Begun, Transaction
  <2>2. CASE \E g \in Grants : FindPending(p, g)
    BY <2>2, <1>3 DEF FindPending, Begun, Transaction
  <2>3. CASE \E g \in Grants : RevokeGrant(p, g)
    BY <2>3, <1>3 DEF RevokeGrant, Begun, Transaction, Reasons, GrantReasons
  <2>4. CASE \E g \in Grants : \E why \in TokenReasons : RevokeRefreshGrant(p, g, why)
    BY <2>4, <1>3 DEF RevokeRefreshGrant, Begun, Transaction, Reasons, GrantReasons, TokenReasons
  <2>5. CASE Activate(p)
    BY <2>5, IdleType DEF Activate
  <2>6. CASE Deny(p)
    BY <2>6, IdleType DEF Deny
  <2>7. CASE \E s \in Sites : DisconnectSite(p, s)
    BY <2>7, <1>3 DEF DisconnectSite, Begun, Transaction, Reasons
  <2>8. CASE \E k \in Keys : RevokeKey(p, k)
    BY <2>8, <1>3 DEF RevokeKey, Begun, Transaction, Reasons
  <2> QED
    BY <1>4, <2>1, <2>2, <2>3, <2>4, <2>5, <2>6, <2>7, <2>8 DEF Request
<1>5. ASSUME NEW p \in Sessions, CommitCreate(p) PROVE TypeOK'
  BY <1>5, IdleType DEF CommitCreate
<1>6. ASSUME NEW p \in Sessions, DisconnectGrants(p) PROVE TypeOK'
  BY <1>6, <1>3 DEF DisconnectGrants, LiveGrantsOf, Begun, Transaction, Reasons
<1>7. ASSUME NEW p \in Sessions, NEW s \in Sites, TakeSequence(p, s) PROVE TypeOK'
  <2>1. tx[p] \in Transaction /\ tx[p].why \in Reasons /\ Ops(p) = "announce"
    BY <1>7 DEF TakeSequence
  <2>2. PICK x \in Targets(tx[p]) :
          tx' = [tx EXCEPT ![p].todo = @ \ {s}, ![p].adv = @ \cup {s},
                           ![p].events = @ \cup {EventFor(tx[p], s, x)}]
    BY <1>7 DEF TakeSequence
  <2>3. x \in Grants \cup Sites \cup Keys
    BY <2>1 DEF Targets, Transaction
  <2>4. NextSequence(s) \in Nat \ {0}
    BY NextSequenceValue
  <2>5. EventFor(tx[p], s, x) \in Event
    BY <2>1, <2>3, <2>4 DEF Event, EventFor, EventType
  <2>6. tx'[p] \in Transaction /\ tx'[p].op = "announce" /\ tx'[p].why = tx[p].why
    BY <2>1, <2>2, <2>5 DEF Transaction
  <2> QED
    BY <1>7, <2>1, <2>2, <2>6 DEF TakeSequence
<1>8. ASSUME NEW p \in Sessions, CommitRevocation(p) PROVE TypeOK'
  <2>1. tx[p] \in Transaction /\ tx[p].why \in Reasons
    BY <1>8 DEF CommitRevocation
  <2> QED
    BY <1>8, <2>1, IdleType DEF CommitRevocation, Transaction
<1>9. ASSUME NEW p \in Sessions, Abort(p) PROVE TypeOK'
  BY <1>9, IdleType DEF Abort
<1>10. CASE UNCHANGED vars
  BY <1>10 DEF vars, Transaction
<1> QED
  BY <1>1, <1>2, <1>4, <1>5, <1>6, <1>7, <1>8, <1>9, <1>10 DEF Next, Proceed, BreakDeadlock

-----------------------------------------------------------------------------
(* Sequence numbers *)

\* A step that commits no event and leaves session p with nothing inserted and
\* no advisory lock cannot disturb the numbering.
LEMMA QuietStep ==
  ASSUME NumberingInv, NEW p \in Sessions, NEW t,
         t.adv = {}, t.events = {},
         tx' = [tx EXCEPT ![p] = t], outbox' = outbox
  PROVE  OutboxFinite' /\ SequencesGapless' /\ AdvisoryExclusive' /\ OpenEventsNumbered'
<1>1. \A s : EventsOf(s)' = EventsOf(s)
  BY DEF EventsOf
<1>2. \A q \in Sessions : tx'[q] = IF q = p THEN t ELSE tx[q]
  BY DEF NumberingInv, TypeOK
<1>3. OutboxFinite' /\ SequencesGapless'
  BY <1>1 DEF NumberingInv, OutboxFinite, SequencesGapless
<1>4. AdvisoryExclusive'
  BY <1>2 DEF NumberingInv, AdvisoryExclusive
<1>5. OpenEventsNumbered'
  BY <1>1, <1>2 DEF NumberingInv, OpenEventsNumbered
<1> QED
  BY <1>3, <1>4, <1>5

\* TakeSequence: the advisory lock was free, so no other open transaction has an
\* event of the site, and the number taken is the one after the committed ones.
LEMMA TakeSequenceNumbering ==
  ASSUME NumberingInv, NEW p \in Sessions, NEW s \in Sites, TakeSequence(p, s)
  PROVE  OutboxFinite' /\ SequencesGapless' /\ AdvisoryExclusive' /\ OpenEventsNumbered'
<1>1. PICK x \in Targets(tx[p]) :
        tx' = [tx EXCEPT ![p].todo = @ \ {s}, ![p].adv = @ \cup {s},
                         ![p].events = @ \cup {EventFor(tx[p], s, x)}]
  BY DEF TakeSequence
<1> DEFINE e == EventFor(tx[p], s, x)
<1>2. tx \in [Sessions -> Transaction]
  BY DEF NumberingInv, TypeOK
<1>3. /\ tx'[p].adv = tx[p].adv \cup {s}
      /\ tx'[p].events = tx[p].events \cup {e}
  BY <1>1, <1>2 DEF Transaction
<1>4. \A q \in Sessions : q # p => tx'[q] = tx[q]
  BY <1>1, <1>2
<1>5. \A q \in Sessions : s \notin tx[q].adv
  BY DEF TakeSequence, AdvisoryFree
<1>6. \A r : EventsOf(r)' = EventsOf(r)
  BY DEF TakeSequence, EventsOf
<1>7. OutboxFinite' /\ SequencesGapless'
  BY <1>6 DEF NumberingInv, OutboxFinite, SequencesGapless
<1>8. AdvisoryExclusive'
  BY <1>3, <1>4, <1>5 DEF NumberingInv, AdvisoryExclusive
<1>9. e.site = s /\ e.seq = Cardinality(EventsOf(s)) + 1
  BY NextSequenceValue DEF EventFor, NumberingInv
<1>10. \A f \in tx[p].events : f.site # s
  BY <1>5 DEF NumberingInv, OpenEventsNumbered
<1>11. OpenEventsNumbered'
  BY <1>3, <1>4, <1>6, <1>9, <1>10 DEF NumberingInv, OpenEventsNumbered
<1> QED
  BY <1>7, <1>8, <1>11

\* The number of an event that is not yet committed is not in the outbox: the
\* ON CONFLICT DO NOTHING of revoke_refresh_grant never drops an event.
LEMMA NoConflicts ==
  ASSUME NumberingInv, NEW p \in Sessions, NEW e \in tx[p].events
  PROVE  ~Conflicts(e)
<1>1. e.site \in Sites
  BY DEF NumberingInv, TypeOK, Transaction, Event
<1>2. Cardinality(EventsOf(e.site)) \in Nat
  BY <1>1, FS_CardinalityType DEF NumberingInv, OutboxFinite
<1>3. e.seq \notin {f.seq : f \in EventsOf(e.site)}
  BY <1>1, <1>2 DEF NumberingInv, OpenEventsNumbered, SequencesGapless
<1> QED
  BY <1>1, <1>3 DEF Conflicts, EventsOf

\* CommitRevocation: of each site the transaction has at most one event, and its
\* number is one more than the number of events committed so far.  No
\* other transaction has an event of a site whose lock this one holds.
LEMMA CommitNumbering ==
  ASSUME NumberingInv, NEW p \in Sessions, CommitRevocation(p)
  PROVE  OutboxFinite' /\ SequencesGapless' /\ AdvisoryExclusive' /\ OpenEventsNumbered'
<1> USE DEF NumberingInv
<1>1. /\ \A q \in Sessions : q # p => tx'[q] = tx[q]
      /\ tx'[p] = Idle
      /\ outbox' = outbox \cup {e \in tx[p].events : ~Conflicts(e)}
  BY DEF CommitRevocation, TypeOK
<1>2. \A r \in Sites : Cardinality(EventsOf(r)) \in Nat
  BY FS_CardinalityType DEF OutboxFinite
<1>3. \A e \in tx[p].events : e.site \in Sites /\ ~Conflicts(e)
  BY NoConflicts DEF TypeOK, Transaction, Event
<1>4. \A r \in Sites : EventsOf(r)' = EventsOf(r) \cup {e \in tx[p].events : e.site = r}
  BY <1>1, <1>3 DEF EventsOf
<1>5. ASSUME NEW r \in Sites
      PROVE  /\ IsFiniteSet(EventsOf(r)')
             /\ {e.seq : e \in EventsOf(r)'} = 1 .. Cardinality(EventsOf(r)')
  <2> DEFINE n == Cardinality(EventsOf(r))
  <2>0. /\ IsFiniteSet(EventsOf(r)) /\ n \in Nat
        /\ {e.seq : e \in EventsOf(r)} = 1 .. n
    BY <1>2 DEF OutboxFinite, SequencesGapless
  <2>1. CASE \A e \in tx[p].events : e.site # r
    <3>1. EventsOf(r)' = EventsOf(r)
      BY <1>4, <2>1
    <3> QED
      BY <3>1, <2>0
  <2>2. ASSUME NEW e \in tx[p].events, e.site = r
        PROVE  /\ IsFiniteSet(EventsOf(r)')
               /\ {f.seq : f \in EventsOf(r)'} = 1 .. Cardinality(EventsOf(r)')
    <3>1. e.seq = n + 1 /\ {f \in tx[p].events : f.site = r} = {e}
      BY <2>2 DEF OpenEventsNumbered
    <3>2. EventsOf(r)' = EventsOf(r) \cup {e}
      BY <1>4, <3>1
    <3>3. e \notin EventsOf(r)
      BY <3>1, <2>0
    <3>4. IsFiniteSet(EventsOf(r)') /\ Cardinality(EventsOf(r)') = n + 1
      BY <2>0, <3>2, <3>3, FS_AddElement
    <3>5. {f.seq : f \in EventsOf(r)'} = (1 .. n) \cup {n + 1}
      BY <3>1, <3>2, <2>0
    <3> QED
      BY <3>4, <3>5, <2>0
  <2> QED
    BY <2>1, <2>2
<1>6. OutboxFinite' /\ SequencesGapless'
  BY <1>5 DEF OutboxFinite, SequencesGapless
<1>7. Idle.adv = {} /\ Idle.events = {}
  BY DEF Idle, Begun
<1>8. AdvisoryExclusive'
  BY <1>1, <1>7 DEF AdvisoryExclusive
<1>9. ASSUME NEW q \in Sessions, q # p, NEW e \in tx[q].events
      PROVE  EventsOf(e.site)' = EventsOf(e.site)
  <2>1. e.site \in tx[q].adv /\ e.site \in Sites
    BY <1>9 DEF OpenEventsNumbered, TypeOK, Transaction, Event
  <2>2. \A f \in tx[p].events : f.site # e.site
    BY <2>1, <1>9 DEF OpenEventsNumbered, AdvisoryExclusive
  <2> QED
    BY <1>4, <2>1, <2>2
<1>10. OpenEventsNumbered'
  BY <1>1, <1>7, <1>9 DEF OpenEventsNumbered
<1> QED
  BY <1>6, <1>8, <1>10

\* No event is numbered in an initial state, and no transaction is open.
LEMMA InitNumbering ==
  Init => NumberingInv
<1> SUFFICES ASSUME Init PROVE NumberingInv
  OBVIOUS
<1>1. TypeOK
  BY InitType
<1>2. \A s \in Sites : EventsOf(s) = {}
  BY DEF Init, EventsOf
<1>3. OutboxFinite /\ SequencesGapless
  BY <1>2, FS_EmptySet DEF OutboxFinite, SequencesGapless
<1>4. \A p \in Sessions : tx[p].adv = {} /\ tx[p].events = {}
  BY DEF Init, Idle, Begun
<1> QED
  BY <1>1, <1>3, <1>4 DEF NumberingInv, AdvisoryExclusive, OpenEventsNumbered

\* Every step keeps the numbering correct.
LEMMA StepNumbering ==
  ASSUME NumberingInv, [Next]_vars
  PROVE  NumberingInv'
<1> DEFINE Rest == OutboxFinite /\ SequencesGapless /\ AdvisoryExclusive /\ OpenEventsNumbered
<1>1. TypeOK'
  BY StepType DEF NumberingInv
<1>2. ASSUME NEW p \in Sessions, NEW t \in Transaction, t.adv = {}, t.events = {},
             tx' = [tx EXCEPT ![p] = t], outbox' = outbox
      PROVE  Rest'
  BY <1>2, QuietStep
<1>3. ASSUME tx' = tx, outbox' = outbox PROVE Rest'
  <2>1. \A s : EventsOf(s)' = EventsOf(s)
    BY <1>3 DEF EventsOf
  <2> QED
    BY <1>3, <2>1 DEF NumberingInv, OutboxFinite, SequencesGapless, AdvisoryExclusive,
                      OpenEventsNumbered
<1>4. CASE \E s \in Sites : ConnectSite(s)
  BY <1>1, <1>3, <1>4 DEF ConnectSite, NumberingInv
<1>5. CASE \E g \in Grants : LapseConsent(g)
  BY <1>1, <1>3, <1>5 DEF LapseConsent, NumberingInv
<1>6. ASSUME NEW p \in Sessions, Request(p) PROVE Rest'
  <2>1. CASE \E g \in Grants : CreatePending(p, g)
    BY <2>1, <1>2, GrantColumns DEF CreatePending, Begun, Transaction, Reasons, GrantReasons, TokenReasons
  <2>2. CASE \E g \in Grants : FindPending(p, g)
    BY <2>2, <1>2, GrantColumns DEF FindPending, Begun, Transaction, Reasons, GrantReasons, TokenReasons
  <2>3. ASSUME NEW g \in Grants, NEW why \in GrantReasons,
               \/ RevokeGrant(p, g) /\ why = "platform_user_revoked"
               \/ RevokeRefreshGrant(p, g, why)
        PROVE  Rest'
    <3> DEFINE t == Begun("announce", {g}, {}, {}, why, {SiteOf[g]})
    <3>1. t \in Transaction /\ t.adv = {} /\ t.events = {}
      BY GrantColumns DEF Begun, Transaction, Reasons
    <3>2. tx' = [tx EXCEPT ![p] = t] /\ outbox' = outbox
      BY <2>3 DEF RevokeGrant, RevokeRefreshGrant
    <3> QED
      BY <3>1, <3>2, <1>2
  <2>4. CASE \/ \E g \in Grants : RevokeGrant(p, g)
             \/ \E g \in Grants : \E why \in TokenReasons : RevokeRefreshGrant(p, g, why)
    BY <2>4, <2>3 DEF GrantReasons
  <2>5. CASE Activate(p) \/ Deny(p)
    BY <2>5, <1>2, IdleType DEF Activate, Deny
  <2>6. CASE \E s \in Sites : DisconnectSite(p, s)
    BY <2>6, <1>2, GrantColumns DEF DisconnectSite, Begun, Transaction, Reasons, GrantReasons, TokenReasons
  <2>7. CASE \E k \in Keys : RevokeKey(p, k)
    BY <2>7, <1>2, GrantColumns DEF RevokeKey, Begun, Transaction, Reasons, GrantReasons, TokenReasons
  <2> QED
    BY <1>6, <2>1, <2>2, <2>4, <2>5, <2>6, <2>7 DEF Request
<1>7. ASSUME NEW p \in Sessions, CommitCreate(p) \/ DisconnectGrants(p) \/ Abort(p) PROVE Rest'
  <2>1. CASE CommitCreate(p) \/ Abort(p)
    BY <2>1, <1>2, IdleType DEF CommitCreate, Abort
  <2>2. CASE DisconnectGrants(p)
    BY <2>2, <1>2, GrantColumns DEF DisconnectGrants, LiveGrantsOf, Begun, Transaction, Reasons, NumberingInv, TypeOK
  <2> QED
    BY <1>7, <2>1, <2>2
<1>8. ASSUME NEW p \in Sessions, NEW s \in Sites, TakeSequence(p, s) PROVE Rest'
  BY <1>8, TakeSequenceNumbering
<1>9. ASSUME NEW p \in Sessions, CommitRevocation(p) PROVE Rest'
  BY <1>9, CommitNumbering
<1>10. CASE UNCHANGED vars
  BY <1>1, <1>3, <1>10 DEF vars, NumberingInv
<1>11. CASE \E p \in Sessions : Request(p) \/ Proceed(p) \/ Abort(p)
  BY <1>1, <1>6, <1>7, <1>8, <1>9, <1>11 DEF Proceed, BreakDeadlock, NumberingInv
<1> QED
  BY <1>4, <1>5, <1>10, <1>11 DEF Next

\* In every reachable state the tables and the open transactions are well typed
\* and the events of each site are numbered 1, 2, 3, ..., whatever sessions
\* revoke, disconnect, retire keys, abort or crash at the same time.
THEOREM NumberingCorrect ==
  Spec => []NumberingInv
<1>1. NumberingInv /\ [Next]_vars => NumberingInv'
  BY StepNumbering
<1> QED
  BY InitNumbering, <1>1, PTL DEF Spec

\* Type correctness of the tables and of what open transactions have done.
THEOREM TypeCorrect ==
  Spec => []TypeOK
<1>1. NumberingInv => TypeOK
  BY DEF NumberingInv
<1> QED
  BY NumberingCorrect, <1>1, PTL

\* The monotonic site sequence of ADR-009: no event number is used twice and none
\* is left out.
THEOREM SequencesCorrect ==
  Spec => []SequencesGapless
<1>1. NumberingInv => SequencesGapless
  BY DEF NumberingInv
<1> QED
  BY NumberingCorrect, <1>1, PTL

-----------------------------------------------------------------------------
(* The safety properties that rest on the row locks: a revocation is final, *)
(* it is announced, and announced truthfully.                              *)

\* Rows that an open transaction has inserted are not there yet, rows that it has
\* updated are still as it found them, and no other transaction has them.
RowsHeld ==
    /\ \A p \in Sessions : \A g \in tx[p].rows :
          /\ Ops(p) = "create" => status[g] = "absent"
          /\ Ops(p) = "announce" => Live(g)
    /\ \A p, q \in Sessions : \A g \in tx[p].rows :
          Ops(p) \in {"create", "announce"} /\ Ops(q) = Ops(p) /\ g \in tx[q].rows => p = q

SitesHeld ==
    /\ \A p \in Sessions : \A s \in tx[p].sites : site[s] = "active"
    /\ \A p, q \in Sessions : \A s \in tx[p].sites : s \in tx[q].sites => p = q

KeysHeld ==
    /\ \A p \in Sessions : \A k \in tx[p].keys : key[k] = "usable"
    /\ \A p, q \in Sessions : \A k \in tx[p].keys : k \in tx[q].keys => p = q

\* The three kinds of revoking transaction: what each has updated, and that it
\* has inserted, or still has to insert, the events that say so.
OfGrant(t) ==
    /\ t.sites = {} /\ t.keys = {} /\ t.why \in GrantReasons
    /\ \E g \in Grants :
          /\ t.rows = {g} /\ t.todo \subseteq {SiteOf[g]}
          /\ t.todo = {} => t.events # {}
          /\ \A e \in t.events : /\ e.type = "grant" /\ e.target = g
                                 /\ e.site = SiteOf[g] /\ e.reason = t.why

OfSite(t) ==
    /\ t.keys = {} /\ t.why = "site_disconnected"
    /\ \E s \in Sites :
          /\ t.sites = {s} /\ t.todo \subseteq {s}
          /\ \A g \in t.rows : SiteOf[g] = s
          /\ t.todo = {} => t.events # {}
          /\ \A e \in t.events : /\ e.type = "site" /\ e.target = s
                                 /\ e.site = s /\ e.reason = t.why

OfKey(t) ==
    /\ t.rows = {} /\ t.sites = {} /\ t.why = "key_revoked"
    /\ \E k \in Keys : /\ t.keys = {k}
                       /\ \A e \in t.events :
                             e.type = "key" /\ e.target = k /\ e.reason = t.why

Disconnecting(t) ==
    t.rows = {} /\ t.keys = {} /\ t.events = {} /\ \E s \in Sites : t.sites = {s}

WellFormed(t) ==
    /\ t.op \in {"idle", "create", "consent"} => t.sites = {} /\ t.keys = {} /\ t.events = {}
    /\ t.op = "idle" => t.rows = {}
    /\ t.op \in {"create", "consent"} => \E g \in Grants : t.rows = {g}
    /\ t.op = "disconnect" => Disconnecting(t)
    /\ t.op = "announce" => OfGrant(t) \/ OfSite(t) \/ OfKey(t)

LocksInv == /\ RowsHeld /\ SitesHeld /\ KeysHeld
            /\ \A p \in Sessions : WellFormed(tx[p])

-----------------------------------------------------------------------------
(* Row locks *)

\* What the transaction t of session p holds is as it should be, and no other
\* transaction has it.
Compatible(p, t) ==
    /\ WellFormed(t)
    /\ \A g \in t.rows : /\ t.op = "create" => status[g] = "absent"
                         /\ t.op = "announce" => Live(g)
    /\ \A q \in Sessions \ {p} : \A g \in t.rows :
          t.op \in {"create", "announce"} => ~(Ops(q) = t.op /\ g \in tx[q].rows)
    /\ \A s \in t.sites : site[s] = "active" /\ \A q \in Sessions \ {p} : s \notin tx[q].sites
    /\ \A k \in t.keys : key[k] = "usable" /\ \A q \in Sessions \ {p} : k \notin tx[q].keys

\* A statement that only opens or continues the transaction of p keeps the
\* locks apart when what it comes to hold was free and as it should be.
LEMMA OpenStep ==
  ASSUME TypeOK, LocksInv, NEW p \in Sessions, NEW t, Compatible(p, t),
         tx' = [tx EXCEPT ![p] = t],
         UNCHANGED <<site, status, reason, lapsed, key, outbox>>
  PROVE  LocksInv'
<1> USE DEF Compatible
<1>1. \A q \in Sessions : tx'[q] = IF q = p THEN t ELSE tx[q]
  BY DEF TypeOK
<1>2. RowsHeld'
  BY <1>1 DEF LocksInv, RowsHeld, Ops, Live
<1>3. SitesHeld'
  BY <1>1 DEF LocksInv, SitesHeld
<1>4. KeysHeld'
  BY <1>1 DEF LocksInv, KeysHeld
<1>5. \A q \in Sessions : WellFormed(tx'[q])
  BY <1>1 DEF LocksInv
<1> QED
  BY <1>2, <1>3, <1>4, <1>5 DEF LocksInv

\* The end of a transaction keeps the locks apart when it changes no row that
\* another transaction holds.
LEMMA CloseStep ==
  ASSUME TypeOK, LocksInv, NEW p \in Sessions,
         tx' = [tx EXCEPT ![p] = Idle],
         \A q \in Sessions \ {p} : \A g \in tx[q].rows :
            Ops(q) \in {"create", "announce"} => status'[g] = status[g],
         \A q \in Sessions \ {p} : \A s \in tx[q].sites : site'[s] = site[s],
         \A q \in Sessions \ {p} : \A k \in tx[q].keys : key'[k] = key[k]
  PROVE  LocksInv'
<1>1. \A q \in Sessions : tx'[q] = IF q = p THEN Idle ELSE tx[q]
  BY DEF TypeOK
<1>2. /\ Idle.op = "idle" /\ Idle.rows = {} /\ Idle.sites = {} /\ Idle.keys = {}
      /\ Idle.events = {}
  BY DEF Idle, Begun
<1>3. RowsHeld'
  BY <1>1, <1>2 DEF LocksInv, RowsHeld, Ops, Live
<1>4. SitesHeld'
  BY <1>1, <1>2 DEF LocksInv, SitesHeld
<1>5. KeysHeld'
  BY <1>1, <1>2 DEF LocksInv, KeysHeld
<1>6. \A q \in Sessions : WellFormed(tx'[q])
  BY <1>1, <1>2 DEF LocksInv, WellFormed
<1> QED
  BY <1>3, <1>4, <1>5, <1>6 DEF LocksInv

\* Initially no transaction is open.
LEMMA InitLocks ==
  Init => LocksInv
<1> SUFFICES ASSUME Init PROVE LocksInv
  OBVIOUS
<1>1. \A p \in Sessions : /\ tx[p].op = "idle" /\ tx[p].rows = {} /\ tx[p].sites = {}
                          /\ tx[p].keys = {} /\ tx[p].events = {}
  BY DEF Init, Idle, Begun
<1> QED
  BY <1>1 DEF LocksInv, RowsHeld, SitesHeld, KeysHeld, WellFormed

\* The statements that begin a transaction: each waits for the rows it updates.
LEMMA RequestLocks ==
  ASSUME NumberingInv, LocksInv, NEW p \in Sessions, Request(p)
  PROVE  LocksInv'
<1> USE DEF NumberingInv
<1>1. ASSUME NEW g \in Grants, CreatePending(p, g) PROVE LocksInv'
  <2> DEFINE t == Begun("create", {g}, {}, {}, "none", {})
  <2>1. /\ t.op = "create" /\ t.rows = {g} /\ t.sites = {} /\ t.keys = {} /\ t.events = {}
        /\ WellFormed(t)
    BY DEF Begun, WellFormed
  <2>2. /\ tx' = [tx EXCEPT ![p] = t]
        /\ UNCHANGED <<site, status, reason, lapsed, key, outbox>>
        /\ status[g] = "absent" /\ ~Inserted(g)
    BY <1>1 DEF CreatePending
  <2> HIDE DEF t
  <2>3. Compatible(p, t)
    BY <2>1, <2>2 DEF Compatible, Inserted
  <2> QED
    BY <2>2, <2>3, OpenStep
<1>2. ASSUME NEW g \in Grants, FindPending(p, g) PROVE LocksInv'
  <2> DEFINE t == Begun("consent", {g}, {}, {}, "none", {})
  <2>1. /\ t.op = "consent" /\ t.rows = {g} /\ t.sites = {} /\ t.keys = {}
        /\ WellFormed(t)
    BY DEF Begun, WellFormed
  <2>2. /\ tx' = [tx EXCEPT ![p] = t]
        /\ UNCHANGED <<site, status, reason, lapsed, key, outbox>>
    BY <1>2 DEF FindPending
  <2> HIDE DEF t
  <2>3. Compatible(p, t)
    BY <2>1, <2>2 DEF Compatible
  <2> QED
    BY <2>2, <2>3, OpenStep
<1>3. ASSUME NEW g \in Grants, NEW why \in GrantReasons,
             \/ RevokeGrant(p, g) /\ why = "platform_user_revoked"
             \/ RevokeRefreshGrant(p, g, why)
      PROVE  LocksInv'
  <2> DEFINE t == Begun("announce", {g}, {}, {}, why, {SiteOf[g]})
  <2>1. /\ t.op = "announce" /\ t.rows = {g} /\ t.sites = {} /\ t.keys = {}
        /\ WellFormed(t)
    BY DEF Begun, WellFormed, OfGrant
  <2>2. /\ tx' = [tx EXCEPT ![p] = t]
        /\ UNCHANGED <<site, status, reason, lapsed, key, outbox>>
        /\ Live(g) /\ GrantRowFree(g)
    BY <1>3 DEF RevokeGrant, RevokeRefreshGrant, Live
  <2> HIDE DEF t
  <2>3. Compatible(p, t)
    BY <2>1, <2>2 DEF Compatible, GrantRowFree
  <2> QED
    BY <2>2, <2>3, OpenStep
<1>4. ASSUME Activate(p) \/ Deny(p) PROVE LocksInv'
  <2>1. PICK g \in tx[p].rows :
          /\ StillPending(g)
          /\ \/ status' = [status EXCEPT ![g] = "active"]
             \/ status' = [status EXCEPT ![g] = "revoked"]
    BY <1>4 DEF Activate, Deny
  <2>2. \A q \in Sessions : \A h \in tx[q].rows :
          Ops(q) \in {"create", "announce"} => h # g
    BY <2>1 DEF StillPending, GrantRowFree, LocksInv, RowsHeld
  <2>3. \A q \in Sessions : \A h \in tx[q].rows :
          Ops(q) \in {"create", "announce"} => status'[h] = status[h]
    BY <2>1, <2>2 DEF TypeOK, Transaction
  <2>4. tx' = [tx EXCEPT ![p] = Idle] /\ site' = site /\ key' = key
    BY <1>4 DEF Activate, Deny
  <2> QED
    BY <2>3, <2>4, CloseStep
<1>5. ASSUME NEW s \in Sites, DisconnectSite(p, s) PROVE LocksInv'
  <2> DEFINE t == Begun("disconnect", {}, {s}, {}, "site_disconnected", {s})
  <2>1. /\ t.op = "disconnect" /\ t.rows = {} /\ t.sites = {s} /\ t.keys = {}
        /\ WellFormed(t)
    BY DEF Begun, WellFormed, Disconnecting
  <2>2. /\ tx' = [tx EXCEPT ![p] = t]
        /\ UNCHANGED <<site, status, reason, lapsed, key, outbox>>
        /\ site[s] = "active" /\ SiteRowFree(s)
    BY <1>5 DEF DisconnectSite
  <2> HIDE DEF t
  <2>3. Compatible(p, t)
    BY <2>1, <2>2 DEF Compatible, SiteRowFree
  <2> QED
    BY <2>2, <2>3, OpenStep
<1>6. ASSUME NEW k \in Keys, RevokeKey(p, k) PROVE LocksInv'
  <2> DEFINE t == Begun("announce", {}, {}, {k}, "key_revoked",
                        {s \in Sites : site[s] = "active"})
  <2>1. /\ t.op = "announce" /\ t.rows = {} /\ t.sites = {} /\ t.keys = {k}
        /\ WellFormed(t)
    BY DEF Begun, WellFormed, OfKey
  <2>2. /\ tx' = [tx EXCEPT ![p] = t]
        /\ UNCHANGED <<site, status, reason, lapsed, key, outbox>>
        /\ key[k] = "usable" /\ KeyRowFree(k)
    BY <1>6 DEF RevokeKey
  <2> HIDE DEF t
  <2>3. Compatible(p, t)
    BY <2>1, <2>2 DEF Compatible, KeyRowFree
  <2> QED
    BY <2>2, <2>3, OpenStep
<1> QED
  BY <1>1, <1>2, <1>3, <1>4, <1>5, <1>6 DEF Request, GrantReasons

\* Disconnect, second statement: it waits until no other transaction holds one of
\* the grants it is about to update.
LEMMA DisconnectGrantsLocks ==
  ASSUME NumberingInv, LocksInv, NEW p \in Sessions, DisconnectGrants(p)
  PROVE  LocksInv'
<1>1. PICK s \in tx[p].sites :
        /\ \A g \in LiveGrantsOf(s) : GrantRowFree(g)
        /\ tx' = [tx EXCEPT ![p] =
              Begun("announce", LiveGrantsOf(s), {s}, {}, "site_disconnected", {s})]
  BY DEF DisconnectGrants
<1> DEFINE t == Begun("announce", LiveGrantsOf(s), {s}, {}, "site_disconnected", {s})
<1>2. /\ tx[p].sites = {s} /\ s \in Sites
  BY DEF DisconnectGrants, Ops, LocksInv, WellFormed, Disconnecting
<1>3. /\ t.op = "announce" /\ t.rows = LiveGrantsOf(s) /\ t.sites = {s} /\ t.keys = {}
      /\ WellFormed(t)
  BY <1>2 DEF Begun, WellFormed, OfSite, LiveGrantsOf
<1>4. site[s] = "active" /\ \A q \in Sessions \ {p} : s \notin tx[q].sites
  BY DEF LocksInv, SitesHeld
<1>5. \A g \in t.rows : Live(g) /\ GrantRowFree(g)
  BY <1>1, <1>3 DEF LiveGrantsOf
<1>6. /\ tx' = [tx EXCEPT ![p] = t]
      /\ UNCHANGED <<site, status, reason, lapsed, key, outbox>>
  BY <1>1 DEF DisconnectGrants
<1> HIDE DEF t
<1>7. Compatible(p, t)
  BY <1>3, <1>4, <1>5 DEF Compatible, GrantRowFree
<1> QED
  BY <1>6, <1>7, OpenStep DEF NumberingInv

\* The inserted event is the one its transaction owes.
LEMMA TakeSequenceLocks ==
  ASSUME NumberingInv, LocksInv, NEW p \in Sessions, NEW s \in Sites, TakeSequence(p, s)
  PROVE  LocksInv'
<1>1. PICK x \in Targets(tx[p]) :
        tx' = [tx EXCEPT ![p].todo = @ \ {s}, ![p].adv = @ \cup {s},
                         ![p].events = @ \cup {EventFor(tx[p], s, x)}]
  BY DEF TakeSequence
<1> DEFINE e == EventFor(tx[p], s, x)
           t == [tx[p] EXCEPT !.todo = @ \ {s}, !.adv = @ \cup {s},
                              !.events = @ \cup {e}]
<1>2. tx \in [Sessions -> Transaction] /\ tx[p] \in Transaction
  BY DEF NumberingInv, TypeOK
<1>3. /\ tx' = [tx EXCEPT ![p] = t]
      /\ UNCHANGED <<site, status, reason, lapsed, key, outbox>>
  BY <1>1, <1>2 DEF TakeSequence
<1>4. /\ t.op = "announce" /\ t.rows = tx[p].rows /\ t.sites = tx[p].sites
      /\ t.keys = tx[p].keys /\ t.why = tx[p].why
      /\ t.todo = tx[p].todo \ {s} /\ t.events = tx[p].events \cup {e}
  BY <1>2 DEF TakeSequence, Transaction, Ops
<1>5. /\ e.site = s /\ e.type = EventType(tx[p]) /\ e.target = x /\ e.reason = tx[p].why
      /\ s \in tx[p].todo /\ tx[p].op = "announce"
  BY DEF EventFor, TakeSequence, Ops
<1> HIDE DEF t, e
<1>6. OfGrant(tx[p]) => OfGrant(t)
  <2> SUFFICES ASSUME OfGrant(tx[p]) PROVE OfGrant(t)
    OBVIOUS
  <2>1. x \in tx[p].rows /\ e.type = "grant"
    BY <1>5 DEF OfGrant, Targets, EventType
  <2> QED
    BY <2>1, <1>4, <1>5 DEF OfGrant
<1>7. OfSite(tx[p]) => OfSite(t)
  <2> SUFFICES ASSUME OfSite(tx[p]) PROVE OfSite(t)
    OBVIOUS
  <2>1. x \in tx[p].sites /\ e.type = "site"
    BY <1>5 DEF OfSite, Targets, EventType
  <2> QED
    BY <2>1, <1>4, <1>5 DEF OfSite
<1>8. OfKey(tx[p]) => OfKey(t)
  <2> SUFFICES ASSUME OfKey(tx[p]) PROVE OfKey(t)
    OBVIOUS
  <2>1. x \in tx[p].keys /\ e.type = "key"
    BY <1>5 DEF OfKey, Targets, EventType
  <2> QED
    BY <2>1, <1>4, <1>5 DEF OfKey
<1>9. WellFormed(t)
  BY <1>4, <1>5, <1>6, <1>7, <1>8 DEF LocksInv, WellFormed
<1>10. /\ \A g \in t.rows : Live(g)
       /\ \A q \in Sessions \ {p} : \A g \in t.rows : ~(Ops(q) = "announce" /\ g \in tx[q].rows)
  BY <1>4, <1>5 DEF LocksInv, RowsHeld, Ops
<1>11. /\ \A r \in t.sites : site[r] = "active"
       /\ \A q \in Sessions \ {p} : \A r \in t.sites : r \notin tx[q].sites
  BY <1>4 DEF LocksInv, SitesHeld
<1>12. /\ \A k \in t.keys : key[k] = "usable"
       /\ \A q \in Sessions \ {p} : \A k \in t.keys : k \notin tx[q].keys
  BY <1>4 DEF LocksInv, KeysHeld
<1>13. Compatible(p, t)
  BY <1>4, <1>9, <1>10, <1>11, <1>12 DEF Compatible
<1> QED
  BY <1>3, <1>13, OpenStep DEF NumberingInv

\* COMMIT writes only rows that no other transaction has.
LEMMA CommitLocks ==
  ASSUME NumberingInv, LocksInv, NEW p \in Sessions, CommitCreate(p) \/ CommitRevocation(p)
  PROVE  LocksInv'
<1>1. TypeOK /\ tx' = [tx EXCEPT ![p] = Idle] /\ Ops(p) \in {"create", "announce"}
  BY DEF NumberingInv, CommitCreate, CommitRevocation
<1>2. \A q \in Sessions : /\ tx[q].rows \subseteq Grants /\ tx[q].sites \subseteq Sites
                          /\ tx[q].keys \subseteq Keys
  BY <1>1 DEF TypeOK, Transaction
<1>3. \A g \in Grants : g \notin tx[p].rows => status'[g] = status[g]
  BY <1>1 DEF CommitCreate, CommitRevocation, TypeOK
<1>4. /\ \A s \in Sites : s \notin tx[p].sites => site'[s] = site[s]
      /\ \A k \in Keys : k \notin tx[p].keys => key'[k] = key[k]
  BY <1>1 DEF CommitCreate, CommitRevocation, TypeOK
<1>5. ASSUME NEW q \in Sessions \ {p}, NEW g \in tx[q].rows,
             Ops(q) \in {"create", "announce"}
      PROVE  g \notin tx[p].rows
  BY <1>1, <1>5 DEF LocksInv, RowsHeld, Live
<1>6. ASSUME NEW q \in Sessions \ {p}
      PROVE  /\ \A s \in tx[q].sites : s \notin tx[p].sites
             /\ \A k \in tx[q].keys : k \notin tx[p].keys
  BY DEF LocksInv, SitesHeld, KeysHeld
<1> QED
  BY <1>1, <1>2, <1>3, <1>4, <1>5, <1>6, CloseStep

\* Every step keeps the locks apart and the transactions well formed.
LEMMA StepLocks ==
  ASSUME NumberingInv, LocksInv, [Next]_vars
  PROVE  LocksInv'
<1>1. TypeOK
  BY DEF NumberingInv
<1>2. ASSUME NEW s \in Sites, ConnectSite(s) PROVE LocksInv'
  <2>1. UNCHANGED <<status, key, tx>> /\ \A r \in Sites : site[r] = "active" => site'[r] = "active"
    BY <1>1, <1>2 DEF ConnectSite, TypeOK
  <2>2. \A p \in Sessions : tx[p].sites \subseteq Sites
    BY <1>1 DEF TypeOK, Transaction
  <2> QED
    BY <2>1, <2>2 DEF LocksInv, RowsHeld, SitesHeld, KeysHeld, Ops, Live
<1>3. ASSUME UNCHANGED <<site, status, key, tx>> PROVE LocksInv'
  BY <1>3 DEF LocksInv, RowsHeld, SitesHeld, KeysHeld, Ops, Live
<1>4. ASSUME NEW p \in Sessions, Abort(p) PROVE LocksInv'
  BY <1>1, <1>4, CloseStep DEF Abort
<1>5. ASSUME NEW p \in Sessions, Proceed(p) PROVE LocksInv'
  BY <1>4, <1>5, DisconnectGrantsLocks, TakeSequenceLocks, CommitLocks DEF Proceed, BreakDeadlock
<1> QED
  BY <1>2, <1>3, <1>4, <1>5, RequestLocks DEF Next, LapseConsent, vars

-----------------------------------------------------------------------------
(* A revocation is final *)

\* No step takes a row out of "revoked", changes the reason recorded in it or
\* makes an active grant pending again.
Settled ==
    /\ \A g \in Grants :
          /\ status[g] = "revoked" => status'[g] = "revoked" /\ reason'[g] = reason[g]
          /\ status[g] = "active" => status'[g] # "pending"
    /\ \A s \in Sites : site[s] = "revoked" => site'[s] = "revoked"
    /\ \A k \in Keys : key[k] = "revoked" => key'[k] = "revoked"

\* The steps of session p that write no committed row: all but the consent's
\* answer and COMMIT.
Silent(p) ==
    \/ Request(p) /\ ~Activate(p) /\ ~Deny(p)
    \/ Abort(p)
    \/ DisconnectGrants(p)
    \/ \E s \in Sites : TakeSequence(p, s)

\* What an open transaction writes is not seen before COMMIT.
LEMMA SilentTables ==
  ASSUME NEW p \in Sessions, Silent(p)
  PROVE  UNCHANGED <<site, status, reason, key, outbox>>
BY DEF Silent, Request, CreatePending, FindPending, RevokeGrant, RevokeRefreshGrant,
   DisconnectSite, RevokeKey, Abort, DisconnectGrants, TakeSequence

\* The locks keep every step from touching a row that is already revoked.
LEMMA StepSettled ==
  ASSUME NumberingInv, LocksInv, [Next]_vars
  PROVE  Settled
<1> USE DEF NumberingInv, TypeOK
<1>1. ASSUME UNCHANGED <<site, status, reason, key>> PROVE Settled
  BY <1>1 DEF Settled
<1>2. ASSUME NEW s \in Sites, ConnectSite(s) PROVE Settled
  BY <1>2 DEF ConnectSite, Settled
<1>3. ASSUME NEW p \in Sessions, Activate(p) \/ Deny(p) PROVE Settled
  <2>1. PICK g \in tx[p].rows :
          /\ StillPending(g)
          /\ \/ status' = [status EXCEPT ![g] = "active"] /\ reason' = reason
             \/ /\ status' = [status EXCEPT ![g] = "revoked"]
                /\ reason' = [reason EXCEPT ![g] = "consent_denied"]
    BY <1>3 DEF Activate, Deny
  <2>2. status[g] = "pending"
    BY <2>1 DEF StillPending
  <2>3. UNCHANGED <<site, key>>
    BY <1>3 DEF Activate, Deny
  <2> QED
    BY <2>1, <2>2, <2>3 DEF Settled
<1>4. ASSUME NEW p \in Sessions, CommitCreate(p) PROVE Settled
  <2>1. \A g \in tx[p].rows : status[g] = "absent"
    BY <1>4 DEF CommitCreate, LocksInv, RowsHeld
  <2> QED
    BY <1>4, <2>1 DEF CommitCreate, Settled
<1>5. ASSUME NEW p \in Sessions, CommitRevocation(p) PROVE Settled
  <2>1. \A g \in tx[p].rows : Live(g)
    BY <1>5 DEF CommitRevocation, LocksInv, RowsHeld
  <2> QED
    BY <1>5, <2>1 DEF CommitRevocation, Settled, Live
<1>6. ASSUME NEW p \in Sessions, Silent(p)
      PROVE  UNCHANGED <<site, status, reason, key>>
  BY <1>6, SilentTables
<1> QED
  BY <1>1, <1>2, <1>3, <1>4, <1>5, <1>6 DEF Next, Proceed, BreakDeadlock, Silent, LapseConsent, vars

-----------------------------------------------------------------------------
(* A revocation is announced, and truthfully *)

\* The target of an event is of the kind that its type names.
TargetsFit ==
    \A e \in outbox : /\ e.type = "grant" => e.target \in Grants
                      /\ e.type = "site"  => e.target \in Sites
                      /\ e.type = "key"   => e.target \in Keys

AnnouncedInv == TargetsFit /\ RevocationIsAnnounced /\ EventsTellTheTruth

SafetyInv == NumberingInv /\ LocksInv /\ AnnouncedInv

\* A step that neither commits an event nor revokes anything for which one is due
\* leaves the outbox and the tables in agreement.
LEMMA SilentStep ==
  ASSUME NumberingInv, LocksInv, AnnouncedInv, Settled, outbox' = outbox,
         \A g \in Grants : status'[g] = "revoked" =>
            status[g] = "revoked" \/ reason'[g] = "consent_denied",
         \A s \in Sites : site'[s] = "revoked" => site[s] = "revoked"
  PROVE  AnnouncedInv'
<1>1. TargetsFit'
  BY DEF AnnouncedInv, TargetsFit
<1>2. ASSUME NEW g \in Grants, status'[g] = "revoked"
      PROVE  Announced(g)'
  <2>1. CASE reason'[g] = "consent_denied"
    BY <2>1 DEF Announced
  <2>2. CASE status[g] = "revoked"
    <3>1. Announced(g) /\ reason'[g] = reason[g]
      BY <2>2 DEF AnnouncedInv, RevocationIsAnnounced, Settled
    <3> QED
      BY <3>1 DEF Announced, SiteEvent, GrantEvent
  <2> QED
    BY <1>2, <2>1, <2>2
<1>3. RevocationIsAnnounced'
  BY <1>2 DEF AnnouncedInv, RevocationIsAnnounced, SiteEvent
<1>4. EventsTellTheTruth'
  <2>1. ASSUME NEW e \in outbox
        PROVE  /\ e.type = "grant" => status'[e.target] = "revoked" /\ GrantEvent(e.target, e)'
               /\ e.type = "site"  => site'[e.target] = "revoked"
               /\ e.type = "key"   => key'[e.target] = "revoked"
    BY DEF AnnouncedInv, TargetsFit, EventsTellTheTruth, Settled, GrantEvent
  <2> QED
    BY <2>1 DEF AnnouncedInv, EventsTellTheTruth
<1> QED
  BY <1>1, <1>3, <1>4 DEF AnnouncedInv

\* COMMIT of a revocation: all its events go into the outbox, and they are about
\* rows that were still live when the transaction locked them.
LEMMA CommitAnnounces ==
  ASSUME NumberingInv, LocksInv, AnnouncedInv, Settled,
         NEW p \in Sessions, CommitRevocation(p)
  PROVE  AnnouncedInv'
<1> DEFINE t == tx[p]
<1>1. /\ t \in Transaction /\ t.op = "announce" /\ t.todo = {}
      /\ OfGrant(t) \/ OfSite(t) \/ OfKey(t)
  BY DEF NumberingInv, TypeOK, CommitRevocation, Ops, LocksInv, WellFormed
<1>2. outbox' = outbox \cup t.events
  BY NoConflicts DEF CommitRevocation
<1>3. /\ \A g \in t.rows : g \in Grants /\ Live(g)
      /\ \A s \in t.sites : s \in Sites /\ site[s] = "active"
      /\ \A k \in t.keys : k \in Keys /\ key[k] = "usable"
  BY <1>1 DEF LocksInv, RowsHeld, SitesHeld, KeysHeld, Ops, Transaction
<1>4. /\ \A g \in Grants : IF g \in t.rows
                           THEN status'[g] = "revoked" /\ reason'[g] = t.why
                           ELSE status'[g] = status[g] /\ reason'[g] = reason[g]
      /\ \A s \in Sites : site'[s] = IF s \in t.sites THEN "revoked" ELSE site[s]
      /\ \A k \in Keys : key'[k] = IF k \in t.keys THEN "revoked" ELSE key[k]
  BY DEF CommitRevocation
<1>5. \A e \in t.events :
        /\ e.type = "grant" => e.target \in t.rows /\ e.site = SiteOf[e.target]
                               /\ e.reason = t.why
        /\ e.type = "site"  => e.target \in t.sites
        /\ e.type = "key"   => e.target \in t.keys
        /\ e.type \in {"grant", "site", "key"}
  BY <1>1 DEF OfGrant, OfSite, OfKey
<1>6. \A e, f \in t.events : e.site = f.site => e = f
  BY DEF NumberingInv, OpenEventsNumbered
<1> HIDE DEF t
<1>7. TargetsFit'
  BY <1>2, <1>3, <1>5 DEF AnnouncedInv, TargetsFit
<1>8. ASSUME NEW g \in Grants, status'[g] = "revoked" PROVE Announced(g)'
  <2>1. CASE g \in t.rows
    <3>1. CASE OfGrant(t)
      BY <1>1, <1>2, <1>4, <2>1, <3>1 DEF OfGrant, Announced, GrantEvent
    <3>2. CASE OfSite(t)
      BY <1>1, <1>2, <1>4, <2>1, <3>2 DEF OfSite, Announced, SiteEvent
    <3>3. CASE OfKey(t)
      BY <2>1, <3>3 DEF OfKey
    <3> QED
      BY <1>1, <3>1, <3>2, <3>3
  <2>2. CASE g \notin t.rows
    <3>1. Announced(g) /\ reason'[g] = reason[g]
      BY <1>4, <1>8, <2>2 DEF AnnouncedInv, RevocationIsAnnounced
    <3> QED
      BY <1>2, <3>1 DEF Announced, SiteEvent, GrantEvent
  <2> QED
    BY <2>1, <2>2
<1>9. ASSUME NEW s \in Sites, site'[s] = "revoked" PROVE \E e \in outbox' : SiteEvent(s, e)
  <2>1. CASE s \in t.sites
    <3>1. OfSite(t)
      BY <1>1, <2>1 DEF OfGrant, OfKey
    <3> QED
      BY <1>1, <1>2, <2>1, <3>1 DEF OfSite, SiteEvent
  <2>2. CASE s \notin t.sites
    BY <1>2, <1>4, <1>9, <2>2 DEF AnnouncedInv, RevocationIsAnnounced
  <2> QED
    BY <2>1, <2>2
<1>10. RevocationIsAnnounced'
  BY <1>8, <1>9 DEF RevocationIsAnnounced, SiteEvent
<1>11. ASSUME NEW e \in outbox'
       PROVE  /\ e.type = "grant" => status'[e.target] = "revoked" /\ GrantEvent(e.target, e)'
              /\ e.type = "site"  => site'[e.target] = "revoked"
              /\ e.type = "key"   => key'[e.target] = "revoked"
  <2>1. CASE e \in outbox
    BY <2>1 DEF AnnouncedInv, TargetsFit, EventsTellTheTruth, Settled, GrantEvent
  <2>2. CASE e \in t.events
    BY <1>3, <1>4, <1>5, <2>2 DEF GrantEvent
  <2> QED
    BY <1>2, <1>11, <2>1, <2>2
<1>12. \A e \in outbox : \A f \in t.events : ~(e.type = f.type /\ e.target = f.target)
  BY <1>3, <1>5 DEF AnnouncedInv, EventsTellTheTruth, Live
<1>13. \A e, f \in outbox' :
         e.site = f.site /\ e.type = f.type /\ e.target = f.target => e = f
  BY <1>2, <1>6, <1>12 DEF AnnouncedInv, EventsTellTheTruth
<1>14. EventsTellTheTruth'
  BY <1>11, <1>13 DEF EventsTellTheTruth
<1> QED
  BY <1>7, <1>10, <1>14 DEF AnnouncedInv

\* Every step keeps the outbox and the tables in agreement.
LEMMA StepSafety ==
  ASSUME SafetyInv, [Next]_vars
  PROVE  SafetyInv'
<1> USE DEF SafetyInv
<1>1. NumberingInv' /\ LocksInv' /\ Settled
  BY StepNumbering, StepLocks, StepSettled
<1>2. ASSUME UNCHANGED <<site, status, reason, outbox>> PROVE AnnouncedInv'
  BY <1>1, <1>2, SilentStep
<1>3. ASSUME NEW s \in Sites, ConnectSite(s) PROVE AnnouncedInv'
  <2>1. /\ UNCHANGED <<status, reason, outbox>>
        /\ \A r \in Sites : site'[r] = "revoked" => site[r] = "revoked"
    BY <1>3 DEF ConnectSite, NumberingInv, TypeOK
  <2> QED
    BY <1>1, <2>1, SilentStep
<1>4. ASSUME NEW p \in Sessions, Activate(p) \/ Deny(p) \/ CommitCreate(p) PROVE AnnouncedInv'
  <2>1. /\ UNCHANGED <<site, outbox>>
        /\ \A g \in Grants : status'[g] = "revoked" =>
              status[g] = "revoked" \/ reason'[g] = "consent_denied"
    BY <1>4 DEF Activate, Deny, CommitCreate, NumberingInv, TypeOK
  <2> QED
    BY <1>1, <2>1, SilentStep
<1>5. ASSUME NEW p \in Sessions, CommitRevocation(p) PROVE AnnouncedInv'
  BY <1>1, <1>5, CommitAnnounces
<1>6. ASSUME NEW p \in Sessions, Silent(p)
      PROVE  UNCHANGED <<site, status, reason, outbox>>
  BY <1>6, SilentTables
<1>7. AnnouncedInv'
  BY <1>2, <1>3, <1>4, <1>5, <1>6 DEF Next, Proceed, BreakDeadlock, Silent, LapseConsent, vars
<1> QED
  BY <1>1, <1>7

\* Nothing is revoked initially and the outbox is empty.
LEMMA InitSafety ==
  Init => SafetyInv
<1> SUFFICES ASSUME Init PROVE SafetyInv
  OBVIOUS
<1>1. AnnouncedInv
  BY DEF Init, AnnouncedInv, TargetsFit, RevocationIsAnnounced, EventsTellTheTruth
<1> QED
  BY <1>1, InitNumbering, InitLocks DEF SafetyInv

\* The inductive invariant of the safety theorems: the numbering, the locks and
\* the agreement of the outbox with the tables.
THEOREM SafetyCorrect ==
  Spec => []SafetyInv
<1>1. SafetyInv /\ [Next]_vars => SafetyInv'
  BY StepSafety
<1> QED
  BY InitSafety, <1>1, PTL DEF Spec

\* ADR-009: every revoked grant and every disconnected site has its event in the
\* outbox as soon as the revocation is visible, for any number of sessions that
\* revoke, disconnect, replay and crash together.
THEOREM AnnouncementCorrect ==
  Spec => []RevocationIsAnnounced
<1>1. SafetyInv => RevocationIsAnnounced
  BY DEF SafetyInv, AnnouncedInv
<1> QED
  BY SafetyCorrect, <1>1, PTL

\* No event in the outbox speaks of a revocation that did not happen, and none is
\* there twice.
THEOREM EventsCorrect ==
  Spec => []EventsTellTheTruth
<1>1. SafetyInv => EventsTellTheTruth
  BY DEF SafetyInv, AnnouncedInv
<1> QED
  BY SafetyCorrect, <1>1, PTL

\* A revoked grant stays revoked with the reason first recorded, whatever consent
\* answer or other revocation was under way when it was revoked.
THEOREM RevocationFinal ==
  Spec => RevokedIsFinal
<1> DEFINE A == \A g \in Grants :
          /\ status[g] = "revoked" => status'[g] = "revoked" /\ reason'[g] = reason[g]
          /\ status[g] = "active" => status'[g] # "pending"
<1>1. SafetyInv /\ [Next]_vars => [A]_vars
  BY StepSettled DEF SafetyInv, Settled
<1>2. Spec => [][A]_vars
  BY SafetyCorrect, <1>1, PTL DEF Spec
<1> QED
  BY <1>2 DEF RevokedIsFinal

-----------------------------------------------------------------------------
(* One live grant for a site, subject and client *)

Taken(g) == Live(g) \/ Inserted(g)

\* The unique index of migration 004, which sees uncommitted rows too.
TupleInv == \A g, h \in Grants : SameTuple(g, h) /\ Taken(g) /\ Taken(h) => g = h

\* Only createPending takes a tuple, and only one that is free.
LEMMA StepTuple ==
  ASSUME TypeOK, TupleInv, [Next]_vars
  PROVE  TupleInv'
<1> USE DEF TypeOK, Ops
<1>1. ASSUME \A g \in Grants : Taken(g)' => Taken(g) PROVE TupleInv'
  BY <1>1 DEF TupleInv, SameTuple
<1>2. ASSUME NEW p \in Sessions, NEW g \in Grants, CreatePending(p, g) PROVE TupleInv'
  <2>1. /\ \A h \in Grants : Taken(h)' => Taken(h) \/ h = g
        /\ \A h \in Grants : SameTuple(g, h) => ~Taken(h)
    BY <1>2 DEF CreatePending, Taken, Live, Inserted, Begun
  <2> QED
    BY <2>1 DEF TupleInv, SameTuple
<1>3. ASSUME NEW p \in Sessions, NEW t, t.op # "create", tx' = [tx EXCEPT ![p] = t],
             \A g \in Grants : Live(g)' => Taken(g)
      PROVE  \A g \in Grants : Taken(g)' => Taken(g)
  BY <1>3 DEF Taken, Inserted
<1>4. Idle.op = "idle"
  BY IdleType
<1>5. ASSUME NEW p \in Sessions, Activate(p) \/ Deny(p)
      PROVE  \A g \in Grants : Taken(g)' => Taken(g)
  <2>1. PICK h \in tx[p].rows :
          /\ status[h] = "pending"
          /\ \/ status' = [status EXCEPT ![h] = "active"]
             \/ status' = [status EXCEPT ![h] = "revoked"]
    BY <1>5 DEF Activate, Deny, StillPending
  <2>2. ASSUME NEW g \in Grants, Live(g)' PROVE Live(g)
    BY <2>1, <2>2 DEF Live
  <2> QED
    BY <1>3, <1>4, <1>5, <2>2 DEF Activate, Deny, Taken
<1>6. ASSUME NEW p \in Sessions, CommitCreate(p)
      PROVE  \A g \in Grants : Taken(g)' => Taken(g)
  <2>1. \A g \in Grants : Live(g)' => Taken(g)
    BY <1>6 DEF CommitCreate, Live, Taken, Inserted
  <2> QED
    BY <1>3, <1>4, <1>6, <2>1 DEF CommitCreate
<1>7. ASSUME NEW p \in Sessions, CommitRevocation(p) \/ Abort(p)
      PROVE  \A g \in Grants : Taken(g)' => Taken(g)
  <2>1. \A g \in Grants : Live(g)' => Live(g)
    BY <1>7 DEF CommitRevocation, Abort, Live
  <2> QED
    BY <1>3, <1>4, <1>7, <2>1 DEF CommitRevocation, Abort, Taken
<1>8. ASSUME NEW p \in Sessions, NEW t, t.op # "create", tx' = [tx EXCEPT ![p] = t],
             status' = status
      PROVE  TupleInv'
  <2>1. \A g \in Grants : Live(g)' => Taken(g)
    BY <1>8 DEF Live, Taken
  <2> QED
    BY <1>1, <1>3, <1>8, <2>1
<1>9. ASSUME NEW p \in Sessions, Request(p) PROVE TupleInv'
  <2>1. CASE \E g \in Grants : FindPending(p, g)
    BY <2>1, <1>8 DEF FindPending, Begun
  <2>2. CASE \E g \in Grants : RevokeGrant(p, g)
    BY <2>2, <1>8 DEF RevokeGrant, Begun
  <2>3. CASE \E g \in Grants : \E why \in TokenReasons : RevokeRefreshGrant(p, g, why)
    BY <2>3, <1>8 DEF RevokeRefreshGrant, Begun
  <2>4. CASE \E s \in Sites : DisconnectSite(p, s)
    BY <2>4, <1>8 DEF DisconnectSite, Begun
  <2>5. CASE \E k \in Keys : RevokeKey(p, k)
    BY <2>5, <1>8 DEF RevokeKey, Begun
  <2> QED
    BY <1>1, <1>2, <1>5, <1>9, <2>1, <2>2, <2>3, <2>4, <2>5 DEF Request
<1>10. ASSUME NEW p \in Sessions, DisconnectGrants(p) PROVE TupleInv'
  BY <1>8, <1>10 DEF DisconnectGrants, Begun
<1>11. ASSUME NEW p \in Sessions, NEW s \in Sites, TakeSequence(p, s) PROVE TupleInv'
  <2>1. \A q \in Sessions : tx'[q].op = tx[q].op /\ tx'[q].rows = tx[q].rows
    BY <1>11 DEF TakeSequence, Transaction
  <2>2. status' = status
    BY <1>11 DEF TakeSequence
  <2> QED
    BY <1>1, <2>1, <2>2 DEF Taken, Live, Inserted
<1>12. ASSUME UNCHANGED <<status, tx>> PROVE TupleInv'
  BY <1>1, <1>12 DEF Taken, Live, Inserted
<1> QED
  BY <1>1, <1>6, <1>7, <1>9, <1>10, <1>11, <1>12
     DEF Next, Proceed, BreakDeadlock, ConnectSite, LapseConsent, vars

\* Migration 004: never two live grants for the same site, subject and client,
\* whatever consents begin while the old grant is being revoked.
THEOREM OneLiveGrantCorrect ==
  Spec => []OneLiveGrantPerTuple
<1>1. Init => TupleInv
  BY DEF Init, TupleInv, Taken, Live, Inserted, Ops, Idle, Begun
<1>2. TypeOK /\ TupleInv /\ [Next]_vars => TupleInv'
  BY StepTuple
<1>3. TupleInv => OneLiveGrantPerTuple
  BY DEF TupleInv, Taken, OneLiveGrantPerTuple
<1> QED
  BY TypeCorrect, <1>1, <1>2, <1>3, PTL DEF Spec

-----------------------------------------------------------------------------
(* The transactions of GrantRevocation implement the atomic steps of       *)
(* RevocationLedger: every commit is one step of the ledger, and every     *)
(* statement before it is a stutter.                                       *)

\* The sites that a key revocation visits were active when it listed them.
KnownSites ==
    \A p \in Sessions :
        tx[p].keys # {} => /\ \A s \in tx[p].todo : site[s] # "absent"
                           /\ \A e \in tx[p].events : site[e.site] # "absent"

\* A site never becomes unknown again, and only RevokeKey lists sites for a key.
LEMMA StepKnownSites ==
  ASSUME TypeOK, LocksInv, KnownSites, [Next]_vars
  PROVE  KnownSites'
<1> USE DEF TypeOK
<1>1. \A q \in Sessions : /\ tx[q].todo \subseteq Sites
                          /\ \A e \in tx[q].events : e.site \in Sites
  BY DEF Transaction, Event
<1>2. Idle.keys = {}
  BY DEF Idle, Begun
<1>3. ASSUME NEW p \in Sessions, NEW t, tx' = [tx EXCEPT ![p] = t],
             t.keys # {} => /\ \A s \in t.todo : site[s] # "absent"
                            /\ \A e \in t.events : site[e.site] # "absent",
             \A s \in Sites : site[s] # "absent" => site'[s] # "absent",
             t.todo \subseteq Sites, \A e \in t.events : e.site \in Sites
      PROVE  KnownSites'
  BY <1>1, <1>3 DEF KnownSites
<1>4. ASSUME tx' = tx, \A s \in Sites : site[s] # "absent" => site'[s] # "absent"
      PROVE  KnownSites'
  BY <1>1, <1>4 DEF KnownSites
<1>5. ASSUME NEW p \in Sessions, NEW t, t.keys = {}, tx' = [tx EXCEPT ![p] = t],
             \A s \in Sites : site[s] # "absent" => site'[s] # "absent"
      PROVE  KnownSites'
  BY <1>1, <1>5 DEF KnownSites
<1>6. ASSUME NEW s \in Sites, ConnectSite(s) PROVE KnownSites'
  BY <1>4, <1>6 DEF ConnectSite
<1>7. ASSUME NEW g \in Grants, LapseConsent(g) PROVE KnownSites'
  BY <1>4, <1>7 DEF LapseConsent
<1>8. ASSUME NEW p \in Sessions, Request(p) PROVE KnownSites'
  <2>1. CASE \E g \in Grants : CreatePending(p, g)
    BY <2>1, <1>5 DEF CreatePending, Begun
  <2>2. CASE \E g \in Grants : FindPending(p, g)
    BY <2>2, <1>5 DEF FindPending, Begun
  <2>3. CASE \E g \in Grants : RevokeGrant(p, g)
    BY <2>3, <1>5 DEF RevokeGrant, Begun
  <2>4. CASE \E g \in Grants : \E why \in TokenReasons : RevokeRefreshGrant(p, g, why)
    BY <2>4, <1>5 DEF RevokeRefreshGrant, Begun
  <2>5. CASE Activate(p) \/ Deny(p)
    BY <2>5, <1>2, <1>5 DEF Activate, Deny
  <2>6. CASE \E s \in Sites : DisconnectSite(p, s)
    BY <2>6, <1>5 DEF DisconnectSite, Begun
  <2>7. CASE \E k \in Keys : RevokeKey(p, k)
    BY <2>7, <1>3 DEF RevokeKey, Begun
  <2> QED
    BY <1>8, <2>1, <2>2, <2>3, <2>4, <2>5, <2>6, <2>7 DEF Request
<1>9. ASSUME NEW p \in Sessions, CommitCreate(p) \/ Abort(p) PROVE KnownSites'
  BY <1>2, <1>5, <1>9 DEF CommitCreate, Abort
<1>10. ASSUME NEW p \in Sessions, DisconnectGrants(p) PROVE KnownSites'
  BY <1>5, <1>10 DEF DisconnectGrants, Begun
<1>11. ASSUME NEW p \in Sessions, NEW s \in Sites, TakeSequence(p, s) PROVE KnownSites'
  <2>1. PICK x \in Targets(tx[p]) :
          tx' = [tx EXCEPT ![p].todo = @ \ {s}, ![p].adv = @ \cup {s},
                           ![p].events = @ \cup {EventFor(tx[p], s, x)}]
    BY <1>11 DEF TakeSequence
  <2> DEFINE e == EventFor(tx[p], s, x)
             t == [tx[p] EXCEPT !.todo = @ \ {s}, !.adv = @ \cup {s},
                                !.events = @ \cup {e}]
  <2>2. tx' = [tx EXCEPT ![p] = t] /\ site' = site
    BY <1>11, <2>1 DEF TakeSequence
  <2>3. e.site = s /\ s \in tx[p].todo
    BY <1>11 DEF EventFor, TakeSequence
  <2>4. /\ t.keys = tx[p].keys /\ t.todo = tx[p].todo \ {s}
        /\ t.events = tx[p].events \cup {e}
    BY DEF Transaction
  <2> HIDE DEF t, e
  <2> QED
    BY <1>1, <1>3, <2>2, <2>3, <2>4 DEF KnownSites
<1>12. ASSUME NEW p \in Sessions, CommitRevocation(p) PROVE KnownSites'
  BY <1>2, <1>5, <1>12 DEF CommitRevocation
<1>13. CASE UNCHANGED vars
  BY <1>4, <1>13 DEF vars
<1> QED
  BY <1>6, <1>7, <1>8, <1>9, <1>10, <1>11, <1>12, <1>13 DEF Next, Proceed, BreakDeadlock

RefinementInv == SafetyInv /\ KnownSites

-----------------------------------------------------------------------------
(* Commits are steps of the ledger *)

\* An event of an open transaction is the ledger's entry: it has the next number.
LEMMA EntryOfEvent ==
  ASSUME NumberingInv, NEW p \in Sessions, NEW e \in tx[p].events
  PROVE  e = Ledger!Entry(e.site, e.type, e.target, e.reason)
<1>1. e \in Event
  BY DEF NumberingInv, TypeOK, Transaction
<1>2. e.seq = Cardinality(EventsOf(e.site)) + 1
  BY DEF NumberingInv, OpenEventsNumbered
<1>3. Ledger!NextNumber(e.site) = Cardinality(EventsOf(e.site)) + 1
  BY DEF Ledger!NextNumber, EventsOf, Cardinality, Ledger!Cardinality
<1> QED
  BY <1>1, <1>2, <1>3 DEF Event, Ledger!Entry

\* The commit of one of the three kinds of revocation is one step of the ledger.
LEMMA CommitRefines ==
  ASSUME RefinementInv, NEW p \in Sessions, CommitRevocation(p)
  PROVE  Ledger!Next
<1> DEFINE t == tx[p]
<1>1. NumberingInv /\ LocksInv /\ TypeOK
  BY DEF RefinementInv, SafetyInv, NumberingInv
<1>2. /\ t \in Transaction /\ t.op = "announce" /\ t.todo = {}
      /\ OfGrant(t) \/ OfSite(t) \/ OfKey(t)
  BY <1>1 DEF TypeOK, CommitRevocation, Ops, LocksInv, WellFormed
<1>3. outbox' = outbox \cup t.events
  BY <1>1, NoConflicts DEF CommitRevocation
<1>4. /\ \A g \in t.rows : g \in Grants /\ Live(g)
      /\ \A s \in t.sites : s \in Sites /\ site[s] = "active"
      /\ \A k \in t.keys : k \in Keys /\ key[k] = "usable"
  BY <1>1, <1>2 DEF LocksInv, RowsHeld, SitesHeld, KeysHeld, Ops, Transaction
<1>5. /\ site' = [s \in Sites |-> IF s \in t.sites THEN "revoked" ELSE site[s]]
      /\ status' = [g \in Grants |-> IF g \in t.rows THEN "revoked" ELSE status[g]]
      /\ reason' = [g \in Grants |-> IF g \in t.rows THEN t.why ELSE reason[g]]
      /\ key' = [k \in Keys |-> IF k \in t.keys THEN "revoked" ELSE key[k]]
  BY DEF CommitRevocation
<1>6. \A e \in t.events : e = Ledger!Entry(e.site, e.type, e.target, e.reason)
  BY <1>1, EntryOfEvent
<1>7. \A e, f \in t.events : e.site = f.site => e = f
  BY <1>1 DEF NumberingInv, OpenEventsNumbered
<1>8. /\ t.keys # {} => \A e \in t.events : site[e.site] # "absent"
      /\ \A e \in t.events : e.site \in Sites
  BY <1>1 DEF RefinementInv, KnownSites, TypeOK, Transaction, Event
<1> HIDE DEF t
<1> USE DEF TypeOK
<1>9. CASE OfGrant(t)
  <2>1. PICK g \in Grants :
          /\ t.rows = {g} /\ t.events # {}
          /\ \A e \in t.events : /\ e.type = "grant" /\ e.target = g
                                 /\ e.site = SiteOf[g] /\ e.reason = t.why
    BY <1>2, <1>9 DEF OfGrant
  <2>2. t.events = {Ledger!Entry(SiteOf[g], "grant", g, t.why)}
    BY <1>6, <1>7, <2>1
  <2>3. t.sites = {} /\ t.keys = {} /\ t.why \in GrantReasons
    BY <1>9 DEF OfGrant
  <2>4. site' = site /\ key' = key
    BY <1>1, <1>5, <2>3
  <2>5. /\ status' = [status EXCEPT ![g] = "revoked"]
        /\ reason' = [reason EXCEPT ![g] = t.why]
    BY <1>1, <1>5, <2>1
  <2>6. Ledger!RevokeGrant(g, t.why)
    BY <1>3, <1>4, <2>1, <2>2, <2>4, <2>5 DEF Ledger!RevokeGrant, Ledger!Live, Live
  <2> QED
    BY <2>3, <2>6 DEF Ledger!Next, GrantReasons, TokenReasons
<1>10. CASE OfSite(t)
  <2>1. PICK s \in Sites :
          /\ t.sites = {s} /\ t.events # {}
          /\ \A g \in t.rows : SiteOf[g] = s
          /\ \A e \in t.events : /\ e.type = "site" /\ e.target = s
                                 /\ e.site = s /\ e.reason = t.why
    BY <1>2, <1>10 DEF OfSite
  <2>2. t.keys = {} /\ t.why = "site_disconnected"
    BY <1>10 DEF OfSite
  <2>3. t.events = {Ledger!Entry(s, "site", s, "site_disconnected")}
    BY <1>6, <1>7, <2>1, <2>2
  <2>4. key' = key /\ site' = [site EXCEPT ![s] = "revoked"]
    BY <1>1, <1>5, <2>1, <2>2
  <2>5. Ledger!Disconnect(s, t.rows)
    BY <1>3, <1>4, <1>5, <2>1, <2>2, <2>3, <2>4 DEF Ledger!Disconnect, Ledger!Live, Live
  <2>6. t.rows \in SUBSET Grants
    BY <1>4
  <2> QED
    BY <2>5, <2>6 DEF Ledger!Next
<1>11. CASE OfKey(t)
  <2>1. PICK k \in Keys :
          /\ t.keys = {k}
          /\ \A e \in t.events : e.type = "key" /\ e.target = k /\ e.reason = t.why
    BY <1>11 DEF OfKey
  <2>2. t.rows = {} /\ t.sites = {} /\ t.why = "key_revoked"
    BY <1>11 DEF OfKey
  <2> DEFINE T == {e.site : e \in t.events}
  <2>3. \A e \in t.events : e = Ledger!Entry(e.site, "key", k, "key_revoked")
    BY <1>6, <2>1, <2>2
  <2>4. t.events = {Ledger!Entry(s, "key", k, "key_revoked") : s \in T}
    BY <2>3
  <2>5. /\ site' = site /\ status' = status /\ reason' = reason
        /\ key' = [key EXCEPT ![k] = "revoked"]
    BY <1>1, <1>5, <2>1, <2>2
  <2>6. T \in SUBSET Sites /\ \A s \in T : site[s] # "absent"
    BY <1>8, <2>1
  <2>7. Ledger!RevokeKey(k, T)
    BY <1>3, <1>4, <2>1, <2>4, <2>5, <2>6 DEF Ledger!RevokeKey
  <2> QED
    BY <2>6, <2>7 DEF Ledger!Next
<1> QED
  BY <1>2, <1>9, <1>10, <1>11

\* The other steps: the consent is asked for, answered, or nothing is committed.
LEMMA StepRefines ==
  ASSUME RefinementInv, [Next]_vars
  PROVE  [Ledger!Next]_(Ledger!ledger)
<1>1. TypeOK /\ LocksInv
  BY DEF RefinementInv, SafetyInv, NumberingInv
<1>2. ASSUME NEW s \in Sites, ConnectSite(s) PROVE Ledger!Next
  BY <1>2 DEF ConnectSite, Ledger!Next, Ledger!Connect
<1>3. ASSUME NEW p \in Sessions, CommitCreate(p) PROVE Ledger!Next
  <2>1. PICK g \in Grants : tx[p].rows = {g} /\ status[g] = "absent"
    BY <1>1, <1>3 DEF CommitCreate, LocksInv, WellFormed, RowsHeld, Ops
  <2>2. status' = [status EXCEPT ![g] = "pending"]
    BY <1>1, <1>3, <2>1 DEF CommitCreate, TypeOK
  <2>3. Ledger!Open(g)
    BY <1>3, <2>1, <2>2 DEF CommitCreate, Ledger!Open
  <2> QED
    BY <2>3 DEF Ledger!Next
<1>4. ASSUME NEW p \in Sessions, Activate(p) \/ Deny(p) PROVE Ledger!Next
  <2>1. PICK g \in tx[p].rows :
          /\ status[g] = "pending"
          /\ \/ /\ status' = [status EXCEPT ![g] = "active"]
                /\ UNCHANGED <<site, reason, key, outbox>>
             \/ /\ status' = [status EXCEPT ![g] = "revoked"]
                /\ reason' = [reason EXCEPT ![g] = "consent_denied"]
                /\ UNCHANGED <<site, key, outbox>>
    BY <1>4 DEF Activate, Deny, StillPending
  <2>2. g \in Grants /\ (Ledger!Approve(g) \/ Ledger!Deny(g))
    BY <1>1, <2>1 DEF TypeOK, Transaction, Ledger!Approve, Ledger!Deny
  <2> QED
    BY <2>2 DEF Ledger!Next
<1>5. ASSUME NEW p \in Sessions, CommitRevocation(p) PROVE Ledger!Next
  BY <1>5, CommitRefines
<1>6. ASSUME NEW p \in Sessions, Silent(p)
      PROVE  UNCHANGED <<site, status, reason, key, outbox>>
  BY <1>6, SilentTables
<1>7. Ledger!Next \/ UNCHANGED <<site, status, reason, key, outbox>>
  BY <1>2, <1>3, <1>4, <1>5, <1>6 DEF Next, Proceed, BreakDeadlock, Silent, LapseConsent, vars
<1> QED
  BY <1>7 DEF Ledger!ledger

\* Whatever the sessions interleave, the committed tables change as if every
\* consent, revocation, disconnect and key revocation were one atomic step that
\* writes the rows and enqueues their events together.
THEOREM LedgerImplemented ==
  Spec => ImplementsLedger
<1>1. Init => KnownSites
  BY DEF Init, KnownSites, Idle, Begun
<1>2. SafetyInv /\ KnownSites /\ [Next]_vars => KnownSites'
  BY StepKnownSites DEF SafetyInv, NumberingInv
<1>3. Spec => []RefinementInv
  BY SafetyCorrect, <1>1, <1>2, PTL DEF Spec, RefinementInv
<1>4. Init => Ledger!Init
  BY DEF Init, Ledger!Init
<1>5. RefinementInv /\ [Next]_vars => [Ledger!Next]_(Ledger!ledger)
  BY StepRefines
<1>6. Spec => Ledger!Spec
  BY <1>3, <1>4, <1>5, PTL DEF Spec, Ledger!Spec
<1> QED
  BY <1>6 DEF ImplementsLedger

-----------------------------------------------------------------------------
(* Waiting.  A transaction waits for row locks (DisconnectGrants) or for an *)
(* advisory lock (TakeSequence); nobody is left waiting for ever.           *)

\* Only a transaction that takes its numbers holds advisory locks, it never waits
\* for one of its own, and only the loop of revoke_signing_key takes more than one.
WaitInv ==
    \A p \in Sessions :
        /\ Ops(p) # "announce" => tx[p].adv = {}
        /\ tx[p].todo \cap tx[p].adv = {}
        /\ Ops(p) = "announce" /\ tx[p].keys = {} =>
              \E s \in Sites : tx[p].todo \cup tx[p].adv \subseteq {s}

\* The guards of the steps of Proceed, without the detector's.
HasLocks(p) ==
    \/ Ops(p) = "create"
    \/ Ops(p) = "disconnect" /\ \E s \in tx[p].sites :
                                   \A g \in LiveGrantsOf(s) : GrantRowFree(g)
    \/ Ops(p) = "announce" /\ \E s \in tx[p].todo : AdvisoryFree(s) /\ Targets(tx[p]) # {}
    \/ Ops(p) = "announce" /\ tx[p].todo = {} /\ Insertable(p)

\* Nobody waits without end: while a revocation is open, some session has the
\* locks its next step needs, or the waiting sessions form a ring that the
\* deadlock detector finds.
SomebodyGoesOn ==
    (\E p \in Sessions : Ops(p) \in {"disconnect", "announce"}) =>
        \E q \in Sessions : HasLocks(q) \/ Deadlocked(q)

\* What a step does to one transaction keeps WaitInv when the new one obeys it.
LEMMA WaitStep ==
  ASSUME TypeOK, WaitInv, NEW p \in Sessions, NEW t, tx' = [tx EXCEPT ![p] = t],
         t.op # "announce" => t.adv = {},
         t.todo \cap t.adv = {},
         t.op = "announce" /\ t.keys = {} => \E s \in Sites : t.todo \cup t.adv \subseteq {s}
  PROVE  WaitInv'
<1>1. \A q \in Sessions : tx'[q] = IF q = p THEN t ELSE tx[q]
  BY DEF TypeOK
<1> QED
  BY <1>1 DEF WaitInv, Ops

\* Every step keeps WaitInv: only TakeSequence takes an advisory lock, that of a
\* site it strikes off its list.
LEMMA StepWait ==
  ASSUME TypeOK, WaitInv, [Next]_vars
  PROVE  WaitInv'
<1> USE GrantColumns
<1>1. /\ Idle.op = "idle" /\ Idle.adv = {} /\ Idle.todo = {}
  BY DEF Idle, Begun
<1>2. ASSUME tx' = tx PROVE WaitInv'
  BY <1>2 DEF WaitInv, Ops
<1>3. ASSUME NEW p \in Sessions, tx' = [tx EXCEPT ![p] = Idle] PROVE WaitInv'
  BY <1>1, <1>3, WaitStep
<1>4. ASSUME NEW p \in Sessions, NEW op, NEW rows, NEW sites, NEW keys, NEW why, NEW todo,
             tx' = [tx EXCEPT ![p] = Begun(op, rows, sites, keys, why, todo)],
             op = "announce" /\ keys = {} => \E s \in Sites : todo \subseteq {s}
      PROVE  WaitInv'
  <2> DEFINE t == Begun(op, rows, sites, keys, why, todo)
  <2>1. t.op = op /\ t.keys = keys /\ t.todo = todo /\ t.adv = {}
    BY DEF Begun
  <2>2. tx' = [tx EXCEPT ![p] = t]
    BY <1>4
  <2>3. t.todo \cap t.adv = {} /\ t.todo \cup t.adv = todo
    BY <2>1
  <2>4. t.op = "announce" /\ t.keys = {} => \E s \in Sites : t.todo \cup t.adv \subseteq {s}
    BY <1>4, <2>1, <2>3
  <2>5. t.op # "announce" => t.adv = {}
    BY <2>1
  <2> HIDE DEF t
  <2> QED
    BY ONLY TypeOK, WaitInv, <2>2, <2>3, <2>4, <2>5, WaitStep
<1>5. ASSUME NEW p \in Sessions, Request(p) PROVE WaitInv'
  <2>1. CASE \E g \in Grants : CreatePending(p, g) \/ FindPending(p, g)
    BY <2>1, <1>4 DEF CreatePending, FindPending
  <2>2. ASSUME NEW g \in Grants, NEW why,
               \/ RevokeGrant(p, g) /\ why = "platform_user_revoked"
               \/ RevokeRefreshGrant(p, g, why)
        PROVE  WaitInv'
    <3>1. tx' = [tx EXCEPT ![p] = Begun("announce", {g}, {}, {}, why, {SiteOf[g]})]
      BY <2>2 DEF RevokeGrant, RevokeRefreshGrant
    <3>2. \E s \in Sites : {SiteOf[g]} \subseteq {s}
      OBVIOUS
    <3> QED
      BY ONLY <3>1, <3>2, <1>4
  <2>3. CASE \E g \in Grants : \/ RevokeGrant(p, g)
                               \/ \E why \in TokenReasons : RevokeRefreshGrant(p, g, why)
    BY <2>2, <2>3
  <2>4. CASE Activate(p) \/ Deny(p)
    BY <2>4, <1>3 DEF Activate, Deny
  <2>5. ASSUME NEW s \in Sites, DisconnectSite(p, s) PROVE WaitInv'
    BY <2>5, <1>4 DEF DisconnectSite
  <2>6. ASSUME NEW k \in Keys, RevokeKey(p, k) PROVE WaitInv'
    BY <2>6, <1>4 DEF RevokeKey
  <2> QED
    BY <1>5, <2>1, <2>3, <2>4, <2>5, <2>6 DEF Request
<1>6. ASSUME NEW p \in Sessions, CommitCreate(p) \/ CommitRevocation(p) \/ Abort(p)
      PROVE  WaitInv'
  BY <1>6, <1>3 DEF CommitCreate, CommitRevocation, Abort
<1>7. ASSUME NEW p \in Sessions, DisconnectGrants(p) PROVE WaitInv'
  <2>1. PICK s \in tx[p].sites :
          tx' = [tx EXCEPT ![p] =
                   Begun("announce", LiveGrantsOf(s), {s}, {}, "site_disconnected", {s})]
    BY <1>7 DEF DisconnectGrants
  <2>2. s \in Sites
    BY DEF TypeOK, Transaction
  <2>3. PICK t : t = Begun("announce", LiveGrantsOf(s), {s}, {}, "site_disconnected", {s})
    OBVIOUS
  <2>4. t.todo = {s} /\ t.adv = {} /\ t.op = "announce"
    BY <2>3 DEF Begun
  <2>5. tx' = [tx EXCEPT ![p] = t]
    BY <2>1, <2>3
  <2>6. t.todo \cap t.adv = {} /\ \E r \in Sites : t.todo \cup t.adv \subseteq {r}
    BY <2>2, <2>4
  <2> QED
    BY <2>4, <2>5, <2>6, WaitStep
<1>8. ASSUME NEW p \in Sessions, NEW s \in Sites, TakeSequence(p, s) PROVE WaitInv'
  <2>1. PICK x \in Targets(tx[p]) :
          tx' = [tx EXCEPT ![p].todo = @ \ {s}, ![p].adv = @ \cup {s},
                           ![p].events = @ \cup {EventFor(tx[p], s, x)}]
    BY <1>8 DEF TakeSequence
  <2> DEFINE t == [tx[p] EXCEPT !.todo = @ \ {s}, !.adv = @ \cup {s},
                                !.events = @ \cup {EventFor(tx[p], s, x)}]
  <2>2. tx' = [tx EXCEPT ![p] = t]
    BY <2>1
  <2>3. /\ t.op = tx[p].op /\ t.keys = tx[p].keys
        /\ t.todo = tx[p].todo \ {s} /\ t.adv = tx[p].adv \cup {s}
    BY DEF TypeOK, Transaction
  <2>4. tx[p].op = "announce" /\ s \in tx[p].todo
    BY <1>8 DEF TakeSequence, Ops
  <2> HIDE DEF t
  <2>5. t.todo \cap t.adv = {}
    BY <2>3 DEF WaitInv
  <2>6. t.op = "announce" /\ t.keys = {} => \E r \in Sites : t.todo \cup t.adv \subseteq {r}
    BY <2>3, <2>4 DEF WaitInv, Ops
  <2> QED
    BY <2>2, <2>3, <2>4, <2>5, <2>6, WaitStep
<1>9. CASE UNCHANGED vars
  BY <1>2, <1>9 DEF vars
<1>10. ASSUME (\E s \in Sites : ConnectSite(s)) \/ (\E g \in Grants : LapseConsent(g))
       PROVE  WaitInv'
  BY <1>2, <1>10 DEF ConnectSite, LapseConsent
<1> QED
  BY <1>5, <1>6, <1>7, <1>8, <1>9, <1>10 DEF Next, Proceed, BreakDeadlock

\* A revocation that has its row locks and still has to take a number knows what
\* its event is about.
LEMMA TargetsKnown ==
  ASSUME LocksInv, NEW p \in Sessions, Ops(p) = "announce"
  PROVE  Targets(tx[p]) # {}
<1>1. OfGrant(tx[p]) \/ OfSite(tx[p]) \/ OfKey(tx[p])
  BY DEF LocksInv, WellFormed, Ops
<1> QED
  BY <1>1 DEF OfGrant, OfSite, OfKey, Targets, EventType

\* A transaction that waits for row locks waits for one that takes its numbers,
\* and that one waits, if at all, for another of its kind.
LEMMA WaitersProceed ==
  ASSUME SafetyInv, WaitInv
  PROVE  SomebodyGoesOn
<1> SUFFICES ASSUME NEW p \in Sessions, Ops(p) \in {"disconnect", "announce"},
                    \A q \in Sessions : ~HasLocks(q)
             PROVE  \E q \in Sessions : Deadlocked(q)
  BY DEF SomebodyGoesOn
<1> USE DEF SafetyInv
<1>1. PICK a \in Sessions : Ops(a) = "announce"
  <2>1. CASE Ops(p) = "announce"
    BY <2>1
  <2>2. CASE Ops(p) = "disconnect"
    <3>1. PICK s \in Sites : tx[p].sites = {s}
      BY <2>2 DEF LocksInv, WellFormed, Disconnecting, Ops
    <3>2. PICK g \in LiveGrantsOf(s) : ~GrantRowFree(g)
      BY <2>2, <3>1 DEF HasLocks
    <3> QED
      BY <3>2 DEF GrantRowFree
  <2> QED
    BY <2>1, <2>2
<1> DEFINE ring == {q \in Sessions : Ops(q) = "announce"}
<1>2. ASSUME NEW q \in ring
      PROVE  /\ tx[q].todo # {}
             /\ \A s \in tx[q].todo : \E r \in ring \ {q} : s \in tx[r].adv
  <2>1. \A e \in tx[q].events : ~Conflicts(e)
    BY NoConflicts
  <2>2. tx[q].todo # {}
    BY <2>1 DEF HasLocks, Insertable
  <2>3. ASSUME NEW s \in tx[q].todo PROVE \E r \in ring \ {q} : s \in tx[r].adv
    <3>1. ~AdvisoryFree(s)
      BY TargetsKnown DEF HasLocks
    <3>2. PICK r \in Sessions : s \in tx[r].adv
      BY <3>1 DEF AdvisoryFree
    <3> QED
      BY <3>2 DEF WaitInv
  <2> QED
    BY <2>2, <2>3
<1> QED
  BY <1>1, <1>2 DEF Deadlocked

\* The rows of grants, sites and keys and the per-site advisory lock are never
\* waited for in a ring that nobody breaks: while revoke_grant_with_event,
\* disconnect_site_with_event or revoke_signing_key is under way, one transaction
\* has the locks of its next statement, or PostgreSQL's detector has a ring to break.
THEOREM NobodyStuck ==
  Spec => []SomebodyGoesOn
<1>1. Init => WaitInv
  BY DEF Init, WaitInv, Ops, Idle, Begun
<1>2. SafetyInv /\ WaitInv /\ [Next]_vars => WaitInv'
  BY StepWait DEF SafetyInv, NumberingInv
<1>3. SafetyInv /\ WaitInv => SomebodyGoesOn
  BY WaitersProceed
<1> QED
  BY SafetyCorrect, <1>1, <1>2, <1>3, PTL DEF Spec
=============================================================================
