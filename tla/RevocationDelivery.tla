------------------------- MODULE RevocationDelivery -------------------------
(***************************************************************************)
(* How committed outbox rows reach the WordPress connectors: the           *)
(* RevocationWorker of every authorization-service process claims rows     *)
(* under a two-minute lease, signs and posts them, and marks or            *)
(* reschedules each one.  Processes die, requests are lost or arrive after *)
(* the worker has given up on them, and leases run out while a slow worker *)
(* still holds its batch.                                                  *)
(*                                                                         *)
(* Time is abstract: a lease lapses and a back-off elapses at some later   *)
(* moment.  An event is its outbox id.                                     *)
(***************************************************************************)
EXTENDS Integers, FiniteSets, FiniteSetsExt

CONSTANTS
    LastId,       \* outbox ids are 1 .. LastId
    SiteOf,       \* the site of an event
    Workers,      \* authorization-service processes
    BatchLimit,   \* LIMIT of claim (20)
    MaxAttempts,  \* claims an event gets (20)
    InOrder       \* does RETURNING list a batch in id order?  SQL leaves it open

Events == 1 .. LastId
Sites  == {SiteOf[e] : e \in Events}

ASSUME DeliveryConstants == /\ LastId \in Nat
                            /\ DOMAIN SiteOf = Events
                            /\ BatchLimit \in Nat \ {0}
                            /\ MaxAttempts \in Nat \ {0}
                            /\ InOrder \in BOOLEAN

VARIABLES
    committed,  \* rows of oauth.revocation_outbox
    delivered,  \* delivered_at IS NOT NULL
    attempts,   \* attempts
    lock,       \* locked_at: NULL, within two minutes, older
    due,        \* not_before <= now()
    worker,     \* what each worker's runOnce is doing
    late,       \* requests still on their way whose worker no longer listens
    cursor,     \* the connector's last accepted sequence, by site
    applied     \* the events the connectors have applied

vars == <<committed, delivered, attempts, lock, due, worker, late, cursor, applied>>
row  == <<committed, delivered, attempts, lock, due>>

\* batch: claimed and not handled yet; now: the event in hand; phase: whether it
\* was posted and what the connector answered.
Asleep == [batch |-> {}, now |-> 0, phase |-> "none"]

TypeOK ==
    /\ committed \subseteq Events /\ delivered \subseteq committed
    /\ attempts \in [Events -> 0 .. MaxAttempts]
    /\ lock \in [Events -> {"free", "held", "lapsed"}]
    /\ due \subseteq Events
    /\ worker \in [Workers -> [batch: SUBSET Events, now: Events \cup {0},
                               phase: {"none", "posted", "accepted", "refused"}]]
    /\ late \subseteq Events
    /\ cursor \in [Sites -> 0 .. LastId]
    /\ applied \subseteq Events

\* event_sequence: ids and sequences of a site grow together, because both are
\* taken under its advisory lock.
Sequence(e) == Cardinality({f \in 1 .. e : SiteOf[f] = SiteOf[e]})

-----------------------------------------------------------------------------
(* The outbox table *)

\* A revoking transaction commits its event.
Commit(e) ==
    /\ e \notin committed
    /\ \A f \in 1 .. e - 1 : SiteOf[f] = SiteOf[e] => f \in committed
    /\ committed' = committed \cup {e}
    /\ due' = due \cup {e}
    /\ UNCHANGED <<delivered, attempts, lock, worker, late, cursor, applied>>

LeaseLapses(e) ==
    /\ lock[e] = "held"
    /\ lock' = [lock EXCEPT ![e] = "lapsed"]
    /\ UNCHANGED <<committed, delivered, attempts, due, worker, late, cursor, applied>>

BackoffElapses(e) ==
    /\ e \in committed \ due
    /\ due' = due \cup {e}
    /\ UNCHANGED <<committed, delivered, attempts, lock, worker, late, cursor, applied>>

\* Mutant of Claimable: a lease never runs out.
ClaimableIfFree(e) ==
    e \in (committed \ delivered) \cap due /\ attempts[e] < MaxAttempts /\ lock[e] = "free"

Claimable(e) ==
    /\ e \in committed \ delivered
    /\ e \in due
    /\ attempts[e] < MaxAttempts
    /\ lock[e] # "held"

\* Mutant: UPDATE ... WHERE id = $1.
RescheduleAnyway(e) ==
    /\ lock' = [lock EXCEPT ![e] = "free"]
    /\ due' = due \ {e}
    /\ delivered' = delivered \ {e}
    /\ UNCHANGED <<committed, attempts>>

\* The WHERE ... AND delivered_at IS NULL of reschedule and of markDelivered: a
\* worker whose lease another has taken over may come late with either.
Reschedule(e) ==
    IF e \in delivered THEN UNCHANGED row
    ELSE /\ lock' = [lock EXCEPT ![e] = "free"]
         /\ due' = due \ {e}
         /\ UNCHANGED <<committed, delivered, attempts>>

MarkDelivered(e) ==
    /\ delivered' = delivered \cup {e}
    /\ lock' = IF e \in delivered THEN lock ELSE [lock EXCEPT ![e] = "free"]
    /\ UNCHANGED <<committed, attempts, due>>

-----------------------------------------------------------------------------
(* RevocationWorker.runOnce *)

\* The BatchLimit claimable rows with the lowest ids.
Batch == LET open == {e \in Events : Claimable(e)}
         IN  {e \in open : Cardinality({f \in open : f < e}) < BatchLimit}

Claim(w) ==
    /\ worker[w] = Asleep
    /\ Batch # {}
    /\ worker' = [worker EXCEPT ![w].batch = Batch]
    /\ lock' = [e \in Events |-> IF e \in Batch THEN "held" ELSE lock[e]]
    /\ attempts' = [e \in Events |-> IF e \in Batch THEN attempts[e] + 1 ELSE attempts[e]]
    /\ UNCHANGED <<committed, delivered, due, late, cursor, applied>>

Upcoming(w, e) ==
    /\ worker[w].phase = "none" /\ e \in worker[w].batch
    /\ InOrder => \A f \in worker[w].batch : e <= f

\* The process's key is no longer the active one, or custody fails.
SignFails(w, e) ==
    /\ Upcoming(w, e)
    /\ Reschedule(e)
    /\ worker' = [worker EXCEPT ![w].batch = @ \ {e}]
    /\ UNCHANGED <<late, cursor, applied>>

Post(w, e) ==
    /\ Upcoming(w, e)
    /\ worker' = [worker EXCEPT ![w] = [batch |-> worker[w].batch \ {e},
                                        now |-> e, phase |-> "posted"]]
    /\ UNCHANGED <<row, late, cursor, applied>>

\* On to the next event of the batch.
Done(w) == worker' = [worker EXCEPT ![w] = [Asleep EXCEPT !.batch = worker[w].batch]]

\* Mutant: any answer will do.
DeliveredIfAnswered(w) ==
    /\ worker[w].phase \in {"accepted", "refused"}
    /\ MarkDelivered(worker[w].now)
    /\ Done(w)
    /\ UNCHANGED <<late, cursor, applied>>

\* Status 204.
Delivered(w) ==
    /\ worker[w].phase = "accepted"
    /\ MarkDelivered(worker[w].now)
    /\ Done(w)
    /\ UNCHANGED <<late, cursor, applied>>

\* Any other status; or the answer is lost after the connector acted, or
\* markDelivered itself fails, which the same catch block takes for a failed
\* delivery.
Refused(w) ==
    /\ worker[w].phase \in {"accepted", "refused"}
    /\ Reschedule(worker[w].now)
    /\ Done(w)
    /\ UNCHANGED <<late, cursor, applied>>

\* Five seconds without an answer.  The request is lost, or arrives later.
TimesOut(w) ==
    /\ worker[w].phase = "posted"
    /\ Reschedule(worker[w].now)
    /\ Done(w)
    /\ late' \in {late, late \cup {worker[w].now}}
    /\ UNCHANGED <<cursor, applied>>

\* The process dies and its successor starts over, or the UPDATE of reschedule
\* fails and runOnce rejects: the rows it had claimed stay locked until the lease
\* lapses.
Crash(w) ==
    /\ worker[w] # Asleep
    /\ worker' = [worker EXCEPT ![w] = Asleep]
    /\ late' \in IF worker[w].phase = "posted" THEN {late, late \cup {worker[w].now}}
                 ELSE {late}
    /\ UNCHANGED <<row, cursor, applied>>

-----------------------------------------------------------------------------
(* The connector (external): an event newer than the last one it accepted is *)
(* applied, the same one again is acknowledged, an older one is refused.      *)

Acceptable(e) == Sequence(e) >= cursor[SiteOf[e]]

Receive(e) ==
    IF Acceptable(e)
    THEN /\ cursor' = [cursor EXCEPT ![SiteOf[e]] = Sequence(e)]
         /\ applied' = applied \cup {e}
    ELSE UNCHANGED <<cursor, applied>>

Arrive(w) ==
    /\ worker[w].phase = "posted"
    /\ Receive(worker[w].now)
    /\ worker' = [worker EXCEPT ![w].phase =
                    IF Acceptable(worker[w].now) THEN "accepted" ELSE "refused"]
    /\ UNCHANGED <<row, late>>

ArriveLate(e) ==
    /\ e \in late
    /\ Receive(e)
    /\ late' = late \ {e}
    /\ UNCHANGED <<row, worker>>

-----------------------------------------------------------------------------

Init ==
    /\ committed = {} /\ delivered = {} /\ due = {}
    /\ attempts = [e \in Events |-> 0]
    /\ lock = [e \in Events |-> "free"]
    /\ worker = [w \in Workers |-> Asleep]
    /\ late = {} /\ applied = {}
    /\ cursor = [s \in Sites |-> 0]

\* What a running worker does next with the event in hand.
Work(w) ==
    \/ \E e \in Events : SignFails(w, e) \/ Post(w, e)
    \/ Delivered(w) \/ Refused(w) \/ TimesOut(w)

Next ==
    \/ \E e \in Events : Commit(e) \/ LeaseLapses(e) \/ BackoffElapses(e) \/ ArriveLate(e)
    \/ \E w \in Workers : Claim(w) \/ Work(w) \/ Arrive(w) \/ Crash(w)

Spec == Init /\ [][Next]_vars

\* The timer of every process calls runOnce every two seconds, a posted request
\* is answered or times out, and clocks advance.  Nothing is assumed of the
\* network, of key custody or of how often processes die.
FairSpec ==
    /\ Spec
    /\ \A w \in Workers : WF_vars(Claim(w)) /\ WF_vars(Work(w))
    /\ \A e \in Events : WF_vars(LeaseLapses(e)) /\ WF_vars(BackoffElapses(e))

-----------------------------------------------------------------------------
(* Properties *)

\* delivered_at is written only for an event its connector has applied, although
\* answers are lost, requests arrive late and two workers may hold one event.
DeliveredIsApplied == delivered \subseteq applied

\* A delivered row is left alone for ever: not claimed, not rescheduled, not
\* counted again, also when a worker whose lease ran out reports afterwards.
DeliveredIsFinal ==
    [][\A e \in delivered : /\ e \in delivered'
                            /\ attempts'[e] = attempts[e]
                            /\ lock'[e] = lock[e]]_vars

\* "At-least-once with bounded retry" (ADR-009): every committed event ends
\* delivered or with all its attempts spent, however often workers crash or
\* signing fails; no event is forgotten under a lock nobody releases.
EverySettles ==
    \A e \in Events : e \in committed ~> e \in delivered \/ attempts[e] = MaxAttempts

\* An event that was not applied can still be: the connector has not accepted a
\* later one of the site.  "Delivery is at-least-once" (ADR-009) needs this, as
\* "older events fail closed" (same place).  It does not hold: a rescheduled event
\* waits for its back-off while the next one of the site is claimed and sent.
NoEventOvertaken ==
    \A e \in committed \ applied : Sequence(e) > cursor[SiteOf[e]]
=============================================================================
