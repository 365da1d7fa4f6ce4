---------------------- MODULE RevocationDeliveryProofs ----------------------
(***************************************************************************)
(* Proofs about RevocationDelivery for any number of events, sites and     *)
(* workers, any batch size and any number of attempts, in whatever order a *)
(* batch is listed.  AnswerInv carries what a connector did from its answer*)
(* to the row; FreeInv is why a delivered row stays as it is: nobody holds *)
(* a lease on it that could run out.                                       *)
(***************************************************************************)
EXTENDS RevocationDelivery, FiniteSetTheorems, TLAPS

\* Workers hold committed events only, and one event in hand while it is posted.
HandInv ==
    \A w \in Workers :
        /\ worker[w].batch \subseteq committed
        /\ worker[w].phase # "none" => worker[w].now \in committed

\* An event is "accepted" in a worker's hand only after its connector applied it.
AnswerInv ==
    /\ \A w \in Workers : worker[w].phase = "accepted" => worker[w].now \in applied
    /\ delivered \subseteq applied

\* A delivered row is nobody's.
FreeInv == \A e \in delivered : lock[e] = "free"

DeliveryInv == TypeOK /\ HandInv /\ AnswerInv /\ FreeInv

Row == [batch: SUBSET Events, now: Events \cup {0},
        phase: {"none", "posted", "accepted", "refused"}]

-----------------------------------------------------------------------------
\* The sequence of an event is at most its id.
LEMMA SequenceType == \A e \in Events : Sequence(e) \in 0 .. LastId
<1> SUFFICES ASSUME NEW e \in Events PROVE Sequence(e) \in 0 .. LastId
  OBVIOUS
<1> DEFINE S == {f \in 1 .. e : SiteOf[f] = SiteOf[e]}
<1>1. e \in Int /\ 1 <= e /\ e <= LastId /\ LastId \in Nat
  BY DeliveryConstants DEF Events
<1>2. IsFiniteSet(1 .. e) /\ Cardinality(1 .. e) = e
  BY <1>1, FS_Interval
<1>3. IsFiniteSet(S) /\ Cardinality(S) <= e
  BY <1>2, FS_Subset
<1>4. Cardinality(S) \in Nat
  BY <1>3, FS_CardinalityType
<1> QED  BY <1>1, <1>3, <1>4 DEF Sequence

\* Nothing is committed, nobody works.
LEMMA DeliveryInit == Init => DeliveryInv
  BY DeliveryConstants
  DEF Init, DeliveryInv, TypeOK, HandInv, AnswerInv, FreeInv, Asleep, Events, Sites

\* An event is committed, a lease lapses, a back-off elapses.
LEMMA TableSteps ==
    ASSUME DeliveryInv, NEW e \in Events, Commit(e) \/ LeaseLapses(e) \/ BackoffElapses(e)
    PROVE  DeliveryInv'
<1> USE DEF DeliveryInv, TypeOK, HandInv, AnswerInv, FreeInv
<1>1. CASE Commit(e)
  BY <1>1 DEF Commit
<1>2. CASE LeaseLapses(e)
  BY <1>2 DEF LeaseLapses
<1>3. CASE BackoffElapses(e)
  BY <1>3 DEF BackoffElapses
<1> QED  BY <1>1, <1>2, <1>3

\* reschedule and markDelivered keep their columns, and a delivered row free.
LEMMA RowSteps ==
    ASSUME DeliveryInv, NEW e \in committed,
           Reschedule(e) \/ (MarkDelivered(e) /\ e \in applied)
    PROVE  /\ committed' = committed /\ delivered \subseteq delivered'
           /\ delivered' \subseteq committed' /\ delivered' \subseteq applied
           /\ attempts' = attempts
           /\ lock' \in [Events -> {"free", "held", "lapsed"}] /\ due' \subseteq Events
           /\ \A f \in delivered' : lock'[f] = "free"
           /\ \A f \in delivered : lock'[f] = lock[f]
<1> USE DEF DeliveryInv, TypeOK, FreeInv, AnswerInv
<1>1. CASE Reschedule(e)
  BY <1>1 DEF Reschedule, row
<1>2. CASE MarkDelivered(e) /\ e \in applied
  BY <1>2 DEF MarkDelivered
<1> QED  BY <1>1, <1>2

\* claim takes only rows that are not delivered and have an attempt left.
LEMMA ClaimKeeps ==
    ASSUME DeliveryInv, NEW w \in Workers, Claim(w)
    PROVE  DeliveryInv' /\ \A e \in delivered : attempts'[e] = attempts[e] /\ lock'[e] = lock[e]
<1> USE DEF DeliveryInv, TypeOK
<1>1. Batch \subseteq committed \ delivered /\ \A e \in Batch : attempts[e] < MaxAttempts
  BY DEF Batch, Claimable
<1> HIDE DEF Batch
<1>2. worker[w] \in Row /\ worker[w].phase = "none"
  BY DEF Claim, Asleep, Row
<1>3. worker' = [worker EXCEPT ![w] = [worker[w] EXCEPT !.batch = Batch]]
  BY DEF Claim
<1>4. /\ worker' \in [Workers -> Row]
      /\ worker'[w].batch = Batch /\ worker'[w].phase = "none"
      /\ \A x \in Workers : x # w => worker'[x] = worker[x]
  BY <1>1, <1>2, <1>3 DEF Row
<1>5. /\ lock' \in [Events -> {"free", "held", "lapsed"}]
      /\ attempts' \in [Events -> 0 .. MaxAttempts]
      /\ \A e \in Events : e \notin Batch => lock'[e] = lock[e] /\ attempts'[e] = attempts[e]
  BY <1>1, DeliveryConstants DEF Claim
<1>6. UNCHANGED <<committed, delivered, due, late, cursor, applied>>
  BY DEF Claim
<1>7. TypeOK'
  BY <1>4, <1>5, <1>6 DEF Row
<1>8. HandInv' /\ AnswerInv'
  BY <1>1, <1>4, <1>6 DEF HandInv, AnswerInv
<1>9. FreeInv'
  BY <1>1, <1>5, <1>6 DEF FreeInv
<1> QED  BY <1>1, <1>5, <1>7, <1>8, <1>9

\* The worker is done with the event in hand, or with one it could not sign: the
\* rest of the batch stays.
LEMMA SettlesRow ==
    ASSUME DeliveryInv, NEW w \in Workers, NEW e \in committed,
           Reschedule(e) \/ (MarkDelivered(e) /\ e \in applied),
           NEW S \in SUBSET worker[w].batch,
           \/ worker' = [worker EXCEPT ![w] = [Asleep EXCEPT !.batch = S]]
           \/ /\ worker[w].phase = "none"
              /\ worker' = [worker EXCEPT ![w] = [worker[w] EXCEPT !.batch = S]],
           late' \subseteq Events, UNCHANGED <<cursor, applied>>
    PROVE  /\ DeliveryInv'
           /\ \A f \in delivered :
                 f \in delivered' /\ attempts'[f] = attempts[f] /\ lock'[f] = lock[f]
<1>1. /\ committed' = committed /\ delivered \subseteq delivered'
      /\ delivered' \subseteq committed' /\ delivered' \subseteq applied
      /\ attempts' = attempts
      /\ lock' \in [Events -> {"free", "held", "lapsed"}] /\ due' \subseteq Events
      /\ \A f \in delivered' : lock'[f] = "free"
      /\ \A f \in delivered : lock'[f] = lock[f]
  BY RowSteps
<1> USE DEF DeliveryInv, TypeOK
<1>2. worker[w] \in Row /\ S \in SUBSET Events /\ S \subseteq committed
  BY DEF Row, HandInv
<1>3. /\ worker' \in [Workers -> Row]
      /\ worker'[w].phase = "none" /\ worker'[w].batch = S
      /\ \A x \in Workers : x # w => worker'[x] = worker[x]
  BY <1>2 DEF Row, Asleep
<1>4. TypeOK'
  BY <1>1, <1>3 DEF Row
<1>5. HandInv' /\ AnswerInv'
  BY <1>1, <1>2, <1>3 DEF HandInv, AnswerInv
<1>6. FreeInv'
  BY <1>1 DEF FreeInv
<1> QED  BY <1>1, <1>4, <1>5, <1>6

\* A worker's step leaves every delivered row alone, and delivers an event only
\* when its connector has answered that it applied it.
LEMMA WorkKeeps ==
    ASSUME DeliveryInv, NEW w \in Workers, Work(w)
    PROVE  /\ DeliveryInv'
           /\ \A f \in delivered :
                 f \in delivered' /\ attempts'[f] = attempts[f] /\ lock'[f] = lock[f]
<1>1. worker[w].batch \subseteq committed /\ committed \subseteq Events
      /\ (worker[w].phase # "none" => worker[w].now \in committed)
  BY DEF DeliveryInv, TypeOK, HandInv
<1>2. late \subseteq Events
  BY DEF DeliveryInv, TypeOK
<1>3. ASSUME NEW e \in Events, SignFails(w, e)
      PROVE  /\ DeliveryInv'
             /\ \A f \in delivered :
                   f \in delivered' /\ attempts'[f] = attempts[f] /\ lock'[f] = lock[f]
  <2>1. e \in committed /\ worker[w].phase = "none" /\ Reschedule(e)
        /\ worker' = [worker EXCEPT ![w] = [worker[w] EXCEPT !.batch = worker[w].batch \ {e}]]
        /\ UNCHANGED <<late, cursor, applied>>
    BY <1>1, <1>3 DEF SignFails, Upcoming
  <2>2. worker[w].batch \ {e} \in SUBSET worker[w].batch /\ late' \subseteq Events
    BY <1>2, <2>1
  <2> QED  BY <2>1, <2>2, SettlesRow
<1>4. ASSUME NEW e \in Events, Post(w, e)
      PROVE  /\ DeliveryInv'
             /\ \A f \in delivered :
                   f \in delivered' /\ attempts'[f] = attempts[f] /\ lock'[f] = lock[f]
  <2> USE DEF DeliveryInv, TypeOK
  <2>1. /\ e \in worker[w].batch
        /\ worker' = [worker EXCEPT ![w] = [batch |-> worker[w].batch \ {e},
                                            now |-> e, phase |-> "posted"]]
        /\ UNCHANGED <<committed, delivered, attempts, lock, due, late, cursor, applied>>
    BY <1>4 DEF Post, Upcoming, row
  <2>2. TypeOK'
    BY <2>1
  <2>3. HandInv' /\ AnswerInv' /\ FreeInv'
    BY <1>1, <2>1 DEF HandInv, AnswerInv, FreeInv
  <2> QED  BY <2>1, <2>2, <2>3
<1>5. CASE Delivered(w)
  <2>1. /\ worker[w].now \in applied /\ worker[w].now \in committed
        /\ MarkDelivered(worker[w].now)
        /\ worker' = [worker EXCEPT ![w] = [Asleep EXCEPT !.batch = worker[w].batch]]
        /\ UNCHANGED <<late, cursor, applied>>
    BY <1>1, <1>5 DEF Delivered, Done, DeliveryInv, AnswerInv
  <2> QED  BY <1>2, <2>1, SettlesRow
<1>6. CASE Refused(w) \/ TimesOut(w)
  <2>1. /\ worker[w].now \in committed /\ Reschedule(worker[w].now)
        /\ worker' = [worker EXCEPT ![w] = [Asleep EXCEPT !.batch = worker[w].batch]]
        /\ late' \subseteq Events /\ UNCHANGED <<cursor, applied>>
    BY <1>1, <1>2, <1>6 DEF Refused, TimesOut, Done
  <2> QED  BY <2>1, SettlesRow
<1> QED  BY <1>3, <1>4, <1>5, <1>6 DEF Work

\* A process dies with whatever it had in hand.
LEMMA CrashKeeps ==
    ASSUME DeliveryInv, NEW w \in Workers, Crash(w)
    PROVE  DeliveryInv' /\ UNCHANGED row
<1> USE DEF DeliveryInv, TypeOK
<1>1. /\ worker' = [worker EXCEPT ![w] = Asleep] /\ UNCHANGED <<row, cursor, applied>>
      /\ late' \subseteq Events
  BY DEF Crash, HandInv
<1>2. TypeOK'
  BY <1>1 DEF row, Asleep
<1>3. HandInv' /\ AnswerInv' /\ FreeInv'
  BY <1>1 DEF row, Asleep, HandInv, AnswerInv, FreeInv
<1> QED  BY <1>1, <1>2, <1>3

\* What the connector accepts it applies, and it forgets nothing.
LEMMA Received ==
    ASSUME DeliveryInv, NEW e \in Events, Receive(e)
    PROVE  /\ cursor' \in [Sites -> 0 .. LastId] /\ applied \subseteq applied'
           /\ applied' \subseteq Events /\ (Acceptable(e) => e \in applied')
  BY SequenceType DEF DeliveryInv, TypeOK, Receive

\* Only an accepted event is answered as accepted, late ones are not answered.
LEMMA ArrivalKeeps ==
    ASSUME DeliveryInv,
           (\E w \in Workers : Arrive(w)) \/ (\E e \in Events : ArriveLate(e))
    PROVE  DeliveryInv' /\ UNCHANGED row
<1>1. ASSUME NEW w \in Workers, Arrive(w) PROVE DeliveryInv' /\ UNCHANGED row
  <2> DEFINE answer == IF Acceptable(worker[w].now) THEN "accepted" ELSE "refused"
  <2>1. worker[w].phase = "posted" /\ worker[w].now \in committed /\ worker[w].now \in Events
    BY <1>1 DEF Arrive, DeliveryInv, HandInv, TypeOK
  <2>2. /\ Receive(worker[w].now) /\ UNCHANGED <<row, late>>
        /\ worker' = [worker EXCEPT ![w] = [worker[w] EXCEPT !.phase = answer]]
    BY <1>1 DEF Arrive
  <2>3. /\ cursor' \in [Sites -> 0 .. LastId] /\ applied \subseteq applied'
        /\ applied' \subseteq Events /\ (answer = "accepted" => worker[w].now \in applied')
    BY <2>1, <2>2, Received
  <2>4. answer \in {"accepted", "refused"}
    OBVIOUS
  <2> HIDE DEF answer
  <2> USE DEF DeliveryInv, TypeOK
  <2>5. /\ worker' \in [Workers -> Row]
        /\ worker'[w].phase = answer /\ worker'[w].now = worker[w].now
        /\ worker'[w].batch = worker[w].batch
        /\ \A x \in Workers : x # w => worker'[x] = worker[x]
    BY <2>2, <2>4 DEF Row
  <2>6. TypeOK'
    BY <2>2, <2>3, <2>5 DEF Row, row
  <2>7. HandInv' /\ AnswerInv' /\ FreeInv'
    BY <2>1, <2>2, <2>3, <2>5 DEF row, HandInv, AnswerInv, FreeInv
  <2> QED  BY <2>2, <2>6, <2>7
<1>2. ASSUME NEW e \in Events, ArriveLate(e) PROVE DeliveryInv' /\ UNCHANGED row
  <2>1. /\ cursor' \in [Sites -> 0 .. LastId] /\ applied \subseteq applied'
        /\ applied' \subseteq Events
    BY <1>2, Received DEF ArriveLate
  <2>2. UNCHANGED <<row, worker>> /\ late' = late \ {e}
    BY <1>2 DEF ArriveLate
  <2> QED  BY <2>1, <2>2 DEF DeliveryInv, TypeOK, HandInv, AnswerInv, FreeInv, row
<1> QED  BY <1>1, <1>2

\* The inductive invariant: from the connector's answer to the row.
THEOREM DeliveryInvariant == Spec => []DeliveryInv
<1>1. DeliveryInv /\ [Next]_vars => DeliveryInv'
  <2> SUFFICES ASSUME DeliveryInv, [Next]_vars PROVE DeliveryInv'
    OBVIOUS
  <2>1. CASE UNCHANGED vars
    BY <2>1 DEF vars, DeliveryInv, TypeOK, HandInv, AnswerInv, FreeInv
  <2> QED  BY <2>1, TableSteps, ClaimKeeps, WorkKeeps, CrashKeeps, ArrivalKeeps DEF Next
<1> QED  BY DeliveryInit, <1>1, PTL DEF Spec

\* runOnce: delivered_at is written only for an event its connector has applied.
THEOREM DeliveredIsAppliedCorrect == Spec => []DeliveredIsApplied
<1>1. DeliveryInv => DeliveredIsApplied
  BY DEF DeliveryInv, AnswerInv, DeliveredIsApplied
<1> QED  BY <1>1, DeliveryInvariant, PTL

\* claim, reschedule and markDelivered: a delivered row is left alone for ever,
\* also by a worker that has lost its lease.
THEOREM DeliveredIsFinalCorrect == Spec => DeliveredIsFinal
<1>1. ASSUME DeliveryInv, [Next]_vars
      PROVE  \A e \in delivered :
                e \in delivered' /\ attempts'[e] = attempts[e] /\ lock'[e] = lock[e]
  <2> DEFINE Final == \A e \in delivered :
                 e \in delivered' /\ attempts'[e] = attempts[e] /\ lock'[e] = lock[e]
  <2>1. ASSUME NEW e \in Events, Commit(e) \/ LeaseLapses(e) \/ BackoffElapses(e)
        PROVE  Final
    BY <1>1, <2>1 DEF Commit, LeaseLapses, BackoffElapses, DeliveryInv, TypeOK, FreeInv
  <2>2. ASSUME NEW w \in Workers, Claim(w) PROVE Final
    <3>1. delivered' = delivered
      BY <2>2 DEF Claim
    <3> QED  BY <1>1, <2>2, <3>1, ClaimKeeps
  <2>3. ASSUME NEW w \in Workers, Work(w) PROVE Final
    BY <1>1, <2>3, WorkKeeps
  <2>4. CASE UNCHANGED row
    BY <2>4 DEF row
  <2>5. CASE UNCHANGED vars
    BY <2>5 DEF vars
  <2> QED  BY <1>1, <2>1, <2>2, <2>3, <2>4, <2>5, CrashKeeps, ArrivalKeeps DEF Next
<1>2. DeliveryInv /\ [Next]_vars
         => [\A e \in delivered : /\ e \in delivered'
                                  /\ attempts'[e] = attempts[e]
                                  /\ lock'[e] = lock[e]]_vars
  BY <1>1
<1> QED  BY <1>2, DeliveryInvariant, PTL DEF Spec, DeliveredIsFinal
=============================================================================
