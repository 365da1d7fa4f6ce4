------------------------------ MODULE Pairing -------------------------------
(***************************************************************************)
(* Pairing a WordPress site with a tenant.  POST /v1/tenants/:id/pairing   *)
(* runs PairingService.begin and verify in one request: four transactions  *)
(* with a call to the site between the second and the third.  A request    *)
(* draws its own attempt id and site id, so an attempt stands for the      *)
(* request, its row and the site it may create.  The connector on the site *)
(* is external: it signs a proof of an attempt when its administrator has  *)
(* offered the site to that tenant, and an answer may be an old proof.     *)
(***************************************************************************)
EXTENDS Integers

CONSTANTS Tenants, Resources, Attempts, NoAttempt

ASSUME NoAttemptIsNone == NoAttempt \notin Attempts

VARIABLES
    status,   \* platform.pairing_attempts.status, with "none" before the insert
    of,       \* the tenant and resource an attempt is, or will be, for
    late,     \* the attempts whose expires_at has passed
    site,     \* platform.sites, by the attempt that creates the site
    at,       \* how far the request of an attempt has got
    sent,     \* the attempts whose COMMIT the database has not carried out yet
    offered,  \* what the connectors' administrators agreed to
    proofs    \* the proofs the connectors have signed

vars == <<status, of, late, site, at, sent, offered, proofs>>

AttemptStatus == {"none", "pending", "verifying", "active", "failed"}
Targets == [tenant: Tenants, resource: Resources]
Proofs == [tenant: Tenants, resource: Resources, attempt: Attempts]

TypeOK ==
    /\ status \in [Attempts -> AttemptStatus]
    /\ of \in [Attempts -> Targets]
    /\ late \subseteq Attempts
    /\ site \in [Attempts -> {"none", "active", "revoked"}]
    /\ at \in [Attempts -> {"idle", "begun", "found", "marked", "proved", "inserted",
                            "consumed", "committing", "failing", "paired", "denied",
                            "dead"}]
    /\ sent \subseteq Attempts
    /\ offered \subseteq Targets
    /\ proofs \subseteq Proofs

Init ==
    /\ status = [a \in Attempts |-> "none"] /\ of \in [Attempts -> Targets]
    /\ late = {} /\ site = [a \in Attempts |-> "none"]
    /\ at = [a \in Attempts |-> "idle"] /\ sent = {} /\ offered = {} /\ proofs = {}

Goto(a, step) == at' = [at EXCEPT ![a] = step]

-----------------------------------------------------------------------------
(* The request. *)

\* pair, begin, createAttempt
Begin(a) ==
    /\ at[a] = "idle" /\ Goto(a, "begun")
    /\ status' = [status EXCEPT ![a] = "pending"]
    /\ UNCHANGED <<of, late, site, sent, offered, proofs>>

\* findAttemptForUpdate, the expiry by the process's clock, the verifier's hash
Find(a) ==
    /\ at[a] = "begun"
    /\ Goto(a, IF a \in late THEN "denied" ELSE "found")
    /\ UNCHANGED <<status, of, late, site, sent, offered, proofs>>

\* markVerifying, with the expiry by the database's clock
MarkVerifying(a) ==
    /\ at[a] = "found"
    /\ IF a \notin late
       THEN status' = [status EXCEPT ![a] = "verifying"] /\ Goto(a, "marked")
       ELSE UNCHANGED status /\ Goto(a, "denied")
    /\ UNCHANGED <<of, late, site, sent, offered, proofs>>

Proof(a) == [tenant |-> of[a].tenant, resource |-> of[a].resource, attempt |-> a]

\* Mutant: the proof is not compared with the attempt's challenge.
AnyAttempt(a, p) == p.tenant = of[a].tenant /\ p.resource = of[a].resource

\* verifySiteProof: every claim is compared with the attempt's own; the
\* challenge, the attempt id and the site id are drawn for this attempt.
Proves(a, p) == p = Proof(a)

\* resolvePublicAddresses: one private address among a name's spoils them all.
Reachable(addresses) == addresses # {} /\ addresses \subseteq {"public"}

\* requestSiteProof settles once: with any proof the site ever signed, or with
\* a failure of the network, of TLS, of the status, the type, the size or the
\* schema.
Answers == {{p} : p \in proofs} \cup {{}}

\* HttpsSiteVerificationClient.verify
Verify(a) ==
    /\ at[a] = "marked"
    /\ \E addresses \in SUBSET {"public", "private"}, answer \in Answers :
          Goto(a, IF Reachable(addresses) /\ \E p \in answer : Proves(a, p)
                  THEN "proved" ELSE "failing")
    /\ UNCHANGED <<status, of, late, site, sent, offered, proofs>>

-----------------------------------------------------------------------------
(* complete: two writes in one transaction. *)

SameResource(a, x) == of[x].resource = of[a].resource

\* Mutant: the transaction of a dead process keeps its index entry.
OpenForEver(x) == at[x] \in {"inserted", "consumed", "dead"}

\* one_live_site_per_resource_idx: an insert waits for the transaction that
\* holds an uncommitted entry, then meets the committed one.
Open(x) == at[x] \in {"inserted", "consumed"} \/ x \in sent
Waits(a) == \E x \in Attempts \ {a} : SameResource(a, x) /\ Open(x)

\* Mutant: the index covers one tenant at a time.
TakenInTenant(a) == \E x \in Attempts : of[x] = of[a] /\ site[x] = "active"

Taken(a) == \E x \in Attempts : SameResource(a, x) /\ site[x] = "active"

InsertSite(a) ==
    /\ at[a] = "proved" /\ ~Waits(a)
    /\ Goto(a, IF Taken(a) THEN "failing" ELSE "inserted")
    /\ UNCHANGED <<status, of, late, site, sent, offered, proofs>>

\* The attempt must still be 'verifying' and in time, or all is rolled back.
Consume(a) ==
    /\ at[a] = "inserted"
    /\ Goto(a, IF status[a] = "verifying" /\ a \notin late THEN "consumed" ELSE "failing")
    /\ UNCHANGED <<status, of, late, site, sent, offered, proofs>>

\* COMMIT is sent, the database carries it out, the acknowledgement arrives.
SendCommit(a) ==
    /\ at[a] = "consumed" /\ Goto(a, "committing") /\ sent' = sent \cup {a}
    /\ UNCHANGED <<status, of, late, site, offered, proofs>>

Commit(a) ==
    /\ a \in sent /\ sent' = sent \ {a}
    /\ status' = [status EXCEPT ![a] = "active"]
    /\ site' = [site EXCEPT ![a] = "active"]
    /\ UNCHANGED <<of, late, at, offered, proofs>>

Acknowledge(a) ==
    /\ at[a] = "committing" /\ a \notin sent /\ Goto(a, "paired")
    /\ UNCHANGED <<status, of, late, site, sent, offered, proofs>>

\* Mutant: fail does not look at the status.
FailAnyway(a) ==
    /\ at[a] = "failing" /\ Goto(a, "denied") /\ a \notin sent
    /\ status' = [status EXCEPT ![a] = "failed"]
    /\ UNCHANGED <<of, late, site, sent, offered, proofs>>

\* Mutant: fail records what it saw without waiting for the row.
FailAtOnce(a) ==
    /\ at[a] = "failing" /\ Goto(a, "denied")
    /\ status' = IF status[a] = "verifying" THEN [status EXCEPT ![a] = "failed"] ELSE status
    /\ UNCHANGED <<of, late, site, sent, offered, proofs>>

\* fail waits for the row while a COMMIT in doubt holds it.
Fail(a) ==
    /\ at[a] = "failing" /\ Goto(a, "denied") /\ a \notin sent
    /\ status' = IF status[a] = "verifying" THEN [status EXCEPT ![a] = "failed"] ELSE status
    /\ UNCHANGED <<of, late, site, sent, offered, proofs>>

\* The database cannot be reached: the statement under way fails, a COMMIT on
\* its way is in doubt, and after markVerifying the request tries to record
\* the failure.
Unavailable(a) ==
    /\ at[a] \in {"begun", "found", "proved", "inserted", "consumed", "committing", "failing"}
    /\ Goto(a, IF at[a] \in {"begun", "found", "failing"} THEN "denied" ELSE "failing")
    /\ UNCHANGED <<status, of, late, site, sent, offered, proofs>>

\* The process dies: an open transaction is rolled back, nothing is answered.
Crash(a) ==
    /\ at[a] \notin {"idle", "paired", "denied", "dead"} /\ Goto(a, "dead")
    /\ UNCHANGED <<status, of, late, site, sent, offered, proofs>>

-----------------------------------------------------------------------------
(* Around it. *)

\* A site is disconnected (GrantRevocation): its resource is free again.
Disconnect(a) ==
    /\ site[a] = "active" /\ site' = [site EXCEPT ![a] = "revoked"]
    /\ UNCHANGED <<status, of, late, at, sent, offered, proofs>>

\* Ten minutes pass.
Expire(a) ==
    /\ at[a] # "idle" /\ a \notin late /\ late' = late \cup {a}
    /\ UNCHANGED <<status, of, site, at, sent, offered, proofs>>

\* The administrator of a site offers it to a tenant, or withdraws the offer.
Offer(t) ==
    /\ offered' = {o \in offered : o.resource # t.resource} \cup ({t} \ offered)
    /\ UNCHANGED <<status, of, late, site, at, sent, proofs>>

Sign(a) ==
    /\ at[a] = "marked" /\ of[a] \in offered /\ proofs' = proofs \cup {Proof(a)}
    /\ UNCHANGED <<status, of, late, site, at, sent, offered>>

Handle(a) == \/ Find(a) \/ MarkVerifying(a) \/ Verify(a) \/ InsertSite(a)
             \/ Consume(a) \/ SendCommit(a) \/ Commit(a) \/ Acknowledge(a) \/ Fail(a)

Next ==
    \/ \E a \in Attempts : \/ Begin(a) \/ Handle(a) \/ Unavailable(a) \/ Crash(a)
                           \/ Disconnect(a) \/ Expire(a) \/ Sign(a)
    \/ \E t \in Targets : Offer(t)

Spec == Init /\ [][Next]_vars

\* The request runs on: the call to the site has a timeout, the database
\* answers or fails, and a lock is held for as long as its transaction.
FairSpec == Spec /\ \A a \in Attempts : WF_vars(Handle(a))

-----------------------------------------------------------------------------
(* Properties. *)

\* Rivals, two tenants or two tabs of one, never both hold a resource.
OneLiveSite ==
    \A a, x \in Attempts :
        site[a] = "active" /\ site[x] = "active" /\ SameResource(a, x) => a = x

\* A site exists exactly when its attempt says so, whatever request died or
\* lost an acknowledgement on the way.
SiteIffActive == \A a \in Attempts : site[a] # "none" <=> status[a] = "active"

\* A site is only ever created on a proof that its connector signed for this
\* tenant and this attempt: never on one replayed from another attempt.
SiteWasProved == \A a \in Attempts : site[a] # "none" => Proof(a) \in proofs

\* An attempt settles once: the failure a request records after it lost sight
\* of its COMMIT never overwrites, nor is overwritten by, what the database did.
SettlesOnce ==
    [][\A a \in Attempts : status[a] \in {"active", "failed"} => status'[a] = status[a]]_vars

\* "Pairing failed. Return to WordPress and start again." (the pairing page)
DeniedIsUnpaired == \A a \in Attempts : at[a] = "denied" => site[a] # "active"

\* The sites as a registry: a resource is claimed when it is free, and by a
\* site that never was before.
Owner == [r \in Resources |->
            IF \E a \in Attempts : site[a] = "active" /\ of[a].resource = r
            THEN CHOOSE a \in Attempts : site[a] = "active" /\ of[a].resource = r
            ELSE NoAttempt]
Registry == INSTANCE SiteRegistry WITH
    Sites <- Attempts, NoSite <- NoAttempt,
    owner <- Owner, named <- {a \in Attempts : site[a] # "none"}

\* Pairing implements that registry.
ImplementsRegistry == Registry!Spec

\* Every request comes to an end: rivals that wait for each other's index
\* entries get through.
Over(a) == at[a] \in {"paired", "denied", "dead"}
RequestsEnd == \A a \in Attempts : at[a] = "begun" ~> Over(a)
=============================================================================
