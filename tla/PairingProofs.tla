--------------------------- MODULE PairingProofs ----------------------------
(***************************************************************************)
(* Proofs about Pairing for any number of tenants, resources and attempts. *)
(* RequestInv ties the row of an attempt to how far its request has got    *)
(* and to a COMMIT in doubt; EntryInv says what the unique index gives:    *)
(* whoever has an entry, committed or not, has the resource alone.         *)
(***************************************************************************)
EXTENDS Pairing, TLAPS

\* The request, the row and the COMMIT agree.
RequestInv ==
    \A a \in Attempts :
        /\ at[a] = "idle" => status[a] = "none"
        /\ at[a] \in {"begun", "found"} => status[a] = "pending"
        /\ at[a] \in {"marked", "proved", "inserted", "consumed"} =>
              status[a] = "verifying" /\ a \notin sent
        /\ a \in sent => /\ status[a] = "verifying"
                         /\ at[a] \in {"committing", "failing", "denied", "dead"}

\* Who gets past the call to the site has a proof of its own.
ProofInv ==
    \A a \in Attempts :
        \/ at[a] \in {"proved", "inserted", "consumed"}
        \/ a \in sent
        \/ site[a] # "none"
        => Proof(a) \in proofs

EntryInv ==
    \A a, x \in Attempts :
        a # x /\ SameResource(a, x) /\ Open(a) => ~Open(x) /\ site[x] # "active"

PairingInv == /\ TypeOK /\ RequestInv /\ SiteIffActive
              /\ ProofInv /\ EntryInv /\ OneLiveSite

-----------------------------------------------------------------------------
\* Everything starts empty.
LEMMA PairingInit == Init => PairingInv
  BY DEF Init, PairingInv, TypeOK, AttemptStatus, RequestInv, SiteIffActive, ProofInv, EntryInv,
         OneLiveSite, Open, Targets, Proofs

\* Every action keeps its types.
LEMMA PairingTypes == TypeOK /\ [Next]_vars => TypeOK'
<1> SUFFICES ASSUME TypeOK, [Next]_vars PROVE TypeOK'
  OBVIOUS
<1> USE DEF TypeOK, Goto, AttemptStatus
<1>1. ASSUME NEW a \in Attempts, Begin(a) \/ Find(a) \/ MarkVerifying(a) \/ Verify(a)
      PROVE  TypeOK'
  BY <1>1 DEF Begin, Find, MarkVerifying, Verify
<1>2. ASSUME NEW a \in Attempts, InsertSite(a) \/ Consume(a) \/ SendCommit(a) \/ Commit(a)
      PROVE  TypeOK'
  BY <1>2 DEF InsertSite, Consume, SendCommit, Commit
<1>3. ASSUME NEW a \in Attempts, Acknowledge(a) \/ Fail(a) \/ Unavailable(a) \/ Crash(a)
      PROVE  TypeOK'
  BY <1>3 DEF Acknowledge, Fail, Unavailable, Crash
<1>4. ASSUME NEW a \in Attempts, Disconnect(a) \/ Expire(a)
      PROVE  TypeOK'
  BY <1>4 DEF Disconnect, Expire
<1>5. ASSUME NEW a \in Attempts, Sign(a)
      PROVE  TypeOK'
  BY <1>5 DEF Sign, Proof, Proofs, Targets
<1>6. ASSUME NEW t \in Targets, Offer(t)
      PROVE  TypeOK'
  BY <1>6 DEF Offer
<1>7. CASE UNCHANGED vars
  BY <1>7 DEF vars
<1> QED  BY <1>1, <1>2, <1>3, <1>4, <1>5, <1>6, <1>7 DEF Next, Handle

\* An attempt's row is written by its own request, and by its COMMIT.
LEMMA PairingRows ==
    TypeOK /\ RequestInv /\ SiteIffActive /\ [Next]_vars => RequestInv' /\ SiteIffActive'
<1> SUFFICES ASSUME TypeOK, RequestInv, SiteIffActive, [Next]_vars
             PROVE  RequestInv' /\ SiteIffActive'
  OBVIOUS
<1> USE DEF TypeOK, RequestInv, SiteIffActive, Goto
<1>1. ASSUME NEW a \in Attempts, Begin(a) \/ Find(a) \/ MarkVerifying(a) \/ Verify(a)
      PROVE  RequestInv' /\ SiteIffActive'
  BY <1>1 DEF Begin, Find, MarkVerifying, Verify
<1>2. ASSUME NEW a \in Attempts, InsertSite(a) \/ Consume(a) \/ SendCommit(a) \/ Commit(a)
      PROVE  RequestInv' /\ SiteIffActive'
  BY <1>2 DEF InsertSite, Consume, SendCommit, Commit
<1>3. ASSUME NEW a \in Attempts, Acknowledge(a) \/ Fail(a) \/ Unavailable(a) \/ Crash(a)
      PROVE  RequestInv' /\ SiteIffActive'
  BY <1>3 DEF Acknowledge, Fail, Unavailable, Crash
<1>4. ASSUME NEW a \in Attempts, Disconnect(a) \/ Expire(a) \/ Sign(a)
      PROVE  RequestInv' /\ SiteIffActive'
  BY <1>4 DEF Disconnect, Expire, Sign
<1>5. ASSUME NEW t \in Targets, Offer(t)
      PROVE  RequestInv' /\ SiteIffActive'
  BY <1>5 DEF Offer
<1>6. CASE UNCHANGED vars
  BY <1>6 DEF vars
<1> QED  BY <1>1, <1>2, <1>3, <1>4, <1>5, <1>6 DEF Next, Handle

\* Only verify lets a request past the call to the site, and it compares the
\* whole proof; proofs are never taken back.
LEMMA PairingProved ==
    TypeOK /\ RequestInv /\ ProofInv /\ [Next]_vars => ProofInv'
<1> SUFFICES ASSUME TypeOK, RequestInv, ProofInv, [Next]_vars
             PROVE  ProofInv'
  OBVIOUS
<1> USE DEF TypeOK, ProofInv, Goto, Proof
<1>1. ASSUME NEW a \in Attempts, Begin(a) \/ Find(a) \/ MarkVerifying(a)
      PROVE  ProofInv'
  BY <1>1 DEF Begin, Find, MarkVerifying
<1>2. ASSUME NEW a \in Attempts, Verify(a)
      PROVE  ProofInv'
  <2>1. PICK answer \in Answers :
           at' = [at EXCEPT ![a] = IF \E p \in answer : Proves(a, p) THEN "proved" ELSE "failing"]
           \/ at' = [at EXCEPT ![a] = "failing"]
    BY <1>2 DEF Verify
  <2>2. at'[a] = "proved" => Proof(a) \in proofs
    BY <2>1 DEF Answers, Proves
  <2> QED  BY <1>2, <2>1, <2>2 DEF Verify
<1>3. ASSUME NEW a \in Attempts, InsertSite(a) \/ Consume(a) \/ SendCommit(a) \/ Commit(a)
      PROVE  ProofInv'
  BY <1>3 DEF InsertSite, Consume, SendCommit, Commit
<1>4. ASSUME NEW a \in Attempts, Acknowledge(a) \/ Fail(a) \/ Unavailable(a) \/ Crash(a)
      PROVE  ProofInv'
  BY <1>4 DEF Acknowledge, Fail, Unavailable, Crash
<1>5. ASSUME NEW a \in Attempts, Disconnect(a) \/ Expire(a) \/ Sign(a)
      PROVE  ProofInv'
  BY <1>5 DEF Disconnect, Expire, Sign
<1>6. ASSUME NEW t \in Targets, Offer(t)
      PROVE  ProofInv'
  BY <1>6 DEF Offer
<1>7. CASE UNCHANGED vars
  BY <1>7 DEF vars
<1> QED  BY <1>1, <1>2, <1>3, <1>4, <1>5, <1>6, <1>7 DEF Next, Handle

\* An entry is made when nobody has the resource, and turns into a live site
\* when its transaction is carried out.
LEMMA PairingEntries ==
    PairingInv /\ [Next]_vars => EntryInv' /\ OneLiveSite'
<1> SUFFICES ASSUME PairingInv, [Next]_vars
             PROVE  EntryInv' /\ OneLiveSite'
  OBVIOUS
<1> USE DEF PairingInv, TypeOK, EntryInv, OneLiveSite, SameResource, Open
<1>1. ASSUME NEW a \in Attempts, Begin(a) \/ Find(a) \/ MarkVerifying(a) \/ Verify(a)
      PROVE  EntryInv' /\ OneLiveSite'
  BY <1>1 DEF Begin, Find, MarkVerifying, Verify, Goto
<1>2. ASSUME NEW a \in Attempts, InsertSite(a)
      PROVE  EntryInv' /\ OneLiveSite'
  BY <1>2 DEF InsertSite, Waits, Taken, Goto
<1>3. ASSUME NEW a \in Attempts, Consume(a) \/ SendCommit(a)
      PROVE  EntryInv' /\ OneLiveSite'
  BY <1>3 DEF Consume, SendCommit, Goto
<1>4. ASSUME NEW a \in Attempts, Commit(a)
      PROVE  EntryInv' /\ OneLiveSite'
  BY <1>4 DEF Commit, RequestInv
<1>5. ASSUME NEW a \in Attempts, Acknowledge(a) \/ Fail(a) \/ Unavailable(a) \/ Crash(a)
      PROVE  EntryInv' /\ OneLiveSite'
  BY <1>5 DEF Acknowledge, Fail, Unavailable, Crash, Goto
<1>6. ASSUME NEW a \in Attempts, Disconnect(a) \/ Expire(a) \/ Sign(a)
      PROVE  EntryInv' /\ OneLiveSite'
  BY <1>6 DEF Disconnect, Expire, Sign
<1>7. ASSUME NEW t \in Targets, Offer(t)
      PROVE  EntryInv' /\ OneLiveSite'
  BY <1>7 DEF Offer
<1>8. CASE UNCHANGED vars
  BY <1>8 DEF vars
<1> QED  BY <1>1, <1>2, <1>3, <1>4, <1>5, <1>6, <1>7, <1>8 DEF Next, Handle

\* The inductive invariant: the request, its row, its proof and the index entry
\* of every attempt agree, whatever dies or is in doubt.
THEOREM PairingInvariant == Spec => []PairingInv
<1>1. PairingInv /\ [Next]_vars => PairingInv'
  BY PairingTypes, PairingRows, PairingProved, PairingEntries DEF PairingInv
<1> QED  BY PairingInit, <1>1, PTL DEF Spec

\* complete() and fail(): a site exists exactly when its attempt is 'active'.
THEOREM SiteIffActiveCorrect == Spec => []SiteIffActive
  BY PairingInvariant, PTL DEF PairingInv

\* verifySiteProof: no site without a proof of this very attempt.
THEOREM SiteWasProvedCorrect == Spec => []SiteWasProved
<1>1. PairingInv => SiteWasProved
  BY DEF PairingInv, ProofInv, SiteWasProved
<1> QED  BY <1>1, PairingInvariant, PTL

\* one_live_site_per_resource_idx: rivals never both hold a resource.
THEOREM OneLiveSiteCorrect == Spec => []OneLiveSite
  BY PairingInvariant, PTL DEF PairingInv

\* An attempt settles once: neither a lost acknowledgement nor the failure that
\* is recorded after it changes what the database did.
THEOREM SettlesOnceCorrect == Spec => SettlesOnce
<1>1. ASSUME PairingInv, [Next]_vars, NEW a \in Attempts, status[a] \in {"active", "failed"}
      PROVE  status'[a] = status[a]
  <2> USE <1>1 DEF PairingInv, RequestInv, TypeOK
  <2>1. ASSUME NEW x \in Attempts, Begin(x) \/ MarkVerifying(x) \/ Fail(x) \/ Commit(x)
        PROVE  status'[a] = status[a]
    BY <2>1 DEF Begin, MarkVerifying, Fail, Commit
  <2>2. ASSUME NEW x \in Attempts,
               \/ Find(x) \/ Verify(x) \/ InsertSite(x) \/ Consume(x) \/ SendCommit(x)
               \/ Acknowledge(x) \/ Unavailable(x) \/ Crash(x)
               \/ Disconnect(x) \/ Expire(x) \/ Sign(x)
        PROVE  UNCHANGED status
    BY <2>2 DEF Find, Verify, InsertSite, Consume, SendCommit, Acknowledge, Unavailable,
                Crash, Disconnect, Expire, Sign
  <2>3. ASSUME NEW t \in Targets, Offer(t)
        PROVE  UNCHANGED status
    BY <2>3 DEF Offer
  <2> QED  BY <2>1, <2>2, <2>3 DEF Next, Handle, vars
<1>2. PairingInv /\ [Next]_vars
         => [\A a \in Attempts : status[a] \in {"active", "failed"} => status'[a] = status[a]]_vars
  BY <1>1
<1> QED  BY <1>2, PairingInvariant, PTL DEF Spec, SettlesOnce

-----------------------------------------------------------------------------
(* The refinement of SiteRegistry. *)

\* The owner of a resource is its one live site.
LEMMA OwnerOf ==
    ASSUME TypeOK, OneLiveSite, NEW r \in Resources
    PROVE  /\ \A a \in Attempts : site[a] = "active" /\ of[a].resource = r => Owner[r] = a
           /\ (\A a \in Attempts : ~(site[a] = "active" /\ of[a].resource = r))
                 => Owner[r] = NoAttempt
  BY DEF TypeOK, OneLiveSite, SameResource, Owner

\* A step that leaves the sites alone leaves the registry alone.
LEMMA QuietRegistry == UNCHANGED <<site, of>> => UNCHANGED Registry!registry
  BY DEF Registry!registry, Owner

\* A COMMIT claims a resource that is free.
LEMMA CommitClaims ==
    ASSUME PairingInv, PairingInv', NEW a \in Attempts, Commit(a)
    PROVE  Registry!Claim(of[a].resource, a)
<1> DEFINE r == of[a].resource
<1> USE DEF PairingInv
<1>1. r \in Resources /\ site[a] = "none" /\ a \in sent
  BY DEF Commit, TypeOK, RequestInv, SiteIffActive, Targets
<1>2. \A x \in Attempts : ~(site[x] = "active" /\ of[x].resource = r)
  BY <1>1 DEF EntryInv, SameResource, Open
<1>3. Owner[r] = NoAttempt
  BY <1>1, <1>2, OwnerOf
<1>4. /\ site' = [site EXCEPT ![a] = "active"] /\ of' = of
      /\ site'[a] = "active" /\ \A x \in Attempts : x # a => site'[x] = site[x]
  BY DEF Commit, TypeOK
<1>5. ASSUME NEW q \in Resources PROVE Owner'[q] = [Owner EXCEPT ![r] = a][q]
  <2>1. CASE q = r
    <3>1. Owner'[q] = a
      BY <1>4, <2>1, OneLiveSite' DEF Owner, OneLiveSite, SameResource
    <3> QED  BY <2>1, <3>1 DEF Owner
  <2>2. CASE q # r
    <3>1. \A x \in Attempts : (site'[x] = "active" /\ of'[x].resource = q)
                                <=> (site[x] = "active" /\ of[x].resource = q)
      BY <1>1, <1>4, <2>2
    <3>2. Owner'[q] = Owner[q]
      BY <3>1 DEF Owner
    <3> QED  BY <2>2, <3>2 DEF Owner
  <2> QED  BY <2>1, <2>2
<1>6. Owner' = [Owner EXCEPT ![r] = a]
  BY <1>5 DEF Owner
<1>7. {x \in Attempts : site'[x] # "none"} = {x \in Attempts : site[x] # "none"} \cup {a}
  BY <1>4
<1> QED  BY <1>1, <1>3, <1>6, <1>7 DEF Registry!Claim

\* A disconnection releases the resource of a live site.
LEMMA DisconnectReleases ==
    ASSUME PairingInv, NEW a \in Attempts, Disconnect(a)
    PROVE  Registry!Release(of[a].resource)
<1> DEFINE r == of[a].resource
<1> USE DEF PairingInv
<1>1. r \in Resources /\ site[a] = "active"
  BY DEF Disconnect, TypeOK, Targets
<1>2. Owner[r] = a /\ a # NoAttempt
  BY <1>1, OwnerOf, NoAttemptIsNone
<1>3. /\ site' = [site EXCEPT ![a] = "revoked"] /\ of' = of
      /\ site'[a] = "revoked" /\ \A x \in Attempts : x # a => site'[x] = site[x]
  BY DEF Disconnect, TypeOK
<1>4. ASSUME NEW q \in Resources PROVE Owner'[q] = [Owner EXCEPT ![r] = NoAttempt][q]
  <2>1. CASE q = r
    <3>1. \A x \in Attempts : ~(site'[x] = "active" /\ of'[x].resource = q)
      BY <1>1, <1>3, <2>1 DEF OneLiveSite, SameResource
    <3>2. Owner'[q] = NoAttempt
      BY <3>1 DEF Owner
    <3> QED  BY <2>1, <3>2 DEF Owner
  <2>2. CASE q # r
    <3>1. \A x \in Attempts : (site'[x] = "active" /\ of'[x].resource = q)
                                <=> (site[x] = "active" /\ of[x].resource = q)
      BY <1>1, <1>3, <2>2
    <3>2. Owner'[q] = Owner[q]
      BY <3>1 DEF Owner
    <3> QED  BY <2>2, <3>2 DEF Owner
  <2> QED  BY <2>1, <2>2
<1>5. Owner' = [Owner EXCEPT ![r] = NoAttempt]
  BY <1>4 DEF Owner
<1>6. {x \in Attempts : site'[x] # "none"} = {x \in Attempts : site[x] # "none"}
  BY <1>1, <1>3
<1> QED  BY <1>2, <1>5, <1>6 DEF Registry!Release

\* A step is a claim, a release or a stutter.
LEMMA StepIsRegistered ==
    PairingInv /\ PairingInv' /\ [Next]_vars => [Registry!Next]_(Registry!registry)
<1> SUFFICES ASSUME PairingInv, PairingInv', [Next]_vars
             PROVE  [Registry!Next]_(Registry!registry)
  OBVIOUS
<1>1. ASSUME NEW a \in Attempts, Commit(a)
      PROVE  Registry!Next
  <2>1. of[a].resource \in Resources
    BY DEF PairingInv, TypeOK, Targets
  <2> QED  BY <1>1, <2>1, CommitClaims DEF Registry!Next
<1>2. ASSUME NEW a \in Attempts, Disconnect(a)
      PROVE  Registry!Next
  <2>1. of[a].resource \in Resources
    BY DEF PairingInv, TypeOK, Targets
  <2> QED  BY <1>2, <2>1, DisconnectReleases DEF Registry!Next
<1>3. ASSUME NEW a \in Attempts,
             \/ Begin(a) \/ Find(a) \/ MarkVerifying(a) \/ Verify(a) \/ InsertSite(a)
             \/ Consume(a) \/ SendCommit(a) \/ Acknowledge(a) \/ Fail(a)
             \/ Unavailable(a) \/ Crash(a) \/ Expire(a) \/ Sign(a)
      PROVE  UNCHANGED <<site, of>>
  BY <1>3 DEF Begin, Find, MarkVerifying, Verify, InsertSite, Consume, SendCommit,
              Acknowledge, Fail, Unavailable, Crash, Expire, Sign
<1>4. ASSUME NEW t \in Targets, Offer(t)
      PROVE  UNCHANGED <<site, of>>
  BY <1>4 DEF Offer
<1>5. CASE UNCHANGED vars
  BY <1>5, QuietRegistry DEF vars
<1> QED  BY <1>1, <1>2, <1>3, <1>4, <1>5, QuietRegistry DEF Next, Handle

\* The four transactions and the call to the site implement the registry, in
\* which a resource is claimed and released atomically.
THEOREM RegistryImplemented == Spec => ImplementsRegistry
<1>1. Init => Registry!Init
  BY DEF Init, Registry!Init, Owner
<1> QED  BY <1>1, StepIsRegistered, PairingInvariant, PTL
         DEF Spec, ImplementsRegistry, Registry!Spec
=============================================================================
