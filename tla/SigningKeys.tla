---------------------------- MODULE SigningKeys -----------------------------
(***************************************************************************)
(* The signing keys over time: the rows that an operator publishes,        *)
(* activates, retires or revokes, and the authorization service, which     *)
(* reads them once when it starts.  From then on it signs with the key it  *)
(* found active, asking the database again before every signature, and     *)
(* serves the keys it found as its JWKS.  The service is recreated, never  *)
(* run twice.  Time is counted in ticks up to Overlap; an access token's   *)
(* life includes the clock skew that connectors allow.                     *)
(***************************************************************************)
EXTENDS Integers

CONSTANTS
    Keys, None,
    Overlap,   \* the 20 minutes of activate_signing_key
    TokenLife  \* the life of an access token

ASSUME KeyConstants ==
    /\ None \notin Keys
    /\ Overlap \in Nat /\ TokenLife \in Nat \ {0} /\ TokenLife < Overlap

VARIABLES
    status,    \* signing_key_metadata.status, 'retired' being revoked by retire
    age,       \* ticks since publish_at, then since the key left 'active'
    kid,       \* the key the service loaded, None when it is down
    served,    \* the keys of its JWKS
    mounted,   \* the private key files in the service's keyring
    signing,   \* what is left of the life of the token being signed
    left       \* what is left of the longest-lived token a key has signed

rows == <<status, age>>
service == <<kid, served, signing>>
keysVars == <<rows, mounted, service, left>>

KeysTypeOK ==
    /\ status \in [Keys -> {"none", "published", "active", "retiring", "retired", "revoked"}]
    /\ age \in [Keys -> 0 .. Overlap]
    /\ mounted \subseteq Keys /\ kid \in Keys \cup {None} /\ served \subseteq Keys
    /\ signing \in 0 .. TokenLife /\ left \in [Keys -> 0 .. TokenLife]

KeysInit ==
    /\ status = [k \in Keys |-> "none"] /\ age = [k \in Keys |-> 0]
    /\ mounted = {} /\ kid = None /\ served = {} /\ signing = 0
    /\ left = [k \in Keys |-> 0]

-----------------------------------------------------------------------------
(* The operator. *)

\* A key file is put into the keyring, or taken out of it.
Mount(k) == k \notin mounted /\ mounted' = mounted \cup {k} /\ UNCHANGED <<rows, service, left>>
Unmount(k) == k \in mounted /\ mounted' = mounted \ {k} /\ UNCHANGED <<rows, service, left>>

\* signing-keys-cli publish: the public half of a key that is mounted
Publish(k) ==
    /\ status[k] = "none" /\ k \in mounted /\ status' = [status EXCEPT ![k] = "published"]
    /\ age' = [age EXCEPT ![k] = 0]
    /\ UNCHANGED <<mounted, service, left>>

Active == {k \in Keys : status[k] = "active"}

\* Mutant: the new key is activated only in place of an active one.
ActivateNext(k) ==
    /\ Active # {}
    /\ status[k] = "published" /\ age[k] = Overlap
    /\ status' = [j \in Keys |-> IF j = k THEN "active"
                                 ELSE IF j \in Active THEN "retiring" ELSE status[j]]
    /\ age' = [j \in Keys |-> IF j \in Active THEN 0 ELSE age[j]]
    /\ UNCHANGED <<mounted, service, left>>

\* activate_signing_key: published long enough; the current key, if there is
\* one, begins its overlap.
Activate(k) ==
    /\ status[k] = "published" /\ age[k] = Overlap
    /\ status' = [j \in Keys |-> IF j = k THEN "active"
                                 ELSE IF j \in Active THEN "retiring" ELSE status[j]]
    /\ age' = [j \in Keys |-> IF j \in Active THEN 0 ELSE age[j]]
    /\ UNCHANGED <<mounted, service, left>>

\* PostgresSigningKeyRepository.retire
Retire(k) ==
    /\ status[k] = "retiring" /\ age[k] = Overlap
    /\ status' = [status EXCEPT ![k] = "retired"]
    /\ UNCHANGED <<age, mounted, service, left>>

\* revoke_signing_key, whose events make the connectors deny the key.
RevokeKey(k) ==
    /\ status[k] \in {"published", "active", "retiring"}
    /\ status' = [status EXCEPT ![k] = "revoked"]
    /\ UNCHANGED <<age, mounted, service, left>>

-----------------------------------------------------------------------------
(* The service. *)

\* Mutant: retiring keys are left out of the JWKS.
UsableNow(k) == status[k] \in {"published", "active"}

\* The rows of loadUsable.
UsableRow(k) == \/ status[k] \in {"published", "active"}
                \/ status[k] = "retiring" /\ age[k] < Overlap

\* loadUsable: the one active row, and the rows whose keys only verify
Sole(k) == Active = {k}
Verification == {k \in Keys : UsableRow(k)} \ Active

\* LocalPkcs8KeyCustody.load: the file in the row's slot must be that key.
Custody(k) == k \in mounted

\* createAuthorizationProvider: oidc-provider signs with the first key that can.
Jwks(k) == {k} \cup Verification

\* startAuthorizationService; without a sole active key or its file it fails.
Start ==
    /\ kid = None
    /\ \E k \in Keys : /\ Sole(k) /\ Custody(k)
                       /\ kid' = k /\ served' = Jwks(k) /\ signing' = 0
    /\ UNCHANGED <<rows, mounted, left>>

Stop ==
    /\ kid # None /\ kid' = None /\ served' = {} /\ signing' = 0
    /\ UNCHANGED <<rows, mounted, left>>

\* Mutant: the key that was loaded is taken to be active still.
AsLoaded == kid # None

\* isActive
StillActive == kid # None /\ status[kid] = "active"

\* custody.sign: the token's expiry is set, then isActive, then the signature.
Check ==
    /\ StillActive /\ signing = 0 /\ signing' = TokenLife
    /\ UNCHANGED <<rows, mounted, kid, served, left>>

SignToken ==
    /\ signing > 0 /\ signing' = 0
    /\ left' = [left EXCEPT ![kid] = IF @ < signing THEN signing ELSE @]
    /\ UNCHANGED <<rows, mounted, kid, served>>

-----------------------------------------------------------------------------
Later(n) == IF n < Overlap THEN n + 1 ELSE n
Less(n) == IF n > 0 THEN n - 1 ELSE n

Tick ==
    /\ age' = [k \in Keys |-> Later(age[k])]
    /\ signing' = Less(signing)
    /\ left' = [k \in Keys |-> Less(left[k])]
    /\ UNCHANGED <<status, mounted, kid, served>>

\* A key nothing refers to any more: its name stands for a fresh one.
Forget(k) ==
    /\ status[k] \in {"retired", "revoked"} /\ left[k] = 0
    /\ k \notin served /\ kid # k
    /\ status' = [status EXCEPT ![k] = "none"]
    /\ age' = [age EXCEPT ![k] = 0]
    /\ UNCHANGED <<mounted, service, left>>

KeysNext ==
    \/ Start \/ Stop \/ Check \/ SignToken \/ Tick
    \/ \E k \in Keys : \/ Mount(k) \/ Unmount(k) \/ Publish(k) \/ Activate(k)
                     \/ Retire(k) \/ RevokeKey(k) \/ Forget(k)

KeysSpec == KeysInit /\ [][KeysNext]_keysVars

\* The operator replaces a key that is gone and recreates a service that is
\* not ready; in the end there are no more emergencies or rotations.
Unready == kid # None /\ ~StillActive
Calm == \A k \in Keys : ~RevokeKey(k) /\ ~Unmount(k) /\ (Activate(k) => Active = {})
                        /\ (Stop => Unready)
FairSpec ==
    /\ KeysSpec /\ WF_keysVars(Start) /\ WF_keysVars(Unready /\ Stop) /\ WF_keysVars(Tick)
    /\ \A k \in Keys : /\ WF_keysVars(Mount(k)) /\ WF_keysVars(Publish(k))
                       /\ WF_keysVars(Activate(k)) /\ WF_keysVars(Forget(k))
    /\ <>[][Calm]_keysVars

-----------------------------------------------------------------------------
(* Properties. *)

\* Whatever the service has signed and is still valid verifies with the JWKS
\* it serves now, after every restart and rotation, unless the key was revoked
\* in an emergency.
TokensVerify ==
    \A k \in Keys : left[k] > 0 /\ kid # None /\ status[k] # "revoked" => k \in served

\* Retiring takes nobody's token away: by the time a key may be retired, all
\* that a process with stale knowledge may have signed with it has expired.
RetiredAreSilent ==
    \A k \in Keys : status[k] = "retired" =>
        /\ left[k] = 0
        /\ kid = k => signing = 0

\* After an emergency the platform signs again, with a key published since or
\* before.
SigningResumes == []<>StillActive

\* "Published and retiring public keys remain in JWKS for the required
\* overlap." (ADR-009): a key that has been published for as long as activation
\* demands is in the JWKS of the process that runs.
PublishedAreServed ==
    \A k \in Keys : status[k] = "published" /\ age[k] = Overlap /\ kid # None => k \in served
=============================================================================
