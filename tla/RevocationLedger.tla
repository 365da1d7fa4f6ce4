-------------------------- MODULE RevocationLedger --------------------------
(***************************************************************************)
(* What the grant and outbox tables promise, with no transactions, locks   *)
(* or sessions: a revocation and the events that announce it are one step, *)
(* each event takes the next number of its site, and a grant, site or key  *)
(* that has been revoked never comes back.                                 *)
(***************************************************************************)
EXTENDS Integers, FiniteSets

CONSTANTS Sites, Grants, Keys, SiteOf

VARIABLES site, status, reason, key, outbox

ledger == <<site, status, reason, key, outbox>>

Live(g) == status[g] \in {"pending", "active"}

NextNumber(s) == Cardinality({e \in outbox : e.site = s}) + 1

Entry(s, type, target, why) ==
    [site |-> s, seq |-> NextNumber(s), type |-> type, target |-> target, reason |-> why]

Connect(s) ==
    /\ site[s] = "absent"
    /\ site' = [site EXCEPT ![s] = "active"]
    /\ UNCHANGED <<status, reason, key, outbox>>

Open(g) ==
    /\ status[g] = "absent"
    /\ status' = [status EXCEPT ![g] = "pending"]
    /\ UNCHANGED <<site, reason, key, outbox>>

Approve(g) ==
    /\ status[g] = "pending"
    /\ status' = [status EXCEPT ![g] = "active"]
    /\ UNCHANGED <<site, reason, key, outbox>>

\* The only revocation the connector is not told of.
Deny(g) ==
    /\ status[g] = "pending"
    /\ status' = [status EXCEPT ![g] = "revoked"]
    /\ reason' = [reason EXCEPT ![g] = "consent_denied"]
    /\ UNCHANGED <<site, key, outbox>>

RevokeGrant(g, why) ==
    /\ Live(g)
    /\ status' = [status EXCEPT ![g] = "revoked"]
    /\ reason' = [reason EXCEPT ![g] = why]
    /\ outbox' = outbox \cup {Entry(SiteOf[g], "grant", g, why)}
    /\ UNCHANGED <<site, key>>

\* A set R of the site's live grants goes with the site.
Disconnect(s, R) ==
    /\ site[s] = "active"
    /\ \A g \in R : SiteOf[g] = s /\ Live(g)
    /\ site' = [site EXCEPT ![s] = "revoked"]
    /\ status' = [g \in Grants |-> IF g \in R THEN "revoked" ELSE status[g]]
    /\ reason' = [g \in Grants |-> IF g \in R THEN "site_disconnected" ELSE reason[g]]
    /\ outbox' = outbox \cup {Entry(s, "site", s, "site_disconnected")}
    /\ UNCHANGED key

\* Every site in T, none of which is unknown, hears of the key.
RevokeKey(k, T) ==
    /\ key[k] = "usable"
    /\ \A s \in T : site[s] # "absent"
    /\ key' = [key EXCEPT ![k] = "revoked"]
    /\ outbox' = outbox \cup {Entry(s, "key", k, "key_revoked") : s \in T}
    /\ UNCHANGED <<site, status, reason>>

Init ==
    /\ site \in [Sites -> {"absent", "active"}]
    /\ status = [g \in Grants |-> "absent"]
    /\ reason = [g \in Grants |-> "none"]
    /\ key = [k \in Keys |-> "usable"]
    /\ outbox = {}

Next ==
    \/ \E s \in Sites : Connect(s)
    \/ \E g \in Grants :
          \/ Open(g) \/ Approve(g) \/ Deny(g)
          \/ \E why \in {"platform_user_revoked", "refresh_replay", "token_revoked"} :
                RevokeGrant(g, why)
    \/ \E s \in Sites, R \in SUBSET Grants : Disconnect(s, R)
    \/ \E k \in Keys, T \in SUBSET Sites : RevokeKey(k, T)

Spec == Init /\ [][Next]_ledger
=============================================================================
