---------------------------- MODULE ConsentFlow -----------------------------
(***************************************************************************)
(* Consent to an authorization request, given twice: on the WordPress site *)
(* and on the platform.  An interaction of oidc-provider that finds no     *)
(* grant of exactly its scopes sends the visitor to the control API, which *)
(* creates a pending grant; the site's connector signs the decision, the   *)
(* visitor's page completes the grant and returns to the interaction, which*)
(* shows a second page, saves the provider's grant under the platform      *)
(* grant's id and finishes; the resumed request looks everything up again. *)
(* One subject, one client and one site: the tuple that has one live grant.*)
(* Tabs, retries, lost answers and revocations interleave everywhere.      *)
(***************************************************************************)
EXTENDS Integers

CONSTANTS
    Grants,        \* grant ids
    Interactions,  \* interactions, each slot used again when its 300 s are over
    Scopes,        \* sets of scopes a client may ask for
    None

ASSUME ConsentConstants ==
    /\ None \notin Grants \cup Interactions \cup Scopes
    /\ Scopes # {}

VARIABLES
    status,    \* platform.grants.status, 'denied' being revoked for consent_denied
    scopes,    \* platform.grants.scopes
    madeFor,   \* the idempotency record of createPending: account and interaction
    lapsed,    \* pending grants whose consent_expires_at has passed
    calling,   \* decisions of the site whose call of complete has read the grant
    settled,   \* idempotency records of activate and deny
    provider,  \* scopes of the Provider Grant under the same id
    phase,     \* where an interaction stands
    asks,      \* the scopes it asks for
    loaded,    \* the Provider Grant it was started with
    boot,      \* bootstrap tokens that were signed
    pages,     \* consent pages and the grant in their csrf value
    posting,   \* approvals under way: the grant, and whether it is saved
    result,    \* the grant id in the interaction's result
    code,      \* the grant of the authorization code that was issued
    agreed     \* grants the visitor approved on a page showing them (history)

rows == <<status, scopes, madeFor, lapsed>>
completion == <<calling, settled>>
tabs == <<boot, pages, posting, agreed>>
request == <<phase, asks, loaded, result, code>>
vars == <<rows, completion, tabs, request, provider>>

GrantStatus == {"none", "pending", "active", "denied", "revoked"}
Decisions == {"approved", "denied"}
Tokens == [uid: Interactions, scopes: Scopes]
Idle == [grant |-> None, saved |-> FALSE]

TypeOK ==
    /\ status \in [Grants -> GrantStatus]
    /\ scopes \in [Grants -> Scopes]
    /\ madeFor \in [Grants -> Interactions \cup {None}]
    /\ lapsed \subseteq Grants /\ agreed \subseteq Grants
    /\ calling \subseteq Grants \X Decisions /\ settled \subseteq Grants \X Decisions
    /\ provider \in [Grants -> Scopes \cup {None}]
    /\ phase \in [Interactions -> {"none", "consent", "approved", "denied", "over", "coded"}]
    /\ asks \in [Interactions -> Scopes]
    /\ loaded \in [Interactions -> Grants \cup {None}]
    /\ boot \subseteq Tokens /\ pages \subseteq Interactions \X Grants
    /\ posting \in [Interactions -> [grant: Grants \cup {None}, saved: BOOLEAN]]
    /\ result \in [Interactions -> Grants \cup {None}]
    /\ code \in [Interactions -> Grants \cup {None}]

Init ==
    /\ status = [g \in Grants |-> "none"]
    /\ scopes = [g \in Grants |-> CHOOSE s \in Scopes : TRUE]
    /\ madeFor = [g \in Grants |-> None] /\ lapsed = {}
    /\ calling = {} /\ settled = {}
    /\ provider = [g \in Grants |-> None]
    /\ phase = [i \in Interactions |-> "none"]
    /\ asks = [i \in Interactions |-> CHOOSE s \in Scopes : TRUE]
    /\ loaded = [i \in Interactions |-> None] /\ boot = {} /\ pages = {}
    /\ posting = [i \in Interactions |-> Idle]
    /\ result = [i \in Interactions |-> None]
    /\ code = [i \in Interactions |-> None] /\ agreed = {}

-----------------------------------------------------------------------------
(* The platform grant. *)

\* grants_one_live_consent_idx: whatever the scopes, and lapsed or not.
Live(g) == status[g] \in {"pending", "active"}

\* resolveExact
Bound(i) == {g \in Grants : status[g] = "active" /\ scopes[g] = asks[i]}

\* grants.start: GrantService.begin and createPending under an idempotency key.
\* The same interaction gets the same grant, whatever has become of it.
CreatePending(g, s, key) ==
    /\ \A h \in Grants : ~Live(h) /\ (key # None => madeFor[h] # key)
    /\ status[g] = "none"
    /\ status' = [status EXCEPT ![g] = "pending"]
    /\ scopes' = [scopes EXCEPT ![g] = s]
    /\ madeFor' = [madeFor EXCEPT ![g] = key]
    /\ UNCHANGED <<lapsed, completion, tabs, request, provider>>

\* The bootstrap token of an interaction, and what its verifier makes of one:
\* nobody else has the key, and a token lives no longer than its interaction.
Bootstrap(i) == [uid |-> i, scopes |-> asks[i]]
Verified(token) == token \in boot

\* POST /v1/oauth/consent/start
Start(i, g) ==
    \E token \in Tokens : /\ Verified(token) /\ token.uid = i
                           /\ CreatePending(g, token.scopes, i)

\* POST /v1/tenants/:id/sites/:id/grants: the same, under a key of its own.
StartDirect(g, s) == CreatePending(g, s, None)

Pending(g) == status[g] = "pending" /\ g \notin lapsed

\* complete: findPending, and the proof of any decision that the connector was
\* brought to sign; a decision that is on record may be completed again.
Find(g, d) ==
    /\ <<g, d>> \notin calling
    /\ Pending(g) \/ <<g, d>> \in settled
    /\ calling' = calling \cup {<<g, d>>}
    /\ UNCHANGED <<rows, settled, tabs, request, provider>>

\* Mutant: the UPDATE trusts what findPending saw.
WhenFound(g) == status[g] # "none" /\ g \notin lapsed

\* The WHERE of activate and deny.
StillPending(g) == Pending(g)

Outcome(d) == IF d = "approved" THEN "active" ELSE "denied"

\* activate or deny, and its answer, which may be lost.
Settle(g, d) ==
    /\ <<g, d>> \in calling /\ calling' = calling \ {<<g, d>>}
    /\ IF <<g, d>> \notin settled /\ StillPending(g)
       THEN /\ status' = [status EXCEPT ![g] = Outcome(d)]
            /\ settled' = settled \cup {<<g, d>>}
       ELSE UNCHANGED <<status, settled>>
    /\ UNCHANGED <<scopes, madeFor, lapsed, tabs, request, provider>>

\* Mutant: revoke_grant_with_event leaves pending grants alone.
RevokeActive(g) ==
    /\ status[g] = "active" /\ status' = [status EXCEPT ![g] = "revoked"]
    /\ UNCHANGED <<scopes, madeFor, lapsed, completion, tabs, request, provider>>

\* The user, a token endpoint or a disconnection (GrantRevocation).
Revoke(g) ==
    /\ Live(g) /\ status' = [status EXCEPT ![g] = "revoked"] /\ lapsed' = lapsed \ {g}
    /\ UNCHANGED <<scopes, madeFor, completion, tabs, request, provider>>

\* Two minutes pass.
Lapse(g) ==
    /\ status[g] = "pending" /\ g \notin lapsed /\ lapsed' = lapsed \cup {g}
    /\ UNCHANGED <<status, scopes, madeFor, completion, tabs, request, provider>>

-----------------------------------------------------------------------------
(* The interaction. *)

\* createResourceGrantLoader: a Provider Grant under the id of the bound grant.
Loaded(i) == {g \in Bound(i) : provider[g] = scopes[g]}

\* GET /auth: a request that is covered gets its code at once, unless the
\* client prompts for consent.
Authorize(i, s) ==
    /\ phase[i] = "none" /\ asks' = [asks EXCEPT ![i] = s]
    /\ LET known == {g \in Grants : status[g] = "active" /\ scopes[g] = s /\ provider[g] = s}
       IN \/ /\ \E g \in known : code' = [code EXCEPT ![i] = g]
             /\ phase' = [phase EXCEPT ![i] = "coded"] /\ UNCHANGED loaded
          \/ /\ phase' = [phase EXCEPT ![i] = "consent"]
             /\ loaded' = [loaded EXCEPT
                   ![i] = IF known = {} THEN None ELSE CHOOSE g \in known : TRUE]
             /\ UNCHANGED code
    /\ UNCHANGED <<rows, completion, tabs, result, provider>>

\* GET /interaction/:uid, the consent page or the way to the control API.
View(i) ==
    /\ phase[i] = "consent"
    /\ IF Bound(i) = {} THEN boot' = boot \cup {Bootstrap(i)} /\ UNCHANGED pages
                        ELSE pages' = pages \cup ({i} \X Bound(i)) /\ UNCHANGED boot
    /\ UNCHANGED <<rows, completion, posting, agreed, request, provider>>

\* Mutant: the csrf value binds the interaction and the account only.
AnyGrant(g, b) == TRUE

\* csrf.grantId = binding.grantId
SameGrant(g, b) == g = b

\* interactionSubmissionHeaderRejection: a form comes from a page of this origin.
FromPage(i, g) == <<i, g>> \in pages

\* POST /interaction/:uid approves a page: the binding is resolved again, and
\* consentGrantUpdatePlan refuses another Provider Grant than it loaded.
Submit(i, g) ==
    /\ phase[i] = "consent" /\ FromPage(i, g) /\ posting[i] = Idle
    /\ \E b \in Bound(i) :
          /\ SameGrant(g, b) /\ loaded[i] \in {None, b}
          /\ posting' = [posting EXCEPT ![i] = [grant |-> b, saved |-> FALSE]]
    /\ agreed' = agreed \cup {g}
    /\ UNCHANGED <<rows, completion, boot, pages, request, provider>>

\* grant.save: a new Provider Grant takes the platform grant's id.
Save(i) ==
    /\ posting[i].grant # None /\ ~posting[i].saved
    /\ posting' = [posting EXCEPT ![i].saved = TRUE]
    /\ provider' = [provider EXCEPT ![posting[i].grant] =
                       IF loaded[i] = None THEN asks[i] ELSE @]
    /\ UNCHANGED <<rows, completion, boot, pages, agreed, request>>

\* interactionFinished and the redirection: the last result stays.
Finish(i) ==
    /\ posting[i].saved /\ posting' = [posting EXCEPT ![i] = Idle]
    /\ IF phase[i] \in {"consent", "denied"}
       THEN /\ phase' = [phase EXCEPT ![i] = "approved"]
            /\ result' = [result EXCEPT ![i] = IF loaded[i] = None THEN posting[i].grant ELSE None]
       ELSE UNCHANGED <<phase, result>>
    /\ UNCHANGED <<rows, completion, boot, pages, agreed, asks, loaded, code, provider>>

\* oauthConsentBootstrapMatches: a token of this interaction and request
Matches(i, token) == Verified(token) /\ token = Bootstrap(i)

\* A page, or the start page with its bootstrap token, is answered with a denial.
Deny(i) ==
    /\ phase[i] \in {"consent", "approved"}
    /\ \/ \E g \in Bound(i) : FromPage(i, g)
       \/ \E token \in Tokens : Matches(i, token)
    /\ phase' = [phase EXCEPT ![i] = "denied"] /\ result' = [result EXCEPT ![i] = None]
    /\ UNCHANGED <<rows, completion, tabs, asks, loaded, code, provider>>

\* GET /auth/:uid: a code when the loader finds the grant that was submitted.
Resume(i) ==
    /\ \/ /\ phase[i] = "approved"
          /\ \E g \in Loaded(i) :
                /\ result[i] \in {None, g}
                /\ code' = [code EXCEPT ![i] = g]
          /\ phase' = [phase EXCEPT ![i] = "coded"]
       \/ /\ phase[i] = "denied" \/ /\ phase[i] = "approved"
                                    /\ \/ Loaded(i) = {}
                                       \/ result[i] \notin {None} \cup Loaded(i)
          /\ phase' = [phase EXCEPT ![i] = "over"] /\ UNCHANGED code
    /\ result' = [result EXCEPT ![i] = None] /\ pages' = {p \in pages : p[1] # i}
    /\ UNCHANGED <<rows, completion, boot, posting, agreed, asks, loaded, provider>>

\* The interaction's five minutes are over, and its tokens' and pages' too.
Close(i) ==
    /\ phase[i] # "none" /\ posting[i] = Idle
    /\ phase' = [phase EXCEPT ![i] = "none"]
    /\ asks' = [asks EXCEPT ![i] = CHOOSE s \in Scopes : TRUE]
    /\ loaded' = [loaded EXCEPT ![i] = None] /\ result' = [result EXCEPT ![i] = None]
    /\ code' = [code EXCEPT ![i] = None]
    /\ boot' = {token \in boot : token.uid # i} /\ pages' = {p \in pages : p[1] # i}
    /\ madeFor' = [g \in Grants |-> IF madeFor[g] = i THEN None ELSE madeFor[g]]
    /\ UNCHANGED <<status, scopes, lapsed, completion, posting, agreed, provider>>

\* A grant that ended and that nothing refers to is forgotten: its id stands
\* for a fresh one from here on (a call that still holds it changes nothing).
Forget(g) ==
    /\ status[g] \in {"denied", "revoked"} /\ madeFor[g] = None
    /\ \A i \in Interactions : /\ g \notin {loaded[i], posting[i].grant, result[i], code[i]}
                               /\ <<i, g>> \notin pages
    /\ status' = [status EXCEPT ![g] = "none"]
    /\ scopes' = [scopes EXCEPT ![g] = CHOOSE s \in Scopes : TRUE]
    /\ calling' = calling \ ({g} \X Decisions) /\ settled' = settled \ ({g} \X Decisions)
    /\ agreed' = agreed \ {g}
    /\ provider' = [provider EXCEPT ![g] = None]
    /\ UNCHANGED <<madeFor, lapsed, boot, pages, posting, request>>

Next ==
    \/ \E i \in Interactions :
          \/ View(i) \/ Save(i) \/ Finish(i) \/ Deny(i) \/ Resume(i) \/ Close(i)
          \/ \E s \in Scopes : Authorize(i, s)
          \/ \E g \in Grants : Start(i, g) \/ Submit(i, g)
    \/ \E g \in Grants :
          \/ Revoke(g) \/ Lapse(g) \/ Forget(g)
          \/ \E s \in Scopes : StartDirect(g, s)
          \/ \E d \in Decisions : Find(g, d) \/ Settle(g, d)

Spec == Init /\ [][Next]_vars

\* What the visitor does sooner or later, and the site and the user: the user
\* revokes a consent that lapsed, since nothing else does.
Visit(i) == \/ View(i) \/ Save(i) \/ Finish(i) \/ Resume(i)
            \/ \E g \in Grants : Start(i, g) \/ Submit(i, g)
Carry(g) == \/ Forget(g) \/ (g \in lapsed /\ Revoke(g))
            \/ status[g] = "pending" /\ (Find(g, "approved") \/ \E d \in Decisions : Settle(g, d))

\* Nothing is left to do in an interaction.
Spent(i) ==
    \/ phase[i] \in {"over", "coded"} \/ loaded[i] \notin {None} \cup Bound(i)
    \/ Bound(i) = {} /\ \E g \in Grants : \/ madeFor[g] = i /\ status[g] # "pending"
                                         \/ status[g] = "active" \/ g \in lapsed

\* In the end nobody denies or revokes what is still good, and the visitor is
\* quicker than the deadlines.
Calm ==
    /\ \A g \in Grants :
          /\ ~Lapse(g) /\ ~Find(g, "denied")
          /\ Revoke(g) => g \in lapsed /\ status[g] = "pending"
    /\ \A i \in Interactions : ~Deny(i) /\ (Close(i) => Spent(i))
FairSpec ==
    /\ Spec /\ <>[][Calm]_vars
    /\ \A i \in Interactions :
          /\ WF_vars(Visit(i)) /\ WF_vars(Close(i))
          /\ \A s \in Scopes : SF_vars(Authorize(i, s))
    /\ \A g \in Grants : WF_vars(Carry(g))

-----------------------------------------------------------------------------
(* Properties. *)

\* A code stands for two consents to the same grant: the site signed its
\* approval, the visitor approved a page showing that very grant, and its
\* scopes are those the client asked for, whatever was revoked and consented
\* to again in other tabs.
BothConsented ==
    \A i \in Interactions : code[i] # None =>
        /\ <<code[i], "approved">> \in settled /\ code[i] \in agreed
        /\ scopes[code[i]] = asks[i] /\ provider[code[i]] = asks[i]

\* A decision is taken once: two tabs that approve and deny the same request
\* are not both told that it was done, and a repeated call tells what the
\* first one did.
DecidedOnce ==
    \A g \in Grants :
        /\ ~({<<g, "approved">>, <<g, "denied">>} \subseteq settled)
        /\ status[g] = "denied" <=> <<g, "denied">> \in settled
        /\ status[g] = "active" => <<g, "approved">> \in settled

\* A visitor who goes on trying gets a code in the end.
RetryConsents == []<>(\E i \in Interactions : phase[i] = "coded")
=============================================================================
