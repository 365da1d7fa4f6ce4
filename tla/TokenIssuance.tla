--------------------------- MODULE TokenIssuance ---------------------------
(***************************************************************************)
(* Authorization codes and refresh tokens of one grant, and the requests   *)
(* that use them.  A request is served by oidc-provider, a library that is *)
(* not part of the repository; between its awaits it calls the adapter and *)
(* the claims resolver, and each such call is one transaction and one      *)
(* action here.  Requests of one grant run side by side, in one process or *)
(* in several, and may die at any await.                                   *)
(***************************************************************************)
EXTENDS Integers, FiniteSets

CONSTANTS
    Codes, Tokens,  \* artifact ids: authorization codes, refresh tokens
    Requests,       \* requests, each used once
    RefreshLimit    \* consumptions in one window of oauth.refresh_family

ASSUME TokenConstants ==
    /\ Codes \cap Tokens = {}
    /\ "none" \notin Codes \cup Tokens
    /\ RefreshLimit \in Nat \ {0}

VARIABLES
    grant,    \* grants.status
    reason,   \* grants.revocation_reason
    issued,   \* artifact ids that have been saved once; ids are never drawn twice
    stored,   \* rows of secret_artifacts
    consumed, \* rows with consumed_at
    lapsed,   \* rows whose expires_at has passed
    family,   \* the code a refresh token descends from
    used,     \* the counter of the current rate-limit window
    pc,       \* the next call of a request
    uses,     \* the artifact a request presented
    gets,     \* the refresh token a request saved, for its response
    todo,     \* the calls left of a revoking request
    why,      \* what the reason resolver answers in a request's context
    minted,   \* requests that signed an access token (history)
    late      \* requests that began after the grant was revoked (history)

artifacts == <<issued, stored, consumed, lapsed, family>>
row == <<grant, reason>>
request == <<pc, uses, gets, todo, why, minted, late>>
vars == <<artifacts, row, request, used>>

Artifacts == Codes \cup Tokens
Reasons == {"platform_user_revoked", "refresh_replay", "token_revoked"}
Working == {"consume", "store", "check", "sign", "revoke"}
Ended == {"answered", "replayed", "refused", "failed"}

TypeOK ==
    /\ grant \in {"active", "revoked"}
    /\ reason \in Reasons \cup {"none"}
    /\ issued \subseteq Artifacts
    /\ stored \subseteq issued
    /\ consumed \subseteq stored
    /\ lapsed \subseteq stored
    /\ family \in [Tokens -> Codes \cup {"none"}]
    /\ used \in 0 .. RefreshLimit
    /\ pc \in [Requests -> {"idle"} \cup Working \cup Ended]
    /\ uses \in [Requests -> Artifacts \cup {"none"}]
    /\ gets \in [Requests -> Tokens \cup {"none"}]
    /\ todo \in [Requests -> SUBSET {"destroy", "delete", "revoke"}]
    /\ why \in [Requests -> {"refresh_replay", "token_revoked"}]
    /\ minted \subseteq Requests
    /\ late \subseteq Requests

Init ==
    /\ grant = "active" /\ reason = "none"
    /\ issued = {} /\ stored = {} /\ consumed = {} /\ lapsed = {}
    /\ family = [t \in Tokens |-> "none"]
    /\ used = 0
    /\ pc = [r \in Requests |-> "idle"]
    /\ uses = [r \in Requests |-> "none"]
    /\ gets = [r \in Requests |-> "none"]
    /\ todo = [r \in Requests |-> {}]
    /\ why = [r \in Requests |-> "token_revoked"]
    /\ minted = {} /\ late = {}

-----------------------------------------------------------------------------
(* Rows of secret_artifacts. *)

(* What find selects. *)
Found(a) == a \in stored \ lapsed

(* Mutant: the UPDATE of consume without "consumed_at IS NULL". *)
UsableMoreThanOnce(a) == Found(a)

(* What the compare-and-swap of consume selects. *)
Usable(a) == Found(a) /\ a \notin consumed

Live == (Tokens \cap stored) \ (consumed \cup lapsed)

(* consume_rate_limit for the family, called with the token row locked. *)
Allowed == used < RefreshLimit

Save(a) ==
    /\ a \notin issued
    /\ issued' = issued \cup {a}
    /\ stored' = stored \cup {a}

Mark(a) ==
    /\ consumed' = consumed \cup {a}
    /\ UNCHANGED <<issued, stored, lapsed, family>>

Remove(S) ==
    /\ stored' = stored \ S
    /\ consumed' = consumed \ S
    /\ lapsed' = lapsed \ S
    /\ UNCHANGED <<issued, family>>

(* The row of the grant in revoke_refresh_grant: an earlier reason stays. *)
Revoke(r0) ==
    /\ grant' = "revoked"
    /\ reason' = IF grant = "active" THEN r0 ELSE reason

-----------------------------------------------------------------------------
(* A request goes on to another call, or ends. *)

Goto(r, label) ==
    /\ pc' = [pc EXCEPT ![r] = label]
    /\ UNCHANGED <<uses, gets, todo, why, minted, late>>

(* oidc-provider has found the artifact it was given. *)
Begin(r, a, label, calls, reasonOf) ==
    /\ pc[r] = "idle"
    /\ Found(a)
    /\ pc' = [pc EXCEPT ![r] = label]
    /\ uses' = [uses EXCEPT ![r] = a]
    /\ todo' = [todo EXCEPT ![r] = calls]
    /\ why' = [why EXCEPT ![r] = reasonOf]
    /\ late' = IF grant = "revoked" THEN late \cup {r} ELSE late
    /\ UNCHANGED <<gets, minted, row, artifacts, used>>

(* Who may present a refresh token has had it in a response. *)
Handed(t) == \E r \in Requests : pc[r] = "answered" /\ gets[r] = t

-----------------------------------------------------------------------------
(* The clock, and what others do to the grant. *)

(* The authorization endpoint found the grant active some time before it saves
   the code: no transaction spans the two. *)
IssueCode ==
    \E c \in Codes :
        /\ Save(c)
        /\ UNCHANGED <<consumed, lapsed, family, row, request, used>>

Lapse ==
    \E a \in stored \ lapsed :
        /\ lapsed' = lapsed \cup {a}
        /\ UNCHANGED <<issued, stored, consumed, family, row, request, used>>

NewWindow ==
    /\ used > 0
    /\ used' = 0
    /\ UNCHANGED <<artifacts, row, request>>

(* revoke_grant_with_event; it leaves the artifacts alone. *)
PlatformRevokes ==
    /\ grant = "active"
    /\ Revoke("platform_user_revoked")
    /\ UNCHANGED <<artifacts, request, used>>

-----------------------------------------------------------------------------
(* The token endpoint. *)

PresentCode(r) ==
    \E c \in Codes :
        \/ c \notin consumed /\ Begin(r, c, "consume", {}, "token_revoked")
        \/ c \in consumed /\ Begin(r, c, "revoke", {"delete", "revoke"}, "token_revoked")

PresentToken(r) ==
    \E t \in Tokens :
        /\ Handed(t)
        /\ \/ t \notin consumed /\ Begin(r, t, "consume", {}, "token_revoked")
           \/ /\ t \in consumed
              /\ Begin(r, t, "revoke", {"destroy", "delete", "revoke"}, "refresh_replay")

(* Mutant: the number of updated rows is not looked at. *)
ConsumeCodeBlindly(r) ==
    /\ pc[r] = "consume" /\ uses[r] \in Codes
    /\ Goto(r, "check")
    /\ IF Usable(uses[r]) THEN Mark(uses[r]) ELSE UNCHANGED artifacts
    /\ UNCHANGED <<row, used>>

(* consume of a code; what does not match has been consumed, deleted or has
   expired since it was found, and throws. *)
ConsumeCode(r) ==
    /\ pc[r] = "consume" /\ uses[r] \in Codes
    /\ IF Usable(uses[r])
         THEN Mark(uses[r]) /\ Goto(r, "check")
         ELSE Goto(r, "failed") /\ UNCHANGED artifacts
    /\ UNCHANGED <<row, used>>

(* consume of a refresh token: the row is locked, then counted, then marked. *)
Rotate(r) ==
    /\ pc[r] = "consume" /\ uses[r] \in Tokens
    /\ Usable(uses[r])
    /\ IF Allowed
         THEN used' = used + 1 /\ Mark(uses[r]) /\ Goto(r, "store")
         ELSE Goto(r, "failed") /\ UNCHANGED <<artifacts, used>>
    /\ UNCHANGED row

(* Mutant: the error is raised inside the transaction, which rolls it back. *)
ReplayRolledBack(r) ==
    /\ pc[r] = "consume" /\ uses[r] \in Tokens
    /\ ~Usable(uses[r])
    /\ Goto(r, IF uses[r] \in stored \cap consumed THEN "replayed" ELSE "failed")
    /\ UNCHANGED <<row, artifacts, used>>

(* consume of a refresh token that another request has consumed since: the grant
   is revoked and every refresh token of it expires, in the transaction of
   consume; the error is raised after its COMMIT. *)
Replay(r) ==
    /\ pc[r] = "consume" /\ uses[r] \in Tokens
    /\ ~Usable(uses[r])
    /\ IF uses[r] \in stored \cap consumed
         THEN /\ Revoke("refresh_replay")
              /\ lapsed' = lapsed \cup (stored \cap Tokens)
              /\ Goto(r, "replayed")
              /\ UNCHANGED <<issued, stored, consumed, family>>
         ELSE Goto(r, "failed") /\ UNCHANGED <<row, artifacts>>
    /\ UNCHANGED used

(* The successor of a consumed refresh token, or the first one of a code. *)
Store(r) ==
    /\ pc[r] = "store"
    /\ \E t \in Tokens :
          /\ Save(t)
          /\ gets' = [gets EXCEPT ![r] = t]
          /\ family' = [family EXCEPT ![t] =
                 IF uses[r] \in Codes THEN uses[r] ELSE family[uses[r]]]
    /\ pc' = [pc EXCEPT ![r] = IF uses[r] \in Codes THEN "answered" ELSE "check"]
    /\ UNCHANGED <<consumed, lapsed, uses, todo, why, minted, late, row, used>>

(* Mutant: the resolver does not ask for an active grant. *)
CheckBinding(r) ==
    /\ pc[r] = "check"
    /\ Goto(r, "sign")
    /\ UNCHANGED <<artifacts, row, used>>

(* extraTokenClaims of the access token. *)
CheckClaims(r) ==
    /\ pc[r] = "check"
    /\ Goto(r, IF grant = "active" THEN "sign" ELSE "failed")
    /\ UNCHANGED <<artifacts, row, used>>

(* A code request may ask for no refresh token. *)
Sign(r) ==
    /\ pc[r] = "sign"
    /\ minted' = minted \cup {r}
    /\ \/ pc' = [pc EXCEPT ![r] = "answered"]
       \/ uses[r] \in Codes /\ pc' = [pc EXCEPT ![r] = "store"]
    /\ UNCHANGED <<uses, gets, todo, why, late, artifacts, row, used>>

-----------------------------------------------------------------------------
(* Revocation through the adapter. *)

(* RFC 7009: any refresh token that is found, consumed or not. *)
PresentRevocation(r) ==
    \E t \in Tokens :
        /\ Handed(t)
        /\ Begin(r, t, "revoke", {"destroy", "delete", "revoke"}, "token_revoked")

(* Mutant: one context for the whole process, that of the request which began
   last and still works. *)
SharedContext(r) ==
    IF \E q \in Requests \ {r} : pc[q] = "revoke" /\ why[q] = "token_revoked"
      THEN "token_revoked" ELSE why[r]

(* The reason resolver, in the request's own AsyncLocalStorage context. *)
ReasonFor(r) == why[r]

(* The calls of a revoking request run concurrently: destroy of the token,
   revokeByGrantId of another model, which only deletes what the grant has, and
   revokeByGrantId of RefreshToken, which revokes the grant before it deletes. *)
RevokeCall(r) ==
    /\ pc[r] = "revoke"
    /\ \E call \in todo[r] :
          /\ Remove(IF call = "destroy" THEN {uses[r]} ELSE stored)
          /\ IF call = "revoke" THEN Revoke(ReasonFor(r)) ELSE UNCHANGED row
          /\ todo' = [todo EXCEPT ![r] = @ \ {call}]
          /\ pc' = [pc EXCEPT ![r] = IF todo[r] = {call} THEN "refused" ELSE @]
    /\ UNCHANGED <<uses, gets, why, minted, late, used>>

(* A failed query, an account that is not active, a signing error, a dead
   process: what is done stays done. *)
Fail(r) ==
    /\ pc[r] \in Working
    /\ Goto(r, "failed")
    /\ UNCHANGED <<artifacts, row, used>>

-----------------------------------------------------------------------------
Next ==
    \/ IssueCode \/ Lapse \/ NewWindow \/ PlatformRevokes
    \/ \E r \in Requests :
          \/ PresentCode(r) \/ PresentToken(r) \/ PresentRevocation(r)
          \/ ConsumeCode(r) \/ Rotate(r) \/ Replay(r)
          \/ Store(r) \/ CheckClaims(r) \/ Sign(r)
          \/ RevokeCall(r) \/ Fail(r)

Spec == Init /\ [][Next]_vars

-----------------------------------------------------------------------------
(* Properties. *)

(* Whoever presents codes and tokens together, the refresh tokens that descend
   from one code never include two that can be exchanged: adapter consume and
   the save that follows it, in another transaction. *)
OneLiveTokenPerFamily ==
    \A s, t \in Live : family[s] = family[t] => s = t

(* A code and a refresh token are worth one access token each, however many
   requests found them unused. *)
OneUseMintsOnce ==
    \A q, r \in minted : uses[q] = uses[r] => q = r

(* A request that is told its refresh token was used before leaves the grant
   revoked: the error of adapter consume must not undo the revocation. *)
ReplayRevokes ==
    \A r \in Requests :
        (pc[r] = "replayed" \/ (pc[r] = "refused" /\ why[r] = "refresh_replay"))
            => grant = "revoked"

(* No request that begins after the grant was revoked, by whichever path, gets
   an access token, although the platform's revocation leaves the refresh tokens
   alone and a request that was under way saves another (extraTokenClaims and
   the claims resolver). *)
LaterUsesFail == late \cap minted = {}

(* The recorded reason is that of a request which really did so: a replay only
   if a refresh token was presented twice, a revoked token only if a request for
   that, or with a spent code, has made its revoking call. *)
ReasonTellsTheCause ==
    /\ reason = "refresh_replay" =>
          \E q, r \in Requests : q # r /\ uses[q] = uses[r] /\ uses[q] \in Tokens
    /\ reason = "token_revoked" =>
          \E r \in Requests : /\ why[r] = "token_revoked" /\ "revoke" \notin todo[r]
                              /\ pc[r] = "refused" \/ todo[r] # {}

(* docs/ADR-009: any later use of a refresh token "is replay, revokes the entire
   family and grant".  False of the code: the winner of the race may save its
   successor after the replay has expired the others, and that one stays. *)
ReplayEndsFamily ==
    \A r \in Requests : pc[r] = "replayed" =>
        \A t \in Live : family[t] # family[uses[r]]
=============================================================================
