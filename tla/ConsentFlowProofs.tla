------------------------- MODULE ConsentFlowProofs -------------------------
(***************************************************************************)
(* Proofs of the safety properties of ConsentFlow for any number of        *)
(* grants, interactions and sets of scopes.                                *)
(*                                                                         *)
(* A code is issued for a grant that is active and has a Provider Grant.   *)
(* The first says that the site approved (RowInv), the second that the     *)
(* visitor did and what for (RowInv, and PostInv while it is being saved). *)
(* Neither is forgotten as long as a code stands for the grant (CodeInv).  *)
(***************************************************************************)
EXTENDS ConsentFlow, TLAPS

\* What the row, the idempotency records and the Provider Grant say of a grant.
RowInv ==
    \A g \in Grants :
        /\ <<g, "approved">> \in settled => status[g] \in {"active", "revoked"}
        /\ <<g, "denied">> \in settled <=> status[g] = "denied"
        /\ status[g] = "active" => <<g, "approved">> \in settled
        /\ provider[g] # None => /\ provider[g] = scopes[g]
                                 /\ g \in agreed /\ status[g] # "none"

\* An approval under way was given on a page showing the grant it is for.
PostInv ==
    \A i \in Interactions : posting[i].grant # None =>
        /\ phase[i] # "none" /\ status[posting[i].grant] # "none"
        /\ scopes[posting[i].grant] = asks[i] /\ posting[i].grant \in agreed

CodeInv ==
    \A i \in Interactions : code[i] # None =>
        /\ phase[i] = "coded" /\ status[code[i]] # "none"
        /\ <<code[i], "approved">> \in settled /\ code[i] \in agreed
        /\ scopes[code[i]] = asks[i] /\ provider[code[i]] = asks[i]

ConsentInv == TypeOK /\ RowInv /\ PostInv /\ CodeInv

-----------------------------------------------------------------------------
LEMMA ConsentInit == Init => ConsentInv
<1> SUFFICES ASSUME Init PROVE ConsentInv
  OBVIOUS
<1>1. (CHOOSE s \in Scopes : TRUE) \in Scopes
  BY ConsentConstants
<1>2. TypeOK
  BY <1>1 DEF Init, TypeOK, GrantStatus, Idle
<1>3. RowInv /\ PostInv /\ CodeInv
  BY DEF Init, RowInv, PostInv, CodeInv, Idle
<1> QED  BY <1>2, <1>3 DEF ConsentInv

LEMMA TypeStep == TypeOK /\ [Next]_vars => TypeOK'
<1> SUFFICES ASSUME TypeOK, [Next]_vars PROVE TypeOK'
  OBVIOUS
<1>0. (CHOOSE s \in Scopes : TRUE) \in Scopes
  BY ConsentConstants
<1> USE DEF TypeOK, GrantStatus, Decisions, rows, completion, tabs, request
<1>1. ASSUME NEW i \in Interactions, View(i) PROVE TypeOK'
  BY <1>1 DEF View, Bound, Bootstrap, Tokens
<1>2. ASSUME NEW i \in Interactions, Save(i) PROVE TypeOK'
  BY <1>2 DEF Save
<1>3. ASSUME NEW i \in Interactions, Finish(i) PROVE TypeOK'
  BY <1>3 DEF Finish, Idle
<1>4. ASSUME NEW i \in Interactions, Deny(i) PROVE TypeOK'
  BY <1>4 DEF Deny
<1>5. ASSUME NEW i \in Interactions, Resume(i) PROVE TypeOK'
  BY <1>5 DEF Resume, Loaded, Bound
<1>6. ASSUME NEW i \in Interactions, Close(i) PROVE TypeOK'
  BY <1>0, <1>6 DEF Close
<1>7. ASSUME NEW i \in Interactions, NEW s \in Scopes, Authorize(i, s) PROVE TypeOK'
  BY <1>7 DEF Authorize
<1>8. ASSUME NEW i \in Interactions, NEW g \in Grants, Submit(i, g) PROVE TypeOK'
  BY <1>8 DEF Submit, Bound
<1>9. ASSUME NEW g \in Grants, NEW s \in Scopes, NEW k \in Interactions \cup {None},
             CreatePending(g, s, k)
      PROVE  TypeOK'
  BY <1>9 DEF CreatePending
<1>10. ASSUME NEW g \in Grants, Revoke(g) \/ Lapse(g) PROVE TypeOK'
  BY <1>10 DEF Revoke, Lapse
<1>11. ASSUME NEW g \in Grants, Forget(g) PROVE TypeOK'
  BY <1>0, <1>11 DEF Forget
<1>12. ASSUME NEW g \in Grants, NEW d \in Decisions, Find(g, d) \/ Settle(g, d) PROVE TypeOK'
  BY <1>12 DEF Find, Settle, Outcome
<1>13. CASE UNCHANGED vars
  BY <1>13 DEF vars
<1> QED  BY <1>1, <1>2, <1>3, <1>4, <1>5, <1>6, <1>7, <1>8, <1>9, <1>10, <1>11, <1>12, <1>13
         DEF Next, Start, StartDirect, Tokens

-----------------------------------------------------------------------------
(* The steps of the platform grant. *)

LEMMA CreateStep ==
    ASSUME ConsentInv, NEW g \in Grants, NEW s \in Scopes, NEW k \in Interactions \cup {None},
           CreatePending(g, s, k)
    PROVE  RowInv' /\ PostInv' /\ CodeInv'
<1> USE DEF ConsentInv, TypeOK, CreatePending, completion, tabs, request
<1>1. RowInv'
  BY DEF RowInv
<1>2. PostInv'
  BY DEF PostInv
<1>3. CodeInv'
  BY DEF CodeInv
<1> QED  BY <1>1, <1>2, <1>3

LEMMA SettleStep ==
    ASSUME ConsentInv, NEW g \in Grants, NEW d \in Decisions, Settle(g, d)
    PROVE  RowInv' /\ PostInv' /\ CodeInv'
<1> USE DEF ConsentInv, TypeOK, Decisions, Settle, StillPending, Pending, Outcome, tabs, request
<1>1. RowInv'
  <2> USE DEF RowInv
  <2>1. CASE <<g, d>> \notin settled /\ StillPending(g)
    <3>1. /\ status[g] = "pending" /\ status' = [status EXCEPT ![g] = Outcome(d)]
          /\ settled' = settled \cup {<<g, d>>}
          /\ UNCHANGED <<scopes, provider, agreed>>
      BY <2>1
    <3>2. \A e \in Decisions : <<g, e>> \notin settled
      BY <3>1
    <3>3. \A h \in Grants \ {g}, e \in Decisions :
             status'[h] = status[h] /\ (<<h, e>> \in settled' <=> <<h, e>> \in settled)
      BY <3>1
    <3> QED  BY <3>1, <3>2, <3>3
  <2>2. CASE ~(<<g, d>> \notin settled /\ StillPending(g))
    BY <2>2
  <2> QED  BY <2>1, <2>2
<1>2. PostInv'
  BY DEF PostInv
<1>3. CodeInv'
  BY DEF CodeInv
<1> QED  BY <1>1, <1>2, <1>3

LEMMA RevokeStep ==
    ASSUME ConsentInv, NEW g \in Grants, Revoke(g)
    PROVE  RowInv' /\ PostInv' /\ CodeInv'
<1> USE DEF ConsentInv, TypeOK, Revoke, Live, completion, tabs, request
<1>1. RowInv'
  BY DEF RowInv
<1>2. PostInv'
  BY DEF PostInv
<1>3. CodeInv'
  BY DEF CodeInv
<1> QED  BY <1>1, <1>2, <1>3

LEMMA ForgetStep ==
    ASSUME ConsentInv, NEW g \in Grants, Forget(g)
    PROVE  RowInv' /\ PostInv' /\ CodeInv'
<1> USE DEF ConsentInv, TypeOK, Forget, request
<1>1. RowInv'
  BY DEF RowInv, Decisions
<1>2. PostInv'
  BY DEF PostInv
<1>3. CodeInv'
  BY DEF CodeInv, Decisions
<1> QED  BY <1>1, <1>2, <1>3

-----------------------------------------------------------------------------
(* The steps of an interaction: only its own tabs, request and Provider Grant. *)

LEMMA AuthorizeStep ==
    ASSUME ConsentInv, NEW i \in Interactions, NEW s \in Scopes, Authorize(i, s)
    PROVE  RowInv' /\ PostInv' /\ CodeInv'
<1> USE DEF ConsentInv, TypeOK, Authorize, rows, completion, tabs
<1>1. RowInv'
  BY DEF RowInv
<1>2. PostInv'
  BY DEF PostInv
<1>3. CodeInv'
  <2>1. code[i] = None
    BY DEF CodeInv
  <2>2. \A g \in Grants : status[g] = "active" /\ scopes[g] = s /\ provider[g] = s =>
           g \in agreed /\ <<g, "approved">> \in settled
    BY ConsentConstants DEF RowInv
  <2> QED  BY <2>1, <2>2 DEF CodeInv
<1> QED  BY <1>1, <1>2, <1>3

LEMMA SubmitStep ==
    ASSUME ConsentInv, NEW i \in Interactions, NEW g \in Grants, Submit(i, g)
    PROVE  RowInv' /\ PostInv' /\ CodeInv'
<1> USE DEF ConsentInv, TypeOK, Submit, SameGrant, Bound, rows, completion, request
<1>1. RowInv'
  BY DEF RowInv
<1>2. PostInv'
  BY DEF PostInv
<1>3. CodeInv'
  BY DEF CodeInv
<1> QED  BY <1>1, <1>2, <1>3

\* Who shares a grant asks for its scopes, so saving it again writes the same.
LEMMA SaveStep ==
    ASSUME ConsentInv, NEW i \in Interactions, Save(i)
    PROVE  RowInv' /\ PostInv' /\ CodeInv'
<1> USE DEF ConsentInv, TypeOK, Save, rows, completion, request
<1> DEFINE p == posting[i].grant
<1>1. /\ p \in Grants /\ p \in agreed /\ scopes[p] = asks[i] /\ status[p] # "none"
  BY DEF PostInv
<1>2. provider'[p] \in {asks[i], provider[p]}
  BY <1>1
<1>3. \A g \in Grants \ {p} : provider'[g] = provider[g]
  BY <1>1
<1>4. RowInv'
  BY <1>1, <1>2, <1>3 DEF RowInv
<1>5. PostInv'
  BY DEF PostInv
<1>6. CodeInv'
  BY <1>1, <1>2, <1>3 DEF CodeInv
<1> QED  BY <1>4, <1>5, <1>6

LEMMA ResumeStep ==
    ASSUME ConsentInv, NEW i \in Interactions, Resume(i)
    PROVE  RowInv' /\ PostInv' /\ CodeInv'
<1> USE DEF ConsentInv, TypeOK, Resume, Loaded, Bound, rows, completion
<1>1. RowInv'
  BY DEF RowInv
<1>2. PostInv'
  BY DEF PostInv
<1>3. CodeInv'
  <2>1. \A g \in Loaded(i) : /\ g \in agreed /\ <<g, "approved">> \in settled
                              /\ status[g] # "none"
    <3> SUFFICES ASSUME NEW g \in Grants, status[g] = "active", provider[g] = scopes[g]
                 PROVE  g \in agreed /\ <<g, "approved">> \in settled
      OBVIOUS
    <3>1. provider[g] # None
      BY ConsentConstants
    <3> QED  BY <3>1 DEF RowInv
  <2>2. code[i] = None
    BY DEF CodeInv
  <2> QED  BY <2>1, <2>2 DEF CodeInv
<1> QED  BY <1>1, <1>2, <1>3

LEMMA CloseStep ==
    ASSUME ConsentInv, NEW i \in Interactions, Close(i)
    PROVE  RowInv' /\ PostInv' /\ CodeInv'
<1> USE DEF ConsentInv, TypeOK, Close, Idle, completion
<1>1. RowInv'
  BY DEF RowInv
<1>2. PostInv'
  BY DEF PostInv
<1>3. CodeInv'
  BY DEF CodeInv
<1> QED  BY <1>1, <1>2, <1>3

LEMMA ConsentStep == ConsentInv /\ [Next]_vars => ConsentInv'
<1> SUFFICES ASSUME ConsentInv, [Next]_vars PROVE RowInv' /\ PostInv' /\ CodeInv'
  BY TypeStep DEF ConsentInv
<1> DEFINE Kept == RowInv' /\ PostInv' /\ CodeInv'
<1> USE DEF rows, completion, tabs, request
<1>1. ASSUME NEW i \in Interactions, View(i) PROVE Kept
  BY <1>1 DEF View, ConsentInv, RowInv, PostInv, CodeInv
<1>2. ASSUME NEW i \in Interactions, Finish(i) PROVE Kept
  BY <1>2 DEF Finish, Idle, ConsentInv, TypeOK, RowInv, PostInv, CodeInv
<1>3. ASSUME NEW i \in Interactions, Deny(i) PROVE Kept
  BY <1>3 DEF Deny, ConsentInv, TypeOK, RowInv, PostInv, CodeInv
<1>4. ASSUME NEW g \in Grants, NEW d \in Decisions, Lapse(g) \/ Find(g, d) PROVE Kept
  BY <1>4 DEF Lapse, Find, ConsentInv, RowInv, PostInv, CodeInv
<1>5. CASE UNCHANGED vars
  BY <1>5 DEF vars, ConsentInv, RowInv, PostInv, CodeInv
<1>6. ASSUME NEW i \in Interactions, NEW g \in Grants, Start(i, g) PROVE Kept
  BY <1>6, CreateStep DEF Start, Tokens
<1>7. ASSUME NEW g \in Grants, NEW s \in Scopes, StartDirect(g, s) PROVE Kept
  BY <1>7, CreateStep DEF StartDirect
<1>8. Decisions # {}
  BY DEF Decisions
<1> HIDE DEF Kept
<1> QED  BY <1>1, <1>2, <1>3, <1>4, <1>5, <1>6, <1>7, <1>8, SettleStep, RevokeStep, ForgetStep,
            AuthorizeStep, SubmitStep, SaveStep, ResumeStep, CloseStep
         DEF Next, Kept

-----------------------------------------------------------------------------
\* The inductive invariant.
THEOREM ConsentInvariant == Spec => []ConsentInv
  BY ConsentInit, ConsentStep, PTL DEF Spec

\* For any number of grants, interactions and sets of scopes, every action of
\* the two services keeps the types of the rows and of the interactions.
THEOREM ConsentTypeCorrect == Spec => []TypeOK
<1>1. ConsentInv => TypeOK
  BY DEF ConsentInv
<1> QED  BY <1>1, ConsentInvariant, PTL

\* However interactions, grants and tabs interleave, an authorization code
\* stands for the consent of the site and of the visitor to one grant with the
\* scopes of the request (complete, submitting the page, the grant loader).
THEOREM BothConsentedCorrect == Spec => []BothConsented
<1>1. ConsentInv => BothConsented
  BY DEF ConsentInv, CodeInv, BothConsented
<1> QED  BY <1>1, ConsentInvariant, PTL

\* A grant is activated or denied, never both, and its row agrees with the
\* idempotency record of the decision (activate and deny).
THEOREM DecidedOnceCorrect == Spec => []DecidedOnce
<1>1. ConsentInv => DecidedOnce
  BY DEF ConsentInv, RowInv, DecidedOnce
<1> QED  BY <1>1, ConsentInvariant, PTL
=============================================================================
