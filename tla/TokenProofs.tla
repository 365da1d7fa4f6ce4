----------------------------- MODULE TokenProofs -----------------------------
(***************************************************************************)
(* Proofs about tokens: how they are issued, used once and refused, for    *)
(* any number of codes, refresh tokens and requests (TokenIssuance), and   *)
(* the keys they are signed with, for any number of keys, any overlap and  *)
(* any token life below it (SigningKeys).                                  *)
(***************************************************************************)
EXTENDS TokenIssuance, SigningKeys, TLAPS

-----------------------------------------------------------------------------
(* TokenIssuance.                                                          *)
(*                                                                         *)
(* SingleUseInv says what the compare-and-swap of consume gives: who has   *)
(* won an artifact has it alone (Winners), it is spent for ever (Spent),   *)
(* and whoever still owes a refresh token to a family is the only one, in  *)
(* a family without a live token (Owed).  EndInv says what a revoked grant *)
(* means for the requests that know of it or begin after it.  CauseInv     *)
(* traces the recorded reason to the requests that caused it.              *)


(* A request that has begun has presented an artifact. *)
TypeInv == TypeOK /\ \A r \in Requests : pc[r] # "idle" => uses[r] \in Artifacts

(* A row that can never be consumed any more. *)
Spent(a) == a \in issued /\ a \notin stored \ consumed

(* Requests past their compare-and-swap. *)
Won(r) == pc[r] \in {"store", "check", "sign"} \/ r \in minted

(* Requests that will save a refresh token, and the family it will be of. *)
Owed(r) == \/ uses[r] \in Codes /\ pc[r] \in {"check", "sign", "store"}
           \/ uses[r] \in Tokens /\ pc[r] = "store"
Root(r) == IF uses[r] \in Codes THEN uses[r] ELSE family[uses[r]]

WinnersSpent == \A r \in Requests : Won(r) => uses[r] \in Artifacts /\ Spent(uses[r])
WinnersDiffer == \A q, r \in Requests : Won(q) /\ Won(r) /\ uses[q] = uses[r] => q = r
FamiliesSpent == \A t \in Tokens \cap issued : family[t] \in Codes /\ Spent(family[t])
OwedToDeadFamily == \A r \in Requests : Owed(r) => \A t \in Live : family[t] # Root(r)
OwedOnce == \A q, r \in Requests : Owed(q) /\ Owed(r) /\ Root(q) = Root(r) => q = r
MintedBegan == \A r \in minted : pc[r] # "idle"

SingleUseInv ==
    /\ TypeInv
    /\ WinnersSpent /\ WinnersDiffer
    /\ FamiliesSpent /\ OwedToDeadFamily /\ OwedOnce
    /\ OneLiveTokenPerFamily
    /\ MintedBegan

RevokedBy ==
    \A r \in Requests :
        (\/ pc[r] \in {"replayed", "refused"}
         \/ pc[r] = "revoke" /\ "revoke" \notin todo[r]) => grant = "revoked"

LateNeverSign ==
    \A r \in late : grant = "revoked" /\ pc[r] # "sign" /\ r \notin minted

EndInv == RevokedBy /\ LateNeverSign

(* Two requests have presented one refresh token. *)
Repeats(q, r) == /\ q # r /\ uses[q] = uses[r] /\ uses[r] \in Tokens
                 /\ pc[q] # "idle" /\ pc[r] # "idle"

(* A request, not for a replay, has made its call that revokes. *)
Revoker(r) == /\ why[r] = "token_revoked" /\ "revoke" \notin todo[r]
              /\ pc[r] = "refused" \/ todo[r] # {}

IdleIsClean == \A r \in Requests : pc[r] = "idle" => why[r] = "token_revoked" /\ todo[r] = {}
SpentBySomeone ==
    \A t \in consumed \cap Tokens :
        \E q \in Requests : uses[q] = t /\ pc[q] \notin {"idle", "consume"}
ReplayersRepeat ==
    \A r \in Requests : why[r] = "refresh_replay" => \E q \in Requests : Repeats(q, r)
ReasonHasCause ==
    /\ reason = "refresh_replay" => \E q, r \in Requests : Repeats(q, r)
    /\ reason = "token_revoked" => \E r \in Requests : Revoker(r)

CauseInv == IdleIsClean /\ SpentBySomeone /\ ReplayersRepeat /\ ReasonHasCause

-----------------------------------------------------------------------------
(* Every action keeps its types. *)
LEMMA TypeStep == TypeInv /\ [Next]_vars => TypeInv'
<1> SUFFICES ASSUME TypeInv, [Next]_vars PROVE TypeInv'
  OBVIOUS
<1> USE TokenConstants DEF Artifacts, Working, Ended, Reasons, TypeInv
<1>1. CASE IssueCode \/ Lapse \/ NewWindow \/ PlatformRevokes
  <2>1. CASE IssueCode
    BY <2>1 DEF IssueCode, Save, TypeOK, row, request
  <2>2. CASE Lapse
    BY <2>2 DEF Lapse, TypeOK, row, request
  <2>3. CASE NewWindow
    BY <2>3 DEF NewWindow, TypeOK, row, request, artifacts
  <2>4. CASE PlatformRevokes
    BY <2>4 DEF PlatformRevokes, Revoke, TypeOK, request, artifacts
  <2> QED  BY <1>1, <2>1, <2>2, <2>3, <2>4
<1>2. ASSUME NEW r \in Requests,
             PresentCode(r) \/ PresentToken(r) \/ PresentRevocation(r)
      PROVE  TypeInv'
  <2>1. PICK a \in Artifacts, label \in {"consume", "revoke"},
             calls \in SUBSET {"destroy", "delete", "revoke"},
             w \in {"refresh_replay", "token_revoked"} : Begin(r, a, label, calls, w)
    BY <1>2 DEF PresentCode, PresentToken, PresentRevocation
  <2> QED  BY <2>1 DEF Begin, TypeOK, row, artifacts
<1>3. ASSUME NEW r \in Requests,
             ConsumeCode(r) \/ Rotate(r) \/ Replay(r)
      PROVE  TypeInv'
  <2>1. CASE ConsumeCode(r)
    BY <2>1 DEF ConsumeCode, Mark, Goto, Usable, Found, TypeOK, row, artifacts
  <2>2. CASE Rotate(r)
    BY <2>2 DEF Rotate, Allowed, Mark, Goto, Usable, Found, TypeOK, row, artifacts
  <2>3. CASE Replay(r)
    BY <2>3 DEF Replay, Revoke, Goto, TypeOK, row, artifacts
  <2> QED  BY <1>3, <2>1, <2>2, <2>3
<1>4. ASSUME NEW r \in Requests, Store(r)
      PROVE  TypeInv'
  <2>1. PICK t \in Tokens :
          /\ Save(t)
          /\ gets' = [gets EXCEPT ![r] = t]
          /\ family' = [family EXCEPT ![t] =
                 IF uses[r] \in Codes THEN uses[r] ELSE family[uses[r]]]
    BY <1>4 DEF Store
  <2>2. (IF uses[r] \in Codes THEN uses[r] ELSE family[uses[r]]) \in Codes \cup {"none"}
    BY <1>4 DEF Store, TypeOK
  <2> QED  BY <1>4, <2>1, <2>2 DEF Store, Save, TypeOK, row
<1>5. ASSUME NEW r \in Requests,
             CheckClaims(r) \/ Sign(r) \/ RevokeCall(r) \/ Fail(r)
      PROVE  TypeInv'
  <2>1. CASE CheckClaims(r)
    BY <2>1 DEF CheckClaims, Goto, TypeOK, row, artifacts
  <2>2. CASE Sign(r)
    BY <2>2 DEF Sign, TypeOK, row, artifacts
  <2>3. CASE RevokeCall(r)
    BY <2>3 DEF RevokeCall, Remove, Revoke, ReasonFor, TypeOK, row
  <2>4. CASE Fail(r)
    BY <2>4 DEF Fail, Goto, TypeOK, row, artifacts
  <2> QED  BY <1>5, <2>1, <2>2, <2>3, <2>4
<1>6. CASE UNCHANGED vars
  BY <1>6 DEF TypeOK, vars, artifacts, row, request
<1> QED  BY <1>1, <1>2, <1>3, <1>4, <1>5, <1>6 DEF Next

-----------------------------------------------------------------------------
(* A step that saves no refresh token and in which no request wins anything
   keeps what is known of winners and families. *)
LEMMA QuietStep ==
    ASSUME SingleUseInv, TypeInv', MintedBegan',
           issued \subseteq issued', issued' \ issued \subseteq Codes,
           \A a \in issued : a \in stored' \ consumed' => a \in stored \ consumed,
           \A t \in Tokens : Usable(t)' => Usable(t),
           family' = family,
           \A r \in Requests : Won(r)' => Won(r) /\ uses'[r] = uses[r],
           \A r \in Requests : Owed(r)' => Owed(r)
    PROVE  SingleUseInv'
<1>1. \A a : Spent(a) => Spent(a)'
  BY DEF Spent
<1>2. WinnersSpent' /\ WinnersDiffer'
  BY <1>1 DEF SingleUseInv, WinnersSpent, WinnersDiffer, Artifacts
<1>3. FamiliesSpent'
  BY <1>1, TokenConstants DEF SingleUseInv, FamiliesSpent
<1>4. Live' \subseteq Live
  BY DEF Live, Usable, Found
<1>5. \A r \in Requests : Owed(r)' => Owed(r) /\ Root(r)' = Root(r)
  BY DEF Owed, Won, Root
<1>6. OwedToDeadFamily' /\ OwedOnce'
  BY <1>4, <1>5 DEF SingleUseInv, OwedToDeadFamily, OwedOnce
<1>7. OneLiveTokenPerFamily'
  BY <1>4 DEF SingleUseInv, OneLiveTokenPerFamily
<1> QED  BY <1>2, <1>3, <1>6, <1>7 DEF SingleUseInv

(* A request wins a code: nothing descends from the code yet. *)
LEMMA WinCode ==
    ASSUME SingleUseInv, TypeInv', NEW r \in Requests,
           ConsumeCode(r), Usable(uses[r])
    PROVE  SingleUseInv'
<1> DEFINE c == uses[r]
<1> USE TokenConstants
<1>0. /\ c \in Codes /\ c \in stored /\ c \notin consumed /\ pc[r] = "consume"
      /\ stored \subseteq issued
      /\ consumed' = consumed \cup {c} /\ issued' = issued /\ stored' = stored
      /\ lapsed' = lapsed /\ family' = family /\ uses' = uses /\ minted' = minted
      /\ pc' = [pc EXCEPT ![r] = "check"] /\ pc \in [Requests -> {"idle"} \cup Working \cup Ended]
  BY DEF ConsumeCode, Usable, Found, Mark, Goto, SingleUseInv, TypeInv, TypeOK
<1>1. ~Spent(c) /\ Spent(c)' /\ \A a : Spent(a) => Spent(a)'
  BY <1>0 DEF Spent
<1>2. \A q \in Requests : q # r => (Won(q)' <=> Won(q)) /\ (Owed(q)' <=> Owed(q))
  BY <1>0 DEF Won, Owed
<1>3. \A q \in Requests : Root(q)' = Root(q)
  BY <1>0 DEF Root
<1>4. \A q \in Requests : Won(q) => uses[q] # c
  BY <1>1 DEF SingleUseInv, WinnersSpent
<1>5. WinnersSpent'
  BY <1>0, <1>1, <1>2 DEF SingleUseInv, WinnersSpent, Artifacts
<1>6. WinnersDiffer'
  BY <1>0, <1>2, <1>4 DEF SingleUseInv, WinnersDiffer
<1>7. FamiliesSpent'
  BY <1>0, <1>1 DEF SingleUseInv, FamiliesSpent
<1>8. Live' = Live
  BY <1>0 DEF Live, Usable, Found
<1>9. Live \subseteq Tokens \cap issued
  BY <1>0 DEF Live, Usable, Found
<1>10. \A t \in Tokens \cap issued : family[t] # c
  BY <1>1 DEF SingleUseInv, FamiliesSpent
<1>11. Root(r) = c
  BY <1>0 DEF Root
<1>12. OwedToDeadFamily'
  BY <1>0, <1>2, <1>3, <1>8, <1>9, <1>10, <1>11 DEF SingleUseInv, OwedToDeadFamily
<1>13. \A q \in Requests : Owed(q) => Root(q) # c
  <2> SUFFICES ASSUME NEW q \in Requests, Owed(q) PROVE Root(q) # c
    OBVIOUS
  <2>1. Won(q)
    BY DEF Owed, Won
  <2>2. CASE uses[q] \in Codes
    BY <2>1, <2>2, <1>4 DEF Root
  <2>3. CASE uses[q] \in Tokens
    <3>1. uses[q] \in Tokens \cap issued
      BY <2>1, <2>3 DEF SingleUseInv, WinnersSpent, Spent
    <3> QED  BY <3>1, <1>10 DEF Root
  <2> QED  BY <2>2, <2>3 DEF Owed
<1>14. OwedOnce'
  BY <1>0, <1>2, <1>3, <1>11, <1>13 DEF SingleUseInv, OwedOnce
<1>15. OneLiveTokenPerFamily'
  BY <1>0, <1>8 DEF SingleUseInv, OneLiveTokenPerFamily
<1>16. MintedBegan'
  BY <1>0 DEF SingleUseInv, MintedBegan, TypeInv, TypeOK
<1> QED  BY <1>5, <1>6, <1>7, <1>12, <1>14, <1>15, <1>16 DEF SingleUseInv

(* A request wins a refresh token, the only live one of its family, and owes the
   family the next. *)
LEMMA WinToken ==
    ASSUME SingleUseInv, TypeInv', NEW r \in Requests, Rotate(r), Allowed
    PROVE  SingleUseInv'
<1> DEFINE c == uses[r]
<1> USE TokenConstants
<1>0. /\ c \in Tokens /\ c \notin Codes /\ c \in stored /\ c \notin consumed /\ c \in Live
      /\ pc[r] = "consume" /\ stored \subseteq issued
      /\ consumed' = consumed \cup {c} /\ issued' = issued /\ stored' = stored
      /\ lapsed' = lapsed /\ family' = family /\ uses' = uses /\ minted' = minted
      /\ pc' = [pc EXCEPT ![r] = "store"] /\ pc \in [Requests -> {"idle"} \cup Working \cup Ended]
  BY DEF Rotate, Usable, Found, Live, Mark, Goto, SingleUseInv, TypeInv, TypeOK
<1>1. ~Spent(c) /\ Spent(c)' /\ \A a : Spent(a) => Spent(a)'
  BY <1>0 DEF Spent
<1>2. \A q \in Requests : q # r => (Won(q)' <=> Won(q)) /\ (Owed(q)' <=> Owed(q))
  BY <1>0 DEF Won, Owed
<1>3. \A q \in Requests : Root(q)' = Root(q)
  BY <1>0 DEF Root
<1>4. \A q \in Requests : Won(q) => uses[q] # c
  BY <1>1 DEF SingleUseInv, WinnersSpent
<1>5. WinnersSpent'
  BY <1>0, <1>1, <1>2 DEF SingleUseInv, WinnersSpent, Artifacts
<1>6. WinnersDiffer'
  BY <1>0, <1>2, <1>4 DEF SingleUseInv, WinnersDiffer
<1>7. FamiliesSpent'
  BY <1>0, <1>1 DEF SingleUseInv, FamiliesSpent
<1>8. Live' = Live \ {c}
  BY <1>0 DEF Live, Usable, Found
<1>9. Root(r) = family[c]
  BY <1>0 DEF Root
<1>10. \A t \in Live' : family[t] # family[c]
  BY <1>0, <1>8 DEF SingleUseInv, OneLiveTokenPerFamily
<1>11. OwedToDeadFamily'
  BY <1>0, <1>2, <1>3, <1>8, <1>9, <1>10 DEF SingleUseInv, OwedToDeadFamily
<1>12. \A q \in Requests : Owed(q) => Root(q) # family[c]
  BY <1>0 DEF SingleUseInv, OwedToDeadFamily
<1>13. OwedOnce'
  BY <1>0, <1>2, <1>3, <1>9, <1>12 DEF SingleUseInv, OwedOnce
<1>14. OneLiveTokenPerFamily'
  BY <1>0, <1>8 DEF SingleUseInv, OneLiveTokenPerFamily
<1>15. MintedBegan'
  BY <1>0 DEF SingleUseInv, MintedBegan, TypeInv, TypeOK
<1> QED  BY <1>5, <1>6, <1>7, <1>11, <1>13, <1>14, <1>15 DEF SingleUseInv

(* A request saves the token it owes to its family, which has no live one. *)
LEMMA PayFamily ==
    ASSUME SingleUseInv, TypeInv', NEW r \in Requests, Store(r)
    PROVE  SingleUseInv'
<1> USE TokenConstants
<1>0. PICK t \in Tokens :
        /\ t \notin issued /\ t \notin Codes
        /\ issued' = issued \cup {t} /\ stored' = stored \cup {t}
        /\ family' = [family EXCEPT ![t] = Root(r)]
  BY DEF Store, Save, Root
<1>1. /\ pc[r] = "store" /\ uses[r] \in Artifacts
      /\ consumed' = consumed /\ lapsed' = lapsed /\ uses' = uses /\ minted' = minted
      /\ pc' = [pc EXCEPT ![r] = IF uses[r] \in Codes THEN "answered" ELSE "check"]
      /\ pc \in [Requests -> {"idle"} \cup Working \cup Ended]
      /\ family \in [Tokens -> Codes \cup {"none"}]
      /\ stored \subseteq issued /\ consumed \subseteq stored
  BY DEF Store, SingleUseInv, TypeInv, TypeOK
<1>2. \A a : Spent(a) => Spent(a)' /\ a # t
  BY <1>0, <1>1 DEF Spent
<1>3. \A q \in Requests : Won(q) => uses[q] \in Artifacts /\ Spent(uses[q])
  BY DEF SingleUseInv, WinnersSpent
<1>4. \A q \in Requests : Won(q)' => Won(q)
  BY <1>1 DEF Won
<1>5. \A q \in Requests : Owed(q)' => Owed(q) /\ q # r
  BY <1>1 DEF Owed, Artifacts
<1>6. Owed(r) /\ Won(r)
  BY <1>1 DEF Owed, Won, Artifacts
<1>7. \A q \in Requests : Owed(q) => Root(q)' = Root(q)
  <2> SUFFICES ASSUME NEW q \in Requests, Owed(q) PROVE Root(q)' = Root(q)
    OBVIOUS
  <2>1. uses[q] # t
    BY <1>2, <1>3 DEF Owed, Won
  <2> QED  BY <1>0, <1>1, <2>1 DEF Root, Owed
<1>8. Root(r) \in Codes /\ Spent(Root(r))
  <2>1. CASE uses[r] \in Codes
    BY <2>1, <1>3, <1>6 DEF Root
  <2>2. CASE uses[r] \notin Codes
    <3>1. uses[r] \in Tokens \cap issued
      BY <2>2, <1>1, <1>3, <1>6 DEF Spent, Artifacts
    <3> QED  BY <2>2, <3>1 DEF Root, SingleUseInv, FamiliesSpent
  <2> QED  BY <2>1, <2>2
<1>9. WinnersSpent' /\ WinnersDiffer'
  BY <1>1, <1>2, <1>4 DEF SingleUseInv, WinnersSpent, WinnersDiffer, Artifacts
<1>10. FamiliesSpent'
  BY <1>0, <1>1, <1>2, <1>8 DEF SingleUseInv, FamiliesSpent
<1>11. Live' \subseteq Live \cup {t} /\ Live \subseteq Tokens \cap issued
  BY <1>0, <1>1 DEF Live, Usable, Found
<1>12. /\ family'[t] = Root(r)
       /\ \A s \in Live : family'[s] = family[s] /\ family[s] # Root(r)
  BY <1>0, <1>1, <1>6, <1>11 DEF SingleUseInv, OwedToDeadFamily
<1>13. OneLiveTokenPerFamily'
  BY <1>11, <1>12 DEF SingleUseInv, OneLiveTokenPerFamily
<1>14. \A q \in Requests : Owed(q)' => Root(q) # Root(r)
  BY <1>5, <1>6 DEF SingleUseInv, OwedOnce
<1>15. OwedToDeadFamily'
  BY <1>5, <1>7, <1>11, <1>12, <1>14 DEF SingleUseInv, OwedToDeadFamily
<1>16. OwedOnce'
  BY <1>5, <1>7 DEF SingleUseInv, OwedOnce
<1>17. MintedBegan'
  BY <1>1 DEF SingleUseInv, MintedBegan, TypeInv, TypeOK
<1> QED  BY <1>9, <1>10, <1>13, <1>15, <1>16, <1>17 DEF SingleUseInv

LEMMA SingleUseStep == SingleUseInv /\ [Next]_vars => SingleUseInv'
<1> SUFFICES ASSUME SingleUseInv, [Next]_vars PROVE SingleUseInv'
  OBVIOUS
<1>0. TypeInv /\ TypeInv' /\ TypeOK /\ MintedBegan
  BY TypeStep DEF SingleUseInv, TypeInv
<1> USE TokenConstants, <1>0
<1>1. CASE IssueCode \/ Lapse \/ NewWindow \/ PlatformRevokes \/ UNCHANGED vars
  <2>1. CASE IssueCode
    <3>1. PICK c \in Codes : Save(c) /\ UNCHANGED <<consumed, lapsed, family, row, request, used>>
      BY <2>1 DEF IssueCode
    <3> QED  BY <3>1, QuietStep DEF Save, request, MintedBegan, TypeOK,
                Usable, Found, Won, Owed
  <2>2. CASE Lapse
    BY <2>2, QuietStep DEF Lapse, request, MintedBegan, Usable, Found, Won, Owed
  <2>3. CASE NewWindow \/ PlatformRevokes \/ UNCHANGED vars
    BY <2>3, QuietStep DEF NewWindow, PlatformRevokes, vars, artifacts, request,
       MintedBegan, Usable, Found, Won, Owed
  <2> QED  BY <1>1, <2>1, <2>2, <2>3
<1>2. ASSUME NEW r \in Requests, NEW a, NEW label \in {"consume", "revoke"},
             NEW calls, NEW w, Begin(r, a, label, calls, w)
      PROVE  SingleUseInv'
  <2>1. /\ pc[r] = "idle" /\ pc' = [pc EXCEPT ![r] = label]
        /\ uses' = [uses EXCEPT ![r] = a] /\ minted' = minted /\ UNCHANGED artifacts
    BY <1>2 DEF Begin
  <2>2. r \notin minted
    BY <2>1 DEF MintedBegan
  <2>3. \A q \in Requests : Won(q)' => Won(q) /\ uses'[q] = uses[q]
    BY <2>1, <2>2 DEF Won, TypeOK
  <2>4. \A q \in Requests : Owed(q)' => Owed(q)
    BY <2>1, <2>2 DEF Owed, TypeOK
  <2>5. MintedBegan'
    BY <2>1 DEF MintedBegan, TypeOK
  <2> QED  BY <2>1, <2>3, <2>4, <2>5, QuietStep DEF artifacts, Usable, Found
<1>3. ASSUME NEW r \in Requests,
             PresentCode(r) \/ PresentToken(r) \/ PresentRevocation(r)
      PROVE  SingleUseInv'
  BY <1>2, <1>3 DEF PresentCode, PresentToken, PresentRevocation
<1>4. ASSUME NEW r \in Requests, NEW label \in {"sign"} \cup Ended, Goto(r, label),
             pc[r] \in Working, label = "sign" => pc[r] = "check",
             issued' = issued, stored' = stored, consumed' = consumed,
             lapsed \subseteq lapsed', family' = family
      PROVE  SingleUseInv'
  <2>1. pc' = [pc EXCEPT ![r] = label] /\ uses' = uses /\ minted' = minted
    BY <1>4 DEF Goto
  <2>2. \A q \in Requests : (Won(q)' => Won(q)) /\ (Owed(q)' => Owed(q))
    BY <1>4, <2>1 DEF Won, Owed, TypeOK, Ended
  <2>3. MintedBegan'
    BY <1>4, <2>1 DEF MintedBegan, TypeOK, Ended
  <2> QED  BY <1>4, <2>1, <2>2, <2>3, QuietStep DEF Usable, Found
<1>5. ASSUME NEW r \in Requests, ConsumeCode(r) PROVE SingleUseInv'
  <2>1. CASE Usable(uses[r])
    BY <1>5, <2>1, WinCode
  <2>2. CASE ~Usable(uses[r])
    BY <1>4, <1>5, <2>2 DEF ConsumeCode, artifacts, Working, Ended
  <2> QED  BY <2>1, <2>2
<1>6. ASSUME NEW r \in Requests, Rotate(r) PROVE SingleUseInv'
  <2>1. CASE Allowed
    BY <1>6, <2>1, WinToken
  <2>2. CASE ~Allowed
    BY <1>4, <1>6, <2>2 DEF Rotate, artifacts, Working, Ended
  <2> QED  BY <2>1, <2>2
<1>7. ASSUME NEW r \in Requests, Replay(r) PROVE SingleUseInv'
  BY <1>4, <1>7 DEF Replay, artifacts, Working, Ended
<1>8. ASSUME NEW r \in Requests, Store(r) PROVE SingleUseInv'
  BY <1>8, PayFamily
<1>9. ASSUME NEW r \in Requests, CheckClaims(r) \/ Fail(r) PROVE SingleUseInv'
  BY <1>4, <1>9 DEF CheckClaims, Fail, artifacts, Working, Ended
<1>10. ASSUME NEW r \in Requests, Sign(r) PROVE SingleUseInv'
  <2>1. /\ pc[r] = "sign" /\ minted' = minted \cup {r} /\ uses' = uses /\ UNCHANGED artifacts
        /\ \/ pc' = [pc EXCEPT ![r] = "answered"]
           \/ uses[r] \in Codes /\ pc' = [pc EXCEPT ![r] = "store"]
    BY <1>10 DEF Sign
  <2>2. \A q \in Requests : (Won(q)' => Won(q)) /\ (Owed(q)' => Owed(q))
    BY <2>1 DEF Won, Owed, TypeOK
  <2>3. MintedBegan'
    BY <2>1 DEF MintedBegan, TypeOK
  <2> QED  BY <2>1, <2>2, <2>3, QuietStep DEF artifacts, Usable, Found
<1>11. ASSUME NEW r \in Requests, RevokeCall(r) PROVE SingleUseInv'
  <2>1. PICK S : Remove(S)
    BY <1>11 DEF RevokeCall
  <2>2. /\ pc[r] = "revoke" /\ uses' = uses /\ minted' = minted
        /\ \/ pc' = pc
           \/ pc' = [pc EXCEPT ![r] = "refused"]
    <3>1. PICK call \in todo[r] :
            pc' = [pc EXCEPT ![r] = IF todo[r] = {call} THEN "refused" ELSE @]
      BY <1>11 DEF RevokeCall
    <3> QED  BY <1>11, <3>1 DEF RevokeCall, TypeOK
  <2>3. \A q \in Requests : (Won(q)' => Won(q)) /\ (Owed(q)' => Owed(q))
    BY <2>2 DEF Won, Owed, TypeOK
  <2>4. MintedBegan'
    BY <2>2 DEF MintedBegan, TypeOK
  <2> QED  BY <2>1, <2>2, <2>3, <2>4, QuietStep DEF Remove, Usable, Found
<1> QED  BY <1>1, <1>3, <1>5, <1>6, <1>7, <1>8, <1>9, <1>10, <1>11 DEF Next

-----------------------------------------------------------------------------
(* A revoked grant stays revoked. *)
LEMMA RevokedStays == [Next]_vars /\ grant = "revoked" => grant' = "revoked"
<1> SUFFICES ASSUME [Next]_vars, grant = "revoked" PROVE grant' = "revoked"
  OBVIOUS
<1> USE DEF row, Revoke
<1>1. CASE IssueCode \/ Lapse \/ NewWindow \/ PlatformRevokes \/ UNCHANGED vars
  BY <1>1 DEF IssueCode, Lapse, NewWindow, PlatformRevokes, vars
<1>2. ASSUME NEW r \in Requests, PresentCode(r) \/ PresentToken(r) \/ PresentRevocation(r)
      PROVE  grant' = "revoked"
  BY <1>2 DEF PresentCode, PresentToken, PresentRevocation, Begin
<1>3. ASSUME NEW r \in Requests, ConsumeCode(r) \/ Rotate(r) \/ Replay(r) \/ Store(r)
      PROVE  grant' = "revoked"
  BY <1>3 DEF ConsumeCode, Rotate, Replay, Store
<1>4. ASSUME NEW r \in Requests, CheckClaims(r) \/ Sign(r) \/ RevokeCall(r) \/ Fail(r)
      PROVE  grant' = "revoked"
  BY <1>4 DEF CheckClaims, Sign, RevokeCall, Fail
<1> QED  BY <1>1, <1>2, <1>3, <1>4 DEF Next

LEMMA EndStep == TypeOK /\ MintedBegan /\ EndInv /\ [Next]_vars => EndInv'
<1> SUFFICES ASSUME TypeOK, MintedBegan, EndInv, [Next]_vars PROVE EndInv'
  OBVIOUS
<1> USE RevokedStays DEF EndInv, RevokedBy, LateNeverSign
<1>1. CASE IssueCode \/ Lapse \/ NewWindow \/ PlatformRevokes \/ UNCHANGED vars
  BY <1>1 DEF IssueCode, Lapse, NewWindow, PlatformRevokes, vars, request
<1>2. ASSUME NEW r \in Requests, NEW a, NEW label \in {"consume", "revoke"},
             NEW calls, NEW w, Begin(r, a, label, calls, w),
             label = "revoke" => "revoke" \in calls
      PROVE  EndInv'
  BY <1>2 DEF Begin, MintedBegan, TypeOK
<1>3. ASSUME NEW r \in Requests, PresentCode(r) \/ PresentToken(r) \/ PresentRevocation(r)
      PROVE  EndInv'
  BY <1>2, <1>3 DEF PresentCode, PresentToken, PresentRevocation
<1>4. ASSUME NEW r \in Requests, NEW label, Goto(r, label),
             label \notin {"revoke", "refused"},
             label = "sign" => grant = "active",
             label = "replayed" => grant' = "revoked"
      PROVE  EndInv'
  BY <1>4 DEF Goto, TypeOK
<1>5. ASSUME NEW r \in Requests, ConsumeCode(r) \/ Rotate(r) PROVE EndInv'
  BY <1>4, <1>5 DEF ConsumeCode, Rotate
<1>6. ASSUME NEW r \in Requests, Replay(r) PROVE EndInv'
  BY <1>4, <1>6 DEF Replay, Revoke
<1>7. ASSUME NEW r \in Requests, Store(r) PROVE EndInv'
  BY <1>7 DEF Store, TypeOK
<1>8. ASSUME NEW r \in Requests, CheckClaims(r) \/ Fail(r) PROVE EndInv'
  BY <1>4, <1>8 DEF CheckClaims, Fail
<1>9. ASSUME NEW r \in Requests, Sign(r) PROVE EndInv'
  BY <1>9 DEF Sign, TypeOK
<1>10. ASSUME NEW r \in Requests, RevokeCall(r) PROVE EndInv'
  <2>1. PICK call \in todo[r] :
          /\ IF call = "revoke" THEN grant' = "revoked" ELSE UNCHANGED row
          /\ todo' = [todo EXCEPT ![r] = @ \ {call}]
          /\ pc' = [pc EXCEPT ![r] = IF todo[r] = {call} THEN "refused" ELSE @]
    BY <1>10 DEF RevokeCall, Revoke
  <2>2. pc[r] = "revoke" /\ minted' = minted /\ late' = late
    BY <1>10 DEF RevokeCall
  <2>3. call = "revoke" \/ "revoke" \notin todo[r] => grant' = "revoked"
    BY <2>1, <2>2
  <2>4. RevokedBy'
    BY <2>1, <2>2, <2>3 DEF TypeOK
  <2>5. LateNeverSign'
    BY <2>1, <2>2 DEF TypeOK
  <2> QED  BY <2>4, <2>5
<1> QED  BY <1>1, <1>3, <1>5, <1>6, <1>7, <1>8, <1>9, <1>10 DEF Next

-----------------------------------------------------------------------------
(* A request that has begun keeps its artifact and its context, never begins
   again, and does not take its revoking call back. *)
LEMMA BegunStays ==
    ASSUME TypeOK, [Next]_vars, NEW r \in Requests, pc[r] # "idle"
    PROVE  /\ pc'[r] # "idle" /\ uses'[r] = uses[r] /\ why'[r] = why[r]
           /\ pc'[r] = "consume" => pc[r] = "consume"
           /\ Revoker(r) => Revoker(r)'
<1> USE DEF TypeOK, Goto, Revoker
<1>1. CASE IssueCode \/ Lapse \/ NewWindow \/ PlatformRevokes \/ UNCHANGED vars
  BY <1>1 DEF IssueCode, Lapse, NewWindow, PlatformRevokes, vars, request
<1>2. ASSUME NEW q \in Requests, PresentCode(q) \/ PresentToken(q) \/ PresentRevocation(q)
      PROVE  /\ pc'[r] = pc[r] /\ uses'[r] = uses[r] /\ why'[r] = why[r]
             /\ todo'[r] = todo[r]
  BY <1>2 DEF PresentCode, PresentToken, PresentRevocation, Begin
<1>3. ASSUME NEW q \in Requests, ConsumeCode(q) \/ Rotate(q) \/ Replay(q)
      PROVE  /\ uses' = uses /\ why' = why /\ todo' = todo
             /\ pc'[r] \in {pc[r], "check", "store", "replayed", "failed"}
             /\ pc'[r] # pc[r] => pc[r] = "consume"
  BY <1>3 DEF ConsumeCode, Rotate, Replay
<1>4. ASSUME NEW q \in Requests, Store(q) \/ CheckClaims(q) \/ Sign(q) \/ Fail(q)
      PROVE  /\ uses' = uses /\ why' = why /\ todo' = todo
             /\ pc'[r] \in {pc[r], "answered", "check", "sign", "store", "failed"}
             /\ pc'[r] # pc[r] => pc[r] \in Working
  BY <1>4 DEF Store, CheckClaims, Sign, Fail, Working
<1>5. ASSUME NEW q \in Requests, RevokeCall(q)
      PROVE  /\ uses' = uses /\ why' = why /\ pc'[r] \in {pc[r], "refused"}
             /\ Revoker(r) => Revoker(r)'
  <2>1. PICK call \in todo[q] :
          /\ todo' = [todo EXCEPT ![q] = @ \ {call}]
          /\ pc' = [pc EXCEPT ![q] = IF todo[q] = {call} THEN "refused" ELSE @]
    BY <1>5 DEF RevokeCall
  <2> QED  BY <1>5, <2>1 DEF RevokeCall
<1> QED  BY <1>1, <1>2, <1>3, <1>4, <1>5 DEF Next, Working

(* Who repeated a token and who revoked remain so. *)
LEMMA CausesStay ==
    ASSUME TypeOK, IdleIsClean, [Next]_vars
    PROVE  /\ \A q, r \in Requests : Repeats(q, r) => Repeats(q, r)'
           /\ \A r \in Requests : Revoker(r) => Revoker(r)'
<1>1. \A q, r \in Requests : Repeats(q, r) => Repeats(q, r)'
  BY BegunStays DEF Repeats
<1>2. \A r \in Requests : Revoker(r) => pc[r] # "idle"
  BY DEF Revoker, IdleIsClean
<1> QED  BY <1>1, <1>2, BegunStays

(* A step that begins, consumes and revokes nothing. *)
LEMMA CauseKept ==
    ASSUME TypeOK, CauseInv, [Next]_vars,
           consumed' \subseteq consumed, reason' \in {reason, "platform_user_revoked"},
           \A r \in Requests : why'[r] = why[r] /\ (pc'[r] = "idle" => todo'[r] = todo[r])
    PROVE  CauseInv'
<1>1. IdleIsClean'
  BY BegunStays DEF CauseInv, IdleIsClean
<1>2. SpentBySomeone'
  BY BegunStays DEF CauseInv, SpentBySomeone
<1>3. ReplayersRepeat' /\ ReasonHasCause'
  BY CausesStay DEF CauseInv, ReplayersRepeat, ReasonHasCause
<1> QED  BY <1>1, <1>2, <1>3 DEF CauseInv

(* A request that begins: for a replay only if its token has been consumed, and
   so presented by another. *)
LEMMA CauseBegun ==
    ASSUME TypeOK, CauseInv, [Next]_vars, NEW r \in Requests, NEW a, NEW label, NEW calls, NEW w,
           Begin(r, a, label, calls, w), label # "idle", w \in {"refresh_replay", "token_revoked"},
           w = "refresh_replay" => a \in consumed \cap Tokens
    PROVE  CauseInv'
<1> USE DEF Begin, TypeOK, CauseInv
<1>1. IdleIsClean'
  BY DEF IdleIsClean
<1>2. SpentBySomeone'
  BY BegunStays DEF SpentBySomeone, artifacts
<1>3. ReplayersRepeat'
  <2>1. ASSUME NEW q \in Requests, q # r, why'[q] = "refresh_replay"
        PROVE  \E p \in Requests : Repeats(p, q)'
    BY <2>1, CausesStay DEF ReplayersRepeat
  <2>2. ASSUME why'[r] = "refresh_replay" PROVE \E p \in Requests : Repeats(p, r)'
    <3>1. a \in consumed \cap Tokens
      BY <2>2
    <3>2. PICK p \in Requests : uses[p] = a /\ pc[p] \notin {"idle", "consume"}
      BY <3>1 DEF SpentBySomeone
    <3> QED  BY <3>1, <3>2 DEF Repeats
  <2> QED  BY <2>1, <2>2 DEF ReplayersRepeat
<1>4. ReasonHasCause'
  BY CausesStay DEF ReasonHasCause, row
<1> QED  BY <1>1, <1>2, <1>3, <1>4

LEMMA CauseStep == TypeOK /\ CauseInv /\ [Next]_vars => CauseInv'
<1> SUFFICES ASSUME TypeOK, CauseInv, [Next]_vars PROVE CauseInv'
  OBVIOUS
<1> USE DEF row, artifacts
<1>1. CASE IssueCode \/ Lapse \/ NewWindow \/ PlatformRevokes \/ UNCHANGED vars
  BY <1>1, CauseKept DEF IssueCode, Lapse, NewWindow, PlatformRevokes, Revoke, vars, request
<1>2. ASSUME NEW r \in Requests, PresentCode(r) \/ PresentToken(r) \/ PresentRevocation(r)
      PROVE  CauseInv'
  BY <1>2, CauseBegun DEF PresentCode, PresentToken, PresentRevocation
<1>3. ASSUME NEW r \in Requests, ConsumeCode(r) \/ Rotate(r) PROVE CauseInv'
  <2>1. /\ pc[r] = "consume" /\ reason' = reason /\ uses' = uses
        /\ why' = why /\ todo' = todo
    BY <1>3 DEF ConsumeCode, Rotate, Goto
  <2>2. CASE consumed' = consumed
    BY <2>1, <2>2, CauseKept
  <2>3. CASE consumed' # consumed
    <3>1. consumed' = consumed \cup {uses[r]} /\ pc'[r] \in {"check", "store"}
      BY <1>3, <2>3 DEF ConsumeCode, Rotate, Goto, Mark, TypeOK
    <3>2. SpentBySomeone'
      BY <2>1, <3>1, BegunStays DEF CauseInv, SpentBySomeone
    <3>3. IdleIsClean'
      BY <2>1, BegunStays DEF CauseInv, IdleIsClean
    <3>4. ReplayersRepeat' /\ ReasonHasCause'
      BY <2>1, CausesStay DEF CauseInv, ReplayersRepeat, ReasonHasCause
    <3> QED  BY <3>2, <3>3, <3>4 DEF CauseInv
  <2> QED  BY <2>2, <2>3
<1>4. ASSUME NEW r \in Requests, Replay(r) PROVE CauseInv'
  <2>1. /\ pc[r] = "consume" /\ uses[r] \in Tokens /\ consumed' = consumed
        /\ why' = why /\ todo' = todo
    BY <1>4 DEF Replay, Goto
  <2>2. CASE reason' = reason
    BY <2>1, <2>2, CauseKept
  <2>3. CASE reason' # reason
    <3>1. reason' = "refresh_replay" /\ uses[r] \in consumed
      BY <1>4, <2>3 DEF Replay, Revoke
    <3>2. PICK q \in Requests : uses[q] = uses[r] /\ pc[q] \notin {"idle", "consume"}
      BY <2>1, <3>1 DEF CauseInv, SpentBySomeone
    <3>3. Repeats(q, r)
      BY <2>1, <3>2 DEF Repeats
    <3>4. Repeats(q, r)'
      BY <3>3, CausesStay DEF CauseInv
    <3>5. ReasonHasCause'
      BY <3>1, <3>4 DEF ReasonHasCause
    <3>6. IdleIsClean' /\ SpentBySomeone'
      BY <2>1, BegunStays DEF CauseInv, IdleIsClean, SpentBySomeone
    <3>7. ReplayersRepeat'
      BY <2>1, CausesStay DEF CauseInv, ReplayersRepeat
    <3> QED  BY <3>5, <3>6, <3>7 DEF CauseInv
  <2> QED  BY <2>2, <2>3
<1>5. ASSUME NEW r \in Requests, Store(r) \/ CheckClaims(r) \/ Sign(r) \/ Fail(r)
      PROVE  CauseInv'
  BY <1>5, CauseKept DEF Store, CheckClaims, Sign, Fail, Goto
<1>6. ASSUME NEW r \in Requests, RevokeCall(r) PROVE CauseInv'
  <2>1. PICK call \in todo[r] :
          /\ consumed' \subseteq consumed
          /\ IF call = "revoke" THEN Revoke(why[r]) ELSE UNCHANGED row
          /\ todo' = [todo EXCEPT ![r] = @ \ {call}]
          /\ pc' = [pc EXCEPT ![r] = IF todo[r] = {call} THEN "refused" ELSE @]
    BY <1>6 DEF RevokeCall, Remove, ReasonFor
  <2>2. pc[r] = "revoke" /\ uses' = uses /\ why' = why
    BY <1>6 DEF RevokeCall
  <2>3. IdleIsClean' /\ SpentBySomeone'
    BY <2>1, <2>2, BegunStays DEF CauseInv, IdleIsClean, SpentBySomeone, TypeOK
  <2>4. ReplayersRepeat'
    BY <2>2, CausesStay DEF CauseInv, ReplayersRepeat
  <2>5. CASE reason' = reason
    BY <2>3, <2>4, <2>5, CausesStay DEF CauseInv, ReasonHasCause
  <2>6. CASE reason' # reason
    <3>1. call = "revoke" /\ reason' = why[r]
      BY <2>1, <2>6 DEF Revoke
    <3>2. why[r] = "refresh_replay" => \E q \in Requests : Repeats(q, r)'
      BY CausesStay DEF CauseInv, ReplayersRepeat
    <3>3. why[r] = "token_revoked" => Revoker(r)'
      BY <2>1, <2>2, <3>1 DEF Revoker, TypeOK
    <3>4. ReasonHasCause'
      BY <3>1, <3>2, <3>3 DEF ReasonHasCause
    <3> QED  BY <2>3, <2>4, <3>4 DEF CauseInv
  <2> QED  BY <2>5, <2>6
<1> QED  BY <1>1, <1>2, <1>3, <1>4, <1>5, <1>6 DEF Next

-----------------------------------------------------------------------------
(* The inductive invariant: single use by the compare-and-swap of adapter
   consume, and finality of revocation for the requests of the grant. *)
THEOREM IssuanceInvariant == Spec => [](SingleUseInv /\ EndInv)
<1>1. Init => SingleUseInv /\ EndInv
  <2> SUFFICES ASSUME Init PROVE SingleUseInv /\ EndInv
    OBVIOUS
  <2>1. TypeInv
    BY TokenConstants DEF Init, TypeInv, TypeOK, Reasons, Working, Ended, Artifacts
  <2>2. (\A r \in Requests : ~Won(r) /\ ~Owed(r)) /\ Live = {}
    BY DEF Init, Won, Owed, Live, Usable, Found
  <2>3. SingleUseInv
    BY <2>1, <2>2 DEF SingleUseInv, WinnersSpent, WinnersDiffer, FamiliesSpent,
       OwedToDeadFamily, OwedOnce, OneLiveTokenPerFamily, MintedBegan, Init
  <2>4. EndInv
    BY DEF Init, EndInv, RevokedBy, LateNeverSign
  <2> QED  BY <2>3, <2>4
<1>2. SingleUseInv /\ EndInv /\ [Next]_vars => (SingleUseInv /\ EndInv)'
  BY SingleUseStep, EndStep DEF SingleUseInv, TypeInv
<1> QED  BY <1>1, <1>2, PTL DEF Spec

(* The tables and requests of TokenIssuance are always well typed, and a row is
   consumed or expired only while it is there. *)
THEOREM IssuanceTypeCorrect == Spec => []TypeOK
<1>1. SingleUseInv => TypeOK
  BY DEF SingleUseInv, TypeInv
<1> QED  BY <1>1, IssuanceInvariant, PTL

(* For any number of concurrent requests: the refresh tokens that descend from
   one code never include two that adapter consume would accept. *)
THEOREM OneLiveTokenCorrect == Spec => []OneLiveTokenPerFamily
<1>1. SingleUseInv => OneLiveTokenPerFamily
  BY DEF SingleUseInv
<1> QED  BY <1>1, IssuanceInvariant, PTL

(* For any number of concurrent requests: a code and a refresh token are worth
   one access token each. *)
THEOREM OneUseCorrect == Spec => []OneUseMintsOnce
<1>1. SingleUseInv => OneUseMintsOnce
  BY DEF SingleUseInv, WinnersDiffer, OneUseMintsOnce, Won, TypeInv, TypeOK
<1> QED  BY <1>1, IssuanceInvariant, PTL

(* A request that is refused for a replay leaves the grant revoked, by the
   transaction of adapter consume or by the calls of the provider. *)
THEOREM ReplayCorrect == Spec => []ReplayRevokes
<1>1. EndInv => ReplayRevokes
  BY DEF EndInv, RevokedBy, ReplayRevokes
<1> QED  BY <1>1, IssuanceInvariant, PTL

(* No request that begins after the revocation passes the claims resolver. *)
THEOREM LaterUsesCorrect == Spec => []LaterUsesFail
<1>1. EndInv => LaterUsesFail
  BY DEF EndInv, LateNeverSign, LaterUsesFail
<1> QED  BY <1>1, IssuanceInvariant, PTL

(* The recorded reason is that of a request which really did so, whatever other
   requests of the process do between its awaits. *)
THEOREM ReasonCorrect == Spec => []ReasonTellsTheCause
<1>1. Init => CauseInv
  BY DEF Init, CauseInv, IdleIsClean, SpentBySomeone, ReplayersRepeat, ReasonHasCause
<1>2. SingleUseInv /\ CauseInv /\ [Next]_vars => CauseInv'
  BY CauseStep DEF SingleUseInv, TypeInv
<1>3. CauseInv => ReasonTellsTheCause
  BY DEF CauseInv, ReasonHasCause, Repeats, Revoker, ReasonTellsTheCause
<1> QED  BY <1>1, <1>2, <1>3, IssuanceInvariant, PTL DEF Spec

-----------------------------------------------------------------------------
(* SigningKeys: the invariant is about time.  What is left of a token      *)
(* signed with a retiring key, or of one that a process with stale         *)
(* knowledge is still signing, shrinks as the overlap grows, so that both  *)
(* are over before the overlap is.                                         *)


\* The life n of a token of key k is covered by the state that k is in.
Covered(k, n) ==
    n > 0 => \/ status[k] \in {"active", "revoked"}
             \/ status[k] = "retiring" /\ age[k] + n <= TokenLife

\* What was signed, and what is being signed, is covered.
LivesCovered ==
    /\ \A k \in Keys : Covered(k, left[k])
    /\ kid # None => Covered(kid, signing)

\* The key that was loaded was active then, and is in the JWKS.
LoadedInv ==
    /\ kid # None => /\ kid \in served
                     /\ status[kid] \in {"active", "retiring", "retired", "revoked"}
    /\ kid = None => signing = 0

KeysInv == KeysTypeOK /\ LoadedInv /\ LivesCovered /\ TokensVerify

-----------------------------------------------------------------------------
\* No key, no service, no token.
LEMMA KeysInitInv == KeysInit => KeysInv
  BY KeyConstants
  DEF KeysInit, KeysInv, KeysTypeOK, LoadedInv, LivesCovered, Covered, TokensVerify

\* The operator's steps that change no status but that of a key nobody uses.
LEMMA KeyringSteps ==
    ASSUME KeysInv, NEW k \in Keys, Mount(k) \/ Unmount(k) \/ Publish(k) \/ Forget(k)
    PROVE  KeysInv'
<1> USE KeyConstants DEF KeysInv, KeysTypeOK, LoadedInv, LivesCovered, Covered, TokensVerify,
                         rows, service
<1>1. CASE Mount(k) \/ Unmount(k)
  BY <1>1 DEF Mount, Unmount
<1>2. CASE Publish(k)
  BY <1>2 DEF Publish
<1>3. CASE Forget(k)
  BY <1>3 DEF Forget
<1> QED  BY <1>1, <1>2, <1>3

\* activate_signing_key: the overlap of the key that was active begins.
LEMMA ActivateKeeps ==
    ASSUME KeysInv, NEW k \in Keys, Activate(k)
    PROVE  KeysInv'
<1> USE KeyConstants DEF KeysInv, KeysTypeOK, Activate, service
<1>1. ASSUME NEW j \in Keys
      PROVE  /\ j \in Active => status'[j] = "retiring" /\ age'[j] = 0
             /\ j # k /\ j \notin Active => status'[j] = status[j] /\ age'[j] = age[j]
             /\ j = k => status'[j] = "active" /\ age'[j] = age[j]
  BY DEF Active
<1>2. KeysTypeOK'
  BY DEF Active
<1>3. ASSUME NEW j \in Keys, NEW n \in 0 .. TokenLife, Covered(j, n)
      PROVE  Covered(j, n)'
  BY <1>1, <1>3 DEF Covered, Active
<1>4. LivesCovered'
  BY <1>3 DEF LivesCovered
<1>5. LoadedInv'
  BY <1>1 DEF LoadedInv, Active
<1>6. TokensVerify'
  BY <1>1 DEF TokensVerify, Active, LivesCovered, Covered
<1> QED  BY <1>2, <1>4, <1>5, <1>6

\* The end of a key, in order or in an emergency.
LEMMA EndingKeeps ==
    ASSUME KeysInv, NEW k \in Keys, Retire(k) \/ RevokeKey(k)
    PROVE  KeysInv'
<1> USE KeyConstants DEF KeysInv, KeysTypeOK, LoadedInv, LivesCovered, Covered, TokensVerify,
                         service
<1>1. CASE Retire(k)
  BY <1>1 DEF Retire
<1>2. CASE RevokeKey(k)
  BY <1>2 DEF RevokeKey
<1> QED  BY <1>1, <1>2

\* A new process serves every key whose tokens may still be about.
LEMMA StartKeeps == KeysInv /\ Start => KeysInv'
<1> SUFFICES ASSUME KeysInv, Start PROVE KeysInv'
  OBVIOUS
<1> USE KeyConstants DEF KeysInv, KeysTypeOK, rows
<1>1. PICK k \in Keys : Sole(k) /\ kid' = k /\ served' = Jwks(k) /\ signing' = 0
  BY DEF Start
<1>2. UNCHANGED <<status, age, mounted, left>>
  BY DEF Start
<1>3. Jwks(k) \subseteq Keys /\ k \in Jwks(k) /\ status[k] = "active"
  BY <1>1 DEF Jwks, Verification, Sole, Active
<1>4. ASSUME NEW j \in Keys, left[j] > 0, status[j] # "revoked" PROVE j \in Jwks(k)
  <2>1. CASE status[j] = "active"
    BY <1>1, <2>1 DEF Jwks, Sole, Active
  <2>2. CASE status[j] = "retiring" /\ age[j] + left[j] <= TokenLife
    <3>1. UsableRow(j) /\ j \notin Active
      BY <1>4, <2>2 DEF UsableRow, Active
    <3> QED  BY <3>1 DEF Jwks, Verification
  <2> QED  BY <1>4, <2>1, <2>2 DEF LivesCovered, Covered
<1>5. KeysTypeOK' /\ LoadedInv' /\ LivesCovered'
  BY <1>1, <1>2, <1>3 DEF LoadedInv, LivesCovered, Covered
<1>6. TokensVerify'
  BY <1>1, <1>2, <1>4 DEF TokensVerify
<1> QED  BY <1>5, <1>6

\* The service stops, or signs; a signature made after the key has left
\* 'active' is of a token whose life began before.
LEMMA ServiceKeeps == KeysInv /\ (Stop \/ Check \/ SignToken) => KeysInv'
<1> SUFFICES ASSUME KeysInv, Stop \/ Check \/ SignToken PROVE KeysInv'
  OBVIOUS
<1> USE KeyConstants DEF KeysInv, KeysTypeOK, LoadedInv, LivesCovered, Covered, TokensVerify, rows
<1>1. CASE Stop
  BY <1>1 DEF Stop
<1>2. CASE Check
  BY <1>2 DEF Check, StillActive
<1>3. CASE SignToken
  <2>1. kid \in Keys
    BY <1>3 DEF SignToken
  <2>2. /\ signing > 0 /\ signing' = 0 /\ UNCHANGED <<status, age, mounted, kid, served>>
        /\ left'[kid] \in {left[kid], signing}
        /\ \A j \in Keys : j # kid => left'[j] = left[j]
        /\ left' \in [Keys -> 0 .. TokenLife]
    BY <1>3, <2>1 DEF SignToken
  <2> QED  BY <2>1, <2>2
<1> QED  BY <1>1, <1>2, <1>3

\* While the age of a retiring key grows, its tokens' lives get shorter.
LEMMA TickKeeps == KeysInv /\ Tick => KeysInv'
<1> SUFFICES ASSUME KeysInv, Tick PROVE KeysInv'
  OBVIOUS
<1> USE KeyConstants DEF KeysInv, KeysTypeOK, Tick
<1>1. ASSUME NEW n \in 0 .. Overlap PROVE Later(n) \in 0 .. Overlap /\ Later(n) <= n + 1
  BY DEF Later
<1>2. ASSUME NEW n \in 0 .. TokenLife
      PROVE  Less(n) \in 0 .. TokenLife /\ (Less(n) > 0 => n > 0 /\ Less(n) = n - 1)
  BY DEF Less
<1>3. KeysTypeOK'
  BY <1>1, <1>2
<1>4. ASSUME NEW k \in Keys, NEW n \in 0 .. TokenLife, Covered(k, n),
             NEW m, m = Less(n)
      PROVE  m > 0 => \/ status'[k] \in {"active", "revoked"}
                      \/ status'[k] = "retiring" /\ age'[k] + m <= TokenLife
  BY <1>1, <1>2, <1>4 DEF Covered
<1>5. LivesCovered'
  <2>1. ASSUME NEW k \in Keys PROVE Covered(k, left[k])'
    BY <1>4 DEF LivesCovered, Covered
  <2>2. ASSUME kid' # None PROVE Covered(kid, signing)'
    BY <1>4, <2>2 DEF LivesCovered, Covered
  <2> QED  BY <2>1, <2>2 DEF LivesCovered
<1>6. LoadedInv'
  BY <1>2 DEF LoadedInv, Less
<1>7. TokensVerify'
  BY <1>2 DEF TokensVerify
<1> QED  BY <1>3, <1>5, <1>6, <1>7

\* The inductive invariant: every life under way is covered by its key's state.
THEOREM KeysInvariant == KeysSpec => []KeysInv
<1>1. KeysInv /\ [KeysNext]_keysVars => KeysInv'
  <2> SUFFICES ASSUME KeysInv, [KeysNext]_keysVars PROVE KeysInv'
    OBVIOUS
  <2>1. CASE UNCHANGED keysVars
    BY <2>1 DEF keysVars, rows, service, KeysInv, KeysTypeOK, LoadedInv, LivesCovered, Covered,
                TokensVerify
  <2> QED  BY <2>1, KeyringSteps, ActivateKeeps, EndingKeeps, StartKeeps, ServiceKeeps,
              TickKeeps DEF KeysNext
<1> QED  BY KeysInitInv, <1>1, PTL DEF KeysSpec

\* loadUsable, custody.sign: whatever was signed and is valid verifies with the
\* JWKS of the process that runs now, unless its key was revoked in an emergency.
THEOREM TokensVerifyCorrect == KeysSpec => []TokensVerify
  BY KeysInvariant, PTL DEF KeysInv

\* PostgresSigningKeyRepository.retire: the overlap outlives every token of the
\* key, those included that a process was signing when the key left 'active'.
THEOREM RetiredAreSilentCorrect == KeysSpec => []RetiredAreSilent
<1>1. KeysInv => RetiredAreSilent
  BY KeyConstants DEF KeysInv, KeysTypeOK, LivesCovered, Covered, RetiredAreSilent
<1> QED  BY <1>1, KeysInvariant, PTL
==============================================================================
