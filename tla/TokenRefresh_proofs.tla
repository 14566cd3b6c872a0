------------------------ MODULE TokenRefresh_proofs ------------------------
(***************************************************************************)
(* Refresh and logout, for any number of requests, tokens and logouts.     *)
(***************************************************************************)
EXTENDS TokenRefresh, TLAPS

\* What a refresh has accepted no logout has ended.
Accepted ==
  \A r \in Requests : Accepts(r) => used[r] \in (1..issued) \ ended

\* A token on its way to the client is nowhere else: with no other request, not
\* stored, not presented to a refresh; only logout or expiry has ended it.
OnItsWay(r) ==
  /\ new[r] \in 1..issued
  /\ Live(new[r]) \/ new[r] \in spoiled
  /\ held # new[r]
  /\ \A q \in Requests : used[q] # new[r]
  /\ \A q \in Requests \ {r} : pc[q] = "granted" => new[q] # new[r]

Granting == \A r \in Requests : pc[r] = "granted" => OnItsWay(r)

\* Who revoked the stored token is still to bring its successor.
Succeeded ==
  held # NoToken /\ ~Live(held) /\ held \notin spoiled =>
    \E r \in Requests : used[r] = held /\ pc[r] \in {"issue", "granted"}

IInv ==
  TypeOK /\ LogoutRevokesAll /\ Accepted /\ Granting /\ Succeeded

LEMMA Numbers == MaxTokens \in Nat /\ MaxLogouts \in Nat /\ NoToken = 0
  BY RefreshAssumption DEF NoToken

LEMMA InitInv == Init => IInv
<1> SUFFICES ASSUME Init PROVE IInv
  OBVIOUS
<1> USE Numbers DEF Init
<1>1. TypeOK
  BY DEF TypeOK, RequestLabels
<1>2. LogoutRevokesAll /\ Accepted
  BY DEF LogoutRevokesAll, Accepted, Accepts
<1>3. Granting /\ Succeeded
  BY DEF Granting, Succeeded
<1> QED BY <1>1, <1>2, <1>3 DEF IInv

LEMMA LoginInv ==
  ASSUME IInv, NEW r \in Requests, Login(r)
  PROVE  IInv'
<1> USE Numbers DEF IInv, TypeOK, Login, Issue, At, rows, client, history
<1>1. TypeOK'
  BY DEF RequestLabels, Tokens
<1>2. LogoutRevokesAll'
  BY DEF LogoutRevokesAll, Live, Tokens
<1>3. Accepted'
  BY DEF LogoutRevokesAll, Accepted, Accepts, Live, Tokens
<1>4. Granting'
  BY DEF Granting, OnItsWay, Live
<1>5. Succeeded'
  BY DEF Succeeded
<1> QED BY <1>1, <1>2, <1>3, <1>4, <1>5

LEMMA UnauthorizedInv ==
  ASSUME IInv, NEW r \in Requests, Unauthorized(r)
  PROVE  IInv'
<1> USE Numbers DEF IInv, TypeOK, Unauthorized, At, rows, client, history
<1>1. TypeOK'
  BY DEF RequestLabels
<1>2. LogoutRevokesAll'
  BY DEF LogoutRevokesAll, Live
<1>3. Accepted'
  BY DEF Accepted, Accepts
<1>4. Granting'
  BY DEF Granting, OnItsWay, Live
<1>5. Succeeded'
  BY DEF Succeeded, Live
<1> QED BY <1>1, <1>2, <1>3, <1>4, <1>5

LEMMA RefreshReadsInv ==
  ASSUME IInv, NEW r \in Requests, RefreshReads(r)
  PROVE  IInv'
<1> USE Numbers DEF IInv, TypeOK, RefreshReads, At, rows, client, history
<1>1. TypeOK'
  BY DEF RequestLabels
<1>2. LogoutRevokesAll'
  BY DEF LogoutRevokesAll, Live
<1>3. Accepted'
  BY DEF LogoutRevokesAll, Accepted, Accepts, Live
<1>4. Granting'
  BY DEF Granting, OnItsWay, Live
<1>5. Succeeded'
  BY DEF Succeeded, Live
<1> QED BY <1>1, <1>2, <1>3, <1>4, <1>5

LEMMA RefreshRevokesInv ==
  ASSUME IInv, NEW r \in Requests, RefreshRevokes(r)
  PROVE  IInv'
<1> USE Numbers DEF IInv, TypeOK, RefreshRevokes, At, rows, client, history
<1>1. TypeOK'
  BY DEF Accepted, Accepts, RequestLabels
<1>2. LogoutRevokesAll'
  BY DEF LogoutRevokesAll, Live
<1>3. Accepted'
  BY DEF Accepted, Accepts
<1>4. Granting'
  BY DEF Granting, OnItsWay, Live
<1>5. Succeeded'
  BY DEF Succeeded, Live
<1> QED BY <1>1, <1>2, <1>3, <1>4, <1>5

LEMMA RefreshIssuesInv ==
  ASSUME IInv, NEW r \in Requests, RefreshIssues(r)
  PROVE  IInv'
<1> USE Numbers DEF IInv, TypeOK, RefreshIssues, Issue, At, rows, client, history
<1>1. TypeOK'
  <2>1. /\ issued \in Nat /\ issued' = issued + 1 /\ issued' \in Nat /\ issued' <= MaxTokens
        /\ ended' \subseteq 1..issued'
    BY DEF Accepted, Accepts, Tokens
  <2>2. 0..issued \subseteq 0..issued' /\ 1..issued \subseteq 1..issued'
    BY <2>1
  <2>3. pc' \in [Requests -> RequestLabels] /\ new' \in [Requests -> 0..issued']
    BY DEF RequestLabels
  <2>4. used' \in [Requests -> 0..issued']
    BY <2>1, <2>2
  <2> QED BY <2>1, <2>3, <2>4
<1>2. LogoutRevokesAll'
  BY DEF LogoutRevokesAll, Accepted, Accepts, Live, Tokens
<1>3. Accepted'
  BY DEF LogoutRevokesAll, Accepted, Accepts, Live, Tokens
<1>4. Granting'
  BY DEF Granting, OnItsWay, Live
<1>5. Succeeded'
  BY DEF Succeeded, Live
<1> QED BY <1>1, <1>2, <1>3, <1>4, <1>5

LEMMA RefreshIssueFailsInv ==
  ASSUME IInv, NEW r \in Requests, RefreshIssueFails(r)
  PROVE  IInv'
<1> USE Numbers DEF IInv, TypeOK, RefreshIssueFails, At, rows, client, history
<1>1. TypeOK'
  BY DEF Accepted, Accepts, RequestLabels
<1>2. LogoutRevokesAll'
  BY DEF LogoutRevokesAll, Live
<1>3. Accepted'
  BY DEF Accepted, Accepts
<1>4. Granting'
  BY DEF Granting, OnItsWay, Live
<1>5. Succeeded'
  BY DEF Succeeded, Live
<1> QED BY <1>1, <1>2, <1>3, <1>4, <1>5

LEMMA GrantedInv ==
  ASSUME IInv, NEW r \in Requests, Granted(r)
  PROVE  IInv'
<1> USE Numbers DEF IInv, TypeOK, Granted, Over, At, rows, client, history
<1>1. TypeOK'
  BY DEF RequestLabels, Tokens
<1>2. LogoutRevokesAll'
  BY DEF LogoutRevokesAll, Live
<1>3. Accepted'
  BY DEF Accepted, Accepts
<1>4. Granting'
  BY DEF Granting, OnItsWay, Live
<1>5. Succeeded'
  BY DEF Succeeded, Granting, OnItsWay, Live
<1> QED BY <1>1, <1>2, <1>3, <1>4, <1>5

LEMMA RefusedInv ==
  ASSUME IInv, NEW r \in Requests, Refused(r)
  PROVE  IInv'
<1> USE Numbers DEF IInv, TypeOK, Refused, Over, At, Clear, rows, client, history
<1>1. TypeOK'
  BY DEF RequestLabels
<1>2. LogoutRevokesAll'
  BY DEF LogoutRevokesAll, Live
<1>3. Accepted'
  BY DEF Accepted, Accepts
<1>4. Granting'
  BY DEF Granting, OnItsWay, Live
<1>5. Succeeded'
  BY DEF Succeeded, Live
<1> QED BY <1>1, <1>2, <1>3, <1>4, <1>5

LEMMA AnswerLostInv ==
  ASSUME IInv, NEW r \in Requests, AnswerLost(r)
  PROVE  IInv'
<1> USE Numbers DEF IInv, TypeOK, AnswerLost, Over, At, Clear, rows, client, history
<1>1. TypeOK'
  <2>1. used[r] \in 0..issued /\ {used[r]} \ {NoToken} \subseteq 1..issued
    OBVIOUS
  <2>2. spoiled' \subseteq 1..issued /\ issued' = issued
    <3>1. spoiled' = spoiled \cup ({used[r]} \ {NoToken}) /\ issued' = issued
      OBVIOUS
    <3> HIDE DEF AnswerLost
    <3> QED BY <2>1, <3>1
  <2>3. /\ pc' \in [Requests -> RequestLabels]
        /\ used' \in [Requests -> 0..issued']
        /\ new' \in [Requests -> 0..issued']
        /\ held' \in 0..issued'
    BY DEF RequestLabels
  <2> QED BY <2>2, <2>3
<1>2. LogoutRevokesAll'
  BY DEF LogoutRevokesAll, Live
<1>3. Accepted'
  BY DEF Accepted, Accepts
<1>4. Granting'
  BY DEF Granting, OnItsWay, Live
<1>5. Succeeded'
  BY DEF Succeeded, Live
<1> QED BY <1>1, <1>2, <1>3, <1>4, <1>5

LEMMA BootstrapFailsInv ==
  ASSUME IInv, NEW r \in Requests, BootstrapFails(r)
  PROVE  IInv'
<1> USE Numbers DEF IInv, TypeOK, BootstrapFails, rows, client, history
<1>1. TypeOK'
  BY DEF RequestLabels, Tokens
<1>2. LogoutRevokesAll'
  BY DEF LogoutRevokesAll, Live
<1>3. Accepted'
  BY DEF Accepted, Accepts
<1>4. Granting'
  BY DEF Granting, OnItsWay, Live
<1>5. Succeeded'
  BY DEF Succeeded
<1> QED BY <1>1, <1>2, <1>3, <1>4, <1>5

LEMMA RevokeAllTypes ==
  ASSUME TypeOK, RevokeAll
  PROVE  ended' \subseteq 1..issued
<1> DEFINE kept == {used[r] : r \in {q \in Requests : Accepts(q)}}
<1>1. ended \subseteq 1..issued /\ ended' = ended \cup (1..issued \ kept)
  BY DEF TypeOK, RevokeAll
<1> HIDE DEF kept
<1> QED BY <1>1

LEMMA LogoutRevokesInv ==
  ASSUME IInv, NEW r \in Requests, LogoutRevokes(r)
  PROVE  IInv'
<1> USE Numbers DEF IInv, TypeOK, LogoutRevokes, RevokeAll, At, rows, client, history
<1>1. TypeOK'
  <2>1. ended' \subseteq 1..issued
    BY RevokeAllTypes
  <2> HIDE DEF RevokeAll
  <2>2. /\ logouts' \in 0..MaxLogouts /\ revoked' = 1..issued
        /\ spoiled' = spoiled \cup 1..issued /\ UNCHANGED <<issued, expired>>
    BY DEF RevokeAll
  <2> QED BY <2>1, <2>2 DEF RequestLabels
<1>2. LogoutRevokesAll'
  BY DEF LogoutRevokesAll, Live
<1>3. Accepted'
  BY DEF Accepted, Accepts
<1>4. Granting'
  BY DEF Granting, OnItsWay
<1>5. Succeeded'
  BY DEF Succeeded
<1> QED BY <1>1, <1>2, <1>3, <1>4, <1>5

LEMMA LogoutFailsInv ==
  ASSUME IInv, NEW r \in Requests, LogoutFails(r)
  PROVE  IInv'
<1> USE Numbers DEF IInv, TypeOK, LogoutFails, At, rows, client, history
<1>1. TypeOK'
  BY DEF RequestLabels
<1>2. LogoutRevokesAll'
  BY DEF LogoutRevokesAll, Live
<1>3. Accepted'
  BY DEF Accepted, Accepts
<1>4. Granting'
  BY DEF Granting, OnItsWay, Live
<1>5. Succeeded'
  BY DEF Succeeded, Live
<1> QED BY <1>1, <1>2, <1>3, <1>4, <1>5

LEMMA LogoutClearsInv ==
  ASSUME IInv, NEW r \in Requests, LogoutClears(r)
  PROVE  IInv'
<1> USE Numbers DEF IInv, TypeOK, LogoutClears, Over, At, rows, client, history
<1>1. TypeOK'
  BY DEF RequestLabels, Tokens
<1>2. LogoutRevokesAll'
  BY DEF LogoutRevokesAll, Live
<1>3. Accepted'
  BY DEF Accepted, Accepts
<1>4. Granting'
  BY DEF Granting, OnItsWay, Live
<1>5. Succeeded'
  BY DEF Succeeded
<1> QED BY <1>1, <1>2, <1>3, <1>4, <1>5

LEMMA LogoutElsewhereInv ==
  ASSUME IInv, LogoutElsewhere
  PROVE  IInv'
<1> USE Numbers DEF IInv, TypeOK, LogoutElsewhere, RevokeAll, rows, client, history
<1>1. TypeOK'
  <2>1. ended' \subseteq 1..issued
    BY RevokeAllTypes
  <2> HIDE DEF RevokeAll
  <2>2. /\ logouts' \in 0..MaxLogouts /\ revoked' = 1..issued
        /\ spoiled' = spoiled \cup 1..issued /\ UNCHANGED <<issued, expired>>
    BY DEF RevokeAll
  <2> QED BY <2>1, <2>2 DEF RequestLabels
<1>2. LogoutRevokesAll'
  BY DEF LogoutRevokesAll, Live
<1>3. Accepted'
  BY DEF Accepted, Accepts
<1>4. Granting'
  BY DEF Granting, OnItsWay
<1>5. Succeeded'
  BY DEF Succeeded
<1> QED BY <1>1, <1>2, <1>3, <1>4, <1>5

LEMMA TokenExpiresInv ==
  ASSUME IInv, NEW t \in Tokens, TokenExpires(t)
  PROVE  IInv'
<1> USE Numbers DEF IInv, TypeOK, TokenExpires, rows, client, history
<1>1. TypeOK'
  OBVIOUS
<1>2. LogoutRevokesAll'
  BY DEF LogoutRevokesAll, Live
<1>3. Accepted'
  BY DEF Accepted, Accepts
<1>4. Granting'
  BY DEF Granting, OnItsWay, Live
<1>5. Succeeded'
  BY DEF Succeeded, Live
<1> QED BY <1>1, <1>2, <1>3, <1>4, <1>5

LEMMA StepInv == IInv /\ [Next]_vars => IInv'
<1> SUFFICES ASSUME IInv, [Next]_vars PROVE IInv'
  OBVIOUS
<1>1. CASE UNCHANGED vars
  BY <1>1 DEF vars, rows, client, history, IInv, TypeOK, LogoutRevokesAll, Accepted, Accepts,
     Granting, OnItsWay, Succeeded, Live
<1>2. ASSUME NEW r \in Requests, RequestStep(r) PROVE IInv'
  BY <1>2, LoginInv, UnauthorizedInv, RefreshReadsInv, RefreshRevokesInv, RefreshIssuesInv,
     RefreshIssueFailsInv, GrantedInv, RefusedInv, AnswerLostInv, BootstrapFailsInv,
     LogoutRevokesInv, LogoutFailsInv, LogoutClearsInv DEF RequestStep
<1>3. CASE LogoutElsewhere
  BY <1>3, LogoutElsewhereInv
<1>4. ASSUME NEW t \in Tokens, TokenExpires(t) PROVE IInv'
  BY <1>4, TokenExpiresInv
<1> QED BY <1>1, <1>2, <1>3, <1>4 DEF Next

LEMMA AlwaysInv == Spec => []IInv
  BY InitInv, StepInv, PTL DEF Spec

(* The type invariant, for any number of requests, tokens and logouts. *)
THEOREM TypeCorrect == Spec => []TypeOK
<1>1. IInv => TypeOK
  BY DEF IInv
<1> QED BY AlwaysInv, <1>1, PTL

(* A token the client holds and that is no longer live was ended by logout or    *)
(* expiry, lost its successor, or is about to be replaced, however the refreshes *)
(* of its requests interleave and whichever of them clear its tokens.            *)
THEOREM HeldTokensAreUsable == Spec => []HeldIsUsable
<1>1. IInv => HeldIsUsable
  <2> SUFFICES ASSUME IInv, held # NoToken, ~Live(held), held \notin spoiled
               PROVE  \E r \in Requests :
                        /\ used[r] = held
                        /\ pc[r] = "issue" \/ (pc[r] = "granted" /\ (Live(new[r]) \/ new[r] \in spoiled))
    BY DEF HeldIsUsable
  <2>1. PICK r \in Requests : used[r] = held /\ pc[r] \in {"issue", "granted"}
    BY DEF IInv, Succeeded
  <2>2. pc[r] = "granted" => Live(new[r]) \/ new[r] \in spoiled
    BY DEF IInv, Granting, OnItsWay
  <2> QED BY <2>1, <2>2
<1> QED BY AlwaysInv, <1>1, PTL

(* No token of a session that a logout ended is live, then or later: all that   *)
(* can survive is what a refresh was to issue that had accepted its token.      *)
THEOREM LogoutEndsSessions == Spec => []LogoutRevokesAll
<1>1. IInv => LogoutRevokesAll
  BY DEF IInv
<1> QED BY AlwaysInv, <1>1, PTL

=============================================================================
