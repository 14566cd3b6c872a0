--------------------------- MODULE TokenRefresh ---------------------------
(***************************************************************************)
(* The refresh tokens of one user and a client (web page or mobile app)    *)
(* whose requests run concurrently.  A request that is answered 401        *)
(* refreshes with the token the client holds at that moment; Refresh reads *)
(* the token, revokes it and issues another in three statements, with no   *)
(* transaction around them.  Another device of the user may log out at any *)
(* time, which revokes everything.                                         *)
(***************************************************************************)
EXTENDS Naturals

CONSTANTS
  Requests,   \* requests of the client that may be under way at once
  Clearing,   \* those whose failed refresh clears the client's tokens: all of
              \* the mobile app's, the bootstrap ones of the web page
  Bootstraps, \* those of a bootstrap, which clears them whatever fails
  Faults,     \* the failures that may happen: subset of FaultKinds
  MaxTokens,  \* bound: number of refresh tokens issued
  MaxLogouts  \* bound: number of logouts

FaultKinds == {"database", "response", "expiry"}

\* Tokens are numbered; Bootstraps and Clearing are parts of the requests.
ASSUME RefreshAssumption ==
  /\ Bootstraps \subseteq Clearing
  /\ Clearing \subseteq Requests
  /\ Faults \subseteq FaultKinds
  /\ MaxTokens \in Nat
  /\ MaxLogouts \in Nat

Tokens  == 1..MaxTokens
NoToken == 0

VARIABLES
  issued,    \* refresh_tokens: rows so far, tokens 1..issued
  revoked,   \* those with a revoked_at
  expired,   \* those past expires_at
  held,      \* the refresh token the client has stored
  pc,        \* where each request is
  used,      \* the token its refresh presents
  new,       \* the token its refresh, or its login, was given
  logouts,   \* logouts so far
  ended,     \* history: tokens of sessions that a logout ended, and what descends from
             \* them; not those that a refresh had accepted, and not yet replaced, then
  spoiled    \* history: tokens that logout or expiry ended, or whose successor was lost

rows    == <<issued, revoked, expired>>
client  == <<held, pc, used, new>>
history == <<logouts, ended, spoiled>>
vars    == <<rows, client, history>>

Init ==
  /\ issued = 0 /\ revoked = {} /\ expired = {}
  /\ held = NoToken
  /\ pc = [r \in Requests |-> "idle"]
  /\ used = [r \in Requests |-> NoToken]
  /\ new = [r \in Requests |-> NoToken]
  /\ logouts = 0
  /\ ended = {} /\ spoiled = {}

\* Refresh accepts a token that is neither revoked nor expired.
Live(t) == t \in 1..issued /\ t \notin revoked /\ t \notin expired

At(r, label) == pc' = [pc EXCEPT ![r] = label]

\* The request is over.
Over(r) ==
  /\ At(r, "idle")
  /\ used' = [used EXCEPT ![r] = NoToken]
  /\ new' = [new EXCEPT ![r] = NoToken]

\* issueTokens: INSERT of a fresh token.
Issue(r) ==
  /\ issued < MaxTokens
  /\ issued' = issued + 1
  /\ new' = [new EXCEPT ![r] = issued + 1]
  /\ At(r, "granted")

\* Register, Login or the QR handoff, by a client that holds no token.
Login(r) ==
  /\ pc[r] = "idle"
  /\ held = NoToken
  /\ Issue(r)
  /\ UNCHANGED <<revoked, expired, held, used, history>>

\* A request finds its access token expired: the interceptor, or api(), starts a
\* refresh with the refresh token stored now.
Unauthorized(r) ==
  /\ pc[r] = "idle"
  /\ held # NoToken
  /\ used' = [used EXCEPT ![r] = held]
  /\ At(r, "read")
  /\ UNCHANGED <<rows, held, new, history>>

\* Mutant: an expired token gets an answer of its own, which no client handles.
RefreshReadsExpired(r) ==
  /\ pc[r] = "read"
  /\ \/ Live(used[r]) /\ At(r, "revoke")
     \/ used[r] \in expired /\ At(r, "expired")
     \/ (used[r] \in revoked \/ "database" \in Faults) /\ At(r, "refused")
  /\ UNCHANGED <<rows, held, used, new, history>>

\* Mutant: revoked_at is not looked at.
RefreshReadsRevoked(r) ==
  /\ pc[r] = "read"
  /\ \/ used[r] \in 1..issued \ expired /\ At(r, "revoke")
     \/ (used[r] \in expired \/ "database" \in Faults) /\ At(r, "refused")
  /\ UNCHANGED <<rows, held, used, new, history>>

\* GetByHash and the checks on revoked_at and expires_at; an error of GetByHash is
\* answered like an unknown token.
RefreshReads(r) ==
  /\ pc[r] = "read"
  /\ \/ Live(used[r]) /\ At(r, "revoke")
     \/ (~Live(used[r]) \/ "database" \in Faults) /\ At(r, "refused")
  /\ UNCHANGED <<rows, held, used, new, history>>

\* Mutant: the user's whole family of tokens is revoked.
RefreshRevokesFamily(r) ==
  /\ pc[r] = "revoke"
  /\ revoked' = 1..issued
  /\ At(r, "issue")
  /\ UNCHANGED <<issued, expired, held, used, new, history>>

\* Revoke: no matter whether it still found the token unrevoked, and its error
\* is ignored.
RefreshRevokes(r) ==
  /\ pc[r] = "revoke"
  /\ \/ revoked' = revoked \cup {used[r]}
     \/ "database" \in Faults /\ UNCHANGED revoked
  /\ At(r, "issue")
  /\ UNCHANGED <<issued, expired, held, used, new, history>>

\* GetByID and issueTokens.
RefreshIssues(r) ==
  /\ pc[r] = "issue"
  /\ Issue(r)
  /\ ended' = IF used[r] \in ended THEN ended \cup {issued'} ELSE ended
  /\ UNCHANGED <<revoked, expired, held, used, logouts, spoiled>>

\* The user is not found or the INSERT fails: the old token is spent, there is no new one.
RefreshIssueFails(r) ==
  /\ "database" \in Faults
  /\ pc[r] = "issue"
  /\ At(r, "refused")
  /\ spoiled' = spoiled \cup {used[r]}
  /\ UNCHANGED <<rows, held, used, new, logouts, ended>>

\* The answer arrives: the client stores the new token over whatever it holds,
\* even if it logged out meanwhile.
Granted(r) ==
  /\ pc[r] = "granted"
  /\ held' = new[r]
  /\ Over(r)
  /\ UNCHANGED <<rows, history>>

\* The refresh failed: some requests clear the stored token, whichever it is now.
Clear(r) == held' = IF r \in Clearing THEN NoToken ELSE held

Refused(r) ==
  /\ pc[r] = "refused"
  /\ Clear(r)
  /\ Over(r)
  /\ UNCHANGED <<rows, history>>

\* The answer is lost; the client takes it for a failure.
AnswerLost(r) ==
  /\ "response" \in Faults
  /\ pc[r] \in {"granted", "refused"}
  /\ spoiled' = spoiled \cup ({used[r]} \ {NoToken})
  /\ Clear(r)
  /\ Over(r)
  /\ UNCHANGED <<rows, logouts, ended>>

\* A request of a bootstrap fails although its access token was good, or was refreshed:
\* the client clears its tokens, even those another request has stored meanwhile.
BootstrapFails(r) ==
  /\ Faults \cap {"database", "response"} # {}
  /\ r \in Bootstraps
  /\ pc[r] = "idle"
  /\ held # NoToken
  /\ held' = NoToken
  /\ UNCHANGED <<rows, pc, used, new, history>>

\* Refresh has found r's token good and is still to issue its successor.
Accepts(r) == pc[r] \in {"revoke", "issue"}

\* RevokeAllForUser.
RevokeAll ==
  /\ logouts < MaxLogouts
  /\ revoked' = 1..issued
  /\ spoiled' = spoiled \cup 1..issued
  /\ ended' = ended \cup (1..issued \ {used[r] : r \in {q \in Requests : Accepts(q)}})
  /\ logouts' = logouts + 1
  /\ UNCHANGED <<issued, expired>>

\* The user logs out here: the request revokes everything ...
LogoutRevokes(r) ==
  /\ pc[r] = "idle"
  /\ held # NoToken
  /\ RevokeAll
  /\ At(r, "logout")
  /\ UNCHANGED <<held, used, new>>

\* ... or fails, at the database (the handler ignores it) or on its way ...
LogoutFails(r) ==
  /\ Faults \cap {"database", "response"} # {}
  /\ pc[r] = "idle"
  /\ held # NoToken
  /\ At(r, "logout")
  /\ UNCHANGED <<rows, held, used, new, history>>

\* ... and either way the client forgets its tokens.
LogoutClears(r) ==
  /\ pc[r] = "logout"
  /\ held' = NoToken
  /\ Over(r)
  /\ UNCHANGED <<rows, history>>

\* The user logs out on another device.
LogoutElsewhere ==
  /\ issued > 0
  /\ RevokeAll
  /\ UNCHANGED client

TokenExpires(t) ==
  /\ "expiry" \in Faults
  /\ t \in 1..issued \ expired
  /\ expired' = expired \cup {t}
  /\ spoiled' = spoiled \cup {t}
  /\ UNCHANGED <<issued, revoked, client, logouts, ended>>

RequestStep(r) ==
  \/ Login(r) \/ Unauthorized(r)
  \/ RefreshReads(r) \/ RefreshRevokes(r) \/ RefreshIssues(r) \/ RefreshIssueFails(r)
  \/ Granted(r) \/ Refused(r) \/ AnswerLost(r) \/ BootstrapFails(r)
  \/ LogoutRevokes(r) \/ LogoutFails(r) \/ LogoutClears(r)

Next ==
  \/ \E r \in Requests : RequestStep(r)
  \/ LogoutElsewhere
  \/ \E t \in Tokens : TokenExpires(t)

Spec == Init /\ [][Next]_vars

(***************************************************************************)
(* Properties                                                              *)
(***************************************************************************)
RequestLabels == {"idle", "read", "revoke", "issue", "granted", "refused", "logout"}

\* Every variable has its type; a request is answered granted or refused.
TypeOK ==
  /\ issued \in 0..MaxTokens
  /\ revoked \subseteq 1..issued
  /\ expired \subseteq 1..issued
  /\ held \in 0..issued
  /\ pc \in [Requests -> RequestLabels]
  /\ used \in [Requests -> 0..issued]
  /\ new \in [Requests -> 0..issued]
  /\ logouts \in 0..MaxLogouts
  /\ ended \subseteq 1..issued
  /\ spoiled \subseteq 1..issued

\* The client does not keep a token that only its own refreshes have spent: a token it
\* holds is live, or was ended by logout or expiry, or its successor was lost, or a
\* refresh that presented it is still to bring the successor.  That it holds a token
\* is not said: the refresh that loses a race is refused, and then the app clears
\* whatever it holds.
HeldIsUsable ==
  held # NoToken /\ ~Live(held) =>
    \/ held \in spoiled
    \/ \E r \in Requests :
         /\ used[r] = held
         /\ pc[r] = "issue" \/ (pc[r] = "granted" /\ (Live(new[r]) \/ new[r] \in spoiled))

\* Logout ends the sessions before it, those of other devices and of requests under way
\* included: none of their tokens is live, or buys another, from then on.  All that can
\* survive is what a refresh that had accepted its token was still to issue.
LogoutRevokesAll == \A t \in ended : ~Live(t)

\* Refresh tokens rotate on use (README): no token buys two successors.
UsedOnce ==
  \A q, r \in Requests :
    q # r /\ pc[q] = "granted" /\ pc[r] = "granted" /\ used[q] # NoToken
      => used[q] # used[r]
=============================================================================
