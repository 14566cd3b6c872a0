------------------------------ MODULE QRLogin ------------------------------
(***************************************************************************)
(* Signing in by QR code: the web page that shows the code and polls, the  *)
(* phone whose Google sign-in comes back as an OAuth callback, and the     *)
(* rows of qr_login_sessions between them.  Two phones (or one phone       *)
(* twice) may answer one code, the page's polls overlap, and the user may  *)
(* ask for another code while requests for the first are under way.        *)
(* One action is one statement on the database, one call to Google, or one *)
(* JavaScript callback of the page.                                        *)
(***************************************************************************)
EXTENDS Naturals

CONSTANTS
  MaxCallbacks,  \* bound: number of times a phone scans a code
  MaxSessions,   \* bound: number of codes the page asks for
  Polls,         \* status requests of the page that may be in flight at once
  Expiring,      \* the sessions whose five minutes may pass
  Faults         \* the failures that may happen: subset of FaultKinds

FaultKinds == {"oauth", "database", "response"}

\* Callbacks and sessions are numbered; Faults is a set of strings.
ASSUME QRAssumption ==
  /\ MaxCallbacks \in Nat
  /\ MaxSessions \in Nat
  /\ Expiring \subseteq 1..MaxSessions
  /\ Faults \subseteq FaultKinds

Sessions  == 1..MaxSessions
Callbacks == 1..MaxCallbacks   \* a callback names the login it issues, too
NoLogin   == 0
NoSession == 0

VARIABLES
  status,   \* qr_login_sessions.status, "none" before the INSERT
  login,    \* its access_token and refresh_token: the callback that issued them
  expired,  \* sessions whose expires_at has passed
  cpc,      \* where each callback is
  csess,    \* the session it belongs to
  live,     \* logins whose refresh token is in refresh_tokens
  start,    \* where startQRLogin is, for the code of each session
  shown,    \* qrSessionId
  timer,    \* qrPollTimer # null
  user,     \* the login the page saved, or NoLogin
  ppc,      \* where each poll is
  psess,    \* the session it asks about
  got,      \* the login its server side took out of the row
  handed    \* history: how often each login left the row

server == <<status, login, expired, live, handed>>
phone  == <<cpc, csess>>
page   == <<start, shown, timer, user>>
polls  == <<ppc, psess, got>>
vars   == <<server, phone, page, polls>>

Init ==
  /\ status = [s \in Sessions |-> "none"]
  /\ login = [s \in Sessions |-> NoLogin]
  /\ expired = {}
  /\ cpc = [c \in Callbacks |-> "idle"]
  /\ csess = [c \in Callbacks |-> NoSession]
  /\ live = {}
  /\ start = [s \in Sessions |-> "none"]
  /\ shown = NoSession
  /\ timer = FALSE
  /\ user = NoLogin
  /\ ppc = [p \in Polls |-> "idle"]
  /\ psess = [p \in Polls |-> NoSession]
  /\ got = [p \in Polls |-> NoLogin]
  /\ handed = [c \in Callbacks |-> 0]

(***************************************************************************)
(* The session row                                                         *)
(***************************************************************************)
\* Mutant: an expired session is stored as expired.
MarkExpired(s) == status' = IF status[s] = "pending"
                            THEN [status EXCEPT ![s] = "expired"] ELSE status

\* MarkFailed: a pending session ends; every caller ignores a database error.
MarkFailed(s) ==
  \/ status' = IF status[s] = "pending" THEN [status EXCEPT ![s] = "failed"] ELSE status
  \/ "database" \in Faults /\ UNCHANGED status

\* What the service calls open: pending, its five minutes not over.
Open(s) == status[s] = "pending" /\ s \notin expired

SessionExpires(s) ==
  /\ s \in Expiring \ expired
  /\ status[s] # "none"
  /\ expired' = expired \cup {s}
  /\ UNCHANGED <<status, login, live, handed, phone, page, polls>>

(***************************************************************************)
(* The phone: StartURL, Google's consent page, the callback                *)
(***************************************************************************)
CallbackAt(c, label) == cpc' = [cpc EXCEPT ![c] = label]

\* StartURL: only an open session sends the phone on to Google.
PhoneStarts(c, s) ==
  /\ cpc[c] = "idle"
  /\ Open(s)
  /\ csess' = [csess EXCEPT ![c] = s]
  /\ CallbackAt(c, "consent")
  /\ UNCHANGED <<server, page, polls>>

\* Google redirects to the callback; CompleteFromOAuth reads the session.
CallbackReads(c) ==
  /\ cpc[c] = "consent"
  /\ CallbackAt(c, IF Open(csess[c]) THEN "exchange" ELSE "fail")
  /\ UNCHANGED <<server, csess, page, polls>>

\* Google exchanges the code and returns the profile; LoginOrCreateGoogleUser
\* stores a refresh token.  The mailbox is linked on the side, errors ignored
\* (AccountSync has that write).
CallbackLogsIn(c) ==
  /\ cpc[c] = "exchange"
  /\ live' = live \cup {c}
  /\ CallbackAt(c, "approve")
  /\ UNCHANGED <<status, login, expired, handed, csess, page, polls>>

\* The code, the Gmail client, the profile or the user fails.
CallbackErrs(c) ==
  /\ "oauth" \in Faults
  /\ cpc[c] = "exchange"
  /\ CallbackAt(c, "fail")
  /\ UNCHANGED <<server, csess, page, polls>>

CallbackMarksFailed(c) ==
  /\ cpc[c] = "fail"
  /\ MarkFailed(csess[c])
  /\ CallbackAt(c, "done")
  /\ UNCHANGED <<login, expired, live, handed, csess, page, polls>>

\* Mutant: Approve does not look at the status.
CallbackApprovesAny(c) ==
  /\ cpc[c] = "approve"
  /\ status' = [status EXCEPT ![csess[c]] = "approved"]
  /\ login' = [login EXCEPT ![csess[c]] = c]
  /\ CallbackAt(c, "done")
  /\ UNCHANGED <<expired, live, handed, csess, page, polls>>

\* Approve: a compare-and-set from pending, whatever expires_at says by now.
CallbackApproves(c) ==
  /\ cpc[c] = "approve"
  /\ status[csess[c]] = "pending"
  /\ status' = [status EXCEPT ![csess[c]] = "approved"]
  /\ login' = [login EXCEPT ![csess[c]] = c]
  /\ CallbackAt(c, "done")
  /\ UNCHANGED <<expired, live, handed, csess, page, polls>>

\* Nothing was pending (ErrConflict) or the database fails: the phone sees an
\* error, and the refresh token issued for it stays live.
CallbackTooLate(c) ==
  /\ cpc[c] = "approve"
  /\ status[csess[c]] # "pending" \/ "database" \in Faults
  /\ CallbackAt(c, "done")
  /\ UNCHANGED <<server, csess, page, polls>>

PhoneStep(c) ==
  \/ \E s \in Sessions : PhoneStarts(c, s)
  \/ CallbackReads(c) \/ CallbackLogsIn(c) \/ CallbackErrs(c)
  \/ CallbackMarksFailed(c) \/ CallbackApproves(c) \/ CallbackTooLate(c)

(***************************************************************************)
(* The page: startQRLogin and the modal                                    *)
(***************************************************************************)
\* A click on "QR code": CreateSession inserts a pending session.
Click(s) ==
  /\ user = NoLogin
  /\ start[s] = "none"
  /\ \A t \in Sessions : t < s => start[t] # "none"
  /\ status' = [status EXCEPT ![s] = "pending"]
  /\ start' = [start EXCEPT ![s] = "created"]
  /\ UNCHANGED <<login, expired, live, handed, phone, shown, timer, user, polls>>

\* The answer arrives: qrSessionId is the new session from now on, while the
\* code is rendered and an older timer still runs.
CodeArrives(s) ==
  /\ start[s] = "created"
  /\ shown' = s
  /\ start' = [start EXCEPT ![s] = "rendering"]
  /\ UNCHANGED <<server, phone, timer, user, polls>>

\* The code is on the page: the older timer is cleared, a new one set.
CodeRendered(s) ==
  /\ start[s] = "rendering"
  /\ timer' = TRUE
  /\ start' = [start EXCEPT ![s] = "done"]
  /\ UNCHANGED <<server, phone, shown, user, polls>>

\* closeQRModal by the user.
CloseModal ==
  /\ shown # NoSession
  /\ timer' = FALSE
  /\ shown' = NoSession
  /\ UNCHANGED <<server, phone, start, user, polls>>

(***************************************************************************)
(* A poll: the request, Status on the server, the answer                   *)
(***************************************************************************)
PollAt(p, label) == ppc' = [ppc EXCEPT ![p] = label]

\* The timer fires: a request for whatever session is shown at that moment.
PollSent(p) ==
  /\ ppc[p] = "idle"
  /\ timer
  /\ shown # NoSession
  /\ psess' = [psess EXCEPT ![p] = shown]
  /\ PollAt(p, "read")
  /\ UNCHANGED <<server, phone, page, got>>

\* GetByID: an approved session is consumed next, a pending one past its time
\* is ended next, and any other status is the answer.
PollReads(p) ==
  /\ ppc[p] = "read"
  /\ LET s == psess[p] IN
       PollAt(p, IF status[s] = "approved" THEN "consume"
                 ELSE IF status[s] # "pending" THEN "ended"
                 ELSE IF s \in expired THEN "expire" ELSE "pending")
  /\ UNCHANGED <<server, phone, page, psess, got>>

\* The answer is "expired" whatever MarkFailed found.
PollExpires(p) ==
  /\ ppc[p] = "expire"
  /\ MarkFailed(psess[p])
  /\ PollAt(p, "ended")
  /\ UNCHANGED <<login, expired, live, handed, phone, page, psess, got>>

\* Mutant: the row is read outside the transaction, and not cleared.
PollConsumesUncleared(p) ==
  LET s == psess[p] IN
  /\ ppc[p] = "consume"
  /\ status[s] = "approved"
  /\ got' = [got EXCEPT ![p] = login[s]]
  /\ handed' = [handed EXCEPT ![login[s]] = @ + 1]
  /\ PollAt(p, "me")
  /\ UNCHANGED <<status, login, expired, live, phone, page, psess>>

\* Mutant: the status is set, the tokens stay in the row.
PollConsumesKeepingTokens(p) ==
  LET s == psess[p] IN
  /\ ppc[p] = "consume"
  /\ status[s] = "approved"
  /\ got' = [got EXCEPT ![p] = login[s]]
  /\ handed' = [handed EXCEPT ![login[s]] = @ + 1]
  /\ status' = [status EXCEPT ![s] = "consumed"]
  /\ PollAt(p, "me")
  /\ UNCHANGED <<login, expired, live, phone, page, psess>>

\* ConsumeApproved: SELECT FOR UPDATE, clear the tokens, commit.
PollConsumes(p) ==
  LET s == psess[p] IN
  /\ ppc[p] = "consume"
  /\ status[s] = "approved"
  /\ got' = [got EXCEPT ![p] = login[s]]
  /\ handed' = [handed EXCEPT ![login[s]] = @ + 1]
  /\ login' = [login EXCEPT ![s] = NoLogin]
  /\ status' = [status EXCEPT ![s] = "consumed"]
  /\ PollAt(p, "me")
  /\ UNCHANGED <<expired, live, phone, page, psess>>

\* Another poll was first: the cleared tokens do not scan, the answer is an error.
PollConsumesTooLate(p) ==
  /\ ppc[p] = "consume"
  /\ status[psess[p]] # "approved" \/ "database" \in Faults
  /\ PollAt(p, "error")
  /\ UNCHANGED <<server, phone, page, psess, got>>

\* Me: the user of the login goes into the answer.
PollFindsUser(p) ==
  /\ ppc[p] = "me"
  /\ PollAt(p, "approved")
  /\ UNCHANGED <<server, phone, page, psess, got>>

\* Me fails after the row was cleared: the login is lost.
PollFindsNoUser(p) ==
  /\ "database" \in Faults
  /\ ppc[p] = "me"
  /\ PollAt(p, "error")
  /\ got' = [got EXCEPT ![p] = NoLogin]
  /\ UNCHANGED <<server, phone, page, psess>>

Answers == {"pending", "ended", "error", "approved"}

PollOver(p) ==
  /\ PollAt(p, "idle")
  /\ psess' = [psess EXCEPT ![p] = NoSession]
  /\ got' = [got EXCEPT ![p] = NoLogin]

\* Mutant: an approved answer counts only while the page still polls.
PollApprovedWhilePolling(p) ==
  /\ ppc[p] = "approved"
  /\ user' = IF timer THEN got[p] ELSE user
  /\ shown' = IF timer THEN NoSession ELSE shown
  /\ timer' = FALSE
  /\ PollOver(p)
  /\ UNCHANGED <<server, phone, start>>

\* Approved: the timer stops, the tokens are saved, the modal closes - also
\* when the user closed it or another code is shown by now.
PollApproved(p) ==
  /\ ppc[p] = "approved"
  /\ user' = got[p]
  /\ timer' = FALSE
  /\ shown' = NoSession
  /\ PollOver(p)
  /\ UNCHANGED <<server, phone, start>>

\* Expired, failed or consumed: the timer stops, whichever session it polls.
PollEnded(p) ==
  /\ ppc[p] = "ended"
  /\ timer' = FALSE
  /\ PollOver(p)
  /\ UNCHANGED <<server, phone, start, shown, user>>

\* Mutant: an error stops the timer, too.
PollStopsOnError(p) ==
  /\ ppc[p] \in {"pending", "error"}
  /\ timer' = (timer /\ ppc[p] = "pending")
  /\ PollOver(p)
  /\ UNCHANGED <<server, phone, start, shown, user>>

\* Pending or an error: the page goes on polling.
PollGoesOn(p) ==
  /\ ppc[p] \in {"pending", "error"}
  /\ PollOver(p)
  /\ UNCHANGED <<server, phone, page>>

\* The answer is lost on the way; the page takes it for an error.
PollLost(p) ==
  /\ "response" \in Faults
  /\ ppc[p] \in Answers
  /\ PollOver(p)
  /\ UNCHANGED <<server, phone, page>>

\* What a poll does when nothing fails.
PollStep(p) ==
  \/ PollSent(p) \/ PollReads(p) \/ PollExpires(p)
  \/ PollConsumes(p) \/ PollConsumesTooLate(p) \/ PollFindsUser(p)
  \/ PollApproved(p) \/ PollEnded(p) \/ PollGoesOn(p)

Next ==
  \/ \E s \in Sessions : SessionExpires(s) \/ Click(s) \/ CodeArrives(s) \/ CodeRendered(s)
  \/ \E c \in Callbacks : PhoneStep(c)
  \/ \E p \in Polls : PollStep(p) \/ PollFindsNoUser(p) \/ PollLost(p)
  \/ CloseModal

Spec == Init /\ [][Next]_vars

\* The interval timer keeps firing while it is set, and requests are answered.
FairSpec == Spec /\ \A p \in Polls : WF_vars(PollStep(p))

(***************************************************************************)
(* Properties                                                              *)
(***************************************************************************)
Statuses == {"none", "pending", "approved", "failed", "consumed"}
CallbackLabels == {"idle", "consent", "exchange", "fail", "approve", "done"}
PollLabels == {"idle", "read", "expire", "consume", "me"} \cup Answers

\* Every variable has its type; the row knows the statuses the service writes.
TypeOK ==
  /\ status \in [Sessions -> Statuses]
  /\ login \in [Sessions -> Callbacks \cup {NoLogin}]
  /\ expired \subseteq Sessions
  /\ cpc \in [Callbacks -> CallbackLabels]
  /\ csess \in [Callbacks -> Sessions \cup {NoSession}]
  /\ live \subseteq Callbacks
  /\ start \in [Sessions -> {"none", "created", "rendering", "done"}]
  /\ shown \in Sessions \cup {NoSession}
  /\ timer \in BOOLEAN
  /\ user \in Callbacks \cup {NoLogin}
  /\ ppc \in [Polls -> PollLabels]
  /\ psess \in [Polls -> Sessions \cup {NoSession}]
  /\ got \in [Polls -> Callbacks \cup {NoLogin}]
  /\ handed \in [Callbacks -> Nat]

\* Tokens are in the row of an approved session and of no other: once consumed,
\* and whenever a session failed, the database holds no secret of it.
TokensOnlyWhileApproved ==
  \A s \in Sessions : (login[s] # NoLogin) <=> (status[s] = "approved")

\* QR login tokens are one-time consumed (README): however many phones scan and
\* polls overlap, a login one poll took is in no row, with no other poll, and
\* not yet with the page; and it is live.
OneHolder ==
  \A p \in Polls : got[p] # NoLogin =>
    /\ got[p] \in live
    /\ \A s \in Sessions : login[s] # got[p]
    /\ \A q \in Polls \ {p} : got[q] # got[p]
    /\ user # got[p]

\* The session's code can sign nobody in any more, or its time is over.
Ended(s) == status[s] \in {"failed", "consumed"} \/ s \in expired

\* Keep this window open (the page's hint): whatever order clicks, answers and
\* callbacks come in, and whatever fails on the way, the page stops polling a
\* code it shows only once a code it asked for has ended.
PollsUntilEnded ==
  \A s \in Sessions :
    (shown = s /\ start[s] = "done" /\ ~timer) => \E t \in Sessions : Ended(t)

\* The sessions are a one-time handoff: what callbacks, polls and clicks do to
\* the rows is what OneTimeHandoff allows.
Handoff == INSTANCE OneTimeHandoff WITH
  Logins <- Callbacks,
  state <- [s \in Sessions |->
              CASE status[s] = "approved" -> "granted"
                [] status[s] = "consumed" -> "taken"
                [] status[s] = "failed"   -> "closed"
                [] OTHER                  -> "open"]

ImplementsHandoff == Handoff!Spec

\* Keep this window open until Google sign-in finishes (the page's hint): once
\* the session shown is approved and polled, the page gets its login, unless
\* the user closes the modal or asks for another code.
EventuallySignedIn ==
  \A s \in Sessions :
    (status[s] = "approved" /\ shown = s /\ timer) ~> (user # NoLogin \/ shown # s)
=============================================================================
