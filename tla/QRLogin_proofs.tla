--------------------------- MODULE QRLogin_proofs ---------------------------
(***************************************************************************)
(* QRLogin keeps the promise of OneTimeHandoff for any number of codes,    *)
(* phones and polls.                                                       *)
(***************************************************************************)
EXTENDS QRLogin, TLAPS

\* A callback that started and a poll that was sent belong to a session.
Linked ==
  /\ \A c \in Callbacks : cpc[c] # "idle" => csess[c] \in Sessions
  /\ \A p \in Polls : ppc[p] # "idle" => psess[p] \in Sessions

\* The login in a row was issued for that session by a callback that is over;
\* it is live and was not handed over yet.
Rows ==
  \A s \in Sessions : login[s] # NoLogin =>
    /\ cpc[login[s]] = "done"
    /\ csess[login[s]] = s
    /\ handed[login[s]] = 0
    /\ login[s] \in live

\* A login was not handed over before its callback is over.
Fresh == \A c \in Callbacks : cpc[c] # "done" => handed[c] = 0

\* A callback about to approve has issued its login.
Issued == \A c \in Callbacks : cpc[c] = "approve" => c \in live

\* A login that a poll took is live, handed over, and held by no other poll
\* nor the page; and the page's login was handed over.
Held ==
  /\ \A p \in Polls : got[p] # NoLogin =>
       /\ got[p] \in live
       /\ handed[got[p]] = 1
       /\ user # got[p]
       /\ \A q \in Polls \ {p} : got[q] # got[p]
  /\ user # NoLogin => handed[user] = 1

\* Only a click inserts a row.
Inserted == \A s \in Sessions : start[s] = "none" => status[s] = "none"

Inv ==
  TypeOK /\ Linked /\ TokensOnlyWhileApproved /\ Rows /\ Fresh /\ Issued /\ Held
  /\ Inserted

LEMMA NoLoginIsNoCallback == NoLogin \notin Callbacks /\ NoSession \notin Sessions
  BY DEF NoLogin, Callbacks, NoSession, Sessions

LEMMA InitInv == Init => Inv
<1> SUFFICES ASSUME Init PROVE Inv
  OBVIOUS
<1> USE DEF Init, NoLogin, NoSession
<1>1. TypeOK
  <2>1. status \in [Sessions -> Statuses] /\ cpc \in [Callbacks -> CallbackLabels]
    BY DEF Statuses, CallbackLabels
  <2>2. ppc \in [Polls -> PollLabels] /\ handed \in [Callbacks -> Nat]
    BY DEF PollLabels
  <2>3. /\ login \in [Sessions -> Callbacks \cup {NoLogin}]
        /\ csess \in [Callbacks -> Sessions \cup {NoSession}]
        /\ psess \in [Polls -> Sessions \cup {NoSession}]
        /\ got \in [Polls -> Callbacks \cup {NoLogin}]
    OBVIOUS
  <2> QED BY <2>1, <2>2, <2>3 DEF TypeOK
<1>2. Linked /\ TokensOnlyWhileApproved /\ Rows
  BY DEF Linked, TokensOnlyWhileApproved, Rows
<1>3. Fresh /\ Issued /\ Held /\ Inserted
  BY DEF Fresh, Issued, Held, Inserted
<1> QED BY <1>1, <1>2, <1>3 DEF Inv

(* Only a row without a status becomes pending: no login is overwritten. *)
LEMMA ClickInv ==
  ASSUME Inv, NEW s \in Sessions, Click(s)
  PROVE  Inv'
<1> USE NoLoginIsNoCallback DEF Inv, TypeOK, Linked,
                                 Click, server, phone, page, polls
<1>1. TypeOK'
  BY DEF Statuses
<1>2. Linked' /\ Inserted'
  BY DEF Inserted
<1>3. TokensOnlyWhileApproved'
  BY DEF TokensOnlyWhileApproved, Inserted
<1>4. Rows'
  BY DEF Rows
<1>5. Fresh' /\ Issued'
  BY DEF Fresh, Issued
<1>6. Held'
  BY DEF Held
<1> QED BY <1>1, <1>2, <1>3, <1>4, <1>5, <1>6

(* The login put into a row was in no other row, and not handed over. *)
LEMMA CallbackApprovesInv ==
  ASSUME Inv, NEW c \in Callbacks, CallbackApproves(c)
  PROVE  Inv'
<1> USE NoLoginIsNoCallback DEF Inv, TypeOK, Linked,
                                 CallbackApproves, CallbackAt, server, phone, page, polls
<1>1. TypeOK'
  BY DEF Statuses, CallbackLabels
<1>2. Linked' /\ Inserted'
  BY DEF Inserted
<1>3. TokensOnlyWhileApproved'
  BY DEF TokensOnlyWhileApproved, Inserted
<1>4. Rows'
  BY DEF Rows, Fresh, Issued
<1>5. Fresh' /\ Issued'
  BY DEF Fresh, Issued
<1>6. Held'
  BY DEF Held
<1> QED BY <1>1, <1>2, <1>3, <1>4, <1>5, <1>6

(* The login leaves its row; whoever else holds a login holds another one. *)
LEMMA PollConsumesInv ==
  ASSUME Inv, NEW p \in Polls, PollConsumes(p)
  PROVE  Inv'
<1> USE NoLoginIsNoCallback DEF Inv, TypeOK, Linked,
                                 PollConsumes, PollAt, server, phone, page, polls
<1>1. TypeOK'
  BY DEF TokensOnlyWhileApproved, Statuses, PollLabels
<1>2. Linked' /\ Inserted'
  BY DEF Inserted
<1>3. TokensOnlyWhileApproved'
  BY DEF TokensOnlyWhileApproved, Inserted
<1>4. Rows'
  BY DEF Rows
<1>5. Fresh' /\ Issued'
  BY DEF Rows, Fresh, Issued
<1>6. Held'
  BY DEF Rows, Held
<1> QED BY <1>1, <1>2, <1>3, <1>4, <1>5, <1>6

(* The page gets the login of the poll, which then holds none. *)
LEMMA PollApprovedInv ==
  ASSUME Inv, NEW p \in Polls, PollApproved(p)
  PROVE  Inv'
<1> USE NoLoginIsNoCallback DEF Inv, TypeOK, Linked,
                                 PollApproved, PollOver, PollAt, server, phone, page, polls
<1>1. TypeOK'
  BY DEF PollLabels
<1>2. Linked' /\ Inserted'
  BY DEF Inserted
<1>3. TokensOnlyWhileApproved'
  BY DEF TokensOnlyWhileApproved, Inserted
<1>4. Rows'
  BY DEF Rows
<1>5. Fresh' /\ Issued'
  BY DEF Fresh, Issued
<1>6. Held'
  BY DEF Held
<1> QED BY <1>1, <1>2, <1>3, <1>4, <1>5, <1>6

(* A poll that is over holds nothing; whatever the timer, the rest stays. *)
LEMMA PollOverInv ==
  ASSUME Inv, NEW p \in Polls, PollOver(p),
         UNCHANGED <<server, phone, start, shown, user>>, timer' \in BOOLEAN
  PROVE  Inv'
<1> USE NoLoginIsNoCallback DEF Inv, TypeOK, Linked,
                                 PollOver, PollAt, server, phone, page, polls
<1>1. TypeOK'
  BY DEF PollLabels
<1>2. Linked' /\ Inserted'
  BY DEF Inserted
<1>3. TokensOnlyWhileApproved'
  BY DEF TokensOnlyWhileApproved, Inserted
<1>4. Rows'
  BY DEF Rows
<1>5. Fresh' /\ Issued'
  BY DEF Fresh, Issued
<1>6. Held'
  BY DEF Held
<1> QED BY <1>1, <1>2, <1>3, <1>4, <1>5, <1>6

(* Every other action leaves rows, tokens and counts alone, or ends a session. *)
LEMMA StepInv == Inv /\ [Next]_vars => Inv'
<1> SUFFICES ASSUME Inv, [Next]_vars PROVE Inv'
  OBVIOUS
<1> USE NoLoginIsNoCallback DEF Inv, TypeOK, Linked,
      TokensOnlyWhileApproved, Rows, Fresh, Issued, Held, Inserted,
      Statuses, CallbackLabels, PollLabels, Answers, server, phone, page, polls
<1>1. CASE UNCHANGED vars
  BY <1>1 DEF vars
<1>2. ASSUME NEW s \in Sessions, SessionExpires(s) PROVE Inv'
  BY <1>2 DEF SessionExpires
<1>3. ASSUME NEW s \in Sessions, Click(s) PROVE Inv'
  BY <1>3, ClickInv
<1>4. ASSUME NEW s \in Sessions, CodeArrives(s) PROVE Inv'
  BY <1>4 DEF CodeArrives
<1>5. ASSUME NEW s \in Sessions, CodeRendered(s) PROVE Inv'
  BY <1>5 DEF CodeRendered
<1>6. ASSUME NEW c \in Callbacks, NEW s \in Sessions, PhoneStarts(c, s) PROVE Inv'
  BY <1>6 DEF PhoneStarts, CallbackAt
<1>7. ASSUME NEW c \in Callbacks, CallbackReads(c) PROVE Inv'
  BY <1>7 DEF CallbackReads, CallbackAt
<1>8. ASSUME NEW c \in Callbacks, CallbackLogsIn(c) PROVE Inv'
  BY <1>8 DEF CallbackLogsIn, CallbackAt
<1>9. ASSUME NEW c \in Callbacks, CallbackErrs(c) PROVE Inv'
  BY <1>9 DEF CallbackErrs, CallbackAt
<1>10. ASSUME NEW c \in Callbacks, CallbackMarksFailed(c) PROVE Inv'
  BY <1>10 DEF CallbackMarksFailed, CallbackAt, MarkFailed
<1>11. ASSUME NEW c \in Callbacks, CallbackApproves(c) PROVE Inv'
  BY <1>11, CallbackApprovesInv
<1>12. ASSUME NEW c \in Callbacks, CallbackTooLate(c) PROVE Inv'
  BY <1>12 DEF CallbackTooLate, CallbackAt
<1>13. ASSUME NEW p \in Polls, PollSent(p) PROVE Inv'
  BY <1>13 DEF PollSent, PollAt
<1>14. ASSUME NEW p \in Polls, PollReads(p) PROVE Inv'
  BY <1>14 DEF PollReads, PollAt
<1>15. ASSUME NEW p \in Polls, PollExpires(p) PROVE Inv'
  BY <1>15 DEF PollExpires, PollAt, MarkFailed
<1>16. ASSUME NEW p \in Polls, PollConsumes(p) PROVE Inv'
  BY <1>16, PollConsumesInv
<1>17. ASSUME NEW p \in Polls, PollConsumesTooLate(p) PROVE Inv'
  BY <1>17 DEF PollConsumesTooLate, PollAt
<1>18. ASSUME NEW p \in Polls, PollFindsUser(p) PROVE Inv'
  BY <1>18 DEF PollFindsUser, PollAt
<1>19. ASSUME NEW p \in Polls, PollFindsNoUser(p) PROVE Inv'
  BY <1>19 DEF PollFindsNoUser, PollAt
<1>20. ASSUME NEW p \in Polls, PollApproved(p) PROVE Inv'
  BY <1>20, PollApprovedInv
<1>21. ASSUME NEW p \in Polls, PollEnded(p) PROVE Inv'
  BY <1>21, PollOverInv DEF PollEnded
<1>22. ASSUME NEW p \in Polls, PollGoesOn(p) PROVE Inv'
  BY <1>22, PollOverInv DEF PollGoesOn
<1>23. ASSUME NEW p \in Polls, PollLost(p) PROVE Inv'
  BY <1>23, PollOverInv DEF PollLost
<1>24. CASE CloseModal
  BY <1>24 DEF CloseModal
<1> HIDE DEF Inv
<1> QED
  BY <1>1, <1>2, <1>3, <1>4, <1>5, <1>6, <1>7, <1>8, <1>9, <1>10, <1>11,
     <1>12, <1>13, <1>14, <1>15, <1>16, <1>17, <1>18, <1>19, <1>20,
     <1>21, <1>22, <1>23, <1>24
     DEF Next, PhoneStep, PollStep

LEMMA AlwaysInv == Spec => []Inv
  BY InitInv, StepInv, PTL DEF Spec

(* The type invariant of QR login, for any number of codes, phones and polls. *)
THEOREM TypeCorrect == Spec => []TypeOK
<1>1. Inv => TypeOK
  BY DEF Inv
<1> QED BY AlwaysInv, <1>1, PTL

(* The table holds tokens of approved sessions only: none of a session that was *)
(* consumed or failed.                                                          *)
THEOREM NoTokensLeft == Spec => []TokensOnlyWhileApproved
<1>1. Inv => TokensOnlyWhileApproved
  BY DEF Inv
<1> QED BY AlwaysInv, <1>1, PTL

(* A login one poll took is in no row, with no other poll and not yet with the *)
(* page, and its refresh token is live.                                        *)
THEOREM OnlyOneHolder == Spec => []OneHolder
<1>1. Inv => OneHolder
  <2> SUFFICES ASSUME Inv, NEW p \in Polls, got[p] # NoLogin
               PROVE  /\ got[p] \in live
                      /\ \A s \in Sessions : login[s] # got[p]
                      /\ \A q \in Polls \ {p} : got[q] # got[p]
                      /\ user # got[p]
    BY DEF OneHolder
  <2>1. handed[got[p]] = 1
    BY DEF Inv, Held
  <2>2. \A s \in Sessions : login[s] # got[p]
    BY <2>1 DEF Inv, Rows
  <2> QED BY <2>2 DEF Inv, Held
<1> QED BY AlwaysInv, <1>1, PTL

(***************************************************************************)
(* The refinement                                                          *)
(***************************************************************************)
State == [s \in Sessions |->
            CASE status[s] = "approved" -> "granted"
              [] status[s] = "consumed" -> "taken"
              [] status[s] = "failed"   -> "closed"
              [] OTHER                  -> "open"]

(* Actions that do not change rows' logins nor what a status stands for. *)
LEMMA Stutter ==
  ASSUME UNCHANGED <<status, login, handed>>
  PROVE  UNCHANGED Handoff!vars
  BY DEF Handoff!vars

LEMMA MarkFailedCloses ==
  ASSUME TypeOK, NEW s \in Sessions, MarkFailed(s), UNCHANGED <<login, handed>>
  PROVE  Handoff!Close(s) \/ UNCHANGED Handoff!vars
<1>1. CASE UNCHANGED status
  BY <1>1, Stutter
<1>2. CASE status[s] = "pending" /\ status' = [status EXCEPT ![s] = "failed"]
  BY <1>2 DEF Handoff!Close, TypeOK
<1> QED BY <1>1, <1>2 DEF MarkFailed

LEMMA ClickStutters ==
  ASSUME Inv, NEW s \in Sessions, Click(s)
  PROVE  UNCHANGED Handoff!vars
<1>1. status[s] = "none"
  BY DEF Inv, Inserted, Click
<1>2. State' = State
  BY <1>1 DEF Click, State
<1> QED BY <1>2 DEF State, Handoff!vars, Click

LEMMA ApproveGrants ==
  ASSUME Inv, NEW c \in Callbacks, CallbackApproves(c)
  PROVE  csess[c] \in Sessions /\ Handoff!Grant(csess[c], c)
<1>1. csess[c] \in Sessions
  BY DEF Inv, Linked, CallbackApproves
<1>2. handed[c] = 0 /\ \A t \in Sessions : login[t] # c
  BY NoLoginIsNoCallback DEF Inv, Fresh, Rows, CallbackApproves
<1> QED BY <1>1, <1>2 DEF CallbackApproves, Handoff!Grant, Inv, TypeOK

LEMMA ConsumeTakes ==
  ASSUME Inv, NEW p \in Polls, PollConsumes(p)
  PROVE  \E s \in Sessions : Handoff!Take(s)
<1>1. PICK s \in Sessions : s = psess[p]
  BY DEF Inv, Linked, PollConsumes
<1>2. Handoff!Take(s)
  BY <1>1 DEF PollConsumes, Handoff!Take, Handoff!NoLogin, NoLogin, Inv, TypeOK
<1> QED BY <1>2

LEMMA StepRefines == Inv /\ [Next]_vars => [Handoff!Next]_Handoff!vars
<1> SUFFICES ASSUME Inv, [Next]_vars PROVE Handoff!Next \/ UNCHANGED Handoff!vars
  OBVIOUS
<1>1. ASSUME UNCHANGED <<status, login, handed>>
      PROVE  UNCHANGED Handoff!vars
  BY <1>1, Stutter
<1>2. CASE UNCHANGED vars
  BY <1>2, <1>1 DEF vars, server
<1>3. ASSUME NEW s \in Sessions, Click(s) PROVE UNCHANGED Handoff!vars
  BY <1>3, ClickStutters
<1>4. ASSUME NEW s \in Sessions, SessionExpires(s) \/ CodeArrives(s) \/ CodeRendered(s)
      PROVE  UNCHANGED Handoff!vars
  BY <1>4, <1>1 DEF SessionExpires, CodeArrives, CodeRendered, server
<1>5. ASSUME NEW c \in Callbacks, CallbackApproves(c) PROVE Handoff!Next
  BY <1>5, ApproveGrants DEF Handoff!Next
<1>6. ASSUME NEW c \in Callbacks, CallbackMarksFailed(c)
      PROVE  Handoff!Next \/ UNCHANGED Handoff!vars
  <2>1. csess[c] \in Sessions
    BY <1>6 DEF CallbackMarksFailed, Inv, Linked
  <2> QED BY <2>1, <1>6, MarkFailedCloses DEF CallbackMarksFailed, Inv, Handoff!Next
<1>7. ASSUME NEW c \in Callbacks,
             \/ \E s \in Sessions : PhoneStarts(c, s)
             \/ CallbackReads(c) \/ CallbackLogsIn(c) \/ CallbackErrs(c) \/ CallbackTooLate(c)
      PROVE  UNCHANGED Handoff!vars
  BY <1>7, <1>1 DEF PhoneStarts, CallbackReads, CallbackLogsIn, CallbackErrs, CallbackTooLate,
     server
<1>8. ASSUME NEW p \in Polls, PollConsumes(p) PROVE Handoff!Next
  BY <1>8, ConsumeTakes DEF Handoff!Next
<1>9. ASSUME NEW p \in Polls, PollExpires(p)
      PROVE  Handoff!Next \/ UNCHANGED Handoff!vars
  <2>1. psess[p] \in Sessions
    BY <1>9 DEF PollExpires, Inv, Linked
  <2> QED BY <2>1, <1>9, MarkFailedCloses DEF PollExpires, Inv, Handoff!Next
<1>10. ASSUME NEW p \in Polls,
              \/ PollSent(p) \/ PollReads(p) \/ PollConsumesTooLate(p) \/ PollFindsUser(p)
              \/ PollFindsNoUser(p) \/ PollApproved(p) \/ PollEnded(p) \/ PollGoesOn(p) \/ PollLost(p)
       PROVE  UNCHANGED Handoff!vars
  BY <1>10, <1>1 DEF PollSent, PollReads, PollConsumesTooLate, PollFindsUser, PollFindsNoUser,
     PollApproved, PollEnded, PollGoesOn, PollLost, server
<1>11. CASE CloseModal
  BY <1>11, <1>1 DEF CloseModal, server
<1> QED BY <1>2, <1>3, <1>4, <1>5, <1>6, <1>7, <1>8, <1>9, <1>10, <1>11 DEF Next, PhoneStep,
    PollStep

(* However phones, polls, clicks and failures interleave, QR login is a        *)
(* one-time handoff: each step on the rows grants, takes or closes a session   *)
(* as OneTimeHandoff allows.                                                   *)
THEOREM HandsOverOnce == Spec => ImplementsHandoff
<1>1. Init => Handoff!Init
  BY DEF Init, Handoff!Init, Handoff!NoLogin, NoLogin
<1> QED BY <1>1, AlwaysInv, StepRefines, PTL DEF Spec, ImplementsHandoff, Handoff!Spec

\* The promise of OneTimeHandoff, as its own module proves it.
Promise == INSTANCE OneTimeHandoff_proofs WITH Logins <- Callbacks, state <- State

(* QR login tokens are one-time consumed (README): no login ever leaves its    *)
(* row twice.  The promise of OneTimeHandoff, taken over by the refinement.    *)
THEOREM HandedOverAtMostOnce == Spec => []Handoff!AtMostOnce
<1>1. Handoff!Init => Promise!Init
  BY DEF Handoff!Init, Promise!Init, State, Handoff!NoLogin, Promise!NoLogin
<1>2. [Handoff!Next]_Handoff!vars => [Promise!Next]_Promise!vars
  BY DEF State, Handoff!vars, Promise!vars, Handoff!Next, Promise!Next, Handoff!Take,
     Promise!Take, Handoff!Grant, Promise!Grant, Handoff!Close, Promise!Close, Handoff!NoLogin,
     Promise!NoLogin
<1>3. Promise!AtMostOnce => Handoff!AtMostOnce
  BY DEF Promise!AtMostOnce, Handoff!AtMostOnce
<1> QED BY <1>1, <1>2, <1>3, Promise!NeverTwice, HandsOverOnce, PTL
        DEF ImplementsHandoff, Handoff!Spec, Promise!Spec

(***************************************************************************)
(* The page                                                                *)
(***************************************************************************)
\* A code the page asked for has a row, the code it shows was answered, and a
\* poll asks about a code the page asked for.
Begun ==
  /\ \A s \in Sessions : start[s] # "none" => status[s] # "none"
  /\ shown # NoSession => start[shown] \in {"rendering", "done"}
  /\ \A p \in Polls : ppc[p] # "idle" => start[psess[p]] # "none"

\* A poll is told to stop only about a code that has ended.
ToldOfEnd == \A p \in Polls : ppc[p] \in {"expire", "ended"} => Ended(psess[p])

PageInv == Begun /\ ToldOfEnd /\ PollsUntilEnded

\* A row stays, and a code that has ended stays ended.
Stays(s) ==
  /\ status[s] # "none" => status'[s] # "none"
  /\ Ended(s) => Ended(s)'

(* What a step may do to the rows: nothing, or one row that had not ended *)
(* changes its status.                                                    *)
LEMMA RowsStay ==
  ASSUME TypeOK, NEW s \in Sessions, expired \subseteq expired',
         \/ UNCHANGED status
         \/ \E t \in Sessions, x \in Statuses \ {"none"} :
              status[t] \notin {"failed", "consumed"} /\ status' = [status EXCEPT ![t] = x]
  PROVE  Stays(s)
  BY DEF Stays, Ended, TypeOK

LEMMA MarkFailedStays ==
  ASSUME TypeOK, NEW s \in Sessions, NEW t \in Sessions, MarkFailed(t), UNCHANGED expired
  PROVE  Stays(s)
<1>1. CASE UNCHANGED status
  BY <1>1, RowsStay
<1>2. CASE status[t] = "pending" /\ status' = [status EXCEPT ![t] = "failed"]
  BY <1>2, RowsStay DEF Statuses
<1> QED BY <1>1, <1>2 DEF MarkFailed

LEMMA EndedForGood ==
  ASSUME Inv, [Next]_vars, NEW s \in Sessions
  PROVE  Stays(s)
<1>0. TypeOK
  BY DEF Inv
<1>1. ASSUME UNCHANGED status, expired \subseteq expired' PROVE Stays(s)
  BY <1>0, <1>1, RowsStay
<1>2. ASSUME UNCHANGED server PROVE Stays(s)
  BY <1>1, <1>2 DEF server
<1>3. CASE UNCHANGED vars \/ CloseModal
  BY <1>2, <1>3 DEF vars, CloseModal
<1>4. ASSUME NEW t \in Sessions, Click(t) PROVE Stays(s)
  BY <1>4, RowsStay DEF Click, Inv, Inserted, Statuses
<1>5. ASSUME NEW t \in Sessions, SessionExpires(t) PROVE Stays(s)
  BY <1>1, <1>5 DEF SessionExpires
<1>6. ASSUME NEW t \in Sessions, CodeArrives(t) \/ CodeRendered(t) PROVE Stays(s)
  BY <1>2, <1>6 DEF CodeArrives, CodeRendered
<1>7. ASSUME NEW c \in Callbacks, CallbackApproves(c) PROVE Stays(s)
  BY <1>7, RowsStay DEF CallbackApproves, Inv, Linked, Statuses
<1>8. ASSUME NEW c \in Callbacks, CallbackMarksFailed(c) PROVE Stays(s)
  BY <1>8, MarkFailedStays DEF CallbackMarksFailed, Inv, Linked
<1>9. ASSUME NEW c \in Callbacks, CallbackLogsIn(c) PROVE Stays(s)
  BY <1>1, <1>9 DEF CallbackLogsIn
<1>10. ASSUME NEW c \in Callbacks,
              \/ \E t \in Sessions : PhoneStarts(c, t)
              \/ CallbackReads(c) \/ CallbackErrs(c) \/ CallbackTooLate(c)
       PROVE  Stays(s)
  BY <1>2, <1>10 DEF PhoneStarts, CallbackReads, CallbackErrs, CallbackTooLate
<1>11. ASSUME NEW p \in Polls, PollConsumes(p) PROVE Stays(s)
  BY <1>11, RowsStay DEF PollConsumes, Inv, Linked, Statuses
<1>12. ASSUME NEW p \in Polls, PollExpires(p) PROVE Stays(s)
  BY <1>12, MarkFailedStays DEF PollExpires, Inv, Linked
<1>13. ASSUME NEW p \in Polls,
              \/ PollSent(p) \/ PollReads(p) \/ PollConsumesTooLate(p) \/ PollFindsUser(p)
              \/ PollFindsNoUser(p) \/ PollApproved(p) \/ PollEnded(p) \/ PollGoesOn(p) \/ PollLost(p)
       PROVE  Stays(s)
  BY <1>2, <1>13 DEF PollSent, PollReads, PollConsumesTooLate, PollFindsUser, PollFindsNoUser,
     PollApproved, PollEnded, PollGoesOn, PollLost
<1> QED BY <1>3, <1>4, <1>5, <1>6, <1>7, <1>8, <1>9, <1>10, <1>11, <1>12, <1>13 DEF Next,
    PhoneStep, PollStep

(* Steps that leave the page alone: a poll may stop the timer later only if it *)
(* is told so about a code that has ended.                                     *)
LEMMA PageAside ==
  ASSUME Inv, PageInv, \A s \in Sessions : Stays(s), UNCHANGED page,
         \A p \in Polls : ppc'[p] # "idle" => ppc[p] # "idle" /\ psess'[p] = psess[p],
         \A p \in Polls : ppc'[p] \in {"expire", "ended"} =>
           ppc[p] \in {"expire", "ended"} \/ Ended(psess[p])
  PROVE  PageInv'
<1>1. Begun'
  BY DEF PageInv, Begun, Stays, page
<1>2. ToldOfEnd'
  BY DEF PageInv, ToldOfEnd, Inv, Linked, Stays
<1>3. PollsUntilEnded'
  BY DEF PageInv, PollsUntilEnded, Stays, page
<1> QED BY <1>1, <1>2, <1>3 DEF PageInv

(* A poll that goes on to some other label, or is over. *)
LEMMA PollAside ==
  ASSUME Inv, PageInv, \A s \in Sessions : Stays(s), UNCHANGED page,
         NEW p \in Polls, ppc[p] # "idle",
         NEW l, PollAt(p, l), l = "idle" \/ UNCHANGED psess,
         \A q \in Polls \ {p} : psess'[q] = psess[q],
         l \in {"expire", "ended"} => ppc[p] = "expire" \/ Ended(psess[p])
  PROVE  PageInv'
<1>1. \A q \in Polls : ppc'[q] = IF q = p THEN l ELSE ppc[q]
  BY DEF PollAt, Inv, TypeOK
<1> QED BY <1>1, PageAside

(* The page stops polling only about a code that has ended: the steps of the *)
(* page and of its polls.                                                    *)
LEMMA PageStep == Inv /\ PageInv /\ [Next]_vars => PageInv'
<1> SUFFICES ASSUME Inv, PageInv, [Next]_vars PROVE PageInv'
  OBVIOUS
<1>0. TypeOK /\ \A s \in Sessions : Stays(s)
  BY EndedForGood DEF Inv
<1>1. ASSUME UNCHANGED <<page, polls>> PROVE PageInv'
  BY <1>0, <1>1, PageAside DEF polls
<1>2. CASE UNCHANGED vars
  BY <1>1, <1>2 DEF vars
<1>3. ASSUME NEW s \in Sessions, SessionExpires(s) PROVE PageInv'
  BY <1>1, <1>3 DEF SessionExpires
<1>4. ASSUME NEW c \in Callbacks, PhoneStep(c) PROVE PageInv'
  BY <1>1, <1>4 DEF PhoneStep, PhoneStarts, CallbackReads, CallbackLogsIn, CallbackErrs,
     CallbackMarksFailed, CallbackApproves, CallbackTooLate
<1>5. ASSUME NEW s \in Sessions, Click(s) PROVE PageInv'
  BY <1>0, <1>5 DEF Click, Inv, Linked, PageInv, Begun, ToldOfEnd, PollsUntilEnded, Stays, polls,
     TypeOK
<1>6. ASSUME NEW s \in Sessions, CodeArrives(s) PROVE PageInv'
  BY <1>0, <1>6 DEF CodeArrives, PageInv, Begun, ToldOfEnd, PollsUntilEnded, Ended, server, polls,
     TypeOK
<1>7. ASSUME NEW s \in Sessions, CodeRendered(s) PROVE PageInv'
  BY <1>7 DEF CodeRendered, PageInv, Begun, ToldOfEnd, PollsUntilEnded, Ended, server, polls
<1>8. CASE CloseModal
  BY <1>8, NoLoginIsNoCallback DEF CloseModal, PageInv, Begun, ToldOfEnd, PollsUntilEnded, Ended,
     server, polls
<1>9. ASSUME NEW p \in Polls, PollSent(p) PROVE PageInv'
  <2>1. \A q \in Polls : IF q = p THEN ppc'[q] = "read" /\ psess'[q] = shown
                         ELSE ppc'[q] = ppc[q] /\ psess'[q] = psess[q]
    BY <1>0, <1>9 DEF PollSent, PollAt, TypeOK
  <2> QED BY <1>9, <2>1 DEF PollSent, PageInv, Begun, ToldOfEnd, PollsUntilEnded, Ended, server,
      page
<1>10. ASSUME NEW p \in Polls, PollReads(p) PROVE PageInv'
  <2>1. psess[p] \in Sessions /\ status[psess[p]] # "none"
    BY <1>10 DEF PollReads, Inv, Linked, PageInv, Begun
  <2>2. status[psess[p]] \notin {"approved", "pending"} => Ended(psess[p])
    BY <1>0, <2>1 DEF TypeOK, Statuses, Ended
  <2>3. PICK l : /\ PollAt(p, l)
                 /\ l \in {"expire", "ended"} => Ended(psess[p])
    BY <1>10, <2>2 DEF PollReads, Ended
  <2> QED BY <1>0, <1>10, <2>3, PollAside DEF PollReads
<1>11. ASSUME NEW p \in Polls,
              PollExpires(p) \/ PollConsumes(p) \/ PollConsumesTooLate(p) \/ PollFindsUser(p) \/ PollFindsNoUser(p)
       PROVE  PageInv'
  BY <1>0, <1>11, PollAside DEF PollExpires, PollConsumes, PollConsumesTooLate, PollFindsUser,
     PollFindsNoUser
<1>12. ASSUME NEW p \in Polls, PollGoesOn(p) \/ PollLost(p) PROVE PageInv'
  <2>1. PollOver(p) /\ ppc[p] # "idle" /\ UNCHANGED page
    BY <1>12 DEF PollGoesOn, PollLost, Answers
  <2> QED BY <1>0, <2>1, PollAside DEF PollOver
<1>13. ASSUME NEW p \in Polls, PollApproved(p) PROVE PageInv'
  <2>1. \A q \in Polls : ppc'[q] # "idle" => ppc'[q] = ppc[q] /\ psess'[q] = psess[q]
    BY <1>0, <1>13 DEF PollApproved, PollOver, PollAt, TypeOK
  <2> QED BY <1>13, <2>1, NoLoginIsNoCallback DEF PollApproved, PageInv, Begun, ToldOfEnd,
      PollsUntilEnded, Ended, server
<1>14. ASSUME NEW p \in Polls, PollEnded(p) PROVE PageInv'
  <2>1. \A q \in Polls : ppc'[q] # "idle" => ppc'[q] = ppc[q] /\ psess'[q] = psess[q]
    BY <1>0, <1>14 DEF PollEnded, PollOver, PollAt, TypeOK
  <2>2. psess[p] \in Sessions /\ Ended(psess[p])
    BY <1>14 DEF PollEnded, Inv, Linked, PageInv, ToldOfEnd
  <2> QED BY <1>14, <2>1, <2>2 DEF PollEnded, PageInv, Begun, ToldOfEnd, PollsUntilEnded, Ended,
      server
<1> QED BY <1>2, <1>3, <1>4, <1>5, <1>6, <1>7, <1>8, <1>9, <1>10, <1>11, <1>12, <1>13, <1>14 DEF
    Next, PollStep

LEMMA AlwaysPageInv == Spec => [](Inv /\ PageInv)
<1>1. Init => PageInv
  BY DEF Init, PageInv, Begun, ToldOfEnd, PollsUntilEnded
<1> QED BY <1>1, InitInv, StepInv, PageStep, PTL DEF Spec

(* Whatever order clicks, answers and callbacks come in, and whatever fails on *)
(* the way, the page stops polling a code it shows only once a code it asked   *)
(* for has ended.                                                              *)
THEOREM KeepsPolling == Spec => []PollsUntilEnded
<1>1. PageInv => PollsUntilEnded
  BY DEF PageInv
<1> QED BY AlwaysPageInv, <1>1, PTL

(* With one code, and within its five minutes, the page that shows the code    *)
(* polls until it failed or its login was handed over: what the second code of *)
(* the run stale_poll takes away.                                              *)
THEOREM OneCodeKeepsPolling ==
  ASSUME MaxSessions = 1
  PROVE  Spec => [](\A s \in Sessions :
                      /\ shown = s /\ start[s] = "done"
                      /\ status[s] \in {"pending", "approved"} /\ s \notin expired
                      => timer)
<1>1. TypeOK /\ PollsUntilEnded =>
        \A s \in Sessions :
          /\ shown = s /\ start[s] = "done"
          /\ status[s] \in {"pending", "approved"} /\ s \notin expired
          => timer
  BY DEF PollsUntilEnded, Ended, Sessions
<1> QED BY TypeCorrect, KeepsPolling, <1>1, PTL

=============================================================================
