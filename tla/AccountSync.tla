---------------------------- MODULE AccountSync ----------------------------
(***************************************************************************)
(* One Gmail mailbox linked by one app user, and everything in the backend *)
(* that writes its row of gmail_accounts: history syncs (the poller and    *)
(* the Pub/Sub push handler), the watch renewer, and the HTTP requests     *)
(* that toggle notifications, unlink and (re)link.                         *)
(*                                                                         *)
(* Every writer follows one pattern: read the whole row, talk to Google,   *)
(* write the whole row back (UPDATE ... WHERE id).  There is no version    *)
(* column, so each write may carry columns that are no longer current.     *)
(* One action is one statement or one call to Google; between two actions  *)
(* any other worker may run.                                               *)
(***************************************************************************)
EXTENDS Integers

CONSTANTS
  Syncers,     \* goroutines that run SyncAccount: poller, Pub/Sub deliveries
  Renewers,    \* goroutines that run renewDue
  Handlers,    \* HTTP handlers on this account, one request at a time each
  Requests,    \* the requests handlers receive: subset of RequestKinds
  Faults,      \* the failures that may happen: subset of FaultKinds
  Topic,       \* TRUE iff a Pub/Sub topic is configured (s.topic # "")
  MaxHistory,  \* bound: largest Gmail history id
  MaxLinks,    \* bound: number of times the mailbox is linked anew
  MaxEpoch     \* bound: number of times the watch runs low

RequestKinds == {"toggle", "unlink", "link", "settings"}
FaultKinds   == {"list", "fetch", "store", "push", "watch", "database", "crash"}

\* Requests and Faults are ordinary sets of strings; numbers are bounds.
ASSUME ConstantsAssumption ==
  /\ Requests \subseteq RequestKinds
  /\ Faults \subseteq FaultKinds
  /\ Topic \in BOOLEAN
  /\ MaxHistory \in Nat \ {0}
  /\ MaxLinks \in Nat \ {0}
  /\ MaxEpoch \in Nat

Workers  == Syncers \cup Renewers \cup Handlers
Messages == 1..MaxHistory    \* message m is added to the mailbox at history id m
Ids      == 1..MaxLinks      \* account ids, never reused (uuid)

\* What holds a history id that may be missing, and a syncer's next message.
HistoryIds == 0..MaxHistory
Cursors    == 0..MaxHistory + 1

\* The columns that race.  exp is watch_expiration: 0 for NULL, else the epoch
\* in which the watch runs low.  The other columns follow the same writes.
Account == [id : Ids, hid : Messages, notif : BOOLEAN, exp : 0..MaxEpoch + 1]
NoRow   == [id |-> 0, hid |-> 0, notif |-> FALSE, exp |-> 0]

VARIABLES
  row,       \* the gmail_accounts row, or NoRow
  nextId,    \* the id the next INSERT draws
  records,   \* notification_records: pairs <<account id, message>>
  enabled,   \* notification_settings.enabled
  mail,      \* Gmail: the mailbox's current historyId
  epoch,     \* time, counted in watches run low
  pc,        \* where each worker is
  acct,      \* the *GmailAccount each worker holds
  hid,       \* the history id Google returned to the worker
  cur,       \* a syncer's next message
  fresh,     \* the worker's access token needs no refresh any more
  base,      \* history: history id at which an account id was created
  dropped,   \* history: messages a sync visited and did not store: rejected by
             \* shouldNotify, or the fetch or the INSERT failed
  skipped,   \* history: messages a watch or a relink moved the watermark past
  pushed,    \* history: messages sent to FCM
  started,   \* history: who has begun to use the row: {}, one worker, or Workers
  cut        \* history: while at most one worker has, whether it was cut short (by a
             \* crash, or the failure of its last UPDATE) after its last whole sync

store   == <<row, nextId, records, enabled>>
google  == <<mail, epoch>>
locals  == <<pc, acct, hid, cur, fresh>>
marks   == <<base, dropped, skipped, pushed>>
history == <<base, dropped, skipped, pushed, started, cut>>
vars    == <<store, google, locals, history>>

\* The state CompleteLink leaves: account 1 just created, nothing running.
Init ==
  /\ row = [id |-> 1, hid |-> 1, notif |-> TRUE, exp |-> 0]
  /\ nextId = 2
  /\ records = {}
  /\ enabled = TRUE
  /\ mail = 1
  /\ epoch = 0
  /\ pc = [w \in Workers |-> "idle"]
  /\ acct = [w \in Workers |-> NoRow]
  /\ hid = [w \in Workers |-> 0]
  /\ cur = [w \in Workers |-> 0]
  /\ fresh = [w \in Workers |-> FALSE]
  /\ base = [i \in Ids |-> IF i = 1 THEN 1 ELSE 0]
  /\ dropped = {} /\ skipped = {} /\ pushed = {} /\ started = {} /\ cut = FALSE

(***************************************************************************)
(* Shared by the workers                                                   *)
(***************************************************************************)
Goto(w, label) == pc' = [pc EXCEPT ![w] = label]

\* The worker returns; what it held is gone.
End(w) ==
  /\ Goto(w, "idle")
  /\ acct' = [acct EXCEPT ![w] = NoRow]
  /\ hid' = [hid EXCEPT ![w] = 0]
  /\ cur' = [cur EXCEPT ![w] = 0]
  /\ fresh' = [fresh EXCEPT ![w] = FALSE]

\* The worker goes on where cond holds, and returns where it does not.
ContinueIf(cond, w, label) ==
  IF cond THEN Goto(w, label) /\ UNCHANGED <<acct, hid, cur, fresh>> ELSE End(w)

\* What the history says about message m under account id i.
Examined(i, m) == <<i, m>> \in records \cup dropped
Handled(i, m)  == Examined(i, m) \/ <<i, m>> \in skipped

\* Mutant: the UPDATE loses its WHERE clause's force (an upsert).
SaveUpsert(a) == row' = a

\* GmailAccountRepo.Update: the whole row, if it still exists (else ErrNotFound).
Save(a) == row' = IF row.id = a.id THEN a ELSE row

\* History of a watermark that Google's current id replaced: the messages it passed.
JumpTo(a) ==
  skipped' = IF row.id = a.id
             THEN skipped \cup {<<a.id, m>> : m \in {k \in row.hid + 1 .. a.hid :
                                                        ~Handled(a.id, k)}}
             ELSE skipped

\* History of the workers that use the row, told apart only while they are fewer
\* than two, and of a lone worker that is cut short.
Joins(w) ==
  IF started \subseteq {w}
  THEN started' = {w} /\ UNCHANGED cut
  ELSE started' = Workers /\ cut' = FALSE

CutShort == cut' = (\E w \in Workers : started \subseteq {w})

\* A worker reads the row and starts: its Gmail client's token may be stale.
Begin(w, a, label) ==
  /\ pc[w] = "idle"
  /\ acct' = [acct EXCEPT ![w] = a]
  /\ fresh' = [fresh EXCEPT ![w] = FALSE]
  /\ Joins(w)
  /\ Goto(w, label)

\* A syncer's loop over the listed messages: the next one, cur, has yet to be visited.
AtMessage(s)   == pc[s] = "message" /\ cur[s] <= hid[s]
NextMessage(s) == cur' = [cur EXCEPT ![s] = @ + 1]
Msg(s)         == <<acct[s].id, cur[s]>>

\* persistingTokenSource.Token: the first Gmail call of a worker finds the access
\* token expired, refreshes it and writes the account it holds; the write's error
\* is ignored.
PersistTokens(w) ==
  /\ pc[w] \in {"list", "watch", "stop"} \/ AtMessage(w)
  /\ ~fresh[w]
  /\ fresh' = [fresh EXCEPT ![w] = TRUE]
  /\ Save(acct[w]) \/ ("database" \in Faults /\ UNCHANGED row)
  /\ UNCHANGED <<nextId, records, enabled, google, pc, acct, hid, cur, history>>

\* The statement at which a worker of any kind stands fails: it returns the error
\* and has written nothing.
StatementFails(w) ==
  /\ "database" \in Faults
  /\ pc[w] \in {"settings", "toggle", "stop", "lookup", "relink", "create", "save watch"}
  /\ End(w)
  /\ UNCHANGED <<store, google, history>>

(***************************************************************************)
(* SyncAccount, called by HistoryPoller.poll and HandlePubSub              *)
(***************************************************************************)
\* ListActiveWithWatch (through ListActive or FindByEmail) hands out the row.
SyncStart(s) ==
  /\ row # NoRow /\ row.notif
  /\ Begin(s, row, "settings")
  /\ UNCHANGED <<store, google, hid, cur, marks>>

\* GetSettings: nothing to do when the user turned notifications off.
SyncSettings(s) ==
  /\ pc[s] = "settings"
  /\ ContinueIf(enabled, s, "list")
  /\ UNCHANGED <<store, google, history>>

\* Mutant: the list starts one message late.
SyncListedLate(s) ==
  /\ pc[s] = "list"
  /\ hid' = [hid EXCEPT ![s] = mail]
  /\ cur' = [cur EXCEPT ![s] = acct[s].hid + 2]
  /\ Goto(s, "message")
  /\ UNCHANGED <<store, google, acct, fresh, history>>

\* ListHistorySince: the messages after the account's history id, oldest first,
\* and the mailbox's current id as the next watermark.
SyncListed(s) ==
  /\ pc[s] = "list"
  /\ hid' = [hid EXCEPT ![s] = mail]
  /\ cur' = [cur EXCEPT ![s] = acct[s].hid + 1]
  /\ Goto(s, "message")
  /\ UNCHANGED <<store, google, acct, fresh, history>>

\* A failed list ends the sync before anything moved.
SyncListFails(s) ==
  /\ "list" \in Faults
  /\ pc[s] = "list"
  /\ End(s)
  /\ UNCHANGED <<store, google, history>>

\* GetMessage fails: logged, and the loop continues with the next message.
SyncFetchFails(s) ==
  /\ "fetch" \in Faults
  /\ AtMessage(s)
  /\ NextMessage(s)
  /\ dropped' = dropped \cup {Msg(s)}
  /\ UNCHANGED <<store, google, pc, acct, hid, fresh, base, skipped, pushed, started, cut>>

\* shouldNotify rejects the message.
SyncFilters(s) ==
  /\ AtMessage(s)
  /\ NextMessage(s)
  /\ dropped' = dropped \cup {Msg(s)}
  /\ UNCHANGED <<store, google, pc, acct, hid, fresh, base, skipped, pushed, started, cut>>

\* Mutant: no foreign key, a record outlives its account.
CanStoreAlways(s) == TRUE

\* NotificationRepo.Create can succeed only while its account exists (foreign
\* key); a record that is already there is left alone, without an error.
CanStore(s) == row.id = acct[s].id

\* Quiet hours: store the message, push nothing.
SyncStoresQuietly(s) ==
  /\ AtMessage(s)
  /\ CanStore(s)
  /\ NextMessage(s)
  /\ records' = records \cup {Msg(s)}
  /\ UNCHANGED <<row, nextId, enabled, google, pc, acct, hid, fresh, history>>

\* storeAndPush, first half: the record is stored, the push is next.
SyncStores(s) ==
  /\ AtMessage(s)
  /\ CanStore(s)
  /\ records' = records \cup {Msg(s)}
  /\ Goto(s, "push")
  /\ UNCHANGED <<row, nextId, enabled, google, acct, hid, cur, fresh, history>>

\* Mutant: a message is pushed although its record could not be stored.
SyncStoreFailsYetPushes(s) ==
  /\ AtMessage(s)
  /\ "store" \in Faults \/ ~CanStore(s)
  /\ Goto(s, "push")
  /\ dropped' = dropped \cup {Msg(s)}
  /\ UNCHANGED <<store, google, acct, hid, cur, fresh, base, skipped, pushed, started, cut>>

\* The INSERT fails (the account is gone, or the database is): logged, no push.
SyncStoreFails(s) ==
  /\ AtMessage(s)
  /\ "store" \in Faults \/ ~CanStore(s)
  /\ NextMessage(s)
  /\ dropped' = dropped \cup {Msg(s)}
  /\ UNCHANGED <<store, google, pc, acct, hid, fresh, base, skipped, pushed, started, cut>>

\* storeAndPush, second half: SendMulticast to the user's devices.
SyncPushes(s) ==
  /\ pc[s] = "push"
  /\ pushed' = pushed \cup {Msg(s)}
  /\ NextMessage(s)
  /\ Goto(s, "message")
  /\ UNCHANGED <<store, google, acct, hid, fresh, base, dropped, skipped, started, cut>>

\* ListByUser or FCM fails: logged; the record stays and the loop goes on.
SyncPushFails(s) ==
  /\ "push" \in Faults
  /\ pc[s] = "push"
  /\ NextMessage(s)
  /\ Goto(s, "message")
  /\ UNCHANGED <<store, google, acct, hid, fresh, history>>

\* Mutant: the watermark becomes the mailbox's id at the end of the sync.
SyncFinishAtHint(s) ==
  /\ pc[s] = "message"
  /\ cur[s] > hid[s]
  /\ Save([acct[s] EXCEPT !.hid = mail])
  /\ End(s)
  /\ cut' = FALSE
  /\ UNCHANGED <<nextId, records, enabled, google, marks, started>>

\* Mutant: the row is written before the new watermark is put into it.
SyncFinishStale(s) ==
  /\ pc[s] = "message"
  /\ cur[s] > hid[s]
  /\ Save(acct[s])
  /\ End(s)
  /\ cut' = FALSE
  /\ UNCHANGED <<nextId, records, enabled, google, marks, started>>

\* Every message was visited: write the row with the new watermark.
SyncFinish(s) ==
  /\ pc[s] = "message"
  /\ cur[s] > hid[s]
  /\ Save([acct[s] EXCEPT !.hid = hid[s]])
  /\ End(s)
  /\ cut' = FALSE
  /\ UNCHANGED <<nextId, records, enabled, google, marks, started>>

\* That UPDATE fails: what was stored and pushed stays so, the watermark too.
SyncSaveFails(s) ==
  /\ "database" \in Faults
  /\ pc[s] = "message"
  /\ cur[s] > hid[s]
  /\ End(s)
  /\ CutShort
  /\ UNCHANGED <<store, google, marks, started>>

\* What SyncAccount does when no call of it fails.
SyncStep(s) ==
  \/ SyncStart(s) \/ SyncSettings(s) \/ SyncListed(s)
  \/ SyncFilters(s) \/ SyncStoresQuietly(s) \/ SyncStores(s)
  \/ SyncPushes(s) \/ SyncFinish(s)

SyncFault(s) ==
  \/ SyncListFails(s) \/ SyncFetchFails(s) \/ SyncStoreFails(s) \/ SyncPushFails(s)
  \/ SyncSaveFails(s)

(***************************************************************************)
(* startWatch, called by renewDue, SetNotifications and CompleteLink       *)
(***************************************************************************)
\* renewDue: an active account whose watch is NULL or about to run out.
RenewStart(r) ==
  /\ row # NoRow /\ row.notif
  /\ row.exp <= epoch
  /\ Begin(r, row, "watch")
  /\ UNCHANGED <<store, google, hid, cur, marks>>

\* Mutant: the watch's history id is taken to be the first one not seen yet.
WatchCalledPast(w) ==
  /\ pc[w] = "watch"
  /\ Topic
  /\ acct' = [acct EXCEPT ![w] = [@ EXCEPT !.hid = mail + 1, !.exp = epoch + 1]]
  /\ Goto(w, "save watch")
  /\ UNCHANGED <<store, google, hid, cur, fresh, history>>

\* Users.Watch answers with the mailbox's current historyId and an expiration;
\* both go into the account, the historyId as its watermark.
WatchCalled(w) ==
  /\ pc[w] = "watch"
  /\ Topic
  /\ acct' = [acct EXCEPT ![w] = [@ EXCEPT !.hid = mail, !.exp = epoch + 1]]
  /\ Goto(w, "save watch")
  /\ UNCHANGED <<store, google, hid, cur, fresh, history>>

\* Without a topic Google refuses the watch; the caller logs or ignores it.
WatchFails(w) ==
  /\ pc[w] = "watch"
  /\ ~Topic \/ "watch" \in Faults
  /\ End(w)
  /\ UNCHANGED <<store, google, history>>

WatchSaved(w) ==
  /\ pc[w] = "save watch"
  /\ Save(acct[w])
  /\ JumpTo(acct[w])
  /\ End(w)
  /\ UNCHANGED <<nextId, records, enabled, google,
                 base, dropped, pushed, started, cut>>

WatchStep(w) == WatchCalled(w) \/ WatchFails(w) \/ WatchSaved(w)

(***************************************************************************)
(* Requests                                                                *)
(***************************************************************************)
\* SetNotifications: GetByID, then the flag is set in memory.
ToggleRead(h, want) ==
  /\ "toggle" \in Requests
  /\ row # NoRow
  /\ Begin(h, [row EXCEPT !.notif = want], "toggle")
  /\ UNCHANGED <<store, google, hid, cur, marks>>

\* ... Update, and a new watch when notifications go on.
ToggleWrite(h) ==
  /\ pc[h] = "toggle"
  /\ Save(acct[h])
  /\ ContinueIf(row.id = acct[h].id /\ acct[h].notif /\ Topic, h, "watch")
  /\ UNCHANGED <<nextId, records, enabled, google, history>>

\* Unlink: GetByID, then StopWatch at Google (its error is ignored).
UnlinkRead(h) ==
  /\ "unlink" \in Requests
  /\ row # NoRow
  /\ Begin(h, row, "stop")
  /\ UNCHANGED <<store, google, hid, cur, marks>>

\* ... DELETE WHERE id, which cascades to the account's records.
UnlinkDelete(h) ==
  /\ pc[h] = "stop"
  /\ row' = IF row.id = acct[h].id THEN NoRow ELSE row
  /\ records' = IF row.id = acct[h].id
                THEN {r \in records : r[1] # acct[h].id}
                ELSE records
  /\ End(h)
  /\ UNCHANGED <<nextId, enabled, google, history>>

\* CompleteLink after the token exchange: Profile returns the current historyId.
\* The access token is new, so no Gmail call of this request refreshes it.
LinkProfile(h) ==
  /\ "link" \in Requests
  /\ pc[h] = "idle"
  /\ hid' = [hid EXCEPT ![h] = mail]
  /\ fresh' = [fresh EXCEPT ![h] = TRUE]
  /\ Joins(h)
  /\ Goto(h, "lookup")
  /\ UNCHANGED <<store, google, acct, cur, marks>>

\* GetByUserAndGoogleID: an existing account keeps its id and its switch; the
\* history id is the profile's, the watch is NULL.
LinkLookup(h) ==
  /\ pc[h] = "lookup"
  /\ acct' = [acct EXCEPT ![h] =
                IF row = NoRow THEN NoRow
                ELSE [id |-> row.id, hid |-> hid[h], notif |-> row.notif, exp |-> 0]]
  /\ Goto(h, IF row = NoRow THEN "create" ELSE "relink")
  /\ UNCHANGED <<store, google, hid, cur, fresh, history>>

\* Update of the existing account; if it went away meanwhile the request fails.
LinkUpdate(h) ==
  /\ pc[h] = "relink"
  /\ Save(acct[h])
  /\ JumpTo(acct[h])
  /\ ContinueIf(row.id = acct[h].id /\ Topic, h, "watch")
  /\ UNCHANGED <<nextId, records, enabled, google,
                 base, dropped, pushed, started, cut>>

\* Mutant: no UNIQUE (user_id, google_user_id), a second account takes the first one's place.
LinkCreateAnyway(h) ==
  /\ pc[h] = "create"
  /\ nextId <= MaxLinks
  /\ row' = [id |-> nextId, hid |-> hid[h], notif |-> TRUE, exp |-> 0]
  /\ IF Topic
     THEN /\ acct' = [acct EXCEPT ![h] = row']
          /\ Goto(h, "watch")
          /\ UNCHANGED <<hid, cur, fresh>>
     ELSE End(h)
  /\ base' = [base EXCEPT ![nextId] = hid[h]]
  /\ nextId' = nextId + 1
  /\ UNCHANGED <<records, enabled, google, dropped, skipped, pushed, started, cut>>

\* Create: UNIQUE (user_id, google_user_id) refuses a second account.
LinkCreate(h) ==
  /\ pc[h] = "create"
  /\ row = NoRow
  /\ nextId <= MaxLinks
  /\ row' = [id |-> nextId, hid |-> hid[h], notif |-> TRUE, exp |-> 0]
  /\ IF Topic
     THEN /\ acct' = [acct EXCEPT ![h] = row']
          /\ Goto(h, "watch")
          /\ UNCHANGED <<hid, cur, fresh>>
     ELSE End(h)
  /\ base' = [base EXCEPT ![nextId] = hid[h]]
  /\ nextId' = nextId + 1
  /\ UNCHANGED <<records, enabled, google, dropped, skipped, pushed, started, cut>>

\* The INSERT fails: the account exists by now, or (at the bound) the database errs.
LinkRefused(h) ==
  /\ pc[h] = "create"
  /\ row # NoRow \/ nextId > MaxLinks
  /\ End(h)
  /\ UNCHANGED <<store, google, history>>

\* UpdateSettings flips the user's notification switch: one upsert.
SetEnabled(h) ==
  /\ "settings" \in Requests
  /\ pc[h] = "idle"
  /\ enabled' = ~enabled
  /\ UNCHANGED <<row, nextId, records, google, locals, history>>

HandlerStep(h) ==
  \/ \E want \in BOOLEAN : ToggleRead(h, want)
  \/ ToggleWrite(h)
  \/ UnlinkRead(h) \/ UnlinkDelete(h)
  \/ LinkProfile(h) \/ LinkLookup(h) \/ LinkUpdate(h) \/ LinkCreate(h) \/ LinkRefused(h)
  \/ WatchStep(h)
  \/ SetEnabled(h)

(***************************************************************************)
(* The environment                                                         *)
(***************************************************************************)
\* A message arrives in the mailbox.
MailArrives ==
  /\ mail < MaxHistory
  /\ mail' = mail + 1
  /\ UNCHANGED <<store, epoch, locals, history>>

\* Time passes until a current watch has less than the renewer's skew left.
WatchRunsLow ==
  /\ epoch < MaxEpoch
  /\ epoch' = epoch + 1
  /\ UNCHANGED <<store, mail, locals, history>>

\* The process stops (a crash, or a shutdown that does not wait for its
\* workers) and starts again: what the goroutines held is gone.
Crash ==
  /\ "crash" \in Faults
  /\ \E w \in Workers : pc[w] # "idle"
  /\ pc' = [w \in Workers |-> "idle"]
  /\ acct' = [w \in Workers |-> NoRow]
  /\ hid' = [w \in Workers |-> 0]
  /\ cur' = [w \in Workers |-> 0]
  /\ fresh' = [w \in Workers |-> FALSE]
  /\ CutShort
  /\ UNCHANGED <<store, google, marks, started>>

Next ==
  \/ \E s \in Syncers : SyncStep(s) \/ SyncFault(s)
  \/ \E r \in Renewers : RenewStart(r) \/ WatchStep(r)
  \/ \E h \in Handlers : HandlerStep(h)
  \/ \E w \in Workers : PersistTokens(w) \/ StatementFails(w)
  \/ MailArrives
  \/ WatchRunsLow
  \/ Crash

Spec == Init /\ [][Next]_vars

(***************************************************************************)
(* Properties                                                              *)
(***************************************************************************)
Labels == {"idle", "settings", "list", "message", "push", "watch", "save watch",
           "toggle", "stop", "lookup", "relink", "create"}

Pairs == Ids \X Messages

\* Every variable has its type.
TypeOK ==
  /\ row \in Account \cup {NoRow}
  /\ nextId \in 1..MaxLinks + 1
  /\ records \subseteq Pairs
  /\ enabled \in BOOLEAN
  /\ mail \in Messages
  /\ epoch \in 0..MaxEpoch
  /\ pc \in [Workers -> Labels]
  /\ acct \in [Workers -> Account \cup {NoRow}]
  /\ hid \in [Workers -> HistoryIds]
  /\ cur \in [Workers -> Cursors]
  /\ fresh \in [Workers -> BOOLEAN]
  /\ base \in [Ids -> HistoryIds]
  /\ dropped \subseteq Pairs
  /\ skipped \subseteq Pairs
  /\ pushed \subseteq Pairs
  /\ started \subseteq Workers
  /\ cut \in BOOLEAN

\* Every message between an account's creation and its watermark was stored,
\* rejected by the filter, given up on by a sync, or passed by a jump of the
\* watermark to Google's current id - whatever stale row the many writers of
\* gmail_accounts put back, no sync leaves a message behind unvisited.
NoUnvisitedMessage ==
  row # NoRow =>
    \A m \in Messages : base[row.id] < m /\ m <= row.hid => Handled(row.id, m)

\* The watermark advances only after sync (HandlePubSub's comment): each message
\* at or below it was stored, rejected or given up on by some sync.
AdvanceOnlyAfterSync ==
  row # NoRow =>
    \A m \in Messages : base[row.id] < m /\ m <= row.hid => Examined(row.id, m)

\* notification_records holds only messages of the account that is linked now:
\* a sync that outlives its account leaves no orphan behind.
RecordsOfLiveAccount == \A r \in records : r[1] = row.id

\* A device is told of a message only when the app's list can show it: what was
\* pushed for the linked account is in notification_records.
PushIsBacked == \A p \in pushed : p[1] = row.id => p \in records

\* Unlink is final: no late write of a sync, a renewal or a request brings an
\* account back under an id that was deleted or replaced.
UnlinkIsFinal ==
  [][\A i \in Ids : i < nextId /\ row.id # i => row'.id # i]_vars

\* The watermark a sync saves is one it earned itself: of the account that is still
\* linked it examined every message after the watermark it had read, wherever the
\* watermark of the row has been moved meanwhile.
SyncExaminesAll ==
  [][\A s \in Syncers : SyncFinish(s) /\ row.id = acct[s].id =>
       \A m \in Messages : acct[s].hid < m /\ m <= hid[s] => Examined(row.id, m)]_vars

\* The account is a ledger of its mailbox: to whoever looks at the row, the
\* records and the pushes, the goroutines and the stale rows they write back are
\* single steps that MailboxLedger allows.
Ledger == INSTANCE MailboxLedger WITH account <- row.id, watermark <- row.hid

ImplementsLedger == Ledger!Spec

\* As long as no other goroutine has used the row, a syncer pushes only messages after
\* the watermark in the database, and pushes one again only where it was cut short before:
\* the process crashed, or the UPDATE at the end of a sync failed after its pushes.
\* Failed lists, fetches, INSERTs and pushes, and failed or overlapping token
\* refreshes, never make it tell the user twice.
NoDuplicatePush ==
  [][\A s \in Syncers : started \subseteq {s} /\ SyncPushes(s) =>
       row.hid < cur[s] /\ (Msg(s) \in pushed => cut)]_vars

\* Without a topic the poller (its fairness is in MCPolling) sees to it that each
\* message that arrives while the account is on is examined, whatever stale
\* watermarks others put back, unless the user switches it off.
EventuallyExamined ==
  \A i \in Ids, m \in Messages :
    (row.id = i /\ base[i] < m /\ m <= mail)
      ~> (Examined(i, m) \/ row.id # i \/ ~row.notif \/ ~enabled)

=============================================================================
