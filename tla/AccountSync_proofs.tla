------------------------- MODULE AccountSync_proofs -------------------------
(***************************************************************************)
(* What holds of AccountSync for any number of workers, messages, links    *)
(* and watch expirations, and any failures.                                *)
(***************************************************************************)
EXTENDS AccountSync, TLAPS

(***************************************************************************)
(* The inductive invariant                                                 *)
(***************************************************************************)
\* What a worker holds at each stage of its work.
Stages ==
  \A w \in Workers :
    /\ pc[w] \notin {"idle", "lookup", "create"} => acct[w] \in Account
    /\ pc[w] \in {"lookup", "create", "message", "push"} => hid[w] \in Messages
    /\ pc[w] \in {"message", "push"} => cur[w] >= 1
    /\ pc[w] = "push" => cur[w] <= hid[w]

SharedTypes ==
  /\ row \in Account \cup {NoRow}
  /\ nextId \in 1..MaxLinks + 1
  /\ records \subseteq Pairs
  /\ enabled \in BOOLEAN
  /\ mail \in Messages
  /\ epoch \in 0..MaxEpoch
  /\ base \in [Ids -> HistoryIds]
  /\ dropped \subseteq Pairs
  /\ skipped \subseteq Pairs
  /\ pushed \subseteq Pairs

LocalTypes ==
  /\ pc \in [Workers -> Labels]
  /\ acct \in [Workers -> Account \cup {NoRow}]
  /\ hid \in [Workers -> HistoryIds]
  /\ cur \in [Workers -> Cursors]
  /\ fresh \in [Workers -> BOOLEAN]

TypeInv == TypeOK /\ Stages

\* Ids that are still to be drawn appear nowhere.
IdsDrawn ==
  /\ row.id < nextId
  /\ \A w \in Workers : acct[w].id < nextId
  /\ \A r \in records : r[1] = row.id
  /\ \A p \in pushed : p[1] < nextId

\* All messages of account i up to history id h are accounted for.
Covered(i, h) == \A m \in Messages : base[i] < m /\ m <= h => Handled(i, m)

\* The stages at which a worker holds a watermark that it read from the row, or
\* wrote to it: the value may be old, but the messages up to it are covered.
HoldsRow == {"settings", "list", "message", "push", "watch", "toggle", "stop"}

RowCovered == row # NoRow => Covered(row.id, row.hid)

WorkerCovered(w) ==
  row # NoRow /\ acct[w].id = row.id =>
    /\ pc[w] \in HoldsRow => Covered(row.id, acct[w].hid)
    /\ pc[w] \in {"message", "push"} => Covered(row.id, cur[w] - 1)
    /\ pc[w] = "push" => Msg(w) \in records

WorkersCovered == \A w \in Workers : WorkerCovered(w)

CoverInv == RowCovered /\ WorkersCovered /\ PushIsBacked

IInv == TypeInv /\ IdsDrawn /\ CoverInv
(***************************************************************************)
(* Types                                                                   *)
(***************************************************************************)

LEMMA RowTypes ==
  /\ NoRow \notin Account
  /\ NoRow.id = 0
  /\ \A a \in Account : a.id \in Ids /\ a.id # 0 /\ a.hid \in Messages /\ a.notif \in BOOLEAN
PROOF BY ConstantsAssumption DEF NoRow, Account, Ids, Messages

LEMMA NewWatermark == \A a \in Account, m \in Messages : [a EXCEPT !.hid = m] \in Account
PROOF BY DEF Account

LEMMA NewSwitch == \A a \in Account, b \in BOOLEAN : [a EXCEPT !.notif = b] \in Account
PROOF BY DEF Account

LEMMA NewWatch ==
  ASSUME NEW a \in Account, NEW m \in Messages, NEW e \in 0..MaxEpoch
  PROVE  [a EXCEPT !.hid = m, !.exp = e + 1] \in Account
<1>1. e + 1 \in 0..MaxEpoch + 1
  BY ConstantsAssumption
<1> DEFINE x == e + 1
<1>2. [a EXCEPT !.hid = m, !.exp = x] \in Account
  <2> HIDE DEF x
  <2> QED BY <1>1 DEF Account, x
<1> QED BY <1>2

LEMMA NewAccount ==
  \A i \in Ids, m \in Messages, b \in BOOLEAN :
    [id |-> i, hid |-> m, notif |-> b, exp |-> 0] \in Account
PROOF BY ConstantsAssumption DEF Account

LEMMA DrawnId == ASSUME nextId \in 1..MaxLinks + 1, nextId <= MaxLinks
                PROVE  nextId \in Ids /\ nextId + 1 \in 1..MaxLinks + 1
PROOF BY ConstantsAssumption DEF Ids

\* A jump of the watermark skips messages of the mailbox only.
LEMMA JumpTypes ==
  ASSUME row \in Account \cup {NoRow}, skipped \subseteq Pairs, NEW a \in Account, JumpTo(a)
  PROVE  skipped' \subseteq Pairs
<1>1. ASSUME row.id = a.id, NEW k \in row.hid + 1 .. a.hid
      PROVE  <<a.id, k>> \in Pairs
  <2>1. row \in Account
    BY <1>1, RowTypes
  <2>2. row.hid \in Messages /\ a.hid \in Messages /\ a.id \in Ids
    BY <2>1, RowTypes
  <2>3. k \in Messages
    BY <1>1, <2>2, ConstantsAssumption DEF Messages
  <2> QED BY <2>2, <2>3 DEF Pairs
<1> QED BY <1>1 DEF JumpTo

\* The numbers that workers hold.
LEMMA Zeros == 0 \in HistoryIds /\ 0 \in Cursors
PROOF BY ConstantsAssumption DEF HistoryIds, Cursors

LEMMA MessageIsHistoryId == \A m \in Messages : m \in HistoryIds /\ m \in Int /\ 1 <= m
PROOF BY ConstantsAssumption DEF HistoryIds, Messages

LEMMA FirstCursor == \A m \in Messages : m + 1 \in Cursors /\ m + 1 >= 1
PROOF BY ConstantsAssumption DEF Cursors, Messages

LEMMA NextCursor ==
  \A c \in Cursors, h \in HistoryIds : c <= h => c + 1 \in Cursors /\ c + 1 >= 1
PROOF BY ConstantsAssumption DEF Cursors, HistoryIds

LEMMA CursorIsMessage ==
  \A c \in Cursors, h \in HistoryIds : 1 <= c /\ c <= h => c \in Messages
PROOF BY ConstantsAssumption DEF Cursors, HistoryIds, Messages

LEMMA InitTypeInv == Init => TypeInv
<1> SUFFICES ASSUME Init PROVE TypeInv
  OBVIOUS
<1>1. /\ row \in Account \cup {NoRow} /\ nextId \in 1..MaxLinks + 1 /\ mail \in Messages
      /\ epoch \in 0..MaxEpoch /\ enabled \in BOOLEAN /\ cut \in BOOLEAN
  <2>1. 1 \in Ids /\ 1 \in Messages /\ 2 \in 1..MaxLinks + 1 /\ 0 \in 0..MaxEpoch
    BY ConstantsAssumption DEF Ids, Messages
  <2>2. row \in Account
    BY <2>1, NewAccount DEF Init
  <2> QED BY <2>1, <2>2 DEF Init
<1>2. base \in [Ids -> HistoryIds]
  BY ConstantsAssumption DEF Init, Ids, HistoryIds
<1>3. /\ records \subseteq Pairs /\ dropped \subseteq Pairs /\ skipped \subseteq Pairs
      /\ pushed \subseteq Pairs /\ started \subseteq Workers
  BY DEF Init
<1>4. LocalTypes
  BY Zeros DEF Init, LocalTypes, Labels
<1>5. Stages
  BY DEF Init, Stages
<1> QED BY <1>1, <1>2, <1>3, <1>4, <1>5 DEF TypeInv, TypeOK, LocalTypes

\* Every step preserves the types of what the workers hold.
LEMMA LocalTypesStep == TypeInv /\ [Next]_vars => LocalTypes'
<1> SUFFICES ASSUME TypeInv, [Next]_vars PROVE LocalTypes'
  OBVIOUS
<1> USE DEF TypeInv, TypeOK, Stages, LocalTypes, Labels, Goto, locals, store, google, history, marks
<1>a. Syncers \subseteq Workers /\ Renewers \subseteq Workers /\ Handlers \subseteq Workers
  BY DEF Workers
<1>1. ASSUME NEW s \in Syncers, SyncStart(s) PROVE LocalTypes'
  BY <1>a, <1>1 DEF SyncStart, Begin
<1>2. ASSUME NEW s \in Syncers, SyncSettings(s) PROVE LocalTypes'
  BY <1>a, <1>2, Zeros DEF SyncSettings, ContinueIf, End
<1>3. ASSUME NEW s \in Syncers, SyncListed(s) PROVE LocalTypes'
  BY <1>a, <1>3, RowTypes, MessageIsHistoryId, FirstCursor DEF SyncListed
<1>4. ASSUME NEW s \in Syncers, SyncFilters(s) PROVE LocalTypes'
  BY <1>a, <1>4, NextCursor DEF SyncFilters, AtMessage, NextMessage
<1>5. ASSUME NEW s \in Syncers, SyncStoresQuietly(s) PROVE LocalTypes'
  BY <1>a, <1>5, NextCursor DEF SyncStoresQuietly, AtMessage, NextMessage
<1>6. ASSUME NEW s \in Syncers, SyncStores(s) PROVE LocalTypes'
  BY <1>a, <1>6 DEF SyncStores, AtMessage
<1>7. ASSUME NEW s \in Syncers, SyncPushes(s) PROVE LocalTypes'
  BY <1>a, <1>7, NextCursor DEF SyncPushes, NextMessage
<1>8. ASSUME NEW s \in Syncers, SyncFinish(s) PROVE LocalTypes'
  BY <1>a, <1>8, Zeros DEF SyncFinish, End
<1>9. ASSUME NEW s \in Syncers, SyncListFails(s) PROVE LocalTypes'
  BY <1>a, <1>9, Zeros DEF SyncListFails, End
<1>10. ASSUME NEW s \in Syncers, SyncFetchFails(s) PROVE LocalTypes'
  BY <1>a, <1>10, NextCursor DEF SyncFetchFails, AtMessage, NextMessage
<1>11. ASSUME NEW s \in Syncers, SyncStoreFails(s) PROVE LocalTypes'
  BY <1>a, <1>11, NextCursor DEF SyncStoreFails, AtMessage, NextMessage
<1>12. ASSUME NEW s \in Syncers, SyncPushFails(s) PROVE LocalTypes'
  BY <1>a, <1>12, NextCursor DEF SyncPushFails, NextMessage
<1>13. ASSUME NEW r \in Renewers, RenewStart(r) PROVE LocalTypes'
  BY <1>a, <1>13 DEF RenewStart, Begin
<1>14. ASSUME NEW w \in Workers, WatchCalled(w) PROVE LocalTypes'
  BY <1>a, <1>14, NewWatch DEF WatchCalled
<1>15. ASSUME NEW w \in Workers, WatchFails(w) PROVE LocalTypes'
  BY <1>a, <1>15, Zeros DEF WatchFails, End
<1>16. ASSUME NEW w \in Workers, WatchSaved(w) PROVE LocalTypes'
  BY <1>a, <1>16, Zeros DEF WatchSaved, End
<1>17. ASSUME NEW h \in Handlers, NEW want \in BOOLEAN, ToggleRead(h, want) PROVE LocalTypes'
  BY <1>a, <1>17, NewSwitch DEF ToggleRead, Begin
<1>18. ASSUME NEW h \in Handlers, ToggleWrite(h) PROVE LocalTypes'
  BY <1>a, <1>18, Zeros DEF ToggleWrite, ContinueIf, End
<1>19. ASSUME NEW h \in Handlers, UnlinkRead(h) PROVE LocalTypes'
  BY <1>a, <1>19 DEF UnlinkRead, Begin
<1>20. ASSUME NEW h \in Handlers, UnlinkDelete(h) PROVE LocalTypes'
  BY <1>a, <1>20, Zeros DEF UnlinkDelete, End
<1>21. ASSUME NEW h \in Handlers, LinkProfile(h) PROVE LocalTypes'
  BY <1>a, <1>21, MessageIsHistoryId DEF LinkProfile
<1>22. ASSUME NEW h \in Handlers, LinkLookup(h) PROVE LocalTypes'
  BY <1>a, <1>22, RowTypes, NewAccount DEF LinkLookup
<1>23. ASSUME NEW h \in Handlers, LinkUpdate(h) PROVE LocalTypes'
  BY <1>a, <1>23, Zeros DEF LinkUpdate, ContinueIf, End
<1>24. ASSUME NEW h \in Handlers, LinkCreate(h) PROVE LocalTypes'
  <2>1. CASE Topic
    <3>1. /\ row' \in Account
          /\ acct' = [acct EXCEPT ![h] = row']
          /\ pc' = [pc EXCEPT ![h] = "watch"]
          /\ UNCHANGED <<hid, cur, fresh>>
      BY <1>a, <1>24, <2>1, NewAccount, DrawnId DEF LinkCreate
    <3> QED BY <1>a, <3>1
  <2>2. CASE ~Topic
    <3>1. End(h)
      BY <1>24, <2>2 DEF LinkCreate
    <3> QED BY <1>a, <3>1, Zeros DEF End
  <2> QED BY <2>1, <2>2
<1>25. ASSUME NEW h \in Handlers, LinkRefused(h) PROVE LocalTypes'
  BY <1>a, <1>25, Zeros DEF LinkRefused, End
<1>26. ASSUME NEW h \in Handlers, SetEnabled(h) PROVE LocalTypes'
  BY <1>a, <1>26 DEF SetEnabled
<1>27. ASSUME NEW w \in Workers, PersistTokens(w) PROVE LocalTypes'
  BY <1>a, <1>27 DEF PersistTokens
<1>28. CASE MailArrives
  BY <1>28 DEF MailArrives
<1>29. CASE WatchRunsLow
  BY <1>29 DEF WatchRunsLow
<1>30. CASE Crash
  BY <1>30, Zeros DEF Crash
<1>31. CASE UNCHANGED vars
  BY <1>31 DEF vars
<1>32. ASSUME NEW s \in Syncers, SyncSaveFails(s) PROVE LocalTypes'
  BY <1>a, <1>32, Zeros DEF SyncSaveFails, End
<1>33. ASSUME NEW w \in Workers, StatementFails(w) PROVE LocalTypes'
  BY <1>a, <1>33, Zeros DEF StatementFails, End
<1> QED
  BY <1>1, <1>2, <1>3, <1>4, <1>5, <1>6, <1>7, <1>8, <1>9, <1>10, <1>11, <1>12, <1>13, <1>14, <1>15, <1>16, <1>17, <1>18, <1>19, <1>20, <1>21, <1>22, <1>23, <1>24, <1>25, <1>26, <1>27, <1>28, <1>29, <1>30, <1>31, <1>32, <1>33
  DEF Next, SyncStep, SyncFault, WatchStep, HandlerStep, Workers

\* Every step leaves each worker with what its stage needs.
LEMMA StagesStep == TypeInv /\ [Next]_vars => Stages'
<1> SUFFICES ASSUME TypeInv, [Next]_vars PROVE Stages'
  OBVIOUS
<1> USE DEF TypeInv, TypeOK, Stages, Labels, Goto, locals, store, google, history, marks
<1>a. Syncers \subseteq Workers /\ Renewers \subseteq Workers /\ Handlers \subseteq Workers
  BY DEF Workers
<1>1. ASSUME NEW s \in Syncers, SyncStart(s) PROVE Stages'
  BY <1>a, <1>1 DEF SyncStart, Begin
<1>2. ASSUME NEW s \in Syncers, SyncSettings(s) PROVE Stages'
  <2>1. CASE enabled
    BY <1>a, <1>2, <2>1 DEF SyncSettings, ContinueIf
  <2>2. CASE ~enabled
    <3>1. End(s)
      BY <1>2, <2>2 DEF SyncSettings, ContinueIf
    <3> QED BY <1>a, <3>1 DEF End
  <2> QED BY <2>1, <2>2
<1>3. ASSUME NEW s \in Syncers, SyncListed(s) PROVE Stages'
  BY <1>a, <1>3, RowTypes, FirstCursor DEF SyncListed
<1>4. ASSUME NEW s \in Syncers, SyncFilters(s) PROVE Stages'
  BY <1>a, <1>4, NextCursor DEF SyncFilters, AtMessage, NextMessage
<1>5. ASSUME NEW s \in Syncers, SyncStoresQuietly(s) PROVE Stages'
  BY <1>a, <1>5, NextCursor DEF SyncStoresQuietly, AtMessage, NextMessage
<1>6. ASSUME NEW s \in Syncers, SyncStores(s) PROVE Stages'
  BY <1>a, <1>6 DEF SyncStores, AtMessage
<1>7. ASSUME NEW s \in Syncers, SyncPushes(s) PROVE Stages'
  BY <1>a, <1>7, NextCursor DEF SyncPushes, NextMessage
<1>8. ASSUME NEW s \in Syncers, SyncFinish(s) PROVE Stages'
  BY <1>a, <1>8 DEF SyncFinish, End
<1>9. ASSUME NEW s \in Syncers, SyncListFails(s) PROVE Stages'
  BY <1>a, <1>9 DEF SyncListFails, End
<1>10. ASSUME NEW s \in Syncers, SyncFetchFails(s) PROVE Stages'
  BY <1>a, <1>10, NextCursor DEF SyncFetchFails, AtMessage, NextMessage
<1>11. ASSUME NEW s \in Syncers, SyncStoreFails(s) PROVE Stages'
  BY <1>a, <1>11, NextCursor DEF SyncStoreFails, AtMessage, NextMessage
<1>12. ASSUME NEW s \in Syncers, SyncPushFails(s) PROVE Stages'
  BY <1>a, <1>12, NextCursor DEF SyncPushFails, NextMessage
<1>13. ASSUME NEW r \in Renewers, RenewStart(r) PROVE Stages'
  BY <1>a, <1>13 DEF RenewStart, Begin
<1>14. ASSUME NEW w \in Workers, WatchCalled(w) PROVE Stages'
  BY <1>a, <1>14, NewWatch DEF WatchCalled
<1>15. ASSUME NEW w \in Workers, WatchFails(w) PROVE Stages'
  BY <1>a, <1>15 DEF WatchFails, End
<1>16. ASSUME NEW w \in Workers, WatchSaved(w) PROVE Stages'
  BY <1>a, <1>16 DEF WatchSaved, End
<1>17. ASSUME NEW h \in Handlers, NEW want \in BOOLEAN, ToggleRead(h, want) PROVE Stages'
  BY <1>a, <1>17, NewSwitch DEF ToggleRead, Begin
<1>18. ASSUME NEW h \in Handlers, ToggleWrite(h) PROVE Stages'
  <2>1. CASE row.id = acct[h].id /\ acct[h].notif /\ Topic
    BY <1>a, <1>18, <2>1 DEF ToggleWrite, ContinueIf
  <2>2. CASE ~(row.id = acct[h].id /\ acct[h].notif /\ Topic)
    <3>1. End(h)
      BY <1>18, <2>2 DEF ToggleWrite, ContinueIf
    <3> QED BY <1>a, <3>1 DEF End
  <2> QED BY <2>1, <2>2
<1>19. ASSUME NEW h \in Handlers, UnlinkRead(h) PROVE Stages'
  BY <1>a, <1>19 DEF UnlinkRead, Begin
<1>20. ASSUME NEW h \in Handlers, UnlinkDelete(h) PROVE Stages'
  BY <1>a, <1>20 DEF UnlinkDelete, End
<1>21. ASSUME NEW h \in Handlers, LinkProfile(h) PROVE Stages'
  BY <1>a, <1>21 DEF LinkProfile
<1>22. ASSUME NEW h \in Handlers, LinkLookup(h) PROVE Stages'
  BY <1>a, <1>22, RowTypes, NewAccount DEF LinkLookup
<1>23. ASSUME NEW h \in Handlers, LinkUpdate(h) PROVE Stages'
  <2>1. CASE row.id = acct[h].id /\ Topic
    BY <1>a, <1>23, <2>1 DEF LinkUpdate, ContinueIf
  <2>2. CASE ~(row.id = acct[h].id /\ Topic)
    <3>1. End(h)
      BY <1>23, <2>2 DEF LinkUpdate, ContinueIf
    <3> QED BY <1>a, <3>1 DEF End
  <2> QED BY <2>1, <2>2
<1>24. ASSUME NEW h \in Handlers, LinkCreate(h) PROVE Stages'
  <2>1. CASE Topic
    <3>1. /\ row' \in Account
          /\ acct' = [acct EXCEPT ![h] = row']
          /\ pc' = [pc EXCEPT ![h] = "watch"]
          /\ UNCHANGED <<hid, cur, fresh>>
      BY <1>a, <1>24, <2>1, NewAccount, DrawnId DEF LinkCreate
    <3> QED BY <1>a, <3>1
  <2>2. CASE ~Topic
    <3>1. End(h)
      BY <1>24, <2>2 DEF LinkCreate
    <3> QED BY <1>a, <3>1 DEF End
  <2> QED BY <2>1, <2>2
<1>25. ASSUME NEW h \in Handlers, LinkRefused(h) PROVE Stages'
  BY <1>a, <1>25 DEF LinkRefused, End
<1>26. ASSUME NEW h \in Handlers, SetEnabled(h) PROVE Stages'
  BY <1>a, <1>26 DEF SetEnabled
<1>27. ASSUME NEW w \in Workers, PersistTokens(w) PROVE Stages'
  BY <1>a, <1>27 DEF PersistTokens
<1>28. CASE MailArrives
  BY <1>28 DEF MailArrives
<1>29. CASE WatchRunsLow
  BY <1>29 DEF WatchRunsLow
<1>30. CASE Crash
  BY <1>30, Zeros DEF Crash
<1>31. CASE UNCHANGED vars
  BY <1>31 DEF vars
<1>32. ASSUME NEW s \in Syncers, SyncSaveFails(s) PROVE Stages'
  BY <1>a, <1>32 DEF SyncSaveFails, End
<1>33. ASSUME NEW w \in Workers, StatementFails(w) PROVE Stages'
  BY <1>a, <1>33 DEF StatementFails, End
<1> QED
  BY <1>1, <1>2, <1>3, <1>4, <1>5, <1>6, <1>7, <1>8, <1>9, <1>10, <1>11, <1>12, <1>13, <1>14, <1>15, <1>16, <1>17, <1>18, <1>19, <1>20, <1>21, <1>22, <1>23, <1>24, <1>25, <1>26, <1>27, <1>28, <1>29, <1>30, <1>31, <1>32, <1>33
  DEF Next, SyncStep, SyncFault, WatchStep, HandlerStep, Workers

\* Every step preserves the types of the database, of the mailbox and of the history.
LEMMA SharedTypesStep == TypeInv /\ [Next]_vars => SharedTypes'
<1> SUFFICES ASSUME TypeInv, [Next]_vars PROVE SharedTypes'
  OBVIOUS
<1> USE DEF TypeInv, TypeOK, Stages, SharedTypes, locals, store, google, history, marks
<1>a. Syncers \subseteq Workers /\ Renewers \subseteq Workers /\ Handlers \subseteq Workers
  BY DEF Workers
<1>1. ASSUME NEW s \in Syncers, SyncStart(s) PROVE SharedTypes'
  BY <1>a, <1>1 DEF SyncStart
<1>2. ASSUME NEW s \in Syncers, SyncSettings(s) PROVE SharedTypes'
  BY <1>a, <1>2 DEF SyncSettings
<1>3. ASSUME NEW s \in Syncers, SyncListed(s) PROVE SharedTypes'
  BY <1>a, <1>3 DEF SyncListed
<1>4. ASSUME NEW s \in Syncers, SyncFilters(s) PROVE SharedTypes'
  BY <1>a, <1>4, RowTypes, CursorIsMessage DEF SyncFilters, AtMessage, Msg, Pairs
<1>5. ASSUME NEW s \in Syncers, SyncStoresQuietly(s) PROVE SharedTypes'
  BY <1>a, <1>5, RowTypes, CursorIsMessage DEF SyncStoresQuietly, AtMessage, Msg, Pairs
<1>6. ASSUME NEW s \in Syncers, SyncStores(s) PROVE SharedTypes'
  BY <1>a, <1>6, RowTypes, CursorIsMessage DEF SyncStores, AtMessage, Msg, Pairs
<1>7. ASSUME NEW s \in Syncers, SyncPushes(s) PROVE SharedTypes'
  BY <1>a, <1>7, RowTypes, CursorIsMessage DEF SyncPushes, Msg, Pairs
<1>8. ASSUME NEW s \in Syncers, SyncFinish(s) PROVE SharedTypes'
  BY <1>a, <1>8, NewWatermark DEF SyncFinish, Save
<1>9. ASSUME NEW s \in Syncers, SyncListFails(s) PROVE SharedTypes'
  BY <1>a, <1>9 DEF SyncListFails
<1>10. ASSUME NEW s \in Syncers, SyncFetchFails(s) PROVE SharedTypes'
  BY <1>a, <1>10, RowTypes, CursorIsMessage DEF SyncFetchFails, AtMessage, Msg, Pairs
<1>11. ASSUME NEW s \in Syncers, SyncStoreFails(s) PROVE SharedTypes'
  BY <1>a, <1>11, RowTypes, CursorIsMessage DEF SyncStoreFails, AtMessage, Msg, Pairs
<1>12. ASSUME NEW s \in Syncers, SyncPushFails(s) PROVE SharedTypes'
  BY <1>a, <1>12 DEF SyncPushFails
<1>13. ASSUME NEW r \in Renewers, RenewStart(r) PROVE SharedTypes'
  BY <1>a, <1>13 DEF RenewStart
<1>14. ASSUME NEW w \in Workers, WatchCalled(w) PROVE SharedTypes'
  BY <1>a, <1>14 DEF WatchCalled
<1>15. ASSUME NEW w \in Workers, WatchFails(w) PROVE SharedTypes'
  BY <1>a, <1>15 DEF WatchFails
<1>16. ASSUME NEW w \in Workers, WatchSaved(w) PROVE SharedTypes'
  <2>1. acct[w] \in Account
    BY <1>16 DEF WatchSaved
  <2>2. skipped' \subseteq Pairs
    BY <1>16, <2>1, JumpTypes DEF WatchSaved
  <2> QED
    BY <1>16, <2>1, <2>2 DEF WatchSaved, Save
<1>17. ASSUME NEW h \in Handlers, NEW want \in BOOLEAN, ToggleRead(h, want) PROVE SharedTypes'
  BY <1>a, <1>17 DEF ToggleRead
<1>18. ASSUME NEW h \in Handlers, ToggleWrite(h) PROVE SharedTypes'
  BY <1>a, <1>18 DEF ToggleWrite, Save
<1>19. ASSUME NEW h \in Handlers, UnlinkRead(h) PROVE SharedTypes'
  BY <1>a, <1>19 DEF UnlinkRead
<1>20. ASSUME NEW h \in Handlers, UnlinkDelete(h) PROVE SharedTypes'
  BY <1>a, <1>20 DEF UnlinkDelete
<1>21. ASSUME NEW h \in Handlers, LinkProfile(h) PROVE SharedTypes'
  BY <1>a, <1>21 DEF LinkProfile
<1>22. ASSUME NEW h \in Handlers, LinkLookup(h) PROVE SharedTypes'
  BY <1>a, <1>22 DEF LinkLookup
<1>23. ASSUME NEW h \in Handlers, LinkUpdate(h) PROVE SharedTypes'
  <2>1. acct[h] \in Account
    BY <1>a, <1>23 DEF LinkUpdate
  <2>2. skipped' \subseteq Pairs
    BY <1>23, <2>1, JumpTypes DEF LinkUpdate
  <2> QED
    BY <1>23, <2>1, <2>2 DEF LinkUpdate, Save
<1>24. ASSUME NEW h \in Handlers, LinkCreate(h) PROVE SharedTypes'
  BY <1>a, <1>24, DrawnId, NewAccount, MessageIsHistoryId DEF LinkCreate
<1>25. ASSUME NEW h \in Handlers, LinkRefused(h) PROVE SharedTypes'
  BY <1>a, <1>25 DEF LinkRefused
<1>26. ASSUME NEW h \in Handlers, SetEnabled(h) PROVE SharedTypes'
  BY <1>a, <1>26 DEF SetEnabled
<1>27. ASSUME NEW w \in Workers, PersistTokens(w) PROVE SharedTypes'
  BY <1>a, <1>27 DEF PersistTokens, Save
<1>28. CASE MailArrives
  BY <1>28, ConstantsAssumption DEF MailArrives, Messages
<1>29. CASE WatchRunsLow
  BY <1>29, ConstantsAssumption DEF WatchRunsLow
<1>30. CASE Crash
  BY <1>30, Zeros DEF Crash
<1>31. CASE UNCHANGED vars
  BY <1>31 DEF vars
<1>32. ASSUME NEW s \in Syncers, SyncSaveFails(s) PROVE SharedTypes'
  BY <1>a, <1>32 DEF SyncSaveFails
<1>33. ASSUME NEW w \in Workers, StatementFails(w) PROVE SharedTypes'
  BY <1>a, <1>33 DEF StatementFails
<1> QED
  BY <1>1, <1>2, <1>3, <1>4, <1>5, <1>6, <1>7, <1>8, <1>9, <1>10, <1>11, <1>12, <1>13, <1>14, <1>15, <1>16, <1>17, <1>18, <1>19, <1>20, <1>21, <1>22, <1>23, <1>24, <1>25, <1>26, <1>27, <1>28, <1>29, <1>30, <1>31, <1>32, <1>33
  DEF Next, SyncStep, SyncFault, WatchStep, HandlerStep, Workers

\* Every step leaves started a set of workers, and cut a truth value.
LEMMA StartedStep ==
  ASSUME started \subseteq Workers, cut \in BOOLEAN, [Next]_vars
  PROVE  started' \subseteq Workers /\ cut' \in BOOLEAN
<1> USE DEF history
<1> DEFINE Typed == started' \subseteq Workers /\ cut' \in BOOLEAN
<1>a. Syncers \subseteq Workers /\ Renewers \subseteq Workers /\ Handlers \subseteq Workers
  BY DEF Workers
<1>b. ASSUME NEW w \in Workers, Joins(w) PROVE Typed
  BY <1>b DEF Joins
<1>1. ASSUME NEW s \in Syncers, SyncStep(s) PROVE Typed
  BY <1>a, <1>b, <1>1 DEF SyncStep, SyncStart, Begin, SyncSettings, SyncListed, SyncFilters,
                          SyncStoresQuietly, SyncStores, SyncPushes, SyncFinish
<1>2. ASSUME NEW s \in Syncers, SyncFault(s) PROVE Typed
  BY <1>2 DEF SyncFault, SyncListFails, SyncFetchFails, SyncStoreFails, SyncPushFails,
              SyncSaveFails, CutShort
<1>3. ASSUME NEW w \in Workers, RenewStart(w) \/ WatchStep(w) PROVE Typed
  BY <1>b, <1>3 DEF RenewStart, Begin, WatchStep, WatchCalled, WatchFails, WatchSaved
<1>4. ASSUME NEW h \in Handlers, HandlerStep(h) PROVE Typed
  BY <1>a, <1>b, <1>3, <1>4 DEF HandlerStep, ToggleRead, Begin, ToggleWrite, UnlinkRead, UnlinkDelete,
                          LinkProfile, LinkLookup, LinkUpdate, LinkCreate, LinkRefused, SetEnabled
<1>5. CASE \E w \in Workers : PersistTokens(w) \/ StatementFails(w)
  BY <1>5 DEF PersistTokens, StatementFails
<1>6. CASE MailArrives \/ WatchRunsLow \/ Crash \/ UNCHANGED vars
  BY <1>6 DEF MailArrives, WatchRunsLow, Crash, CutShort, vars
<1> QED
  BY <1>a, <1>1, <1>2, <1>3, <1>4, <1>5, <1>6 DEF Next

LEMMA TypeInvStep == TypeInv /\ [Next]_vars => TypeInv'
PROOF BY LocalTypesStep, StagesStep, SharedTypesStep, StartedStep
  DEF TypeInv, TypeOK, LocalTypes, SharedTypes

\* Every variable keeps its type, whatever the workers, the requests and the
\* failures are, and each worker holds what the stage of its work needs.
THEOREM TypeCorrect == Spec => []TypeOK
<1>1. TypeInv => TypeOK
  BY DEF TypeInv
<1> QED
  BY InitTypeInv, TypeInvStep, <1>1, PTL DEF Spec

(***************************************************************************)
(* Ids                                                                     *)
(***************************************************************************)
LEMMA InitIdsDrawn == Init => IdsDrawn
PROOF BY DEF Init, IdsDrawn, NoRow

LEMMA IdTypes ==
  /\ \A r \in Pairs : r[1] \in Ids
  /\ \A i \in Ids : i \in Int /\ i # 0
PROOF BY ConstantsAssumption DEF Pairs, Ids

\* No id is used before it is drawn, and every record is of the account in the row.
LEMMA IdsDrawnStep == TypeInv /\ IdsDrawn /\ [Next]_vars => IdsDrawn'
<1> SUFFICES ASSUME TypeInv, IdsDrawn, [Next]_vars PROVE IdsDrawn'
  OBVIOUS
<1> USE DEF TypeInv, TypeOK, IdsDrawn, locals, store, google, history, marks
<1>a. Syncers \subseteq Workers /\ Renewers \subseteq Workers /\ Handlers \subseteq Workers
  BY DEF Workers
<1>b. NoRow.id = 0 /\ nextId \in Int /\ 1 <= nextId
  BY ConstantsAssumption, RowTypes
<1>1. ASSUME NEW s \in Syncers, SyncStart(s) PROVE IdsDrawn'
  BY <1>a, <1>b, <1>1 DEF SyncStart, Begin
<1>2. ASSUME NEW s \in Syncers, SyncSettings(s) PROVE IdsDrawn'
  BY <1>a, <1>b, <1>2 DEF SyncSettings, ContinueIf, End
<1>3. ASSUME NEW s \in Syncers, SyncListed(s) PROVE IdsDrawn'
  BY <1>a, <1>b, <1>3 DEF SyncListed
<1>4. ASSUME NEW s \in Syncers, SyncFilters(s) PROVE IdsDrawn'
  BY <1>a, <1>b, <1>4 DEF SyncFilters
<1>5. ASSUME NEW s \in Syncers, SyncStoresQuietly(s) PROVE IdsDrawn'
  BY <1>a, <1>b, <1>5 DEF SyncStoresQuietly, CanStore, Msg
<1>6. ASSUME NEW s \in Syncers, SyncStores(s) PROVE IdsDrawn'
  BY <1>a, <1>b, <1>6 DEF SyncStores, CanStore, Msg
<1>7. ASSUME NEW s \in Syncers, SyncPushes(s) PROVE IdsDrawn'
  BY <1>a, <1>b, <1>7 DEF SyncPushes, Msg
<1>8. ASSUME NEW s \in Syncers, SyncFinish(s) PROVE IdsDrawn'
  BY <1>a, <1>b, <1>8 DEF SyncFinish, Save, End
<1>9. ASSUME NEW s \in Syncers, SyncListFails(s) PROVE IdsDrawn'
  BY <1>a, <1>b, <1>9 DEF SyncListFails, End
<1>10. ASSUME NEW s \in Syncers, SyncFetchFails(s) PROVE IdsDrawn'
  BY <1>a, <1>b, <1>10 DEF SyncFetchFails
<1>11. ASSUME NEW s \in Syncers, SyncStoreFails(s) PROVE IdsDrawn'
  BY <1>a, <1>b, <1>11 DEF SyncStoreFails
<1>12. ASSUME NEW s \in Syncers, SyncPushFails(s) PROVE IdsDrawn'
  BY <1>a, <1>b, <1>12 DEF SyncPushFails
<1>13. ASSUME NEW r \in Renewers, RenewStart(r) PROVE IdsDrawn'
  BY <1>a, <1>b, <1>13 DEF RenewStart, Begin
<1>14. ASSUME NEW w \in Workers, WatchCalled(w) PROVE IdsDrawn'
  <2>1. acct[w] \in Account
    BY <1>14 DEF WatchCalled, Stages
  <2>2. acct'[w].id = acct[w].id
    BY <1>14, <2>1 DEF WatchCalled, Account
  <2> QED BY <1>14, <2>2 DEF WatchCalled
<1>15. ASSUME NEW w \in Workers, WatchFails(w) PROVE IdsDrawn'
  BY <1>a, <1>b, <1>15 DEF WatchFails, End
<1>16. ASSUME NEW w \in Workers, WatchSaved(w) PROVE IdsDrawn'
  <2>1. row'.id = row.id
    BY <1>16 DEF WatchSaved, Save
  <2>2. \A v \in Workers : acct'[v].id < nextId
    <3>1. End(w)
      BY <1>16 DEF WatchSaved
    <3> QED BY <1>b, <3>1 DEF End
  <2> QED BY <1>16, <2>1, <2>2 DEF WatchSaved
<1>17. ASSUME NEW h \in Handlers, NEW want \in BOOLEAN, ToggleRead(h, want) PROVE IdsDrawn'
  BY <1>a, <1>b, <1>17 DEF ToggleRead, Begin
<1>18. ASSUME NEW h \in Handlers, ToggleWrite(h) PROVE IdsDrawn'
  BY <1>a, <1>b, <1>18 DEF ToggleWrite, Save, ContinueIf, End
<1>19. ASSUME NEW h \in Handlers, UnlinkRead(h) PROVE IdsDrawn'
  BY <1>a, <1>b, <1>19 DEF UnlinkRead, Begin
<1>20. ASSUME NEW h \in Handlers, UnlinkDelete(h) PROVE IdsDrawn'
  BY <1>a, <1>b, <1>20 DEF UnlinkDelete, End
<1>21. ASSUME NEW h \in Handlers, LinkProfile(h) PROVE IdsDrawn'
  BY <1>a, <1>b, <1>21 DEF LinkProfile
<1>22. ASSUME NEW h \in Handlers, LinkLookup(h) PROVE IdsDrawn'
  BY <1>a, <1>b, <1>22 DEF LinkLookup
<1>23. ASSUME NEW h \in Handlers, LinkUpdate(h) PROVE IdsDrawn'
  BY <1>a, <1>b, <1>23 DEF LinkUpdate, Save, ContinueIf, End
<1>24. ASSUME NEW h \in Handlers, LinkCreate(h) PROVE IdsDrawn'
  BY <1>a, <1>b, <1>24, IdTypes, RowTypes, DrawnId DEF LinkCreate, End
<1>25. ASSUME NEW h \in Handlers, LinkRefused(h) PROVE IdsDrawn'
  BY <1>a, <1>b, <1>25 DEF LinkRefused, End
<1>26. ASSUME NEW h \in Handlers, SetEnabled(h) PROVE IdsDrawn'
  BY <1>a, <1>b, <1>26 DEF SetEnabled
<1>27. ASSUME NEW w \in Workers, PersistTokens(w) PROVE IdsDrawn'
  BY <1>a, <1>b, <1>27 DEF PersistTokens, Save
<1>28. CASE MailArrives
  BY <1>b, <1>28 DEF MailArrives
<1>29. CASE WatchRunsLow
  BY <1>b, <1>29 DEF WatchRunsLow
<1>30. CASE Crash
  BY <1>b, <1>30 DEF Crash
<1>31. CASE UNCHANGED vars
  BY <1>31 DEF vars
<1>32. ASSUME NEW s \in Syncers, SyncSaveFails(s) PROVE IdsDrawn'
  BY <1>a, <1>b, <1>32 DEF SyncSaveFails, End
<1>33. ASSUME NEW w \in Workers, StatementFails(w) PROVE IdsDrawn'
  <2>1. row' = row /\ records' = records /\ pushed' = pushed /\ nextId' = nextId
    BY <1>33 DEF StatementFails
  <2>2. \A v \in Workers : acct'[v].id < nextId
    <3>1. End(w)
      BY <1>33 DEF StatementFails
    <3> QED BY <1>b, <3>1 DEF End
  <2> QED BY <2>1, <2>2
<1> QED
  BY <1>1, <1>2, <1>3, <1>4, <1>5, <1>6, <1>7, <1>8, <1>9, <1>10, <1>11, <1>12, <1>13, <1>14, <1>15, <1>16, <1>17, <1>18, <1>19, <1>20, <1>21, <1>22, <1>23, <1>24, <1>25, <1>26, <1>27, <1>28, <1>29, <1>30, <1>31, <1>32, <1>33
  DEF Next, SyncStep, SyncFault, WatchStep, HandlerStep, Workers

(***************************************************************************)
(* Coverage                                                                *)
(***************************************************************************)
\* What most steps have in common: the account stays the same one (or goes), and
\* nothing that was recorded of a message is forgotten.
Grows ==
  /\ row'.id = row.id
  /\ row' # NoRow => row # NoRow
  /\ base' = base
  /\ records \subseteq records'
  /\ dropped \subseteq dropped'
  /\ skipped \subseteq skipped'

LEMMA CoveredGrows == ASSUME Grows PROVE \A i, h : Covered(i, h) => Covered(i, h)'
PROOF BY DEF Grows, Covered, Handled, Examined

\* A step of one worker leaves what the others hold covered.
LEMMA OneWorkerMoves ==
  ASSUME WorkersCovered, Grows, NEW w \in Workers, WorkerCovered(w)',
         \A v \in Workers \ {w} : pc'[v] = pc[v] /\ acct'[v] = acct[v] /\ cur'[v] = cur[v]
  PROVE  WorkersCovered'
<1> SUFFICES ASSUME NEW v \in Workers \ {w} PROVE WorkerCovered(v)'
  BY DEF WorkersCovered
<1>1. WorkerCovered(v)
  BY DEF WorkersCovered
<1> QED
  BY <1>1, CoveredGrows DEF WorkerCovered, Grows, Msg

LEMMA CoverLess ==
  ASSUME NEW i, NEW h \in Int, NEW k \in Int, k <= h, Covered(i, h)
  PROVE  Covered(i, k)
PROOF BY MessageIsHistoryId DEF Covered

\* A jump of the watermark puts every message it passes among the skipped ones.
LEMMA JumpCovers ==
  ASSUME TypeInv, RowCovered, NEW a \in Account, row.id = a.id, JumpTo(a), Grows
  PROVE  Covered(a.id, a.hid)'
<1>1. row \in Account /\ row # NoRow
  BY RowTypes DEF TypeInv, TypeOK
<1>2. row.hid \in Int /\ a.hid \in Int
  BY <1>1, RowTypes, MessageIsHistoryId
<1> PICK h \in Int : h = row.hid
  BY <1>2
<1>3. Covered(a.id, h)'
  BY <1>1, CoveredGrows DEF RowCovered
<1>4. SUFFICES ASSUME NEW m \in Messages, base'[a.id] < m, m <= a.hid
               PROVE  Handled(a.id, m)'
  BY DEF Covered
<1>5. m \in Int
  BY MessageIsHistoryId
<1>6. CASE m <= h
  BY <1>3, <1>4, <1>6 DEF Covered
<1>7. CASE m > h
  <2>1. m \in row.hid + 1 .. a.hid
    BY <1>2, <1>4, <1>5, <1>7
  <2>2. CASE Handled(a.id, m)
    BY <2>2 DEF Grows, Handled, Examined
  <2>3. CASE ~Handled(a.id, m)
    BY <2>1, <2>3 DEF JumpTo, Handled
  <2> QED BY <2>2, <2>3
<1> QED BY <1>2, <1>5, <1>6, <1>7

LEMMA InitCoverInv == Init => CoverInv
<1> SUFFICES ASSUME Init PROVE CoverInv
  OBVIOUS
<1>1. RowCovered
  <2>1. row.id = 1 /\ row.hid = 1 /\ base[1] = 1
    BY ConstantsAssumption DEF Init, Ids
  <2> QED BY <2>1, MessageIsHistoryId DEF RowCovered, Covered
<1>2. WorkersCovered
  BY DEF Init, WorkersCovered, WorkerCovered, HoldsRow
<1>3. PushIsBacked
  BY DEF Init, PushIsBacked
<1> QED BY <1>1, <1>2, <1>3 DEF CoverInv

\* A step of worker w that leaves row and pushes alone.
LEMMA QuietStep ==
  ASSUME CoverInv, Grows, row' = row, pushed' = pushed, NEW w \in Workers, WorkerCovered(w)',
         \A v \in Workers \ {w} : pc'[v] = pc[v] /\ acct'[v] = acct[v] /\ cur'[v] = cur[v]
  PROVE  CoverInv'
<1>1. RowCovered'
  BY CoveredGrows DEF CoverInv, RowCovered
<1>2. WorkersCovered'
  BY OneWorkerMoves DEF CoverInv
<1>3. PushIsBacked'
  BY DEF CoverInv, PushIsBacked, Grows
<1> QED BY <1>1, <1>2, <1>3 DEF CoverInv

\* A step of worker w that writes the row of the same account.
LEMMA WriteStep ==
  ASSUME CoverInv, Grows, pushed' = pushed, NEW w \in Workers, WorkerCovered(w)', RowCovered',
         \A v \in Workers \ {w} : pc'[v] = pc[v] /\ acct'[v] = acct[v] /\ cur'[v] = cur[v]
  PROVE  CoverInv'
<1>1. WorkersCovered'
  BY OneWorkerMoves DEF CoverInv
<1>2. PushIsBacked'
  BY DEF CoverInv, PushIsBacked, Grows
<1> QED BY <1>1, <1>2 DEF CoverInv

\* Save writes a covered watermark, or leaves a covered one in place.
LEMMA SaveCovered ==
  ASSUME RowCovered, Grows, NEW a, Save(a), row.id = a.id /\ row # NoRow => Covered(a.id, a.hid),
         row.id = 0 => row = NoRow, a.id = 0 => a = NoRow
  PROVE  RowCovered'
<1>1. CASE row.id = a.id /\ row # NoRow
  <2>1. Covered(a.id, a.hid)'
    BY <1>1, CoveredGrows
  <2>2. row' = a
    BY <1>1 DEF Save
  <2> QED BY <2>1, <2>2 DEF RowCovered
<1>2. CASE ~(row.id = a.id /\ row # NoRow)
  <2>1. row' = row \/ row' = NoRow
    BY <1>2, RowTypes DEF Save
  <2> QED BY <2>1, CoveredGrows DEF RowCovered
<1> QED BY <1>1, <1>2

LEMMA EndCovers == ASSUME NEW w \in Workers, TypeOK, End(w) PROVE WorkerCovered(w)'
PROOF BY DEF End, Goto, WorkerCovered, TypeOK, HoldsRow

LEMMA CoverNextPrimed ==
  ASSUME NEW i, NEW c \in Cursors, Covered(i, c - 1)', Handled(i, c)'
  PROVE  Covered(i, (c + 1) - 1)'
<1>1. c \in Int
  BY ConstantsAssumption DEF Cursors
<1> SUFFICES ASSUME NEW m \in Messages, base'[i] < m, m <= (c + 1) - 1 PROVE Handled(i, m)'
  BY DEF Covered
<1>2. m \in Int
  BY MessageIsHistoryId
<1>3. CASE m = c
  BY <1>3
<1>4. CASE m # c
  BY <1>1, <1>2, <1>4 DEF Covered
<1> QED BY <1>3, <1>4

\* The worker goes from its message, now handled, to the next one.
LEMMA VisitCovers ==
  ASSUME TypeOK, Stages, Grows, NEW s \in Workers, WorkerCovered(s), row' = row,
         pc[s] \in {"message", "push"}, pc'[s] = "message", acct' = acct, NextMessage(s),
         acct[s].id = row.id /\ row # NoRow => <<acct[s].id, cur[s]>> \in records' \cup dropped' \cup skipped'
  PROVE  WorkerCovered(s)'
<1> SUFFICES ASSUME row # NoRow, acct[s].id = row.id PROVE WorkerCovered(s)'
  BY DEF WorkerCovered
<1>1. Covered(row.id, acct[s].hid) /\ Covered(row.id, cur[s] - 1)
  BY DEF WorkerCovered, HoldsRow
<1> PICK c \in Cursors : c = cur[s]
  BY DEF TypeOK
<1> PICK i, x : i = row.id /\ x = acct[s].hid
  OBVIOUS
<1>2. Covered(i, x)' /\ Covered(i, c - 1)'
  BY <1>1, CoveredGrows
<1>3. Handled(i, c)'
  BY DEF Handled, Examined
<1>4. Covered(i, (c + 1) - 1)'
  BY <1>2, <1>3, CoverNextPrimed
<1>5. cur'[s] = c + 1
  BY DEF NextMessage, TypeOK
<1> QED BY <1>2, <1>4, <1>5 DEF WorkerCovered

\* Every step of the system keeps the watermarks covered.
LEMMA CoverInvStep == TypeInv /\ IdsDrawn /\ CoverInv /\ [Next]_vars => CoverInv'
<1> SUFFICES ASSUME TypeInv, IdsDrawn, CoverInv, [Next]_vars PROVE CoverInv'
  OBVIOUS
<1> USE DEF locals, store, google, history, marks
<1>a. Syncers \subseteq Workers /\ Renewers \subseteq Workers /\ Handlers \subseteq Workers
  BY DEF Workers
<1>b. TypeOK /\ Stages /\ RowCovered /\ WorkersCovered /\ PushIsBacked
  BY DEF TypeInv, CoverInv
<1>c. \A w \in Workers : WorkerCovered(w)
  BY <1>b DEF WorkersCovered
<1>d. /\ row.id = 0 => row = NoRow
      /\ \A w \in Workers : acct[w].id = 0 => acct[w] = NoRow
      /\ row = NoRow => row.id = 0
  BY <1>b, RowTypes DEF TypeOK
<1>1. ASSUME NEW s \in Syncers, SyncStart(s) PROVE CoverInv'
  <2>1. Grows /\ row' = row /\ pushed' = pushed
    BY <1>1 DEF SyncStart, Begin, Grows
  <2>2. \A v \in Workers \ {s} : pc'[v] = pc[v] /\ acct'[v] = acct[v] /\ cur'[v] = cur[v]
    BY <1>1, <1>b DEF SyncStart, Begin, Goto, TypeOK
  <2>3. WorkerCovered(s)'
    BY <1>1, <1>a, <1>b, <2>1, CoveredGrows DEF SyncStart, Begin, Goto, WorkerCovered, HoldsRow, RowCovered, TypeOK
  <2> QED BY <1>a, <2>1, <2>2, <2>3, QuietStep
<1>2. ASSUME NEW s \in Syncers, SyncSettings(s) PROVE CoverInv'
  <2>1. Grows /\ row' = row /\ pushed' = pushed
    BY <1>2 DEF SyncSettings, Begin, Grows
  <2>2. \A v \in Workers \ {s} : pc'[v] = pc[v] /\ acct'[v] = acct[v] /\ cur'[v] = cur[v]
    BY <1>2, <1>b DEF SyncSettings, ContinueIf, End, Goto, TypeOK
  <2>3. WorkerCovered(s)'
    <3>1. CASE enabled
      BY <1>2, <1>a, <1>b, <1>c, <2>1, <3>1, CoveredGrows
        DEF SyncSettings, ContinueIf, Goto, WorkerCovered, HoldsRow, TypeOK
    <3>2. CASE ~enabled
      <4>1. End(s)
        BY <1>2, <3>2 DEF SyncSettings, ContinueIf
      <4> QED BY <1>a, <1>b, <4>1, EndCovers
    <3> QED BY <3>1, <3>2
  <2> QED BY <1>a, <2>1, <2>2, <2>3, QuietStep
<1>3. ASSUME NEW s \in Syncers, SyncListed(s) PROVE CoverInv'
  <2>1. Grows /\ row' = row /\ pushed' = pushed
    BY <1>3 DEF SyncListed, Begin, Grows
  <2>2. \A v \in Workers \ {s} : pc'[v] = pc[v] /\ acct'[v] = acct[v] /\ cur'[v] = cur[v]
    BY <1>3, <1>b DEF SyncListed, Goto, TypeOK
  <2>3. WorkerCovered(s)'
    <3> SUFFICES ASSUME row # NoRow, acct[s].id = row.id PROVE WorkerCovered(s)'
      BY <1>3, <2>1 DEF SyncListed, WorkerCovered
    <3>1. acct[s].hid \in Int
      BY <1>a, <1>b, <1>3, RowTypes, MessageIsHistoryId DEF Stages, SyncListed
    <3>2. Covered(row.id, acct[s].hid)
      BY <1>3, <1>a, <1>c DEF SyncListed, WorkerCovered, HoldsRow
    <3> PICK c \in Int : c = acct[s].hid
      BY <3>1
    <3>3. Covered(row.id, c)'
      BY <2>1, <3>2, CoveredGrows
    <3>4. cur'[s] - 1 = c /\ acct'[s].hid = c /\ pc'[s] = "message"
      BY <1>3, <1>a, <1>b DEF SyncListed, Goto, TypeOK
    <3> QED BY <2>1, <3>3, <3>4 DEF WorkerCovered
  <2> QED BY <1>a, <2>1, <2>2, <2>3, QuietStep
<1>4. ASSUME NEW s \in Syncers, SyncFilters(s) PROVE CoverInv'
  <2>1. Grows /\ row' = row /\ pushed' = pushed
    BY <1>4 DEF SyncFilters, Grows
  <2>2. \A v \in Workers \ {s} : pc'[v] = pc[v] /\ acct'[v] = acct[v] /\ cur'[v] = cur[v]
    BY <1>4, <1>b DEF SyncFilters, NextMessage, Goto, TypeOK
  <2>3. /\ pc[s] \in {"message", "push"} /\ pc'[s] = "message"
        /\ acct' = acct /\ NextMessage(s)
    BY <1>a, <1>b, <1>4 DEF SyncFilters, AtMessage, Goto, TypeOK
  <2>4. acct[s].id = row.id /\ row # NoRow => <<acct[s].id, cur[s]>> \in records' \cup dropped' \cup skipped'
    BY <1>4, <2>3 DEF SyncFilters, Msg
  <2>5. WorkerCovered(s)'
    BY <1>a, <1>b, <1>c, <2>1, <2>3, <2>4, VisitCovers
  <2> QED BY <1>a, <2>1, <2>2, <2>5, QuietStep
<1>5. ASSUME NEW s \in Syncers, SyncStoresQuietly(s) PROVE CoverInv'
  <2>1. Grows /\ row' = row /\ pushed' = pushed
    BY <1>5 DEF SyncStoresQuietly, Grows
  <2>2. \A v \in Workers \ {s} : pc'[v] = pc[v] /\ acct'[v] = acct[v] /\ cur'[v] = cur[v]
    BY <1>5, <1>b DEF SyncStoresQuietly, NextMessage, Goto, TypeOK
  <2>3. /\ pc[s] \in {"message", "push"} /\ pc'[s] = "message"
        /\ acct' = acct /\ NextMessage(s)
    BY <1>a, <1>b, <1>5 DEF SyncStoresQuietly, AtMessage, Goto, TypeOK
  <2>4. acct[s].id = row.id /\ row # NoRow => <<acct[s].id, cur[s]>> \in records' \cup dropped' \cup skipped'
    BY <1>5, <2>3 DEF SyncStoresQuietly, Msg
  <2>5. WorkerCovered(s)'
    BY <1>a, <1>b, <1>c, <2>1, <2>3, <2>4, VisitCovers
  <2> QED BY <1>a, <2>1, <2>2, <2>5, QuietStep
<1>6. ASSUME NEW s \in Syncers, SyncStores(s) PROVE CoverInv'
  <2>1. Grows /\ row' = row /\ pushed' = pushed
    BY <1>6 DEF SyncStores, Begin, Grows
  <2>2. \A v \in Workers \ {s} : pc'[v] = pc[v] /\ acct'[v] = acct[v] /\ cur'[v] = cur[v]
    BY <1>6, <1>b DEF SyncStores, Goto, TypeOK
  <2>3. WorkerCovered(s)'
    <3> SUFFICES ASSUME row # NoRow, acct[s].id = row.id PROVE WorkerCovered(s)'
      BY <1>6, <2>1 DEF SyncStores, WorkerCovered
    <3>1. Covered(row.id, acct[s].hid) /\ Covered(row.id, cur[s] - 1)
      BY <1>6, <1>a, <1>c DEF SyncStores, AtMessage, WorkerCovered, HoldsRow
    <3> PICK i, x, c : i = row.id /\ x = acct[s].hid /\ c = cur[s] - 1
      OBVIOUS
    <3>2. Covered(i, x)' /\ Covered(i, c)'
      BY <2>1, <3>1, CoveredGrows
    <3>3. Msg(s)' \in records'
      BY <1>6 DEF SyncStores, Msg
    <3>4. acct' = acct /\ cur' = cur
      BY <1>6 DEF SyncStores
    <3> QED BY <2>1, <3>2, <3>3, <3>4 DEF WorkerCovered
  <2> QED BY <1>a, <2>1, <2>2, <2>3, QuietStep
<1>7. ASSUME NEW s \in Syncers, SyncPushes(s) PROVE CoverInv'
  <2>1. Grows /\ row' = row
    BY <1>7 DEF SyncPushes, Grows
  <2>2. \A v \in Workers \ {s} : pc'[v] = pc[v] /\ acct'[v] = acct[v] /\ cur'[v] = cur[v]
    BY <1>7, <1>b DEF SyncPushes, NextMessage, Goto, TypeOK
  <2>3. /\ pc[s] \in {"message", "push"} /\ pc'[s] = "message"
        /\ acct' = acct /\ NextMessage(s)
    BY <1>a, <1>b, <1>7 DEF SyncPushes, AtMessage, Goto, TypeOK
  <2>4. acct[s].id = row.id /\ row # NoRow => <<acct[s].id, cur[s]>> \in records' \cup dropped' \cup skipped'
    BY <1>c, <1>a, <1>7, <2>3 DEF SyncPushes, WorkerCovered, Msg
  <2>5. WorkerCovered(s)'
    BY <1>a, <1>b, <1>c, <2>1, <2>3, <2>4, VisitCovers
  <2>6. RowCovered'
    BY <1>b, <2>1, CoveredGrows DEF RowCovered
  <2>7. WorkersCovered'
    BY <1>a, <1>b, <2>1, <2>2, <2>5, OneWorkerMoves
  <2>8. PushIsBacked'
    <3>1. Msg(s)[1] = row.id => Msg(s) \in records
      <4> SUFFICES ASSUME acct[s].id = row.id PROVE Msg(s) \in records
        BY DEF Msg
      <4>1. acct[s] \in Account
        BY <1>a, <1>b, <1>7 DEF SyncPushes, Stages
      <4>2. row # NoRow
        BY <4>1, RowTypes
      <4> QED BY <1>a, <1>c, <1>7, <4>2 DEF SyncPushes, WorkerCovered
    <3>2. pushed' = pushed \cup {Msg(s)} /\ records' = records
      BY <1>7 DEF SyncPushes
    <3> QED BY <1>b, <2>1, <3>1, <3>2 DEF PushIsBacked
  <2> QED BY <2>6, <2>7, <2>8 DEF CoverInv
<1>8. ASSUME NEW s \in Syncers, SyncFinish(s) PROVE CoverInv'
  <2>1. acct[s] \in Account /\ hid[s] \in Messages /\ cur[s] \in Cursors /\ cur[s] > hid[s]
    BY <1>a, <1>b, <1>8 DEF SyncFinish, Stages, TypeOK
  <2> PICK a \in Account : a = [acct[s] EXCEPT !.hid = hid[s]]
    BY <2>1, NewWatermark
  <2>2. a.id = acct[s].id /\ a.hid = hid[s] /\ Save(a) /\ End(s)
    BY <1>8, <2>1 DEF SyncFinish, Account
  <2>3. Grows /\ pushed' = pushed
    BY <1>8, <1>d, <2>2, RowTypes DEF SyncFinish, Grows, Save
  <2>4. row.id = a.id /\ row # NoRow => Covered(a.id, a.hid)
    <3> SUFFICES ASSUME row.id = a.id, row # NoRow PROVE Covered(a.id, a.hid)
      OBVIOUS
    <3>1. Covered(a.id, cur[s] - 1)
      BY <1>8, <1>a, <1>c, <2>2 DEF SyncFinish, WorkerCovered
    <3>2. cur[s] \in Int /\ hid[s] \in Int /\ hid[s] <= cur[s] - 1
      BY <2>1, MessageIsHistoryId, ConstantsAssumption DEF Cursors
    <3> QED BY <2>2, <3>1, <3>2, CoverLess
  <2>5. RowCovered'
    BY <1>b, <1>d, <2>2, <2>3, <2>4, RowTypes, SaveCovered
  <2>6. WorkerCovered(s)'
    BY <1>a, <1>b, <2>2, EndCovers
  <2>7. \A v \in Workers \ {s} : pc'[v] = pc[v] /\ acct'[v] = acct[v] /\ cur'[v] = cur[v]
    BY <1>8, <1>b DEF SyncFinish, End, Goto, TypeOK
  <2> QED BY <1>a, <2>3, <2>5, <2>6, <2>7, WriteStep
<1>9. ASSUME NEW s \in Syncers, SyncListFails(s) PROVE CoverInv'
  <2>1. Grows /\ row' = row /\ pushed' = pushed
    BY <1>9 DEF SyncListFails, Begin, Grows
  <2>2. \A v \in Workers \ {s} : pc'[v] = pc[v] /\ acct'[v] = acct[v] /\ cur'[v] = cur[v]
    BY <1>9, <1>b DEF SyncListFails, End, Goto, TypeOK
  <2>3. WorkerCovered(s)'
    <3>1. End(s)
      BY <1>9 DEF SyncListFails
    <3> QED BY <1>a, <1>b, <3>1, EndCovers
  <2> QED BY <1>a, <2>1, <2>2, <2>3, QuietStep
<1>10. ASSUME NEW s \in Syncers, SyncFetchFails(s) PROVE CoverInv'
  <2>1. Grows /\ row' = row /\ pushed' = pushed
    BY <1>10 DEF SyncFetchFails, Grows
  <2>2. \A v \in Workers \ {s} : pc'[v] = pc[v] /\ acct'[v] = acct[v] /\ cur'[v] = cur[v]
    BY <1>10, <1>b DEF SyncFetchFails, NextMessage, Goto, TypeOK
  <2>3. /\ pc[s] \in {"message", "push"} /\ pc'[s] = "message"
        /\ acct' = acct /\ NextMessage(s)
    BY <1>a, <1>b, <1>10 DEF SyncFetchFails, AtMessage, Goto, TypeOK
  <2>4. acct[s].id = row.id /\ row # NoRow => <<acct[s].id, cur[s]>> \in records' \cup dropped' \cup skipped'
    BY <1>10, <2>3 DEF SyncFetchFails, Msg
  <2>5. WorkerCovered(s)'
    BY <1>a, <1>b, <1>c, <2>1, <2>3, <2>4, VisitCovers
  <2> QED BY <1>a, <2>1, <2>2, <2>5, QuietStep
<1>11. ASSUME NEW s \in Syncers, SyncStoreFails(s) PROVE CoverInv'
  <2>1. Grows /\ row' = row /\ pushed' = pushed
    BY <1>11 DEF SyncStoreFails, Grows
  <2>2. \A v \in Workers \ {s} : pc'[v] = pc[v] /\ acct'[v] = acct[v] /\ cur'[v] = cur[v]
    BY <1>11, <1>b DEF SyncStoreFails, NextMessage, Goto, TypeOK
  <2>3. /\ pc[s] \in {"message", "push"} /\ pc'[s] = "message"
        /\ acct' = acct /\ NextMessage(s)
    BY <1>a, <1>b, <1>11 DEF SyncStoreFails, AtMessage, Goto, TypeOK
  <2>4. acct[s].id = row.id /\ row # NoRow => <<acct[s].id, cur[s]>> \in records' \cup dropped' \cup skipped'
    BY <1>11, <2>3 DEF SyncStoreFails, Msg
  <2>5. WorkerCovered(s)'
    BY <1>a, <1>b, <1>c, <2>1, <2>3, <2>4, VisitCovers
  <2> QED BY <1>a, <2>1, <2>2, <2>5, QuietStep
<1>12. ASSUME NEW s \in Syncers, SyncPushFails(s) PROVE CoverInv'
  <2>1. Grows /\ row' = row /\ pushed' = pushed
    BY <1>12 DEF SyncPushFails, Grows
  <2>2. \A v \in Workers \ {s} : pc'[v] = pc[v] /\ acct'[v] = acct[v] /\ cur'[v] = cur[v]
    BY <1>12, <1>b DEF SyncPushFails, NextMessage, Goto, TypeOK
  <2>3. /\ pc[s] \in {"message", "push"} /\ pc'[s] = "message"
        /\ acct' = acct /\ NextMessage(s)
    BY <1>a, <1>b, <1>12 DEF SyncPushFails, AtMessage, Goto, TypeOK
  <2>4. acct[s].id = row.id /\ row # NoRow => <<acct[s].id, cur[s]>> \in records' \cup dropped' \cup skipped'
    BY <1>c, <1>a, <1>12, <2>3 DEF SyncPushFails, WorkerCovered, Msg
  <2>5. WorkerCovered(s)'
    BY <1>a, <1>b, <1>c, <2>1, <2>3, <2>4, VisitCovers
  <2> QED BY <1>a, <2>1, <2>2, <2>5, QuietStep
<1>13. ASSUME NEW r \in Renewers, RenewStart(r) PROVE CoverInv'
  <2>1. Grows /\ row' = row /\ pushed' = pushed
    BY <1>13 DEF RenewStart, Begin, Grows
  <2>2. \A v \in Workers \ {r} : pc'[v] = pc[v] /\ acct'[v] = acct[v] /\ cur'[v] = cur[v]
    BY <1>13, <1>b DEF RenewStart, Begin, Goto, TypeOK
  <2>3. WorkerCovered(r)'
    BY <1>13, <1>a, <1>b, <2>1, CoveredGrows DEF RenewStart, Begin, Goto, WorkerCovered, HoldsRow, RowCovered, TypeOK
  <2> QED BY <1>a, <2>1, <2>2, <2>3, QuietStep
<1>14. ASSUME NEW w \in Workers, WatchCalled(w) PROVE CoverInv'
  <2>1. Grows /\ row' = row /\ pushed' = pushed
    BY <1>14 DEF WatchCalled, Begin, Grows
  <2>2. \A v \in Workers \ {w} : pc'[v] = pc[v] /\ acct'[v] = acct[v] /\ cur'[v] = cur[v]
    BY <1>14, <1>b DEF WatchCalled, Goto, TypeOK
  <2>3. WorkerCovered(w)'
    BY <1>14, <1>b DEF WatchCalled, Goto, WorkerCovered, HoldsRow, TypeOK
  <2> QED BY <1>a, <2>1, <2>2, <2>3, QuietStep
<1>15. ASSUME NEW w \in Workers, WatchFails(w) PROVE CoverInv'
  <2>1. Grows /\ row' = row /\ pushed' = pushed
    BY <1>15 DEF WatchFails, Begin, Grows
  <2>2. \A v \in Workers \ {w} : pc'[v] = pc[v] /\ acct'[v] = acct[v] /\ cur'[v] = cur[v]
    BY <1>15, <1>b DEF WatchFails, End, Goto, TypeOK
  <2>3. WorkerCovered(w)'
    <3>1. End(w)
      BY <1>15 DEF WatchFails
    <3> QED BY <1>a, <1>b, <3>1, EndCovers
  <2> QED BY <1>a, <2>1, <2>2, <2>3, QuietStep
<1>16. ASSUME NEW w \in Workers, WatchSaved(w) PROVE CoverInv'
  <2>1. acct[w] \in Account /\ Save(acct[w]) /\ JumpTo(acct[w])
    BY <1>a, <1>b, <1>16 DEF WatchSaved, Stages
  <2>2. Grows /\ pushed' = pushed
    BY <1>16, <1>d, <2>1, RowTypes DEF WatchSaved, Grows, Save, JumpTo
  <2> PICK a \in Account : a = acct[w]
    BY <2>1
  <2>3. row.id = a.id => row' = a /\ Covered(a.id, a.hid)'
    BY <1>b, <2>1, <2>2, JumpCovers DEF Save
  <2>4. RowCovered'
    <3>1. CASE row.id = a.id
      BY <2>3, <3>1 DEF RowCovered
    <3>2. CASE row.id # a.id
      BY <1>b, <2>1, <2>2, <3>2, CoveredGrows DEF Save, RowCovered
    <3> QED BY <3>1, <3>2
  <2>5. WorkerCovered(w)'
    <3>1. End(w)
      BY <1>16 DEF WatchSaved
    <3> QED BY <1>a, <1>b, <3>1, EndCovers
  <2>6. \A v \in Workers \ {w} : pc'[v] = pc[v] /\ acct'[v] = acct[v] /\ cur'[v] = cur[v]
    BY <1>16, <1>b DEF WatchSaved, End, Goto, TypeOK
  <2> QED BY <1>a, <2>2, <2>4, <2>5, <2>6, WriteStep
<1>17. ASSUME NEW h \in Handlers, NEW want \in BOOLEAN, ToggleRead(h, want) PROVE CoverInv'
  <2>1. Grows /\ row' = row /\ pushed' = pushed
    BY <1>17 DEF ToggleRead, Begin, Grows
  <2>2. \A v \in Workers \ {h} : pc'[v] = pc[v] /\ acct'[v] = acct[v] /\ cur'[v] = cur[v]
    BY <1>17, <1>b DEF ToggleRead, Begin, Goto, TypeOK
  <2>3. WorkerCovered(h)'
    <3>1. acct'[h] = [row EXCEPT !.notif = want] /\ pc'[h] = "toggle" /\ row \in Account
      BY <1>17, <1>a, <1>b DEF ToggleRead, Begin, Goto, TypeOK
    <3>2. acct'[h].hid = row.hid
      BY <3>1 DEF Account
    <3> PICK x : x = row.hid
      OBVIOUS
    <3>3. Covered(row.id, x)'
      BY <1>b, <2>1, <3>1, RowTypes, CoveredGrows DEF RowCovered
    <3> QED BY <2>1, <3>1, <3>2, <3>3 DEF WorkerCovered
  <2> QED BY <1>a, <2>1, <2>2, <2>3, QuietStep
<1>18. ASSUME NEW h \in Handlers, ToggleWrite(h) PROVE CoverInv'
  <2>1. acct[h] \in Account /\ pc[h] = "toggle" /\ Save(acct[h])
    BY <1>a, <1>b, <1>18 DEF ToggleWrite, Stages
  <2>2. Grows /\ pushed' = pushed
    BY <1>18, <1>d, <2>1, RowTypes DEF ToggleWrite, Grows, Save
  <2>3. row.id = acct[h].id /\ row # NoRow => Covered(acct[h].id, acct[h].hid)
    BY <1>a, <1>c, <2>1 DEF WorkerCovered, HoldsRow
  <2>4. RowCovered'
    BY <1>a, <1>b, <1>d, <2>1, <2>2, <2>3, SaveCovered
  <2>5. WorkerCovered(h)'
    <3>1. CASE row.id = acct[h].id /\ acct[h].notif /\ Topic
      BY <1>18, <1>a, <1>b, <2>1, <2>4, <3>1
        DEF ToggleWrite, ContinueIf, Goto, Save, WorkerCovered, RowCovered, TypeOK
    <3>2. CASE ~(row.id = acct[h].id /\ acct[h].notif /\ Topic)
      <4>1. End(h)
        BY <1>18, <3>2 DEF ToggleWrite, ContinueIf
      <4> QED BY <1>a, <1>b, <4>1, EndCovers
    <3> QED BY <3>1, <3>2
  <2>6. \A v \in Workers \ {h} : pc'[v] = pc[v] /\ acct'[v] = acct[v] /\ cur'[v] = cur[v]
    BY <1>18, <1>b DEF ToggleWrite, ContinueIf, End, Goto, TypeOK
  <2> QED BY <1>a, <2>2, <2>4, <2>5, <2>6, WriteStep
<1>19. ASSUME NEW h \in Handlers, UnlinkRead(h) PROVE CoverInv'
  <2>1. Grows /\ row' = row /\ pushed' = pushed
    BY <1>19 DEF UnlinkRead, Begin, Grows
  <2>2. \A v \in Workers \ {h} : pc'[v] = pc[v] /\ acct'[v] = acct[v] /\ cur'[v] = cur[v]
    BY <1>19, <1>b DEF UnlinkRead, Begin, Goto, TypeOK
  <2>3. WorkerCovered(h)'
    BY <1>19, <1>a, <1>b, <2>1, CoveredGrows DEF UnlinkRead, Begin, Goto, WorkerCovered, HoldsRow, RowCovered, TypeOK
  <2> QED BY <1>a, <2>1, <2>2, <2>3, QuietStep
<1>20. ASSUME NEW h \in Handlers, UnlinkDelete(h) PROVE CoverInv'
  <2>1. CASE row.id = acct[h].id
    <3>1. row' = NoRow /\ pushed' = pushed
      BY <1>20, <2>1 DEF UnlinkDelete
    <3>2. PushIsBacked'
      BY <1>b, <3>1, RowTypes, IdTypes DEF PushIsBacked, TypeOK
    <3> QED BY <3>1, <3>2 DEF CoverInv, RowCovered, WorkersCovered, WorkerCovered
  <2>2. CASE row.id # acct[h].id
    <3>1. Grows /\ row' = row /\ pushed' = pushed /\ End(h)
      BY <1>20, <2>2 DEF UnlinkDelete, Grows
    <3>2. WorkerCovered(h)'
      BY <1>a, <1>b, <3>1, EndCovers
    <3>3. \A v \in Workers \ {h} : pc'[v] = pc[v] /\ acct'[v] = acct[v] /\ cur'[v] = cur[v]
      BY <1>b, <3>1 DEF End, Goto, TypeOK
    <3> QED BY <1>a, <3>1, <3>2, <3>3, QuietStep
  <2> QED BY <2>1, <2>2
<1>21. ASSUME NEW h \in Handlers, LinkProfile(h) PROVE CoverInv'
  <2>1. Grows /\ row' = row /\ pushed' = pushed
    BY <1>21 DEF LinkProfile, Begin, Grows
  <2>2. \A v \in Workers \ {h} : pc'[v] = pc[v] /\ acct'[v] = acct[v] /\ cur'[v] = cur[v]
    BY <1>21, <1>b DEF LinkProfile, Goto, TypeOK
  <2>3. WorkerCovered(h)'
    BY <1>21, <1>a, <1>b DEF LinkProfile, Goto, WorkerCovered, HoldsRow, TypeOK
  <2> QED BY <1>a, <2>1, <2>2, <2>3, QuietStep
<1>22. ASSUME NEW h \in Handlers, LinkLookup(h) PROVE CoverInv'
  <2>1. Grows /\ row' = row /\ pushed' = pushed
    BY <1>22 DEF LinkLookup, Begin, Grows
  <2>2. \A v \in Workers \ {h} : pc'[v] = pc[v] /\ acct'[v] = acct[v] /\ cur'[v] = cur[v]
    BY <1>22, <1>b DEF LinkLookup, Goto, TypeOK
  <2>3. WorkerCovered(h)'
    <3>1. pc'[h] \in {"create", "relink"}
      BY <1>22, <1>a, <1>b DEF LinkLookup, Goto, TypeOK
    <3> QED BY <3>1 DEF WorkerCovered, HoldsRow
  <2> QED BY <1>a, <2>1, <2>2, <2>3, QuietStep
<1>23. ASSUME NEW h \in Handlers, LinkUpdate(h) PROVE CoverInv'
  <2>1. acct[h] \in Account /\ Save(acct[h]) /\ JumpTo(acct[h])
    BY <1>a, <1>b, <1>23 DEF LinkUpdate, Stages
  <2>2. Grows /\ pushed' = pushed
    BY <1>23, <1>d, <2>1, RowTypes DEF LinkUpdate, Grows, Save, JumpTo
  <2> PICK a \in Account : a = acct[h]
    BY <2>1
  <2>3. row.id = a.id => row' = a /\ Covered(a.id, a.hid)'
    BY <1>b, <2>1, <2>2, JumpCovers DEF Save
  <2>4. RowCovered'
    <3>1. CASE row.id = a.id
      BY <2>3, <3>1 DEF RowCovered
    <3>2. CASE row.id # a.id
      BY <1>b, <2>1, <2>2, <3>2, CoveredGrows DEF Save, RowCovered
    <3> QED BY <3>1, <3>2
  <2>5. WorkerCovered(h)'
    <3>1. CASE row.id = acct[h].id /\ Topic
      BY <1>23, <1>a, <1>b, <2>1, <2>4, <3>1
        DEF LinkUpdate, ContinueIf, Goto, Save, WorkerCovered, RowCovered, TypeOK
    <3>2. CASE ~(row.id = acct[h].id /\ Topic)
      <4>1. End(h)
        BY <1>23, <3>2 DEF LinkUpdate, ContinueIf
      <4> QED BY <1>a, <1>b, <4>1, EndCovers
    <3> QED BY <3>1, <3>2
  <2>6. \A v \in Workers \ {h} : pc'[v] = pc[v] /\ acct'[v] = acct[v] /\ cur'[v] = cur[v]
    BY <1>23, <1>b DEF LinkUpdate, ContinueIf, End, Goto, TypeOK
  <2> QED BY <1>a, <2>2, <2>4, <2>5, <2>6, WriteStep
<1>24. ASSUME NEW h \in Handlers, LinkCreate(h) PROVE CoverInv'
  <2>1. /\ nextId \in Ids /\ row'.id = nextId /\ row'.hid = hid[h] /\ row' # NoRow
        /\ base'[nextId] = hid[h] /\ hid[h] \in Messages
        /\ row = NoRow /\ pushed' = pushed
    BY <1>a, <1>b, <1>24, DrawnId, IdTypes, RowTypes DEF LinkCreate, TypeOK, Stages
  <2>3. RowCovered'
    BY <2>1, MessageIsHistoryId DEF RowCovered, Covered
  <2>4. ASSUME NEW v \in Workers PROVE WorkerCovered(v)'
    <3>1. CASE v # h \/ ~Topic
      <4>1. acct'[v].id # nextId
        BY <1>a, <1>b, <1>24, <3>1, <2>1, IdTypes, RowTypes DEF LinkCreate, End, IdsDrawn, TypeOK
      <4> QED BY <2>1, <4>1 DEF WorkerCovered
    <3>2. CASE v = h /\ Topic
      BY <1>a, <1>b, <1>24, <2>1, <2>3, <3>2 DEF LinkCreate, Goto, WorkerCovered, RowCovered, TypeOK
    <3> QED BY <3>1, <3>2
  <2>5. PushIsBacked'
    BY <2>1, IdTypes DEF PushIsBacked, IdsDrawn
  <2> QED BY <2>3, <2>4, <2>5 DEF CoverInv, WorkersCovered
<1>25. ASSUME NEW h \in Handlers, LinkRefused(h) PROVE CoverInv'
  <2>1. Grows /\ row' = row /\ pushed' = pushed
    BY <1>25 DEF LinkRefused, Begin, Grows
  <2>2. \A v \in Workers \ {h} : pc'[v] = pc[v] /\ acct'[v] = acct[v] /\ cur'[v] = cur[v]
    BY <1>25, <1>b DEF LinkRefused, End, Goto, TypeOK
  <2>3. WorkerCovered(h)'
    <3>1. End(h)
      BY <1>25 DEF LinkRefused
    <3> QED BY <1>a, <1>b, <3>1, EndCovers
  <2> QED BY <1>a, <2>1, <2>2, <2>3, QuietStep
<1>26. ASSUME NEW h \in Handlers, SetEnabled(h) PROVE CoverInv'
  <2>1. Grows /\ row' = row /\ pushed' = pushed /\ pc' = pc /\ acct' = acct /\ cur' = cur
    BY <1>26 DEF SetEnabled, Grows
  <2>2. WorkerCovered(h)'
    BY <1>a, <1>c, <2>1, CoveredGrows DEF WorkerCovered, Grows, Msg
  <2> QED BY <1>a, <2>1, <2>2, QuietStep
<1>27. ASSUME NEW w \in Workers, PersistTokens(w) PROVE CoverInv'
  <2>1. acct[w] \in Account /\ pc[w] \in HoldsRow /\ (Save(acct[w]) \/ row' = row)
    BY <1>b, <1>27 DEF PersistTokens, AtMessage, Stages, HoldsRow
  <2>2. Grows /\ pushed' = pushed /\ pc' = pc /\ acct' = acct /\ cur' = cur
    BY <1>27, <1>d, <2>1, RowTypes DEF PersistTokens, Grows, Save
  <2>3. row.id = acct[w].id /\ row # NoRow => Covered(acct[w].id, acct[w].hid)
    BY <1>c, <2>1 DEF WorkerCovered
  <2>4. WorkerCovered(w)'
    BY <1>c, <2>2, CoveredGrows DEF WorkerCovered, Grows, Msg
  <2>5. CASE Save(acct[w])
    <3>1. RowCovered'
      BY <1>b, <1>d, <2>2, <2>3, <2>5, SaveCovered
    <3> QED BY <2>2, <2>4, <3>1, WriteStep
  <2>6. CASE row' = row
    BY <2>2, <2>4, <2>6, QuietStep
  <2> QED BY <2>1, <2>5, <2>6
<1>28. CASE MailArrives
  <2>1. Grows /\ row' = row /\ pushed' = pushed /\ pc' = pc /\ acct' = acct /\ cur' = cur
    BY <1>28 DEF MailArrives, Grows
  <2>2. \A v \in Workers : WorkerCovered(v)'
    BY <1>c, <2>1, CoveredGrows DEF WorkerCovered, Grows, Msg
  <2>3. RowCovered' /\ PushIsBacked'
    BY <1>b, <2>1, CoveredGrows DEF RowCovered, PushIsBacked, Grows
  <2> QED BY <2>2, <2>3 DEF CoverInv, WorkersCovered
<1>29. CASE WatchRunsLow
  <2>1. Grows /\ row' = row /\ pushed' = pushed /\ pc' = pc /\ acct' = acct /\ cur' = cur
    BY <1>29 DEF WatchRunsLow, Grows
  <2>2. \A v \in Workers : WorkerCovered(v)'
    BY <1>c, <2>1, CoveredGrows DEF WorkerCovered, Grows, Msg
  <2>3. RowCovered' /\ PushIsBacked'
    BY <1>b, <2>1, CoveredGrows DEF RowCovered, PushIsBacked, Grows
  <2> QED BY <2>2, <2>3 DEF CoverInv, WorkersCovered
<1>30. CASE UNCHANGED vars
  <2>1. Grows /\ row' = row /\ pushed' = pushed /\ pc' = pc /\ acct' = acct /\ cur' = cur
    BY <1>30 DEF vars, Grows
  <2>2. \A v \in Workers : WorkerCovered(v)'
    BY <1>c, <2>1, CoveredGrows DEF WorkerCovered, Grows, Msg
  <2>3. RowCovered' /\ PushIsBacked'
    BY <1>b, <2>1, CoveredGrows DEF RowCovered, PushIsBacked, Grows
  <2> QED BY <2>2, <2>3 DEF CoverInv, WorkersCovered
<1>31. CASE Crash
  <2>1. Grows /\ row' = row /\ pushed' = pushed
    BY <1>31 DEF Crash, Grows
  <2>2. \A v \in Workers : WorkerCovered(v)'
    BY <1>31 DEF Crash, WorkerCovered, HoldsRow
  <2>3. RowCovered' /\ PushIsBacked'
    BY <1>b, <2>1, CoveredGrows DEF RowCovered, PushIsBacked, Grows
  <2> QED BY <2>2, <2>3 DEF CoverInv, WorkersCovered
<1>32. ASSUME NEW s \in Syncers, SyncSaveFails(s) PROVE CoverInv'
  <2>1. Grows /\ row' = row /\ pushed' = pushed /\ End(s)
    BY <1>32 DEF SyncSaveFails, Grows
  <2>2. \A v \in Workers \ {s} : pc'[v] = pc[v] /\ acct'[v] = acct[v] /\ cur'[v] = cur[v]
    BY <1>b, <2>1 DEF End, Goto, TypeOK
  <2>3. WorkerCovered(s)'
    BY <1>a, <1>b, <2>1, EndCovers
  <2> QED BY <1>a, <2>1, <2>2, <2>3, QuietStep
<1>33. ASSUME NEW w \in Workers, StatementFails(w) PROVE CoverInv'
  <2>1. Grows /\ row' = row /\ pushed' = pushed /\ End(w)
    BY <1>33 DEF StatementFails, Grows
  <2>2. \A v \in Workers \ {w} : pc'[v] = pc[v] /\ acct'[v] = acct[v] /\ cur'[v] = cur[v]
    BY <1>b, <2>1 DEF End, Goto, TypeOK
  <2>3. WorkerCovered(w)'
    BY <1>a, <1>b, <2>1, EndCovers
  <2> QED BY <1>a, <2>1, <2>2, <2>3, QuietStep
<1> QED
  BY <1>1, <1>2, <1>3, <1>4, <1>5, <1>6, <1>7, <1>8, <1>9, <1>10, <1>11, <1>12, <1>13, <1>14, <1>15, <1>16, <1>17, <1>18, <1>19, <1>20, <1>21, <1>22, <1>23, <1>24, <1>25, <1>26, <1>27, <1>28, <1>29, <1>30, <1>31, <1>32, <1>33
  DEF Next, SyncStep, SyncFault, WatchStep, HandlerStep, Workers

\* The inductive invariant holds in every reachable state.
THEOREM InductiveInvariant == Spec => []IInv
<1>1. Init => IInv
  BY InitTypeInv, InitIdsDrawn, InitCoverInv DEF IInv
<1>2. IInv /\ [Next]_vars => IInv'
  BY TypeInvStep, IdsDrawnStep, CoverInvStep DEF IInv
<1> QED
  BY <1>1, <1>2, PTL DEF Spec

\* Whatever stale rows the workers write back, every message between the link and
\* the watermark was stored, given up on by a sync, or passed by a jump of the
\* watermark to Google's current id.
THEOREM MessagesAccountedFor == Spec => []NoUnvisitedMessage
<1>1. IInv => NoUnvisitedMessage
  BY DEF IInv, CoverInv, RowCovered, Covered, NoUnvisitedMessage
<1> QED BY <1>1, InductiveInvariant, PTL

\* A sync that outlives its account leaves no record behind.
THEOREM NoOrphanRecords == Spec => []RecordsOfLiveAccount
<1>1. IInv => RecordsOfLiveAccount
  BY DEF IInv, IdsDrawn, RecordsOfLiveAccount
<1> QED BY <1>1, InductiveInvariant, PTL

\* What was pushed for the linked account is in its list of notifications.
THEOREM PushesAreBacked == Spec => []PushIsBacked
<1>1. IInv => PushIsBacked
  BY DEF IInv, CoverInv
<1> QED BY <1>1, InductiveInvariant, PTL

(***************************************************************************)
(* Unlink                                                                  *)
(***************************************************************************)
LEMMA IdStep == TypeInv /\ [Next]_vars => row'.id \in {row.id, 0, nextId}
<1> SUFFICES ASSUME TypeInv, [Next]_vars PROVE row'.id \in {row.id, 0, nextId}
  OBVIOUS
<1> USE DEF store, locals, google
<1>1. CASE row' = row
  BY <1>1
<1>2. ASSUME NEW w \in Workers, PersistTokens(w) \/ WatchSaved(w) \/ ToggleWrite(w) \/ LinkUpdate(w)
      PROVE  row'.id = row.id
  BY <1>2 DEF PersistTokens, WatchSaved, ToggleWrite, LinkUpdate, Save
<1>3. ASSUME NEW s \in Workers, SyncFinish(s) PROVE row'.id = row.id
  <2>1. acct[s] \in Account
    BY <1>3 DEF SyncFinish, TypeInv, Stages
  <2>2. [acct[s] EXCEPT !.hid = hid[s]].id = acct[s].id
    BY <2>1 DEF Account
  <2> QED BY <1>3, <2>2 DEF SyncFinish, Save
<1>4. ASSUME NEW h \in Workers, UnlinkDelete(h) PROVE row'.id \in {row.id, 0}
  BY <1>4, RowTypes DEF UnlinkDelete
<1>5. ASSUME NEW h \in Workers, LinkCreate(h) PROVE row'.id = nextId
  BY <1>5 DEF LinkCreate
<1>6. ASSUME NEW s \in Workers, SyncStep(s) \/ SyncFault(s) PROVE row' = row \/ SyncFinish(s)
  BY <1>6 DEF SyncStep, SyncFault, SyncStart, SyncSettings, SyncListed, SyncFilters,
    SyncStoresQuietly, SyncStores, SyncPushes, SyncListFails, SyncFetchFails, SyncStoreFails,
    SyncPushFails, SyncSaveFails
<1>7. ASSUME NEW w \in Workers, RenewStart(w) \/ WatchStep(w) PROVE row' = row \/ WatchSaved(w)
  BY <1>7 DEF RenewStart, WatchStep, WatchCalled, WatchFails
<1>8. ASSUME NEW h \in Workers, HandlerStep(h)
      PROVE  row' = row \/ ToggleWrite(h) \/ UnlinkDelete(h) \/ LinkUpdate(h) \/ LinkCreate(h)
                \/ WatchSaved(h)
  BY <1>7, <1>8 DEF HandlerStep, ToggleRead, UnlinkRead, LinkProfile, LinkLookup, LinkRefused,
    SetEnabled
<1>9. ASSUME \/ \E w \in Workers : StatementFails(w)
             \/ MailArrives \/ WatchRunsLow \/ Crash \/ UNCHANGED vars
      PROVE  row' = row
  BY <1>9 DEF StatementFails, MailArrives, WatchRunsLow, Crash, vars
<1> QED
  BY <1>1, <1>2, <1>3, <1>4, <1>5, <1>6, <1>7, <1>8, <1>9 DEF Next, Workers

\* Once deleted or replaced, an account never comes back under its old id.
THEOREM UnlinkStaysFinal == Spec => UnlinkIsFinal
<1>1. TypeInv /\ [Next]_vars =>
        [\A i \in Ids : i < nextId /\ row.id # i => row'.id # i]_vars
  <2> SUFFICES ASSUME TypeInv, [Next]_vars, NEW i \in Ids, i < nextId, row.id # i
               PROVE  row'.id # i
    OBVIOUS
  <2>1. nextId \in Int
    BY DEF TypeInv, TypeOK
  <2> QED BY <2>1, IdStep, IdTypes
<1>2. Spec => []TypeInv
  BY InitTypeInv, TypeInvStep, PTL DEF Spec
<1> QED BY <1>1, <1>2, PTL DEF Spec, UnlinkIsFinal

(***************************************************************************)
(* The poller alone                                                        *)
(***************************************************************************)
\* Nobody is on the way to a jump of the watermark, and none happened.
NoJump ==
  /\ skipped = {}
  /\ pc \in [Workers -> Labels \ {"save watch", "lookup", "relink", "create"}]

\* Without a Pub/Sub topic and without a relink the watermark advances only after
\* sync, as HandlePubSub's comment has it: every message at or below it was
\* visited by a sync, under any interleaving with toggles, unlinks and crashes.
THEOREM PollAdvancesOnlyAfterSync ==
  ASSUME ~Topic, "link" \notin Requests
  PROVE  Spec => []AdvanceOnlyAfterSync
<1>1. Init => NoJump
  BY DEF Init, NoJump, Labels
<1>2. NoJump /\ [Next]_vars => NoJump'
  <2> SUFFICES ASSUME NoJump, [Next]_vars PROVE NoJump'
    OBVIOUS
  <2> USE DEF NoJump, Labels, Goto, locals, history, marks
  <2>1. ASSUME NEW s \in Workers, SyncStep(s) PROVE NoJump'
    BY <2>1 DEF SyncStep, SyncStart, Begin, SyncSettings, ContinueIf, End, SyncListed,
      SyncFilters, SyncStoresQuietly, SyncStores, SyncPushes, SyncFinish
  <2>2. ASSUME NEW s \in Workers, SyncFault(s) PROVE NoJump'
    BY <2>2 DEF SyncFault, SyncListFails, End, SyncFetchFails, SyncStoreFails, SyncPushFails,
      SyncSaveFails
  <2>3. ASSUME NEW w \in Workers, RenewStart(w) \/ WatchStep(w) PROVE NoJump'
    BY <2>3 DEF RenewStart, Begin, WatchStep, WatchCalled, WatchFails, WatchSaved, End
  <2>4. ASSUME NEW h \in Workers, HandlerStep(h) PROVE NoJump'
    BY <2>3, <2>4 DEF HandlerStep, ToggleRead, Begin, ToggleWrite, ContinueIf, End, UnlinkRead,
      UnlinkDelete, LinkProfile, LinkLookup, LinkUpdate, LinkCreate, LinkRefused, SetEnabled
  <2>5. ASSUME NEW w \in Workers, PersistTokens(w) \/ StatementFails(w) PROVE NoJump'
    BY <2>5 DEF PersistTokens, StatementFails, End
  <2>6. CASE MailArrives \/ WatchRunsLow \/ Crash \/ UNCHANGED vars
    BY <2>6 DEF MailArrives, WatchRunsLow, Crash, vars
  <2> QED
    BY <2>1, <2>2, <2>3, <2>4, <2>5, <2>6 DEF Next, Workers
<1>3. IInv /\ NoJump => AdvanceOnlyAfterSync
  BY DEF IInv, CoverInv, RowCovered, Covered, Handled, NoJump, AdvanceOnlyAfterSync
<1> QED BY <1>1, <1>2, <1>3, InductiveInvariant, PTL DEF Spec

(***************************************************************************)
(* The ledger                                                              *)
(***************************************************************************)
\* No history id in the row or with a worker is ahead of the mailbox.
Behind ==
  /\ row.hid <= mail
  /\ \A w \in Workers : hid[w] <= mail /\ acct[w].hid <= mail

LEMMA InitBehind == Init => Behind
PROOF BY DEF Init, Behind, NoRow

\* Ids are carried from the row to workers and back, or come from Google as the
\* mailbox's current one.
LEMMA BehindStep == TypeInv /\ Behind /\ [Next]_vars => Behind'
<1> SUFFICES ASSUME TypeInv, Behind, [Next]_vars PROVE Behind'
  OBVIOUS
<1> USE DEF Behind, store, google, history, marks, locals
<1>a. /\ mail \in Int /\ 0 <= mail /\ NoRow.hid = 0
      /\ acct \in [Workers -> Account \cup {NoRow}] /\ hid \in [Workers -> HistoryIds]
  BY MessageIsHistoryId DEF TypeInv, TypeOK, NoRow
<1>1. ASSUME NEW w \in Workers, End(w), mail' = mail, row' = row PROVE Behind'
  BY <1>1, <1>a DEF End
<1>2. ASSUME NEW w \in Workers, End(w), mail' = mail, NEW a, a.hid <= mail, Save(a) PROVE Behind'
  BY <1>2, <1>a DEF End, Save
<1>3. ASSUME NEW s \in Workers, SyncStep(s) \/ SyncFault(s) PROVE Behind'
  <2>1. CASE SyncStart(s)
    BY <2>1 DEF SyncStart, Begin
  <2>2. CASE SyncSettings(s) \/ SyncListFails(s) \/ SyncSaveFails(s)
    BY <2>2, <1>1 DEF SyncSettings, SyncListFails, SyncSaveFails, ContinueIf
  <2>3. CASE SyncListed(s)
    BY <2>3, <1>a DEF SyncListed
  <2>4. CASE SyncFinish(s)
    <3>1. [acct[s] EXCEPT !.hid = hid[s]].hid <= mail
      BY <2>4 DEF SyncFinish, TypeInv, Stages, Account
    <3> QED BY <2>4, <3>1, <1>2 DEF SyncFinish
  <2>5. CASE \/ SyncFilters(s) \/ SyncStoresQuietly(s) \/ SyncStores(s) \/ SyncPushes(s)
             \/ SyncFetchFails(s) \/ SyncStoreFails(s) \/ SyncPushFails(s)
    BY <2>5 DEF SyncFilters, SyncStoresQuietly, SyncStores, SyncPushes, SyncFetchFails,
       SyncStoreFails, SyncPushFails
  <2> QED BY <1>3, <2>1, <2>2, <2>3, <2>4, <2>5 DEF SyncStep, SyncFault
<1>4. ASSUME NEW w \in Workers, RenewStart(w) \/ WatchStep(w) PROVE Behind'
  <2>1. CASE RenewStart(w)
    BY <2>1 DEF RenewStart, Begin
  <2>2. CASE WatchCalled(w)
    <3>1. acct[w] \in Account
      BY <2>2 DEF WatchCalled, TypeInv, Stages
    <3>2. [acct[w] EXCEPT !.hid = mail, !.exp = epoch + 1].hid = mail
      BY <3>1 DEF Account
    <3>3. acct'[w].hid = mail /\ \A v \in Workers \ {w} : acct'[v] = acct[v]
      BY <2>2, <3>2, <1>a DEF WatchCalled
    <3>4. row' = row /\ mail' = mail /\ hid' = hid
      BY <2>2 DEF WatchCalled
    <3> QED BY <3>3, <3>4, <1>a
  <2>3. CASE WatchFails(w) \/ WatchSaved(w)
    BY <2>3, <1>1, <1>2 DEF WatchFails, WatchSaved
  <2> QED BY <1>4, <2>1, <2>2, <2>3 DEF WatchStep
<1>5. ASSUME NEW h \in Workers, HandlerStep(h) PROVE Behind'
  <2>1. ASSUME NEW want \in BOOLEAN, ToggleRead(h, want) PROVE Behind'
    <3>1. [row EXCEPT !.notif = want].hid = row.hid
      BY <2>1 DEF ToggleRead, TypeInv, TypeOK, Account
    <3> QED BY <2>1, <3>1, <1>a DEF ToggleRead, Begin
  <2>2. CASE ToggleWrite(h)
    BY <2>2, <1>2 DEF ToggleWrite, ContinueIf, Save
  <2>3. CASE UnlinkRead(h)
    BY <2>3 DEF UnlinkRead, Begin
  <2>4. CASE UnlinkDelete(h)
    BY <2>4, <1>a DEF UnlinkDelete, End
  <2>5. CASE LinkProfile(h) \/ SetEnabled(h)
    BY <2>5, <1>a DEF LinkProfile, SetEnabled
  <2>6. CASE LinkLookup(h)
    BY <2>6 DEF LinkLookup
  <2>7. CASE LinkUpdate(h)
    BY <2>7, <1>2 DEF LinkUpdate, ContinueIf, Save
  <2>8. CASE LinkCreate(h)
    BY <2>8, <1>a DEF LinkCreate, End
  <2>9. CASE LinkRefused(h)
    BY <2>9, <1>1 DEF LinkRefused
  <2> QED BY <1>4, <1>5, <2>1, <2>2, <2>3, <2>4, <2>5, <2>6, <2>7, <2>8, <2>9 DEF HandlerStep
<1>6. ASSUME NEW w \in Workers, PersistTokens(w) \/ StatementFails(w) PROVE Behind'
  BY <1>6, <1>1 DEF PersistTokens, StatementFails, Save
<1>7. CASE MailArrives
  <2>1. row' = row /\ hid' = hid /\ acct' = acct /\ mail' = mail + 1
    BY <1>7 DEF MailArrives
  <2>2. \A x \in Account \cup {NoRow} : x.hid \in Int
    BY <1>a, RowTypes, MessageIsHistoryId
  <2>3. row.hid \in Int /\ \A w \in Workers : hid[w] \in Int /\ acct[w].hid \in Int
    BY <2>2 DEF TypeInv, TypeOK, HistoryIds
  <2> QED BY <1>a, <2>1, <2>3
<1>8. CASE Crash
  BY <1>8, <1>a DEF Crash
<1>9. CASE WatchRunsLow \/ UNCHANGED vars
  BY <1>9 DEF WatchRunsLow, vars
<1> QED BY <1>3, <1>4, <1>5, <1>6, <1>7, <1>8, <1>9 DEF Next, Workers

LEMMA AlwaysBehind == Spec => [](IInv /\ Behind)
<1>1. Spec => []TypeInv
  BY InitTypeInv, TypeInvStep, PTL DEF Spec
<1> QED BY <1>1, InductiveInvariant, InitBehind, BehindStep, PTL DEF Spec

\* The watermark is never ahead of the mailbox, whatever old or new value of it a
\* worker writes: the next sync asks Gmail for no history that is still to come.
THEOREM WatermarkStaysBehind == Spec => [](row.hid <= mail)
<1>1. Behind => row.hid <= mail
  BY DEF Behind
<1> QED BY <1>1, AlwaysBehind, PTL

LEMMA LedgerTypes == Ledger!Messages = Messages /\ Ledger!Ids = Ids
PROOF BY DEF Ledger!Messages, Ledger!Ids, Messages, Ids

LEMMA LedgerStutters ==
  ASSUME UNCHANGED <<row, mail, nextId, base, records, dropped, skipped, pushed>>
  PROVE  UNCHANGED Ledger!vars
PROOF BY DEF Ledger!vars

\* A row saved with a covered watermark moves the watermark, or goes nowhere.
LEMMA SaveMoves ==
  ASSUME TypeInv, NEW a \in Account, Save(a), a.hid <= mail, row.id = a.id => Covered(a.id, a.hid),
         UNCHANGED <<mail, nextId, base, records, dropped, skipped, pushed>>
  PROVE  Ledger!Next \/ UNCHANGED Ledger!vars
<1>1. CASE row.id = a.id
  <2>1. a.id # 0 /\ a.hid \in Messages /\ row' = a
    BY <1>1, RowTypes DEF Save
  <2>2. \A m \in Messages : base[row.id] < m /\ m <= a.hid => Ledger!Accounted(row.id, m)
    BY <1>1 DEF Covered, Handled, Examined, Ledger!Accounted
  <2>3. Ledger!Move(a.hid)
    BY <1>1, <2>1, <2>2, LedgerTypes DEF Ledger!Move
  <2> QED BY <2>1, <2>3, LedgerTypes DEF Ledger!Next
<1>2. CASE row.id # a.id
  BY <1>2, LedgerStutters DEF Save
<1> QED BY <1>1, <1>2

\* A row saved with an id of Google's is a jump, or goes nowhere.
LEMMA SaveJumps ==
  ASSUME TypeInv, NEW a \in Account, Save(a), JumpTo(a), a.hid <= mail,
         UNCHANGED <<mail, nextId, base, records, dropped, pushed>>
  PROVE  Ledger!Next \/ UNCHANGED Ledger!vars
<1>1. CASE row.id = a.id
  <2>1. a.id # 0 /\ a.hid \in Messages /\ row' = a
    BY <1>1, RowTypes DEF Save
  <2>2. \A k : Ledger!Accounted(row.id, k) <=> Handled(a.id, k)
    BY <1>1 DEF Handled, Examined, Ledger!Accounted
  <2>3. skipped' = skipped \cup
          {<<row.id, m>> : m \in {k \in row.hid + 1 .. a.hid : ~Ledger!Accounted(row.id, k)}}
    BY <1>1, <2>2 DEF JumpTo
  <2>4. Ledger!Jump(a.hid)
    BY <1>1, <2>1, <2>3 DEF Ledger!Jump
  <2> QED BY <2>1, <2>4, LedgerTypes DEF Ledger!Next
<1>2. CASE row.id # a.id
  BY <1>2, LedgerStutters DEF Save, JumpTo
<1> QED BY <1>1, <1>2

\* The message a syncer is at is one of the mailbox, under an id that was drawn.
LEMMA SyncerAt ==
  ASSUME IInv, Behind, NEW s \in Syncers, AtMessage(s) \/ pc[s] = "push"
  PROVE  /\ acct[s].id \in Ids /\ acct[s].id < nextId
         /\ cur[s] \in Messages /\ cur[s] <= mail
<1>1. s \in Workers /\ TypeOK /\ Stages
  BY DEF Workers, IInv, TypeInv
<1>2. acct[s] \in Account /\ hid[s] \in Messages /\ 1 <= cur[s] /\ cur[s] <= hid[s]
  BY <1>1 DEF Stages, AtMessage
<1>3. cur[s] \in Messages
  BY <1>1, <1>2, CursorIsMessage DEF TypeOK
<1>4. hid[s] <= mail /\ mail \in Int /\ hid[s] \in Int /\ cur[s] \in Int
  BY <1>1, <1>2, <1>3, MessageIsHistoryId DEF Behind, TypeOK
<1> QED BY <1>1, <1>2, <1>3, <1>4, RowTypes DEF IInv, IdsDrawn

LEMMA SyncRefines ==
  ASSUME IInv, Behind, NEW s \in Syncers, SyncStep(s) \/ SyncFault(s)
  PROVE  Ledger!Next \/ UNCHANGED Ledger!vars
<1> USE DEF store, google, history, marks
<1>a. s \in Workers /\ TypeInv /\ TypeOK /\ Stages
  BY DEF Workers, IInv, TypeInv
<1>1. CASE \/ SyncStart(s) \/ SyncSettings(s) \/ SyncListed(s)
           \/ SyncListFails(s) \/ SyncPushFails(s) \/ SyncSaveFails(s)
  BY <1>1, LedgerStutters DEF SyncStart, SyncSettings, SyncListed, SyncListFails, SyncPushFails,
     SyncSaveFails
<1>2. CASE SyncFilters(s) \/ SyncFetchFails(s) \/ SyncStoreFails(s)
  <2>1. AtMessage(s) /\ Ledger!Drop(acct[s].id, cur[s])
    BY <1>2, SyncerAt DEF SyncFilters, SyncFetchFails, SyncStoreFails, Msg, Ledger!Drop
  <2> QED BY <2>1, SyncerAt, LedgerTypes DEF Ledger!Next
<1>3. CASE SyncStoresQuietly(s) \/ SyncStores(s)
  <2>1. AtMessage(s) /\ row.id = acct[s].id
    BY <1>3 DEF SyncStoresQuietly, SyncStores, CanStore
  <2>2. Ledger!Store(cur[s])
    BY <1>3, <2>1, SyncerAt, IdTypes DEF SyncStoresQuietly, SyncStores, Msg, Ledger!Store
  <2> QED BY <2>1, <2>2, SyncerAt, LedgerTypes DEF Ledger!Next
<1>4. CASE SyncPushes(s)
  <2>1. pc[s] = "push" /\ acct[s].id \in Ids
    BY <1>4, SyncerAt DEF SyncPushes
  <2>2. acct[s].id = row.id => Msg(s) \in records
    BY <1>a, <2>1, IdTypes, RowTypes DEF IInv, CoverInv, WorkersCovered, WorkerCovered
  <2>3. Ledger!Push(acct[s].id, cur[s])
    BY <1>4, <2>2, SyncerAt DEF SyncPushes, Msg, Ledger!Push
  <2> QED BY <2>1, <2>3, SyncerAt, LedgerTypes DEF Ledger!Next
<1>5. CASE SyncFinish(s)
  <2>1. acct[s] \in Account /\ hid[s] \in Messages /\ cur[s] \in Cursors /\ cur[s] > hid[s]
    BY <1>a, <1>5 DEF SyncFinish, Stages, TypeOK
  <2> DEFINE a == [acct[s] EXCEPT !.hid = hid[s]]
  <2>2. a \in Account /\ a.id = acct[s].id /\ a.hid = hid[s]
    BY <2>1, NewWatermark
  <2>3. row.id = a.id => Covered(a.id, a.hid)
    <3> SUFFICES ASSUME row.id = acct[s].id PROVE Covered(acct[s].id, hid[s])
      BY <2>2
    <3>1. Covered(acct[s].id, cur[s] - 1)
      BY <1>a, <1>5, <2>1, RowTypes DEF SyncFinish, IInv, CoverInv, WorkersCovered, WorkerCovered
    <3>2. cur[s] \in Int /\ hid[s] \in Int /\ hid[s] <= cur[s] - 1
      BY <2>1, MessageIsHistoryId DEF Cursors
    <3> QED BY <3>1, <3>2, CoverLess
  <2>4. Save(a) /\ UNCHANGED <<mail, nextId, base, records, dropped, skipped, pushed>>
    BY <1>5 DEF SyncFinish
  <2>5. a.hid <= mail
    BY <1>a DEF Behind
  <2> HIDE DEF a
  <2> QED BY <1>a, <2>2, <2>3, <2>4, <2>5, SaveMoves
<1> QED BY <1>1, <1>2, <1>3, <1>4, <1>5 DEF SyncStep, SyncFault

\* A worker's account, where it is to be saved as it was read, is covered.
LEMMA HeldIsCovered ==
  ASSUME IInv, NEW w \in Workers, pc[w] \in HoldsRow, row.id = acct[w].id
  PROVE  Covered(acct[w].id, acct[w].hid)
<1>1. acct[w] \in Account
  BY DEF IInv, TypeInv, Stages, HoldsRow
<1> QED BY <1>1, RowTypes DEF IInv, CoverInv, WorkersCovered, WorkerCovered

LEMMA WatchRefines ==
  ASSUME IInv, Behind, NEW w \in Workers, RenewStart(w) \/ WatchStep(w)
  PROVE  Ledger!Next \/ UNCHANGED Ledger!vars
<1> USE DEF store, google, history, marks
<1>1. CASE RenewStart(w) \/ WatchCalled(w) \/ WatchFails(w)
  BY <1>1, LedgerStutters DEF RenewStart, WatchCalled, WatchFails
<1>2. CASE WatchSaved(w)
  BY <1>2, SaveJumps DEF WatchSaved, IInv, TypeInv, Stages, Behind
<1> QED BY <1>1, <1>2 DEF WatchStep

LEMMA HandlerRefines ==
  ASSUME IInv, Behind, NEW h \in Handlers, HandlerStep(h)
  PROVE  Ledger!Next \/ UNCHANGED Ledger!vars
<1> USE DEF store, google, history, marks
<1>a. h \in Workers /\ TypeInv /\ TypeOK /\ Stages /\ IdsDrawn
  BY DEF Workers, IInv, TypeInv
<1>1. CASE \/ \E want \in BOOLEAN : ToggleRead(h, want)
           \/ UnlinkRead(h) \/ LinkProfile(h) \/ LinkLookup(h) \/ LinkRefused(h) \/ SetEnabled(h)
  BY <1>1, LedgerStutters DEF ToggleRead, UnlinkRead, LinkProfile, LinkLookup, LinkRefused,
     SetEnabled
<1>2. CASE ToggleWrite(h)
  <2>1. acct[h] \in Account /\ acct[h].hid <= mail /\ pc[h] \in HoldsRow
    BY <1>a, <1>2 DEF ToggleWrite, Stages, Behind, HoldsRow
  <2> QED BY <1>a, <1>2, <2>1, HeldIsCovered, SaveMoves DEF ToggleWrite
<1>3. CASE UnlinkDelete(h)
  <2>1. CASE row.id = acct[h].id
    <3>1. row.id # 0 /\ row' = NoRow
      BY <1>a, <1>3, <2>1, RowTypes DEF UnlinkDelete, Stages
    <3>2. records' = {}
      BY <1>a, <1>3, <2>1 DEF UnlinkDelete, IdsDrawn
    <3>3. Ledger!Unlink
      BY <1>3, <3>1, <3>2 DEF UnlinkDelete, Ledger!Unlink, NoRow
    <3> QED BY <3>3 DEF Ledger!Next
  <2>2. CASE row.id # acct[h].id
    BY <1>3, <2>2, LedgerStutters DEF UnlinkDelete
  <2> QED BY <2>1, <2>2
<1>4. CASE LinkUpdate(h)
  BY <1>a, <1>4, SaveJumps DEF LinkUpdate, Stages, Behind
<1>5. CASE LinkCreate(h)
  <2>1. hid[h] \in Messages /\ hid[h] <= mail /\ nextId \in Ids
    BY <1>a, <1>5, DrawnId DEF LinkCreate, Stages, TypeOK, Behind
  <2>2. Ledger!Link(hid[h])
    BY <1>5, <2>1, LedgerTypes, RowTypes DEF LinkCreate, Ledger!Link
  <2> QED BY <2>1, <2>2, LedgerTypes DEF Ledger!Next
<1>6. CASE WatchStep(h)
  BY <1>a, <1>6, WatchRefines
<1> QED BY <1>1, <1>2, <1>3, <1>4, <1>5, <1>6 DEF HandlerStep

LEMMA LedgerStep == IInv /\ Behind /\ [Next]_vars => [Ledger!Next]_Ledger!vars
<1> SUFFICES ASSUME IInv, Behind, [Next]_vars PROVE Ledger!Next \/ UNCHANGED Ledger!vars
  OBVIOUS
<1>1. ASSUME NEW s \in Syncers, SyncStep(s) \/ SyncFault(s) PROVE Ledger!Next \/ UNCHANGED Ledger!vars
  BY <1>1, SyncRefines
<1>2. ASSUME NEW r \in Renewers, RenewStart(r) \/ WatchStep(r)
      PROVE  Ledger!Next \/ UNCHANGED Ledger!vars
  BY <1>2, WatchRefines DEF Workers
<1>3. ASSUME NEW h \in Handlers, HandlerStep(h) PROVE Ledger!Next \/ UNCHANGED Ledger!vars
  BY <1>3, HandlerRefines
<1>4. ASSUME NEW w \in Workers, PersistTokens(w) PROVE Ledger!Next \/ UNCHANGED Ledger!vars
  <2>1. acct[w] \in Account /\ pc[w] \in HoldsRow /\ acct[w].hid <= mail /\ TypeInv
    BY <1>4 DEF PersistTokens, AtMessage, IInv, TypeInv, Stages, HoldsRow, Behind
  <2>2. CASE Save(acct[w])
    BY <1>4, <2>1, <2>2, HeldIsCovered, SaveMoves DEF PersistTokens, google, history
  <2>3. CASE UNCHANGED row
    BY <1>4, <2>3, LedgerStutters DEF PersistTokens, google, history
  <2> QED BY <1>4, <2>2, <2>3 DEF PersistTokens
<1>5. CASE MailArrives
  BY <1>5 DEF MailArrives, store, history, Ledger!Next, Ledger!MailArrives
<1>6. CASE \/ \E w \in Workers : StatementFails(w)
           \/ WatchRunsLow \/ Crash \/ UNCHANGED vars
  BY <1>6, LedgerStutters DEF StatementFails, WatchRunsLow, Crash, vars, store, google, history, marks
<1> QED BY <1>1, <1>2, <1>3, <1>4, <1>5, <1>6 DEF Next

\* Whatever stale rows the goroutines write back, and wherever they fail or crash,
\* the account is a ledger of its mailbox: every step on its row, its records and
\* its pushes is one that MailboxLedger allows.
THEOREM AccountIsLedger == Spec => ImplementsLedger
<1>1. Init => Ledger!Init
  BY LedgerTypes DEF Init, Ledger!Init
<1> QED BY <1>1, AlwaysBehind, LedgerStep, PTL DEF Spec, ImplementsLedger, Ledger!Spec

(***************************************************************************)
(* What a sync has done by its end                                         *)
(***************************************************************************)
\* A sync has examined the messages between the watermark it read and its cursor,
\* wherever others have moved the row's watermark meanwhile.
Swept(s) ==
  pc[s] \in {"message", "push"} /\ acct[s].id = row.id =>
    \A m \in Messages : acct[s].hid < m /\ m < cur[s] => Examined(row.id, m)

\* What was recorded of the linked account's messages stays while it is linked.
LEMMA ExaminedStays ==
  ASSUME TypeInv, [Next]_vars, row'.id = row.id, row.id # 0
  PROVE  records \subseteq records' /\ dropped \subseteq dropped'
<1> USE DEF store, google, history, marks
<1>1. ASSUME UNCHANGED <<records, dropped>> PROVE records \subseteq records' /\ dropped \subseteq dropped'
  BY <1>1
<1>2. ASSUME NEW s \in Workers, SyncStep(s) \/ SyncFault(s)
      PROVE  records \subseteq records' /\ dropped \subseteq dropped'
  BY <1>2 DEF SyncStep, SyncFault, SyncStart, SyncSettings, SyncListed, SyncFilters,
     SyncStoresQuietly, SyncStores, SyncPushes, SyncFinish, SyncListFails, SyncFetchFails,
     SyncStoreFails, SyncPushFails, SyncSaveFails
<1>3. ASSUME NEW w \in Workers, RenewStart(w) \/ WatchStep(w) PROVE UNCHANGED <<records, dropped>>
  BY <1>3 DEF RenewStart, WatchStep, WatchCalled, WatchFails, WatchSaved
<1>4. ASSUME NEW h \in Workers, UnlinkDelete(h) PROVE UNCHANGED <<records, dropped>>
  BY <1>4, RowTypes DEF UnlinkDelete
<1>5. ASSUME NEW h \in Workers, HandlerStep(h) PROVE UNCHANGED <<records, dropped>>
  BY <1>3, <1>4, <1>5 DEF HandlerStep, ToggleRead, ToggleWrite, UnlinkRead, LinkProfile,
     LinkLookup, LinkUpdate, LinkCreate, LinkRefused, SetEnabled
<1>6. ASSUME NEW w \in Workers, PersistTokens(w) \/ StatementFails(w)
      PROVE  UNCHANGED <<records, dropped>>
  BY <1>6 DEF PersistTokens, StatementFails
<1>7. MailArrives \/ WatchRunsLow \/ Crash \/ UNCHANGED vars => UNCHANGED <<records, dropped>>
  BY DEF MailArrives, WatchRunsLow, Crash, vars
<1> QED BY <1>2, <1>3, <1>5, <1>6, <1>7 DEF Next, Workers

\* Only its own steps move a sync on.
LEMMA SyncMovesItself ==
  ASSUME TypeInv, [Next]_vars, NEW s \in Syncers, pc'[s] \in {"message", "push"}
  PROVE  \/ pc'[s] = pc[s] /\ acct'[s] = acct[s] /\ cur'[s] = cur[s]
         \/ SyncStep(s) \/ SyncFault(s)
<1> USE DEF Goto, locals
<1> DEFINE Same == pc'[s] = pc[s] /\ acct'[s] = acct[s] /\ cur'[s] = cur[s]
<1>a. s \in Workers /\ TypeOK
  BY DEF Workers, TypeInv
<1>1. ASSUME NEW w \in Workers, SyncStep(w) \/ SyncFault(w), w # s PROVE Same
  BY <1>a, <1>1 DEF TypeOK, SyncStep, SyncFault, SyncStart, Begin, SyncSettings, ContinueIf, End,
     SyncListed, SyncFilters, SyncStoresQuietly, SyncStores, SyncPushes, SyncFinish,
     SyncListFails, SyncFetchFails, SyncStoreFails, SyncPushFails, SyncSaveFails, NextMessage
<1>2. ASSUME NEW w \in Workers, RenewStart(w) \/ WatchStep(w) PROVE Same
  <2>1. CASE RenewStart(w) \/ WatchFails(w) \/ WatchSaved(w)
    BY <1>a, <2>1 DEF TypeOK, RenewStart, Begin, WatchFails, WatchSaved, End
  <2>2. CASE WatchCalled(w)
    <3>1. /\ \E a : acct' = [acct EXCEPT ![w] = a]
          /\ pc' = [pc EXCEPT ![w] = "save watch"] /\ UNCHANGED cur
      BY <2>2 DEF WatchCalled
    <3> QED BY <1>a, <3>1 DEF TypeOK
  <2> QED BY <1>2, <2>1, <2>2 DEF WatchStep
<1>3. ASSUME NEW h \in Workers, HandlerStep(h) PROVE Same
  <2>1. CASE WatchStep(h)
    BY <1>2, <2>1
  <2>2. CASE SetEnabled(h)
    BY <2>2 DEF SetEnabled
  <2>3. CASE LinkCreate(h)
    BY <1>a, <2>3 DEF TypeOK, LinkCreate, End
  <2>4. CASE \/ \E want \in BOOLEAN : ToggleRead(h, want)
             \/ ToggleWrite(h) \/ UnlinkRead(h) \/ UnlinkDelete(h)
    BY <1>a, <2>4 DEF TypeOK, ToggleRead, Begin, ToggleWrite, ContinueIf, End, UnlinkRead,
       UnlinkDelete
  <2>5. CASE LinkProfile(h) \/ LinkLookup(h) \/ LinkUpdate(h) \/ LinkRefused(h)
    BY <1>a, <2>5 DEF TypeOK, LinkProfile, LinkLookup, LinkUpdate, ContinueIf, End, LinkRefused
  <2> QED BY <1>3, <2>1, <2>2, <2>3, <2>4, <2>5 DEF HandlerStep
<1>4. ASSUME NEW w \in Workers, PersistTokens(w) \/ StatementFails(w) PROVE Same
  BY <1>a, <1>4 DEF TypeOK, PersistTokens, StatementFails, End
<1>5. ~Crash
  BY <1>a DEF Crash
<1>6. MailArrives \/ WatchRunsLow \/ UNCHANGED vars => Same
  BY DEF MailArrives, WatchRunsLow, vars
<1> QED BY <1>1, <1>2, <1>3, <1>4, <1>5, <1>6 DEF Next, Workers

\* The message a syncer leaves behind has been examined, and nothing else moves on.
LEMMA OwnStepSweeps ==
  ASSUME IInv, NEW s \in Syncers, SyncStep(s) \/ SyncFault(s), pc'[s] \in {"message", "push"}
  PROVE  /\ UNCHANGED <<row, acct>>
         /\ pc[s] \in {"list", "message", "push"}
         /\ pc[s] = "list" => cur'[s] = acct[s].hid + 1
         /\ pc[s] # "list" => \/ cur'[s] = cur[s]
                              \/ /\ cur'[s] = cur[s] + 1
                                 /\ acct[s].id = row.id => Msg(s) \in records' \cup dropped'
<1> USE DEF Goto, store
<1>a. s \in Workers /\ TypeInv /\ TypeOK /\ Stages /\ WorkerCovered(s)
  BY DEF Workers, IInv, TypeInv, CoverInv, WorkersCovered
<1>1. CASE \/ SyncStart(s) \/ SyncSettings(s) \/ SyncListFails(s)
           \/ SyncFinish(s) \/ SyncSaveFails(s)
  BY <1>a, <1>1 DEF TypeOK, SyncStart, Begin, SyncSettings, ContinueIf, End, SyncListFails,
     SyncFinish, SyncSaveFails
<1>2. CASE SyncListed(s)
  BY <1>a, <1>2 DEF TypeOK, SyncListed
<1>3. CASE SyncFilters(s) \/ SyncFetchFails(s) \/ SyncStoreFails(s) \/ SyncStoresQuietly(s)
  BY <1>a, <1>3 DEF TypeOK, SyncFilters, SyncFetchFails, SyncStoreFails, SyncStoresQuietly,
     NextMessage
<1>4. CASE SyncStores(s)
  BY <1>4 DEF SyncStores, AtMessage
<1>5. CASE SyncPushes(s) \/ SyncPushFails(s)
  <2>1. acct[s].id = row.id => Msg(s) \in records
    BY <1>a, <1>5, RowTypes DEF SyncPushes, SyncPushFails, Stages, WorkerCovered
  <2> QED BY <1>a, <1>5, <2>1 DEF TypeOK, SyncPushes, SyncPushFails, NextMessage
<1> QED BY <1>1, <1>2, <1>3, <1>4, <1>5 DEF SyncStep, SyncFault

LEMMA SweptStep ==
  ASSUME IInv, [Next]_vars, NEW s \in Syncers, Swept(s)
  PROVE  Swept(s)'
<1>a. s \in Workers /\ TypeInv /\ TypeOK /\ Stages /\ IdsDrawn
  BY DEF Workers, IInv, TypeInv
<1> SUFFICES ASSUME pc'[s] \in {"message", "push"}, acct'[s].id = row'.id,
                    NEW m \in Messages, acct'[s].hid < m, m < cur'[s]
             PROVE  Examined(row.id, m)' 
  BY DEF Swept
<1>1. ASSUME row'.id = row.id, row.id # 0, Examined(row.id, m) PROVE Examined(row.id, m)'
  BY <1>a, <1>1, ExaminedStays DEF Examined
<1>2. CASE pc'[s] = pc[s] /\ acct'[s] = acct[s] /\ cur'[s] = cur[s]
  <2>1. acct[s].id # 0 /\ acct[s].id < nextId /\ nextId \in Int
    BY <1>a, <1>2, RowTypes DEF Stages, IdsDrawn, TypeOK
  <2>2. row'.id = row.id
    BY <1>a, <1>2, <2>1, IdStep
  <2> QED BY <1>1, <1>2, <2>1, <2>2 DEF Swept
<1>3. CASE SyncStep(s) \/ SyncFault(s)
  <2>1. UNCHANGED <<row, acct>> /\ pc[s] \in {"list", "message", "push"}
    BY <1>3, OwnStepSweeps
  <2>2. acct[s] \in Account /\ row.id = acct[s].id /\ row.id # 0
    BY <1>a, <2>1, RowTypes DEF Stages
  <2>3. acct[s].hid \in Int /\ m \in Int
    BY <2>2, RowTypes, MessageIsHistoryId
  <2>4. pc[s] # "list"
    BY <1>3, <2>3, OwnStepSweeps
  <2>5. ASSUME m < cur[s] PROVE Examined(row.id, m)'
    BY <1>1, <2>1, <2>2, <2>4, <2>5 DEF Swept
  <2>6. cur[s] \in Int
    BY <1>a DEF TypeOK, Cursors
  <2>7. ASSUME cur'[s] = cur[s] + 1, Msg(s) \in records' \cup dropped', m >= cur[s]
        PROVE  Examined(row.id, m)'
    <3>1. m = cur[s]
      BY <2>3, <2>6, <2>7
    <3> QED BY <2>1, <2>7, <3>1 DEF Msg, Examined
  <2> QED BY <1>3, <2>3, <2>5, <2>6, <2>7, OwnStepSweeps
<1> QED BY <1>a, <1>2, <1>3, SyncMovesItself

\* Wherever others have moved the watermark of the row while a sync ran, the sync
\* saves a watermark whose messages it has examined itself.
THEOREM SyncsEarnTheirWatermark == Spec => SyncExaminesAll
<1> DEFINE AllSwept == \A s \in Syncers : Swept(s)
           Earned   == \A s \in Syncers : SyncFinish(s) /\ row.id = acct[s].id =>
                         \A m \in Messages : acct[s].hid < m /\ m <= hid[s] => Examined(row.id, m)
<1>1. Init => AllSwept
  BY DEF Init, Swept, Workers
<1>2. IInv /\ AllSwept /\ [Next]_vars => AllSwept'
  BY SweptStep
<1>3. IInv /\ AllSwept => Earned
  <2> SUFFICES ASSUME IInv, AllSwept, NEW s \in Syncers, SyncFinish(s), row.id = acct[s].id,
                      NEW m \in Messages, acct[s].hid < m, m <= hid[s]
               PROVE  Examined(row.id, m)
    OBVIOUS
  <2>1. s \in Workers /\ pc[s] = "message" /\ cur[s] > hid[s] /\ TypeOK
    BY DEF Workers, SyncFinish, IInv, TypeInv
  <2>2. m \in Int /\ cur[s] \in Int /\ hid[s] \in Int
    BY <2>1, MessageIsHistoryId DEF TypeOK, Cursors, HistoryIds
  <2> QED BY <2>1, <2>2 DEF Swept
<1>4. (IInv /\ AllSwept) /\ [Next]_vars => [Earned]_vars
  BY <1>3
<1> HIDE DEF AllSwept
<1>5. Spec => []AllSwept
  BY <1>1, <1>2, InductiveInvariant, PTL DEF Spec
<1> QED BY <1>4, <1>5, InductiveInvariant, PTL DEF Spec, SyncExaminesAll

(***************************************************************************)
(* One goroutine alone                                                     *)
(***************************************************************************)
\* What pushes a lone syncer has to reckon with: none above limit, unless it was cut short.
PushedUpTo(limit) == ~cut => \A p \in pushed : p[2] <= limit

\* A syncer that has had the row to itself holds it as it is.  What was pushed is of
\* the list it works through, and unless it was cut short lies behind its cursor, or
\* behind the watermark where it has no cursor.
AloneInv(s) ==
  started \subseteq {s} =>
    /\ \A w \in Workers \ {s} : pc[w] = "idle"
    /\ pc[s] \in {"idle", "settings", "list", "message", "push"}
    /\ pc[s] # "idle" => acct[s] = row
    /\ row.hid <= mail
    /\ \A p \in pushed : p[2] <= mail
    /\ pc[s] \in {"message", "push"} =>
         /\ row.hid < cur[s] /\ cur[s] <= hid[s] + 1 /\ hid[s] <= mail
         /\ \A p \in pushed : p[2] <= hid[s]
         /\ PushedUpTo(cur[s] - 1)
    /\ pc[s] \notin {"message", "push"} => PushedUpTo(row.hid)

\* What others can do without joining: nothing that touches the row or a goroutine.
Bystands(s) ==
  /\ mail <= mail'
  /\ UNCHANGED <<row, pc, acct, hid, cur, pushed, started, cut>>

LEMMA JoinsAlone ==
  ASSUME started \subseteq Workers, NEW w \in Workers, NEW s \in Workers, Joins(w), started' \subseteq {s}
  PROVE  w = s /\ started \subseteq {s} /\ cut' = cut
PROOF BY DEF Joins

\* While a syncer is alone, every step is its own, a bystander's, or a crash.
LEMMA AloneSteps ==
  ASSUME TypeInv, [Next]_vars, NEW s \in Syncers, Syncers \cap (Renewers \cup Handlers) = {},
         AloneInv(s), started' \subseteq {s}
  PROVE  /\ started \subseteq {s}
         /\ \/ SyncStep(s) \/ SyncFault(s) \/ PersistTokens(s) \/ StatementFails(s)
            \/ Crash \/ Bystands(s)
<1> USE DEF history, marks, store, google, locals
<1>a. s \in Workers /\ started \subseteq Workers /\ mail \in Int /\ s \notin Renewers \cup Handlers
  BY DEF Workers, TypeInv, TypeOK, Messages
<1>b. ASSUME started \subseteq {s}, NEW w \in Workers, w # s PROVE pc[w] = "idle"
  BY <1>b DEF AloneInv
<1>1. ASSUME NEW w \in Workers, w # s, Joins(w) PROVE FALSE
  BY <1>a, <1>1, JoinsAlone
<1>2. ASSUME NEW w \in Syncers, w # s, SyncStep(w) \/ SyncFault(w) PROVE FALSE
  <2>1. w \in Workers
    BY DEF Workers
  <2>2. ~SyncStart(w)
    BY <1>1, <1>2, <2>1 DEF SyncStart, Begin
  <2>3. started' = started /\ pc[w] # "idle"
    BY <1>2, <2>2 DEF SyncStep, SyncSettings, SyncListed, SyncFilters, SyncStoresQuietly, SyncStores,
      SyncPushes, SyncFinish, SyncFault, SyncListFails, SyncFetchFails, SyncStoreFails, SyncPushFails,
      SyncSaveFails, AtMessage
  <2> QED BY <1>b, <1>2, <2>1, <2>3
<1>3. ASSUME NEW w \in Workers, w # s, RenewStart(w) \/ WatchStep(w) PROVE FALSE
  <2>1. ~RenewStart(w)
    BY <1>1, <1>3 DEF RenewStart, Begin
  <2>2. started' = started /\ pc[w] # "idle"
    BY <1>3, <2>1 DEF WatchStep, WatchCalled, WatchFails, WatchSaved
  <2> QED BY <1>b, <1>3, <2>2
<1>4. ASSUME NEW h \in Handlers, HandlerStep(h) PROVE SetEnabled(h)
  <2>1. h \in Workers /\ h # s
    BY <1>a DEF Workers
  <2>2. ~UnlinkRead(h) /\ ~LinkProfile(h) /\ ~(\E want \in BOOLEAN : ToggleRead(h, want))
    BY <1>1, <2>1 DEF UnlinkRead, LinkProfile, ToggleRead, Begin
  <2>3. ~WatchStep(h)
    BY <1>3, <2>1
  <2>4. ASSUME ToggleWrite(h) \/ UnlinkDelete(h) \/ LinkLookup(h) \/ LinkUpdate(h) \/ LinkCreate(h)
               \/ LinkRefused(h)
        PROVE  FALSE
    <3>1. started' = started /\ pc[h] # "idle"
      BY <2>4 DEF ToggleWrite, UnlinkDelete, LinkLookup, LinkUpdate, LinkCreate, LinkRefused
    <3> QED BY <1>b, <2>1, <3>1
  <2> QED BY <1>4, <2>2, <2>3, <2>4 DEF HandlerStep
<1>5. ASSUME NEW w \in Workers, w # s, PersistTokens(w) \/ StatementFails(w) PROVE FALSE
  <2>1. started' = started /\ pc[w] # "idle"
    BY <1>5 DEF PersistTokens, StatementFails, AtMessage
  <2> QED BY <1>b, <1>5, <2>1
<1>6. \/ SyncStep(s) \/ SyncFault(s) \/ PersistTokens(s) \/ StatementFails(s)
      \/ Crash \/ Bystands(s)
  <2>1. \A h \in Handlers : SetEnabled(h) => Bystands(s)
    BY <1>a DEF SetEnabled, Bystands
  <2>2. MailArrives \/ WatchRunsLow \/ UNCHANGED vars => Bystands(s)
    BY <1>a DEF MailArrives, WatchRunsLow, vars, Bystands
  <2>3. \A w \in Workers : PersistTokens(w) \/ StatementFails(w) => w = s
    BY <1>5
  <2>4. \A r \in Renewers : ~(RenewStart(r) \/ WatchStep(r))
    BY <1>3, <1>a DEF Workers
  <2>5. \A w \in Syncers : SyncStep(w) \/ SyncFault(w) => w = s
    BY <1>2
  <2> QED BY <1>4, <2>1, <2>2, <2>3, <2>4, <2>5 DEF Next
<1>7. started \subseteq {s}
  <2>1. CASE SyncStart(s)
    BY <1>a, <2>1, JoinsAlone DEF SyncStart, Begin
  <2>2. CASE ~SyncStart(s)
    <3>1. started' = started
      BY <1>6, <2>2 DEF SyncStep, SyncSettings, SyncListed, SyncFilters, SyncStoresQuietly, SyncStores,
        SyncPushes, SyncFinish, SyncFault, SyncListFails, SyncFetchFails, SyncStoreFails, SyncPushFails,
        SyncSaveFails, PersistTokens, StatementFails, Crash, Bystands
    <3> QED BY <3>1
  <2> QED BY <2>1, <2>2
<1> QED BY <1>6, <1>7

\* Each step of the syncer or of a bystander, and a crash, leaves the syncer as
\* AloneInv has it.
LEMMA AloneInvStep ==
  ASSUME TypeInv, TypeInv', [Next]_vars, NEW s \in Syncers,
         Syncers \cap (Renewers \cup Handlers) = {}, AloneInv(s)
  PROVE  AloneInv(s)'
<1> SUFFICES ASSUME started' \subseteq {s} PROVE AloneInv(s)'
  BY DEF AloneInv
<1> USE DEF TypeInv, TypeOK, Goto, store, google, history, marks
<1>a. s \in Workers /\ started \subseteq {s}
  BY AloneSteps DEF Workers
<1>b. /\ pc[s] \in {"message", "push"} => cur[s] \in Int /\ hid[s] \in Int
      /\ mail \in Messages /\ mail \in Int /\ row.hid \in Int
      /\ \A p \in pushed : p[2] \in Int
  BY <1>a, RowTypes DEF HistoryIds, Cursors, Messages, Pairs, NoRow
<1>c. pc[s] = "push" => cur[s] <= hid[s]
  BY <1>a DEF Stages
<1>d. /\ \A w \in Workers \ {s} : pc[w] = "idle"
      /\ pc[s] # "idle" => acct[s] = row
      /\ row.hid <= mail
      /\ \A p \in pushed : p[2] <= mail
      /\ pc[s] \in {"message", "push"} =>
           /\ row.hid < cur[s] /\ cur[s] <= hid[s] + 1 /\ hid[s] <= mail
           /\ \A p \in pushed : p[2] <= hid[s]
           /\ PushedUpTo(cur[s] - 1)
      /\ pc[s] \notin {"message", "push"} => PushedUpTo(row.hid)
  BY <1>a DEF AloneInv
<1>e. ASSUME mail' = mail, \A w \in Workers \ {s} : pc'[w] = pc[w],
             pc'[s] \in {"idle", "settings", "list", "message", "push"},
             pc'[s] # "idle" => acct'[s] = row',
             row'.hid <= mail, \A p \in pushed' : p[2] <= mail,
             pc'[s] \in {"message", "push"} =>
               /\ row'.hid < cur'[s] /\ cur'[s] <= hid'[s] + 1 /\ hid'[s] <= mail
               /\ \A p \in pushed' : p[2] <= hid'[s]
               /\ ~cut' => \A p \in pushed' : p[2] <= cur'[s] - 1,
             pc'[s] \notin {"message", "push"} => (~cut' => \A p \in pushed' : p[2] <= row'.hid)
      PROVE  AloneInv(s)'
  BY <1>d, <1>e DEF AloneInv, PushedUpTo
<1>1. CASE SyncStart(s)
  <2>1. cut' = cut
    BY <1>1, <1>a, JoinsAlone DEF SyncStart, Begin
  <2> QED BY <1>1, <1>a, <1>d, <1>e, <2>1 DEF SyncStart, Begin, PushedUpTo
<1>2. CASE SyncSettings(s)
  BY <1>2, <1>a, <1>d, <1>e DEF SyncSettings, ContinueIf, End, PushedUpTo
<1>3. CASE SyncListed(s)
  BY <1>3, <1>a, <1>b, <1>d, <1>e DEF SyncListed, PushedUpTo
<1>4. CASE SyncFilters(s) \/ SyncStoresQuietly(s) \/ SyncFetchFails(s) \/ SyncStoreFails(s)
  BY <1>4, <1>a, <1>b, <1>d, <1>e DEF SyncFilters, SyncStoresQuietly, SyncFetchFails, SyncStoreFails,
    AtMessage, NextMessage, PushedUpTo
<1>5. CASE SyncStores(s)
  BY <1>5, <1>a, <1>d, <1>e DEF SyncStores, AtMessage, PushedUpTo
<1>6. CASE SyncPushes(s) \/ SyncPushFails(s)
  <2>1. pushed' \subseteq pushed \cup {Msg(s)} /\ cur'[s] = cur[s] + 1 /\ cut' = cut
    BY <1>6, <1>a DEF SyncPushes, SyncPushFails, NextMessage
  <2>2. /\ UNCHANGED <<row, mail, acct, hid>>
        /\ pc[s] = "push" /\ pc'[s] = "message"
        /\ \A w \in Workers \ {s} : pc'[w] = pc[w]
    BY <1>6, <1>a DEF SyncPushes, SyncPushFails
  <2>3. Msg(s)[2] = cur[s]
    BY DEF Msg
  <2>4. \A p \in pushed' : p[2] <= hid[s]
    BY <1>b, <1>c, <1>d, <2>1, <2>2, <2>3
  <2>5. ~cut' => \A p \in pushed' : p[2] <= cur'[s] - 1
    BY <1>b, <1>d, <2>1, <2>2, <2>3 DEF PushedUpTo
  <2>6. \A p \in pushed' : p[2] \in Int
    BY <1>b, <2>1, <2>2, <2>3
  <2> QED BY <1>b, <1>c, <1>d, <1>e, <2>1, <2>2, <2>4, <2>5, <2>6
<1>7. CASE SyncFinish(s)
  <2>1. acct[s] = row /\ acct[s] \in Account /\ pc[s] = "message" /\ mail' = mail /\ pushed' = pushed
    BY <1>7, <1>a, <1>d DEF SyncFinish, Stages
  <2>2. row'.hid = hid[s]
    BY <1>7, <2>1 DEF SyncFinish, Save, Account
  <2>3. pc'[s] = "idle" /\ \A w \in Workers \ {s} : pc'[w] = pc[w]
    BY <1>7, <1>a DEF SyncFinish, End
  <2> QED BY <1>d, <1>e, <2>1, <2>2, <2>3
<1>8. CASE SyncListFails(s) \/ StatementFails(s)
  BY <1>8, <1>a, <1>d, <1>e DEF SyncListFails, StatementFails, End, PushedUpTo
<1>9. CASE PersistTokens(s)
  <2>1. acct[s] = row
    BY <1>9, <1>d DEF PersistTokens, AtMessage
  <2>2. row' = row
    BY <1>9, <2>1 DEF PersistTokens, Save
  <2> QED BY <1>9, <1>a, <1>d, <1>e, <2>2 DEF PersistTokens, AtMessage, AloneInv, PushedUpTo
<1>10. CASE SyncSaveFails(s)
  <2>1. cut' = TRUE
    BY <1>10, <1>a DEF SyncSaveFails, CutShort
  <2> QED BY <1>10, <1>a, <1>d, <1>e, <2>1 DEF SyncSaveFails, End
<1>11. CASE Crash
  <2>1. cut' = TRUE
    BY <1>11, <1>a DEF Crash, CutShort
  <2> QED BY <1>11, <1>a, <1>d, <1>e, <2>1 DEF Crash
<1>12. CASE Bystands(s)
  <2>1. mail' \in Int /\ mail <= mail'
    BY <1>12 DEF Bystands, Messages
  <2>2. \A x \in Int : x <= mail => x <= mail'
    BY <1>b, <2>1
  <2> QED BY <1>12, <1>a, <1>b, <2>2 DEF Bystands, AloneInv, PushedUpTo
<1> QED
  BY AloneSteps, <1>1, <1>2, <1>3, <1>4, <1>5, <1>6, <1>7, <1>8, <1>9, <1>10, <1>11, <1>12
  DEF SyncStep, SyncFault

\* A syncer that has had the row to itself pushes nothing below the watermark in the
\* database, and pushes a message again only after a crash or a failed UPDATE cut it
\* short, whatever else fails.  No goroutine that syncs also renews or answers requests.
THEOREM PushesOnce ==
  ASSUME Syncers \cap (Renewers \cup Handlers) = {}
  PROVE  Spec => NoDuplicatePush
<1> DEFINE Alone == \A s \in Syncers : AloneInv(s)
           Pushes == \A s \in Syncers : started \subseteq {s} /\ SyncPushes(s) =>
                       row.hid < cur[s] /\ (Msg(s) \in pushed => cut)
<1>1. Init => Alone
  <2> SUFFICES ASSUME Init, NEW s \in Syncers PROVE AloneInv(s)
    OBVIOUS
  <2> QED BY ConstantsAssumption DEF Init, AloneInv, PushedUpTo, Workers
<1>2. TypeInv /\ TypeInv' /\ Alone /\ [Next]_vars => Alone'
  <2> SUFFICES ASSUME TypeInv, TypeInv', Alone, [Next]_vars, NEW s \in Syncers
               PROVE  AloneInv(s)'
    OBVIOUS
  <2> QED BY AloneInvStep
<1>3. TypeInv /\ Alone => Pushes
  <2> SUFFICES ASSUME TypeInv, Alone, NEW s \in Syncers, started \subseteq {s}, SyncPushes(s)
               PROVE  row.hid < cur[s] /\ (Msg(s) \in pushed => cut)
    OBVIOUS
  <2>1. pc[s] = "push" /\ cur[s] \in Int /\ Msg(s)[2] = cur[s]
    BY DEF SyncPushes, Workers, TypeInv, TypeOK, Cursors, Msg
  <2>2. row.hid < cur[s] /\ PushedUpTo(cur[s] - 1)
    BY <2>1 DEF AloneInv
  <2> QED BY <2>1, <2>2 DEF PushedUpTo
<1>4. Spec => []TypeInv
  BY InitTypeInv, TypeInvStep, PTL DEF Spec
<1>5. TypeInv /\ Alone /\ [Next]_vars => [Pushes]_vars
  BY <1>3
<1> HIDE DEF Alone
<1> QED BY <1>1, <1>2, <1>4, <1>5, PTL DEF Spec, NoDuplicatePush

=============================================================================
