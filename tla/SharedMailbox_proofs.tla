------------------------ MODULE SharedMailbox_proofs ------------------------
(***************************************************************************)
(* Deliveries to a shared mailbox, for any number of users, deliveries,    *)
(* messages and accounts.                                                  *)
(***************************************************************************)
EXTENDS SharedMailbox, TLAPS

\* Account a was drawn, is not ahead of the mailbox, and every message between its
\* creation and its watermark was visited or jumped over.
Kept(a) ==
  /\ a \in Account
  /\ a.id < nextId
  /\ a.hid <= mail
  /\ \A m \in Messages : base[a.id] < m /\ m <= a.hid => <<a.id, m>> \in accounted

RowsKept == \A u \in Users : row[u] # NoRow => row[u].user = u /\ Kept(row[u])

\* What a handler holds may be older than the row, and is kept all the same.
HeldKept == \A d \in Handlers : aim[d] # 0 => Kept(held[d]) /\ aim[d] <= mail

QueueInMail == \A h \in queue : h <= mail

Inv == TypeOK /\ RowsKept /\ HeldKept /\ QueueInMail

LEMMA Bounds == MaxHistory \in Nat \ {0} /\ MaxLinks \in Nat \ {0}
  BY MailboxAssumption

LEMMA NoRowIsNone == NoRow \notin Account /\ NoRow.id = 0 /\ ~NoRow.on
<1>1. \A a \in Account : a.id # 0
  BY Bounds DEF Account, Ids
<1> QED BY <1>1 DEF NoRow

\* An expiration that comes near changes neither account nor watermark.
LEMMA AgedRow == [NoRow EXCEPT !.fresh = FALSE] = NoRow
<1> DEFINE S == [id : {0}, on : {FALSE}, fresh : {FALSE}, grant : {FALSE}]
<1>1. NoRow \in S
  BY DEF NoRow
<1>2. \A r \in S : [r EXCEPT !.fresh = FALSE] = r
  OBVIOUS
<1> QED BY <1>1, <1>2

LEMMA AgedAccount ==
  ASSUME NEW a \in Account, NEW b, b = [a EXCEPT !.fresh = FALSE]
  PROVE  b \in Account /\ b.id = a.id /\ b.hid = a.hid /\ b.user = a.user
  BY DEF Account

\* Neither does a grant that ends.
LEMMA EndedAccount ==
  ASSUME NEW a \in Account, NEW b, b = [a EXCEPT !.grant = FALSE]
  PROVE  b \in Account /\ b.id = a.id /\ b.hid = a.hid /\ b.user = a.user
  BY DEF Account

\* What is kept stays kept while ids are drawn, mail arrives and messages are visited.
LEMMA KeptStays ==
  ASSUME TypeOK,
         nextId' \in Nat, mail' \in Nat, nextId <= nextId', mail <= mail',
         accounted \subseteq accounted',
         \A i \in Ids : i < nextId => base'[i] = base[i]
  PROVE  \A a \in Account : Kept(a) => Kept(a)'
<1> SUFFICES ASSUME NEW a \in Account, Kept(a)
             PROVE  Kept(a)'
  OBVIOUS
<1>1. a.id \in Ids /\ a.hid \in Messages
  BY DEF Account
<1>2. a.id < nextId' /\ a.hid <= mail'
  BY <1>1, Bounds DEF Kept, TypeOK, Ids, Messages
<1>3. base'[a.id] = base[a.id]
  BY <1>1 DEF Kept
<1> QED BY <1>1, <1>2, <1>3 DEF Kept

LEMMA InitInv == Init => Inv
<1> SUFFICES ASSUME Init PROVE Inv
  OBVIOUS
<1> USE DEF Init
<1>1. TypeOK
  <2>1. row \in [Users -> Account \cup {NoRow}] /\ held \in [Handlers -> Account \cup {NoRow}]
    OBVIOUS
  <2>2. 1 \in 1..MaxLinks + 1 /\ 1 \in 1..MaxHistory
    BY Bounds
  <2>3. aim \in [Handlers -> 0..MaxHistory] /\ base \in [Ids -> 0..MaxHistory]
    BY Bounds
  <2> QED BY <2>1, <2>2, <2>3 DEF TypeOK, Messages
<1>2. RowsKept /\ HeldKept /\ QueueInMail
  BY DEF RowsKept, HeldKept, QueueInMail
<1> QED BY <1>1, <1>2 DEF Inv

\* A step that leaves rows, handlers and the queue where they are, or forgets some.
LEMMA QuietInv ==
  ASSUME Inv, TypeOK',
         \A a \in Account : Kept(a) => Kept(a)',
         mail <= mail',
         \A u \in Users : row'[u] = row[u] \/ row'[u] = NoRow,
         \A d \in Handlers : aim'[d] = 0 \/ (aim'[d] = aim[d] /\ held'[d] = held[d]),
         \A h \in queue' : h \in queue \/ h <= mail'
  PROVE  Inv'
<1> USE DEF Inv
<1>1. RowsKept'
  <2> SUFFICES ASSUME NEW u \in Users, row'[u] # NoRow
               PROVE  row'[u].user = u /\ Kept(row[u])'
    BY DEF RowsKept
  <2>1. row'[u] = row[u] /\ row[u].user = u /\ Kept(row[u])
    BY DEF RowsKept
  <2>2. row[u] \in Account
    BY <2>1 DEF Kept
  <2> QED BY <2>1, <2>2 DEF Kept
<1>2. HeldKept'
  <2> SUFFICES ASSUME NEW d \in Handlers, aim'[d] # 0
               PROVE  Kept(held[d])' /\ aim'[d] <= mail'
    BY DEF HeldKept
  <2>1. aim'[d] = aim[d] /\ held'[d] = held[d] /\ Kept(held[d]) /\ aim[d] <= mail
    BY DEF HeldKept
  <2>2. held[d] \in Account
    BY <2>1 DEF Kept
  <2>3. aim[d] \in Nat /\ mail \in Nat /\ mail' \in Nat
    BY Bounds DEF TypeOK, Messages
  <2> QED BY <2>1, <2>2, <2>3 DEF Kept
<1>3. QueueInMail'
  <2> SUFFICES ASSUME NEW h \in queue' PROVE h <= mail'
    BY DEF QueueInMail
  <2>1. CASE h \in queue
    <3>1. h \in Nat /\ mail \in Nat /\ mail' \in Nat
      BY <2>1, Bounds DEF TypeOK, Messages
    <3> QED BY <2>1, <3>1 DEF QueueInMail
  <2> QED BY <2>1
<1> QED BY <1>1, <1>2, <1>3

LEMMA DeliverNobodyInv ==
  ASSUME Inv, NEW h \in Messages, DeliverNobody(h)
  PROVE  Inv'
<1> USE DEF Inv, DeliverNobody, Ack, tables, google, locals
<1>1. TypeOK'
  BY DEF TypeOK
<1>2. \A a \in Account : Kept(a) => Kept(a)'
  BY DEF Kept
<1>3. mail' \in Nat /\ mail <= mail'
  BY Bounds DEF TypeOK, Messages
<1> QED BY <1>1, <1>2, <1>3, QuietInv

LEMMA DeliverFoundInv ==
  ASSUME Inv, NEW d \in Handlers, NEW h \in Messages, NEW u \in Users, DeliverFound(d, h, u)
  PROVE  Inv'
<1> USE DEF Inv, DeliverFound, tables, google, history
<1>1. row[u] # NoRow /\ Kept(row[u]) /\ row[u] \in Account
  BY NoRowIsNone DEF RowsKept, Kept
<1>2. TypeOK'
  <2>1. h \in 0..MaxHistory
    BY Bounds DEF Messages
  <2>2. aim' \in [Handlers -> 0..MaxHistory] /\ held' \in [Handlers -> Account \cup {NoRow}]
    BY <1>1, <2>1 DEF TypeOK
  <2> QED BY <2>2 DEF TypeOK
<1>3. RowsKept' /\ QueueInMail'
  BY DEF RowsKept, QueueInMail, Kept
<1>4. HeldKept'
  <2> SUFFICES ASSUME NEW e \in Handlers, aim'[e] # 0
               PROVE  Kept(held[e])' /\ aim'[e] <= mail'
    BY DEF HeldKept
  <2>1. CASE e = d
    BY <2>1, <1>1 DEF TypeOK, QueueInMail, Kept
  <2>2. CASE e # d
    BY <2>2 DEF TypeOK, HeldKept, Kept
  <2> QED BY <2>1, <2>2
<1> QED BY <1>2, <1>3, <1>4

LEMMA SyncIgnoredInv ==
  ASSUME Inv, NEW d \in Handlers, SyncIgnored(d)
  PROVE  Inv'
<1> USE DEF Inv, SyncIgnored, Ack, Return, tables
<1>1. TypeOK'
  <2>0. aim[d] \in 0..MaxHistory
    BY DEF TypeOK
  <2>1. queue' \subseteq Messages /\ unheard' \subseteq Messages
    <3>1. aim[d] \in Messages
      BY <2>0, Bounds DEF Messages
    <3> QED BY <3>1 DEF TypeOK
  <2>2. aim' \in [Handlers -> 0..MaxHistory] /\ held' \in [Handlers -> Account \cup {NoRow}]
    BY Bounds DEF TypeOK
  <2> QED BY <2>1, <2>2 DEF TypeOK
<1>2. \A a \in Account : Kept(a) => Kept(a)'
  BY DEF Kept
<1>3. \A e \in Handlers : aim'[e] = 0 \/ (aim'[e] = aim[e] /\ held'[e] = held[e])
  BY DEF TypeOK
<1>4. mail <= mail'
  BY Bounds DEF TypeOK, Messages
<1> QED BY <1>1, <1>2, <1>3, <1>4, QuietInv

\* The row of an account that is kept is replaced by one of the same account whose
\* watermark is where it was, or ahead with the messages between them accounted for.
LEMMA RowInv ==
  ASSUME Inv, TypeOK',
         NEW u \in Users, NEW a \in Account,
         row' = [row EXCEPT ![u] = a], a.user = u,
         Kept(a)',
         \A b \in Account : Kept(b) => Kept(b)',
         mail' = mail, queue' \subseteq queue,
         \A d \in Handlers : aim'[d] = 0 \/ (aim'[d] = aim[d] /\ held'[d] = held[d])
  PROVE  Inv'
<1> USE DEF Inv
<1>1. RowsKept'
  <2> SUFFICES ASSUME NEW v \in Users, row'[v] # NoRow
               PROVE  row'[v].user = v /\ Kept(row[v])'
    BY DEF RowsKept
  <2>1. CASE v = u
    BY <2>1 DEF TypeOK, Kept
  <2>2. CASE v # u
    <3>1. row'[v] = row[v] /\ row[v].user = v /\ Kept(row[v]) /\ row[v] \in Account
      BY <2>2 DEF TypeOK, RowsKept, Kept
    <3> QED BY <3>1 DEF Kept
  <2> QED BY <2>1, <2>2
<1>2. HeldKept'
  <2> SUFFICES ASSUME NEW d \in Handlers, aim'[d] # 0
               PROVE  Kept(held[d])' /\ aim'[d] <= mail'
    BY DEF HeldKept
  <2>1. aim'[d] = aim[d] /\ held'[d] = held[d] /\ Kept(held[d]) /\ aim[d] <= mail
    BY DEF HeldKept
  <2>2. held[d] \in Account
    BY <2>1 DEF Kept
  <2> QED BY <2>1, <2>2 DEF Kept
<1>3. QueueInMail'
  BY DEF QueueInMail
<1> QED BY <1>1, <1>2, <1>3

LEMMA SyncFailsInv ==
  ASSUME Inv, NEW d \in Handlers, SyncFails(d)
  PROVE  Inv'
<1> USE DEF Inv, SyncFails, Return, tables, google
<1>1. /\ Kept(held[d]) /\ held[d] \in Account
      /\ held[d].id \in Ids /\ held[d].hid \in Messages /\ held[d].user \in Users
  BY DEF HeldKept, Kept, Account
<1>2. TypeOK'
  <2>1. accounted' \subseteq Ids \X Messages
    BY <1>1, Bounds DEF TypeOK, Messages
  <2>2. row' \in [Users -> Account \cup {NoRow}]
    BY <1>1 DEF TypeOK
  <2> QED BY <2>1, <2>2, Bounds DEF TypeOK
<1>3. accounted \subseteq accounted'
  OBVIOUS
<1>4. mail \in Nat /\ nextId \in Nat
  BY Bounds DEF TypeOK, Messages
<1>5. \A a \in Account : Kept(a) => Kept(a)'
  BY <1>3, <1>4, KeptStays
<1>6. \A e \in Handlers : aim'[e] = 0 \/ (aim'[e] = aim[e] /\ held'[e] = held[e])
  BY DEF TypeOK
<1>7. CASE row' = row
  BY <1>2, <1>4, <1>5, <1>6, <1>7, QuietInv
<1>8. CASE row' = [row EXCEPT ![held[d].user] = held[d]]
  <2>1. PICK a \in Account : a = held[d]
    BY <1>1
  <2>2. Kept(a)'
    BY <1>1, <1>5, <2>1
  <2> QED BY <1>1, <1>2, <1>5, <1>6, <1>8, <2>1, <2>2, RowInv
<1> QED BY <1>7, <1>8

LEMMA SyncInv ==
  ASSUME Inv, NEW d \in Handlers, Sync(d)
  PROVE  Inv'
<1> USE DEF Inv, Sync, Return
<1> DEFINE a == held[d]
           b == [a EXCEPT !.hid = mail]
<1>1. Kept(a) /\ a \in Account /\ a.id \in Ids /\ a.hid \in Messages /\ a.user \in Users
  BY DEF HeldKept, Kept, Account
<1>2. mail \in Messages /\ mail \in Nat /\ nextId \in Nat
  BY Bounds DEF TypeOK, Messages
<1>3. b \in Account /\ b.id = a.id /\ b.user = a.user /\ b.hid = mail
  BY <1>1, <1>2 DEF Account
<1>4. TypeOK'
  <2>1. accounted' \subseteq Ids \X Messages
    BY <1>1, <1>2, Bounds DEF TypeOK, Messages
  <2>2. row' \in [Users -> Account \cup {NoRow}] /\ queue' \subseteq Messages
    BY <1>3 DEF TypeOK, Ack
  <2> QED BY <2>1, <2>2, Bounds DEF TypeOK
<1>5. \A c \in Account : Kept(c) => Kept(c)'
  BY <1>2, KeptStays
<1>6. \A e \in Handlers : aim'[e] = 0 \/ (aim'[e] = aim[e] /\ held'[e] = held[e])
  BY DEF TypeOK
<1>7. queue' \subseteq queue
  BY DEF Ack
<1>8. CASE Exists(a)
  <2>1. row' = [row EXCEPT ![a.user] = b]
    BY <1>8
  <2>2. \A m \in Messages : base'[b.id] < m /\ m <= b.hid => <<b.id, m>> \in accounted'
    <3> SUFFICES ASSUME NEW m \in Messages, base[a.id] < m, m <= mail
                 PROVE  <<a.id, m>> \in accounted'
      BY <1>3
    <3>1. CASE m <= a.hid
      BY <3>1, <1>1 DEF Kept
    <3>2. CASE ~(m <= a.hid)
      <4>1. m \in a.hid + 1 .. mail
        BY <3>2, <1>1, <1>2, Bounds DEF Messages
      <4> QED BY <4>1
    <3> QED BY <3>1, <3>2
  <2>3. PICK c \in Account : c = b
    BY <1>3
  <2>4. Kept(c)'
    BY <2>2, <2>3, <1>1, <1>2, <1>3 DEF Kept
  <2> HIDE DEF b
  <2> QED BY <2>1, <2>3, <2>4, <1>1, <1>3, <1>4, <1>5, <1>6, <1>7, RowInv
<1>9. CASE ~Exists(a)
  <2>1. row' = row
    BY <1>9
  <2> QED BY <2>1, <1>2, <1>4, <1>5, <1>6, <1>7, QuietInv
<1> QED BY <1>8, <1>9

\* Put of a row of the same account, with a watermark at most the mailbox's.
LEMMA PutInv ==
  ASSUME Inv, NEW u \in Users, NEW a \in Account, row[u] # NoRow,
         Put(u, a), a.id = row[u].id, a.user = u, a.hid <= mail, watched' \in BOOLEAN,
         UNCHANGED <<nextId, mail, oldest, queue, locals, base, unheard>>
  PROVE  Inv'
<1> USE DEF Inv, Put, locals
<1>1. Kept(row[u]) /\ row[u] \in Account /\ row[u].hid \in Messages
  BY DEF RowsKept, Kept, Account
<1>2. a.id \in Ids /\ a.hid \in Messages
  BY DEF Account
<1>3. accounted' = accounted \cup {<<a.id, m>> : m \in row[u].hid + 1 .. a.hid}
  OBVIOUS
<1>4. TypeOK'
  <2>1. accounted' \subseteq Ids \X Messages
    BY <1>1, <1>2, <1>3, Bounds DEF TypeOK, Messages
  <2>2. row' \in [Users -> Account \cup {NoRow}]
    BY DEF TypeOK
  <2> QED BY <2>1, <2>2 DEF TypeOK
<1>5. mail \in Nat /\ nextId \in Nat
  BY Bounds DEF TypeOK, Messages
<1>6. \A c \in Account : Kept(c) => Kept(c)'
  BY <1>5, KeptStays
<1>7. Kept(a)'
  <2> SUFFICES ASSUME NEW m \in Messages, base[a.id] < m, m <= a.hid
               PROVE  <<a.id, m>> \in accounted'
    BY <1>1 DEF Kept
  <2>1. CASE m <= row[u].hid
    BY <2>1, <1>1 DEF Kept
  <2>2. CASE ~(m <= row[u].hid)
    <3>1. m \in row[u].hid + 1 .. a.hid
      BY <2>2, <1>1, <1>2, Bounds DEF Messages
    <3> QED BY <3>1, <1>3
  <2> QED BY <2>1, <2>2
<1> QED BY <1>4, <1>6, <1>7, RowInv

\* startWatch puts the row it is given, or that row at the mailbox's history id.
LEMMA StartWatchPuts ==
  ASSUME TypeOK, NEW u \in Users, NEW a \in Account, StartWatch(u, a)
  PROVE  /\ \E b \in Account : /\ Put(u, b) /\ b.id = a.id /\ b.user = a.user
                              /\ b.hid \in {a.hid, mail}
         /\ watched' \in BOOLEAN
<1>1. CASE Put(u, a)
  BY <1>1 DEF StartWatch, TypeOK
<1>2. CASE Put(u, [a EXCEPT !.hid = mail, !.fresh = TRUE])
  <2>1. [a EXCEPT !.hid = mail, !.fresh = TRUE] \in Account
    BY DEF Account, TypeOK
  <2> QED BY <1>2, <2>1 DEF StartWatch, TypeOK, Account
<1> QED BY <1>1, <1>2 DEF StartWatch

LEMMA RenewInv ==
  ASSUME Inv, NEW u \in Users, Renew(u)
  PROVE  Inv'
<1> USE DEF Inv
<1>1. row[u] # NoRow /\ Kept(row[u]) /\ row[u].user = u
  BY NoRowIsNone DEF Renew, RowsKept
<1>2. row[u] \in Account /\ row[u].hid <= mail /\ mail \in Nat
  BY <1>1, Bounds DEF Kept, TypeOK, Messages
<1>3. PICK a \in Account : a = row[u]
  BY <1>2
<1>4. StartWatch(u, a) /\ UNCHANGED <<nextId, mail, oldest, queue, locals, base, unheard>>
  BY <1>3 DEF Renew
<1>5. PICK b \in Account : /\ Put(u, b) /\ b.id = a.id /\ b.user = a.user
                           /\ b.hid \in {a.hid, mail}
  BY <1>4, StartWatchPuts
<1>6. watched' \in BOOLEAN
  BY <1>4, StartWatchPuts
<1> QED BY <1>1, <1>2, <1>3, <1>4, <1>5, <1>6, PutInv

LEMMA SetNotificationsInv ==
  ASSUME Inv, NEW u \in Users, NEW on \in BOOLEAN, SetNotifications(u, on)
  PROVE  Inv'
<1> USE DEF Inv
<1>1. row[u] # NoRow /\ Kept(row[u]) /\ row[u].user = u
  BY DEF SetNotifications, RowsKept
<1>2. row[u] \in Account /\ row[u].hid <= mail /\ mail \in Nat
  BY <1>1, Bounds DEF Kept, TypeOK, Messages
<1>3. [row[u] EXCEPT !.on = on] \in Account
  BY <1>2 DEF Account
<1>4. PICK a \in Account : a = [row[u] EXCEPT !.on = on]
  BY <1>3
<1>5. a.id = row[u].id /\ a.user = u /\ a.hid = row[u].hid
  BY <1>1, <1>2, <1>4 DEF Account
<1>6. UNCHANGED <<nextId, mail, oldest, queue, locals, base, unheard>>
  BY DEF SetNotifications
<1>7. CASE on
  <2>1. StartWatch(u, a)
    BY <1>4, <1>7 DEF SetNotifications
  <2>2. PICK b \in Account : /\ Put(u, b) /\ b.id = a.id /\ b.user = a.user
                             /\ b.hid \in {a.hid, mail}
    BY <2>1, StartWatchPuts
  <2>3. watched' \in BOOLEAN
    BY <2>1, StartWatchPuts
  <2> QED BY <1>1, <1>2, <1>5, <1>6, <2>2, <2>3, PutInv
<1>8. CASE ~on
  <2>1. Put(u, a) /\ watched' \in BOOLEAN
    BY <1>4, <1>8 DEF SetNotifications, TypeOK
  <2> QED BY <1>1, <1>2, <1>5, <1>6, <2>1, PutInv
<1> QED BY <1>7, <1>8

LEMMA RelinkInv ==
  ASSUME Inv, NEW u \in Users, Relink(u)
  PROVE  Inv'
<1> USE DEF Inv
<1>1. row[u] # NoRow /\ Kept(row[u]) /\ row[u].user = u
  BY DEF Relink, RowsKept
<1>2. row[u] \in Account /\ mail \in Messages /\ mail \in Nat
  BY <1>1, Bounds DEF Kept, TypeOK, Messages
<1>3. [row[u] EXCEPT !.hid = mail, !.fresh = FALSE, !.grant = TRUE] \in Account
  BY <1>2 DEF Account
<1>4. PICK a \in Account : a = [row[u] EXCEPT !.hid = mail, !.fresh = FALSE, !.grant = TRUE]
  BY <1>3
<1>5. a.id = row[u].id /\ a.user = u /\ a.hid = mail
  BY <1>1, <1>2, <1>4 DEF Account
<1>6. StartWatch(u, a) /\ UNCHANGED <<nextId, mail, oldest, queue, locals, base, unheard>>
  BY <1>4 DEF Relink
<1>7. PICK b \in Account : /\ Put(u, b) /\ b.id = a.id /\ b.user = a.user
                           /\ b.hid \in {a.hid, mail}
  BY <1>6, StartWatchPuts
<1>8. watched' \in BOOLEAN
  BY <1>6, StartWatchPuts
<1> QED BY <1>1, <1>2, <1>5, <1>6, <1>7, <1>8, PutInv

LEMMA LinkInv ==
  ASSUME Inv, NEW u \in Users, Link(u)
  PROVE  Inv'
<1> USE DEF Inv
<1>1. mail \in Messages /\ mail \in Nat /\ nextId \in Ids /\ nextId \in Nat
  BY Bounds DEF Link, TypeOK, Messages, Ids
<1> DEFINE new == [id |-> nextId, user |-> u, hid |-> mail, on |-> TRUE, fresh |-> FALSE,
                   grant |-> TRUE]
<1>2. new \in Account
  BY <1>1 DEF Account
<1>3. PICK a \in Account : a = new
  BY <1>2
<1>4. a.id = nextId /\ a.user = u /\ a.hid = mail
  BY <1>3
<1>5. StartWatch(u, a)
  BY <1>3 DEF Link
<1>6. PICK b \in Account : /\ Put(u, b) /\ b.id = a.id /\ b.user = a.user
                           /\ b.hid \in {a.hid, mail}
  BY <1>5, StartWatchPuts
<1>7. watched' \in BOOLEAN
  BY <1>5, StartWatchPuts
<1>8. b.id = nextId /\ b.user = u /\ b.hid = mail
  BY <1>4, <1>6
<1>9. /\ nextId' = nextId + 1
      /\ base' = [base EXCEPT ![nextId] = mail]
      /\ UNCHANGED <<mail, oldest, queue, locals, unheard>>
  BY DEF Link
<1>10. row[u].id # nextId
  BY <1>1, NoRowIsNone DEF Link, Ids
<1>11. accounted' = accounted /\ row' = [row EXCEPT ![u] = b]
  BY <1>6, <1>8, <1>10 DEF Put
<1>12. TypeOK'
  BY <1>1, <1>7, <1>9, <1>11, Bounds DEF TypeOK, Ids, Messages, locals
<1>13. \A c \in Account : Kept(c) => Kept(c)'
  <2>1. \A i \in Ids : i < nextId => base'[i] = base[i]
    BY <1>1, <1>9 DEF TypeOK, Ids
  <2> QED BY <2>1, <1>1, <1>9, <1>11, KeptStays
<1>14. Kept(b)'
  <2>1. base'[b.id] = mail
    BY <1>1, <1>8, <1>9 DEF TypeOK
  <2>2. \A m \in Messages : ~(mail < m /\ m <= mail)
    BY <1>1, Bounds DEF Messages
  <2> QED BY <2>1, <2>2, <1>1, <1>8, <1>9 DEF Kept
<1> HIDE DEF new
<1> QED BY <1>8, <1>9, <1>11, <1>12, <1>13, <1>14, RowInv DEF locals

LEMMA UnlinkInv ==
  ASSUME Inv, NEW u \in Users, Unlink(u)
  PROVE  Inv'
<1> USE DEF Inv, Unlink, locals, history
<1>1. TypeOK'
  BY DEF TypeOK
<1>2. \A a \in Account : Kept(a) => Kept(a)'
  BY DEF Kept
<1>3. \A v \in Users : row'[v] = row[v] \/ row'[v] = NoRow
  BY DEF TypeOK
<1>4. mail <= mail'
  BY Bounds DEF TypeOK, Messages
<1> QED BY <1>1, <1>2, <1>3, <1>4, QuietInv

LEMMA MailArrivesInv ==
  ASSUME Inv, MailArrives
  PROVE  Inv'
<1> USE DEF Inv, MailArrives, tables, locals, history
<1>1. mail \in Nat /\ mail' \in Messages /\ mail' = mail + 1 /\ nextId \in Nat /\ mail' \in Nat
  BY Bounds DEF TypeOK, Messages
<1>2. TypeOK'
  BY <1>1 DEF TypeOK
<1>3. \A a \in Account : Kept(a) => Kept(a)'
  BY <1>1, KeptStays
<1>4. \A h \in queue' : h \in queue \/ h <= mail'
  BY <1>1
<1> QED BY <1>1, <1>2, <1>3, <1>4, QuietInv

LEMMA TimePassesInv ==
  ASSUME Inv, TimePasses
  PROVE  Inv'
<1> USE DEF Inv, TimePasses, history
<1>1. \A a \in Account : [a EXCEPT !.fresh = FALSE] \in Account
  BY DEF Account
<1>2. [NoRow EXCEPT !.fresh = FALSE] = NoRow
  BY AgedRow
<1>3. \A u \in Users : row[u] \in Account \cup {NoRow}
  BY DEF TypeOK
<1>4. \A d \in Handlers : held[d] \in Account \cup {NoRow}
  BY DEF TypeOK
<1>5. TypeOK'
  BY <1>1, <1>2, <1>3, <1>4 DEF TypeOK
<1>6. RowsKept'
  <2> SUFFICES ASSUME NEW u \in Users, row'[u] # NoRow
               PROVE  row'[u].user = u /\ Kept(row[u])'
    BY DEF RowsKept
  <2>1. row[u] # NoRow /\ row'[u] = [row[u] EXCEPT !.fresh = FALSE]
    BY <1>2
  <2>2. Kept(row[u]) /\ row[u].user = u /\ row[u] \in Account
    BY <2>1, <1>3 DEF RowsKept
  <2>3. PICK a \in Account : a = row[u]
    BY <2>2
  <2>4. PICK b : b = row'[u]
    OBVIOUS
  <2>5. b = [a EXCEPT !.fresh = FALSE]
    BY <2>1, <2>3, <2>4
  <2>6. b \in Account /\ b.id = a.id /\ b.hid = a.hid /\ b.user = a.user
    BY <2>5, AgedAccount
  <2>7. Kept(b)'
    BY <2>2, <2>3, <2>6 DEF Kept
  <2> QED BY <2>2, <2>3, <2>4, <2>6, <2>7 DEF Kept
<1>7. HeldKept'
  <2> SUFFICES ASSUME NEW d \in Handlers, aim'[d] # 0
               PROVE  Kept(held[d])' /\ aim'[d] <= mail'
    BY DEF HeldKept
  <2>1. Kept(held[d]) /\ held[d] \in Account /\ aim[d] <= mail
    BY DEF HeldKept, Kept
  <2>2. held'[d] = [held[d] EXCEPT !.fresh = FALSE]
    OBVIOUS
  <2>3. PICK a \in Account : a = held[d]
    BY <2>1
  <2>4. PICK b : b = held'[d]
    OBVIOUS
  <2>5. b = [a EXCEPT !.fresh = FALSE]
    BY <2>2, <2>3, <2>4
  <2>6. b \in Account /\ b.id = a.id /\ b.hid = a.hid /\ b.user = a.user
    BY <2>5, AgedAccount
  <2>7. Kept(b)'
    BY <2>1, <2>3, <2>6 DEF Kept
  <2> QED BY <2>1, <2>4, <2>7 DEF Kept
<1>8. QueueInMail'
  BY DEF QueueInMail
<1> QED BY <1>5, <1>6, <1>7, <1>8

LEMMA HistoryAgesInv ==
  ASSUME Inv, HistoryAges
  PROVE  Inv'
<1> USE DEF Inv, HistoryAges, tables, locals, history
<1>1. oldest' \in Messages
  BY Bounds DEF TypeOK, Messages
<1>2. TypeOK'
  BY <1>1 DEF TypeOK
<1>3. \A a \in Account : Kept(a) => Kept(a)'
  BY DEF Kept
<1>4. mail <= mail'
  BY Bounds DEF TypeOK, Messages
<1> QED BY <1>2, <1>3, <1>4, QuietInv

LEMMA GrantEndsInv ==
  ASSUME Inv, NEW u \in Users, GrantEnds(u)
  PROVE  Inv'
<1> USE DEF Inv, GrantEnds, google, history
<1>1. row[u].grant
  OBVIOUS
<1>2. row[u] # NoRow /\ row[u] \in Account /\ row[u].user = u /\ Kept(row[u]) /\ row[u].id # 0
  BY <1>1, NoRowIsNone DEF TypeOK, RowsKept, NoRow, Account, Ids
<1>3. PICK b : b = [row[u] EXCEPT !.grant = FALSE]
  OBVIOUS
<1>4. b \in Account /\ b.id = row[u].id /\ b.hid = row[u].hid /\ b.user = u
  BY <1>2, <1>3, EndedAccount
<1>5. row' = [row EXCEPT ![u] = b]
  BY <1>3
<1>6. ASSUME NEW d \in Handlers
      PROVE  \/ held'[d] = held[d]
             \/ /\ held[d] \in Account /\ held'[d] \in Account
                /\ held'[d].id = held[d].id /\ held'[d].hid = held[d].hid
  <2>1. CASE held[d].id = row[u].id
    <3>1. held[d] \in Account
      BY <1>2, <2>1, NoRowIsNone DEF TypeOK
    <3>2. PICK a \in Account : a = held[d]
      BY <3>1
    <3>3. PICK c : c = held'[d]
      OBVIOUS
    <3>4. c = [a EXCEPT !.grant = FALSE]
      BY <2>1, <3>2, <3>3
    <3> QED BY <3>1, <3>2, <3>3, <3>4, EndedAccount
  <2>2. CASE held[d].id # row[u].id
    BY <2>2
  <2> QED BY <2>1, <2>2
<1>7. TypeOK'
  <2>1. row' \in [Users -> Account \cup {NoRow}]
    BY <1>4, <1>5 DEF TypeOK
  <2>2. held' \in [Handlers -> Account \cup {NoRow}]
    <3>1. \A d \in Handlers : held'[d] \in Account \cup {NoRow}
      BY <1>6 DEF TypeOK
    <3> QED BY <3>1
  <2> QED BY <2>1, <2>2 DEF TypeOK
<1>8. RowsKept'
  <2> SUFFICES ASSUME NEW v \in Users, row'[v] # NoRow
               PROVE  row'[v].user = v /\ Kept(row[v])'
    BY DEF RowsKept
  <2>1. CASE v = u
    <3>1. Kept(b)'
      BY <1>2, <1>4 DEF Kept
    <3> QED BY <1>4, <1>5, <2>1, <3>1 DEF TypeOK, Kept
  <2>2. CASE v # u
    BY <1>5, <2>2 DEF TypeOK, RowsKept, Kept
  <2> QED BY <2>1, <2>2
<1>9. HeldKept'
  <2> SUFFICES ASSUME NEW d \in Handlers, aim'[d] # 0
               PROVE  Kept(held[d])' /\ aim'[d] <= mail'
    BY DEF HeldKept
  <2>1. Kept(held[d]) /\ aim[d] <= mail /\ aim' = aim
    BY DEF HeldKept
  <2>2. Kept(held[d])'
    BY <1>6, <2>1 DEF Kept
  <2> QED BY <2>1, <2>2
<1>10. QueueInMail'
  BY DEF QueueInMail
<1> QED BY <1>7, <1>8, <1>9, <1>10

LEMMA StepInv == Inv /\ [Next]_vars => Inv'
<1> SUFFICES ASSUME Inv, [Next]_vars PROVE Inv'
  OBVIOUS
<1>1. CASE \E h \in Messages : Deliver(h)
  BY <1>1, DeliverNobodyInv, DeliverFoundInv DEF Deliver
<1>2. CASE \E d \in Handlers : Answer(d)
  BY <1>2, SyncIgnoredInv, SyncInv, SyncFailsInv DEF Answer
<1>3. CASE \E u \in Users : Renew(u) \/ Request(u) \/ GrantEnds(u)
  BY <1>3, RenewInv, SetNotificationsInv, UnlinkInv, RelinkInv, LinkInv, GrantEndsInv DEF Request
<1>4. CASE MailArrives
  BY <1>4, MailArrivesInv
<1>5. CASE TimePasses
  BY <1>5, TimePassesInv
<1>6. CASE UNCHANGED vars
  BY <1>6 DEF vars, tables, google, locals, history, Inv, TypeOK, RowsKept, HeldKept,
              QueueInMail, Kept
<1>7. CASE HistoryAges
  BY <1>7, HistoryAgesInv
<1> QED BY <1>1, <1>2, <1>3, <1>4, <1>5, <1>6, <1>7 DEF Next

\* What a delivery leaves acknowledged after a sync, the account it was routed to has
\* had examined.
Examined(d) ==
  aim[d] \in queue \ (queue' \cup unheard') /\ aim'[d] = 0 =>
    \A m \in Messages :
      base[held[d].id] < m /\ m <= aim[d] => <<held[d].id, m>> \in accounted'

LEMMA StepExamines ==
  ASSUME Inv, [Next]_vars, NEW d \in Handlers
  PROVE  Examined(d)
<1> SUFFICES ASSUME aim[d] \in queue, aim[d] \notin queue', aim[d] \notin unheard', aim'[d] = 0,
                    NEW m \in Messages, base[held[d].id] < m, m <= aim[d]
             PROVE  <<held[d].id, m>> \in accounted'
  BY DEF Examined
<1> USE DEF Inv
<1>1. aim[d] # 0 /\ aim[d] \in Nat
  BY Bounds DEF TypeOK, Messages
<1>2. Kept(held[d]) /\ aim[d] <= mail /\ mail \in Nat
  BY <1>1, Bounds DEF HeldKept, TypeOK, Messages
<1>3. Sync(d)
  <2>1. aim' # aim /\ queue' # queue
    BY <1>1
  <2>2. PICK e \in Handlers : Answer(e)
    BY <2>1 DEF Next, vars, google, locals, Deliver, DeliverFound, DeliverNobody, Renew, Request,
                SetNotifications, Unlink, Relink, Link, MailArrives, HistoryAges, TimePasses,
                GrantEnds
  <2>3. e = d
    BY <2>2, <1>1 DEF Answer, SyncIgnored, Sync, SyncFails, Return, TypeOK
  <2> QED BY <2>2, <2>3 DEF Answer, SyncIgnored, SyncFails, google
<1>4. CASE m <= held[d].hid
  BY <1>2, <1>3, <1>4 DEF Kept, Sync
<1>5. CASE ~(m <= held[d].hid)
  <2>1. held[d].hid \in Nat
    BY <1>2, Bounds DEF Kept, Account, Messages
  <2>2. m \in held[d].hid + 1 .. mail
    BY <1>1, <1>2, <1>5, <2>1, Bounds DEF Messages
  <2> QED BY <2>2, <1>3 DEF Sync
<1> QED BY <1>4, <1>5

THEOREM InvHolds == Spec => []Inv
<1> QED BY InitInv, StepInv, PTL DEF Spec

\* Every variable of the shared mailbox has its type: deliveries, requests and
\* renewals leave rows, queue and watermarks well formed.
THEOREM TypeCorrect == Spec => []TypeOK
<1>1. Inv => TypeOK
  BY DEF Inv
<1> QED BY <1>1, InvHolds, PTL

\* A notification that HandlePubSub acknowledges after a sync needs no second
\* delivery, whatever other deliveries, requests and renewals wrote meanwhile.
THEOREM AcknowledgedIsExamined == Spec => AckedIsExamined
<1>1. Inv /\ [Next]_vars => [\A d \in Handlers : Examined(d)]_vars
  BY StepExamines
<1> QED BY <1>1, InvHolds, PTL DEF Spec, AckedIsExamined, Examined


\* However deliveries, renewals and requests of several users interleave, and whosever
\* row a notification is routed to, no user's watermark is ahead of the mailbox or has
\* passed a message that was neither visited for her account nor jumped over by a watch.
THEOREM EveryUserIsCovered ==
  Spec => [](\A u \in Users : row[u] # NoRow =>
               /\ row[u].user = u /\ row[u].hid <= mail
               /\ \A m \in Messages :
                    base[row[u].id] < m /\ m <= row[u].hid => <<row[u].id, m>> \in accounted)
<1>1. Inv => \A u \in Users : row[u] # NoRow =>
               /\ row[u].user = u /\ row[u].hid <= mail
               /\ \A m \in Messages :
                    base[row[u].id] < m /\ m <= row[u].hid => <<row[u].id, m>> \in accounted
  BY DEF Inv, RowsKept, Kept
<1> QED BY <1>1, InvHolds, PTL

=============================================================================
