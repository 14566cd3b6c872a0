--------------------------- MODULE SharedMailbox ---------------------------
(***************************************************************************)
(* One Gmail mailbox that several users of the program link.  Gmail keeps  *)
(* one watch per mailbox, whoever asked for it; Pub/Sub delivers what the  *)
(* watch reports to the webhook until a delivery is answered with success, *)
(* and the webhook knows the mailbox only by its address.                  *)
(*                                                                         *)
(* AccountSync takes the writers of one account apart into statements.     *)
(* Here a request or a renewal is one step, with every way it can end; a   *)
(* delivery is two: it finds an account, and later syncs and writes the    *)
(* row it found.                                                           *)
(***************************************************************************)
EXTENDS Integers

CONSTANTS
  Users,       \* users of the program who may link the mailbox
  Handlers,    \* bound: deliveries the webhook handles at one time
  Faults,      \* the failures that may happen: subset of FaultKinds
  MaxHistory,  \* bound: largest Gmail history id
  MaxLinks     \* bound: number of accounts ever created

FaultKinds == {"database", "google"}

ASSUME MailboxAssumption ==
  /\ Faults \subseteq FaultKinds
  /\ MaxHistory \in Nat \ {0}
  /\ MaxLinks \in Nat \ {0}

Messages == 1..MaxHistory   \* message m is added at history id m
Ids      == 1..MaxLinks     \* account ids, never reused

\* fresh: watch_expiration is set, and not within the renewer's skew yet.
\* grant: Google accepts the tokens the account was linked with.
Account == [id : Ids, user : Users, hid : Messages, on : BOOLEAN, fresh : BOOLEAN,
            grant : BOOLEAN]
NoRow   == [id |-> 0, on |-> FALSE, fresh |-> FALSE, grant |-> FALSE]

VARIABLES
  row,        \* gmail_accounts: each user's row of the mailbox, or NoRow
  nextId,     \* the id the next INSERT draws
  mail,       \* Gmail: the mailbox's current historyId
  oldest,     \* Gmail: the history ids below are no longer listed (404)
  watched,    \* Gmail: the mailbox has a watch
  queue,      \* Pub/Sub: the notifications not acknowledged
  aim,        \* the notification each handler is at, or 0
  held,       \* the *GmailAccount each handler found for it
  base,       \* history: history id at which an account id was created
  accounted,  \* history: <<id, message>> a sync visited or a watermark jumped over
  unheard     \* history: notifications acknowledged without a sync

tables  == <<row, nextId>>
google  == <<mail, oldest, watched, queue>>
locals  == <<aim, held>>
history == <<base, accounted, unheard>>
vars    == <<tables, google, locals, history>>

Init ==
  /\ row = [u \in Users |-> NoRow]
  /\ nextId = 1
  /\ mail = 1
  /\ oldest = 1
  /\ watched = FALSE
  /\ queue = {}
  /\ aim = [d \in Handlers |-> 0]
  /\ held = [d \in Handlers |-> NoRow]
  /\ base = [i \in Ids |-> 0]
  /\ accounted = {}
  /\ unheard = {}

(***************************************************************************)
(* Deliveries: PubSubHandler.Receive, HandlePubSub, FindByEmail            *)
(***************************************************************************)
\* Answered 204: Pub/Sub forgets the notification.
Ack(h) == queue' = queue \ {h}

\* The handler has answered.
Return(d) ==
  /\ aim' = [aim EXCEPT ![d] = 0]
  /\ held' = [held EXCEPT ![d] = NoRow]

\* FindByEmail takes the first row with the address among those that are on;
\* the query has no ORDER BY, so any user's may be first.
DeliverFound(d, h, u) ==
  /\ aim[d] = 0
  /\ h \in queue
  /\ row[u].on
  /\ aim' = [aim EXCEPT ![d] = h]
  /\ held' = [held EXCEPT ![d] = row[u]]
  /\ UNCHANGED <<tables, google, history>>

\* Mutant: an unknown mailbox is an error like any other, answered 500.
DeliverNobodyRefused(h) ==
  /\ h \in queue
  /\ "database" \in Faults \/ \A u \in Users : ~row[u].on
  /\ UNCHANGED vars

\* No row is on, or the query fails: "unknown account", acknowledged all the same.
DeliverNobody(h) ==
  /\ h \in queue
  /\ "database" \in Faults \/ \A u \in Users : ~row[u].on
  /\ Ack(h)
  /\ unheard' = unheard \cup {h}
  /\ UNCHANGED <<tables, mail, oldest, watched, locals, base, accounted>>

\* SyncAccount returns at once when the user's settings are off: acknowledged.
SyncIgnored(d) ==
  /\ aim[d] # 0
  /\ Ack(aim[d])
  /\ unheard' = unheard \cup {aim[d]}
  /\ Return(d)
  /\ UNCHANGED <<tables, mail, oldest, watched, base, accounted>>

\* GmailAccountRepo.Update finds a row, and not ErrNotFound.
Exists(a) == row[a.user].id = a.id

\* Google lists the history since the account's watermark: it accepts the account's
\* tokens, and the watermark is not too old.
Listable(a) == a.grant /\ oldest <= a.hid

\* SyncAccount visits what came since the held watermark and writes the whole row;
\* when the account is gone by then, ErrNotFound makes the webhook answer 500.
Sync(d) ==
  LET a == held[d] IN
  /\ aim[d] # 0
  /\ Listable(a)
  /\ accounted' = accounted \cup {<<a.id, m>> : m \in a.hid + 1 .. mail}
  /\ IF Exists(a)
     THEN Ack(aim[d]) /\ row' = [row EXCEPT ![a.user] = [a EXCEPT !.hid = mail]]
     ELSE UNCHANGED <<queue, row>>
  /\ Return(d)
  /\ UNCHANGED <<nextId, mail, oldest, watched, base, unheard>>

\* Mutant: the webhook answers 204 whatever SyncAccount returns.
SyncFailsAcked(d) ==
  /\ Faults # {} \/ ~Listable(held[d])
  /\ aim[d] # 0
  /\ Ack(aim[d])
  /\ Return(d)
  /\ UNCHANGED <<tables, mail, oldest, watched, history>>

\* The settings, the list at Google or the final UPDATE fails, messages visited or
\* not; by then PersistTokens may have written the held row back.  Answered 500, the
\* notification stays and will be delivered again.
SyncFails(d) ==
  LET a == held[d] IN
  /\ aim[d] # 0
  /\ Faults # {} \/ ~Listable(a)
  /\ \/ UNCHANGED accounted
     \/ Listable(a) /\ accounted' = accounted \cup {<<a.id, m>> : m \in a.hid + 1 .. mail}
  /\ \/ UNCHANGED row
     \/ a.grant /\ Exists(a) /\ row' = [row EXCEPT ![a.user] = a]
  /\ Return(d)
  /\ UNCHANGED <<nextId, google, base, unheard>>

(***************************************************************************)
(* The watch: startWatch and its callers                                   *)
(***************************************************************************)
\* User u's row becomes a; where it was there before, a history id ahead of the old
\* one jumps over the messages between them.
Put(u, a) ==
  /\ row' = [row EXCEPT ![u] = a]
  /\ accounted' = accounted \cup {<<a.id, m>> : m \in IF row[u].id = a.id
                                                     THEN row[u].hid + 1 .. a.hid
                                                     ELSE {}}

\* Mutant: the watch's answer is taken for the first history id not seen yet.
StartWatchPast(u, a) ==
  \/ /\ a.grant
     /\ watched' = TRUE
     /\ Put(u, [a EXCEPT !.hid = mail + 1, !.fresh = TRUE])
  \/ /\ "google" \in Faults \/ ~a.grant
     /\ Put(u, a)
     /\ UNCHANGED watched

\* startWatch: Users.Watch replaces the mailbox's watch, its history id and
\* expiration go into the row; or Google or the UPDATE fails, and every caller goes
\* on without.
StartWatch(u, a) ==
  \/ /\ a.grant
     /\ watched' = TRUE
     /\ Put(u, [a EXCEPT !.hid = mail, !.fresh = TRUE])
  \/ /\ Put(u, a)
     /\ \/ ("google" \in Faults \/ ~a.grant) /\ UNCHANGED watched
        \/ "database" \in Faults /\ a.grant /\ watched' = TRUE

\* Mutant: the deadline is compared the wrong way round.
RenewEarly(u) ==
  /\ row[u].on /\ row[u].fresh
  /\ StartWatch(u, row[u])
  /\ UNCHANGED <<nextId, mail, oldest, queue, locals, base, unheard>>

\* renewDue: a row that is on, whose watch_expiration is NULL or near.
Renew(u) ==
  /\ row[u].on /\ ~row[u].fresh
  /\ StartWatch(u, row[u])
  /\ UNCHANGED <<nextId, mail, oldest, queue, locals, base, unheard>>

(***************************************************************************)
(* Requests                                                                *)
(***************************************************************************)
\* SetNotifications: a new watch follows when the switch goes on.
SetNotifications(u, on) ==
  LET a == [row[u] EXCEPT !.on = on] IN
  /\ row[u] # NoRow
  /\ IF on THEN StartWatch(u, a) ELSE Put(u, a) /\ UNCHANGED watched
  /\ UNCHANGED <<nextId, mail, oldest, queue, locals, base, unheard>>

\* Unlink: StopWatch stops the mailbox's watch, whoever relies on it, its error is
\* ignored; then the DELETE, which may fail with the watch stopped.
Unlink(u) ==
  /\ row[u] # NoRow
  /\ \/ row[u].grant /\ watched' = FALSE
     \/ ("google" \in Faults \/ ~row[u].grant) /\ UNCHANGED watched
  /\ \/ row' = [row EXCEPT ![u] = NoRow]
     \/ "database" \in Faults /\ UNCHANGED row
  /\ UNCHANGED <<nextId, mail, oldest, queue, locals, history>>

\* CompleteLink of a mailbox that is linked: the account keeps its id and its
\* switch, takes the new grant and the profile's history id, and gets a new watch.
Relink(u) ==
  /\ row[u] # NoRow
  /\ StartWatch(u, [row[u] EXCEPT !.hid = mail, !.fresh = FALSE, !.grant = TRUE])
  /\ UNCHANGED <<nextId, mail, oldest, queue, locals, base, unheard>>

\* CompleteLink of a mailbox the user has not linked.
Link(u) ==
  /\ row[u] = NoRow
  /\ nextId \in Ids
  /\ StartWatch(u, [id |-> nextId, user |-> u, hid |-> mail, on |-> TRUE, fresh |-> FALSE,
                    grant |-> TRUE])
  /\ nextId' = nextId + 1
  /\ base' = [base EXCEPT ![nextId] = mail]
  /\ UNCHANGED <<mail, oldest, queue, locals, unheard>>

(***************************************************************************)
(* Google                                                                  *)
(***************************************************************************)
\* A message arrives; a mailbox that is watched publishes a notification.
MailArrives ==
  /\ mail < MaxHistory
  /\ mail' = mail + 1
  /\ queue' = IF watched THEN queue \cup {mail + 1} ELSE queue
  /\ UNCHANGED <<tables, oldest, watched, locals, history>>

\* Days pass: expirations come near, and a watch nobody renewed ends.
TimePasses ==
  /\ row' = [u \in Users |-> [row[u] EXCEPT !.fresh = FALSE]]
  /\ held' = [d \in Handlers |-> [held[d] EXCEPT !.fresh = FALSE]]
  /\ UNCHANGED watched \/ (watched' = FALSE /\ \A u \in Users : ~row[u].fresh)
  /\ UNCHANGED <<nextId, mail, oldest, queue, aim, history>>

\* Gmail forgets the oldest part of the mailbox's history.
HistoryAges ==
  /\ oldest < mail
  /\ oldest' = oldest + 1
  /\ UNCHANGED <<tables, mail, watched, queue, locals, history>>

\* Google accepts the tokens of user u's account no more: access was withdrawn.
GrantEnds(u) ==
  /\ row[u].grant
  /\ row' = [row EXCEPT ![u].grant = FALSE]
  /\ held' = [d \in Handlers |-> IF held[d].id = row[u].id
                                 THEN [held[d] EXCEPT !.grant = FALSE]
                                 ELSE held[d]]
  /\ UNCHANGED <<nextId, google, aim, history>>

(***************************************************************************)
(* The specification                                                       *)
(***************************************************************************)
Deliver(h) == DeliverNobody(h) \/ \E d \in Handlers, u \in Users : DeliverFound(d, h, u)

Answer(d) == SyncIgnored(d) \/ Sync(d) \/ SyncFails(d)

Request(u) ==
  \/ \E on \in BOOLEAN : SetNotifications(u, on)
  \/ Unlink(u) \/ Relink(u) \/ Link(u)

Next ==
  \/ \E h \in Messages : Deliver(h)
  \/ \E d \in Handlers : Answer(d)
  \/ \E u \in Users : Renew(u) \/ Request(u) \/ GrantEnds(u)
  \/ MailArrives
  \/ HistoryAges
  \/ TimePasses

Spec == Init /\ [][Next]_vars

\* Pub/Sub delivers what is not acknowledged again and again, a handler returns,
\* the renewer looks at every row every hour, time passes, and where Google accepts
\* the tokens and the watermark, neither Google nor the database fails for ever.
Fairness ==
  /\ SF_vars(\E h \in Messages : Deliver(h))
  /\ SF_vars(\E d \in Handlers : Sync(d))
  /\ SF_vars(\E u \in Users : Renew(u) /\ watched')
  /\ WF_vars(TimePasses)

FairSpec == Spec /\ Fairness

(***************************************************************************)
(* Properties                                                              *)
(***************************************************************************)
\* Every variable has its type.
TypeOK ==
  /\ row \in [Users -> Account \cup {NoRow}]
  /\ nextId \in 1..MaxLinks + 1
  /\ mail \in Messages
  /\ oldest \in Messages
  /\ watched \in BOOLEAN
  /\ queue \subseteq Messages
  /\ aim \in [Handlers -> 0..MaxHistory]
  /\ held \in [Handlers -> Account \cup {NoRow}]
  /\ base \in [Ids -> 0..MaxHistory]
  /\ accounted \subseteq Ids \X Messages
  /\ unheard \subseteq Messages

\* A notification that HandlePubSub acknowledges after a sync needs no second
\* delivery: the account it was routed to has had every message up to it visited
\* (or jumped over by a watch), although the sync started from a row that others
\* wrote meanwhile.
AckedIsExamined ==
  [][\A d \in Handlers :
       aim[d] \in queue \ (queue' \cup unheard') /\ aim'[d] = 0 =>
         \A m \in Messages :
           base[held[d].id] < m /\ m <= aim[d] => <<held[d].id, m>> \in accounted']_vars

\* The account is on, and Google refuses to list its history.
Stuck(u) == row[u].on /\ ~Listable(row[u])

\* One delivery of each notification is acknowledged in the end, whatever fails for a
\* time and whoever links, unlinks or switches the mailbox off meanwhile, unless again
\* and again some user's account is on whose grant was withdrawn or whose watermark
\* Gmail has forgotten: the webhook answers 500 whenever FindByEmail takes that one.
EventuallyAcked ==
  \A h \in Messages : h \in queue ~> (h \notin queue \/ \E u \in Users : Stuck(u))

\* Some account can ask Google for a watch.
Renewable == \E u \in Users : row[u].on /\ row[u].grant

\* While anybody whose grant stands has the mailbox on, it is watched again and again,
\* although one user's unlink, even one that failed half-way, stops the only watch.
EventuallyWatched == Renewable ~> (watched \/ ~Renewable)

=============================================================================
