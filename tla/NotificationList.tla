-------------------------- MODULE NotificationList --------------------------
(***************************************************************************)
(* One user's notification records and what a client of hers shows of      *)
(* them: the app, which FCM tells of a new record while it is in the       *)
(* foreground, or the web page, which no message reaches.  The client      *)
(* shows the answer of its last load to arrive; loads and marks are        *)
(* requests, and answers arrive in any order.  Her other clients are here  *)
(* by the records they mark.                                               *)
(***************************************************************************)
EXTENDS Integers, FiniteSets

CONSTANTS
  MaxNotes,  \* bound: number of records ever stored
  Requests,  \* bound: requests the client has in flight at one time
  Limit,     \* the records a list holds at most (50)
  MaxLoads,  \* bound: number of loads the client asks for
  Faults     \* the failures that may happen: subset of FaultKinds

FaultKinds == {"load", "mark"}

ASSUME ListAssumption ==
  /\ MaxNotes \in Nat
  /\ Limit \in Nat \ {0}
  /\ MaxLoads \in Nat
  /\ Faults \subseteq FaultKinds

Notes == 1..MaxNotes   \* in the order of created_at

Lists    == [unread : SUBSET Notes, read : SUBSET Notes]
Nothing  == [unread |-> {}, read |-> {}]
Failed   == [error |-> TRUE]    \* the client shows an error instead of a list
Unserved == [error |-> FALSE]   \* the server has not answered yet

Idle  == [op |-> "idle"]
Marks == [op : {"mark"}, all : BOOLEAN, notes : SUBSET Notes, served : BOOLEAN]
Loads == [op : {"load"}, no : 1..MaxLoads, answer : Lists \cup {Unserved}]

VARIABLES
  records,  \* notification_records: each record's is_read, or "none" or "gone"
  pushes,   \* FCM: the messages on their way to the app
  req,      \* what each request of the client is at
  shown,    \* what the client shows
  asked,    \* history: the number of loads it has asked for
  shownNo,  \* history: which of them it shows
  newest,   \* history: the latest of them it has ever shown
  marked,   \* history: the records it was told are read now
  heard     \* history: the records whose message it received

client  == <<req, shown>>
history == <<asked, shownNo, newest, marked, heard>>
vars    == <<records, pushes, client, history>>

Init ==
  /\ records = [n \in Notes |-> "none"]
  /\ pushes = {}
  /\ req = [r \in Requests |-> Idle]
  /\ shown = Nothing
  /\ asked = 0
  /\ shownNo = 0
  /\ newest = 0
  /\ marked = {}
  /\ heard = {}

(***************************************************************************)
(* The server: storeAndPush, ListByUser, MarkRead, MarkAllRead             *)
(***************************************************************************)
Existing == {n \in Notes : records[n] \in {"unread", "read"}}

\* storeAndPush stores the next message's record, unread, and then pushes it, unless
\* the settings keep it quiet, there is no device or the push fails.
Store(n) ==
  /\ records[n] = "none"
  /\ \A m \in 1..n-1 : records[m] # "none"
  /\ records' = [records EXCEPT ![n] = "unread"]
  /\ pushes' = pushes \/ pushes' = pushes \cup {n}
  /\ UNCHANGED <<client, history>>

\* Unlinking the account deletes its records with it.
Unlink ==
  /\ Existing # {}
  /\ records' = [n \in Notes |-> IF n \in Existing THEN "gone" ELSE records[n]]
  /\ UNCHANGED <<pushes, client, history>>

\* The records a mark changes.
SetRead(notes) == [n \in Notes |-> IF n \in notes \cap Existing THEN "read" ELSE records[n]]

\* Another client of the user marks one record, or all.
MarkElsewhere(notes) ==
  /\ records' = SetRead(notes)
  /\ UNCHANGED <<pushes, client, history>>

\* ORDER BY created_at DESC LIMIT.
Listed == {n \in Existing : Cardinality({m \in Existing : m > n}) < Limit}

ListByUser == [unread |-> {n \in Listed : records[n] = "unread"},
               read   |-> {n \in Listed : records[n] = "read"}]

\* A load reaches the database.
LoadServed(r) ==
  /\ req[r].op = "load"
  /\ req[r].answer = Unserved
  /\ req' = [req EXCEPT ![r].answer = ListByUser]
  /\ UNCHANGED <<records, pushes, shown, history>>

\* A mark does: MarkRead of a record that is still there, or MarkAllRead.
MarkServed(r) ==
  /\ req[r].op = "mark" /\ ~req[r].served
  /\ req[r].all \/ req[r].notes \cap Existing # {}
  /\ records' = SetRead(req[r].notes)
  /\ req' = [req EXCEPT ![r].served = TRUE, ![r].notes = @ \cap Existing]
  /\ UNCHANGED <<pushes, shown, history>>

(***************************************************************************)
(* The client: NotificationsNotifier, loadNotifications                    *)
(***************************************************************************)
\* The request r becomes the next load.
Ask(r) ==
  /\ asked < MaxLoads
  /\ req' = [req EXCEPT ![r] = [op |-> "load", no |-> asked + 1, answer |-> Unserved]]
  /\ asked' = asked + 1

\* refresh, by the user or when the list is built; loadNotifications.
Refresh(r) ==
  /\ req[r] = Idle
  /\ Ask(r)
  /\ UNCHANGED <<records, pushes, shown, shownNo, newest, marked, heard>>

\* The client shows what came of a load.
Show(r, answer) ==
  /\ req' = [req EXCEPT ![r] = Idle]
  /\ shown' = answer
  /\ shownNo' = req[r].no
  /\ newest' = IF req[r].no > newest THEN req[r].no ELSE newest
  /\ UNCHANGED <<records, pushes, asked, marked, heard>>

\* Mutant: an answer is shown before it is there.
LoadShownEarly(r) ==
  /\ req[r].op = "load"
  /\ Show(r, req[r].answer)

LoadShown(r) ==
  /\ req[r].op = "load"
  /\ req[r].answer # Unserved
  /\ Show(r, req[r].answer)

LoadFails(r) ==
  /\ "load" \in Faults
  /\ req[r].op = "load"
  /\ Show(r, Failed)

Mark(r, all, notes) ==
  /\ req[r] = Idle
  /\ req' = [req EXCEPT ![r] = [op |-> "mark", all |-> all, notes |-> notes, served |-> FALSE]]
  /\ UNCHANGED <<records, pushes, shown, history>>

\* markRead: the user taps a record that is shown unread.
Tap(r, n) ==
  /\ shown # Failed
  /\ n \in shown.unread
  /\ Mark(r, FALSE, {n})

\* markAllRead means whatever there is when the server gets it.
MarkAll(r) == Mark(r, TRUE, Notes)

\* Mutant: the list is loaded at once, while the mark is on its way.
MarkedUnawaited(r) ==
  /\ req[r].op = "mark" /\ ~req[r].served
  /\ records' = SetRead(req[r].notes)
  /\ marked' = marked \cup req[r].notes
  /\ asked < MaxLoads /\ asked' = asked + 1
  /\ \E answer \in {Unserved, ListByUser} :
       req' = [req EXCEPT ![r] = [op |-> "load", no |-> asked + 1, answer |-> answer]]
  /\ UNCHANGED <<pushes, shown, shownNo, newest, heard>>

\* The answer to a mark has come: the client loads the list.
Marked(r) ==
  /\ req[r].op = "mark" /\ req[r].served
  /\ marked' = marked \cup req[r].notes
  /\ Ask(r)
  /\ UNCHANGED <<records, pushes, shown, shownNo, newest, heard>>

\* The record is gone, or the request or its answer is lost: no load follows.
MarkFails(r) ==
  /\ req[r].op = "mark"
  /\ "mark" \in Faults \/ ~(req[r].served \/ req[r].all \/ req[r].notes \cap Existing # {})
  /\ req' = [req EXCEPT ![r] = Idle]
  /\ UNCHANGED <<records, pushes, shown, history>>

\* Mutant: a message that arrives while the list is loading loads nothing.
OnMessageUnlessLoading(r, n) ==
  /\ n \in pushes
  /\ req[r] = Idle
  /\ IF \E q \in Requests : req[q].op = "load" THEN UNCHANGED <<req, asked>> ELSE Ask(r)
  /\ pushes' = pushes \ {n}
  /\ heard' = heard \cup {n}
  /\ UNCHANGED <<records, shown, shownNo, newest, marked>>

\* A message reaches the app in the foreground, which loads the list.
OnMessage(r, n) ==
  /\ n \in pushes
  /\ req[r] = Idle
  /\ Ask(r)
  /\ pushes' = pushes \ {n}
  /\ heard' = heard \cup {n}
  /\ UNCHANGED <<records, shown, shownNo, newest, marked>>

\* It reaches the app in the background: the system shows it, and the list stays as it is.
OnBackgroundMessage(n) ==
  /\ n \in pushes
  /\ pushes' = pushes \ {n}
  /\ UNCHANGED <<records, client, history>>

(***************************************************************************)
(* The specification                                                       *)
(***************************************************************************)
Click(r) == Refresh(r) \/ MarkAll(r) \/ \E n \in Notes : Tap(r, n)

Answer(r) ==
  \/ LoadServed(r) \/ LoadShown(r) \/ LoadFails(r)
  \/ MarkServed(r) \/ Marked(r) \/ MarkFails(r)

Next ==
  \/ \E n \in Notes : \/ Store(n) \/ OnBackgroundMessage(n)
                      \/ \E r \in Requests : OnMessage(r, n)
  \/ \E notes \in {Notes} \cup {{n} : n \in Notes} : MarkElsewhere(notes)
  \/ \E r \in Requests : Click(r) \/ Answer(r)
  \/ Unlink

Spec == Init /\ [][Next]_vars

\* Requests are answered.
Fairness == \A r \in Requests : WF_vars(Answer(r))

FairSpec == Spec /\ Fairness

(***************************************************************************)
(* Properties                                                              *)
(***************************************************************************)
\* Every variable has its type.
TypeOK ==
  /\ records \in [Notes -> {"none", "unread", "read", "gone"}]
  /\ pushes \subseteq Notes
  /\ req \in [Requests -> {Idle} \cup Marks \cup Loads]
  /\ shown \in Lists \cup {Failed}
  /\ asked \in 0..MaxLoads
  /\ shownNo \in 0..MaxLoads
  /\ newest \in 0..MaxLoads
  /\ marked \subseteq Notes
  /\ heard \subseteq Notes

\* A late answer to an earlier load has taken the place of a later load's.
Overtaken == shownNo < newest

\* No request is in flight, and the list that is shown is that of the latest load.
Settled ==
  /\ \A r \in Requests : req[r] = Idle
  /\ ~Overtaken
  /\ shown # Failed

\* What the client marked as read is not shown unread to its user again, however the
\* marks and loads overlapped with each other and with those of her other clients.
ReadStaysRead == Settled => marked \cap shown.unread = {}

InList(list) == list.unread \cup list.read

\* A record whose message reached the app in the foreground is in its list, as long as
\* the record exists and is among the newest.
PushIsShown == Settled => heard \cap Listed \subseteq InList(shown)

\* Such a record appears, unless the app has an error to show, a late answer in its
\* stead, or the record is gone or buried under newer ones.
EventuallyShown ==
  \A n \in Notes :
    n \in heard ~> shown = Failed \/ n \in InList(shown) \/ Overtaken \/ n \notin Listed

=============================================================================
