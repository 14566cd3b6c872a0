----------------------- MODULE NotificationList_proofs -----------------------
(***************************************************************************)
(* What a client shows of the notification records, for any number of      *)
(* records, requests and loads.                                            *)
(***************************************************************************)
EXTENDS NotificationList, FiniteSetTheorems, TLAPS

\* A record that is gone or read will not be unread again; a message follows its record.
RecordsMarked ==
  /\ \A n \in marked : records[n] \in {"read", "gone"}
  /\ \A r \in Requests : req[r].op = "mark" /\ req[r].served =>
       \A n \in req[r].notes : records[n] \in {"read", "gone"}
  /\ \A n \in pushes \cup heard : records[n] # "none"

\* Loads are numbered as they are asked for, and the last one is in flight until it is shown.
Loading(r, no) == req[r].op = "load" /\ req[r].no = no

LoadsCounted ==
  /\ shownNo <= newest
  /\ newest <= asked
  /\ \A r \in Requests : req[r].op = "load" => req[r].no <= asked
  /\ newest < asked => \E r \in Requests : Loading(r, asked)

\* A list has nothing unread that is marked, and every record heard of that is among
\* the newest.
UpToDate(list) == list.unread \cap marked = {} /\ heard \cap Listed \subseteq InList(list)

\* The answer to the last load, still in flight or shown, is up to date.
LastUpToDate ==
  /\ \A r \in Requests : Loading(r, asked) /\ req[r].answer # Unserved => UpToDate(req[r].answer)
  /\ shownNo = asked /\ shown # Failed => UpToDate(shown)

Inv == TypeOK /\ RecordsMarked /\ LoadsCounted /\ LastUpToDate

(***************************************************************************)
(* Requests, records and lists                                             *)
(***************************************************************************)
LEMMA Bounds == MaxNotes \in Nat /\ Limit \in Nat \ {0} /\ MaxLoads \in Nat
  BY ListAssumption

LEMMA Kinds ==
  ASSUME NEW q \in {Idle} \cup Marks \cup Loads
  PROVE  /\ q.op = "mark" => q \in Marks
         /\ q.op = "load" => q \in Loads
         /\ q = Idle => q.op = "idle"
  BY DEF Idle, Marks, Loads

LEMMA ServedMark ==
  ASSUME TypeOK, NEW r \in Requests, MarkServed(r)
  PROVE  \E k \in Marks : /\ req' = [req EXCEPT ![r] = k]
                          /\ k.op = "mark" /\ k.notes = req[r].notes \cap Existing
<1>1. PICK m \in Marks : m = req[r]
  BY Kinds DEF MarkServed, TypeOK
<1>2. PICK k : k = [m EXCEPT !.served = TRUE, !.notes = @ \cap Existing]
  OBVIOUS
<1>3. k \in Marks /\ k.op = "mark" /\ k.notes = m.notes \cap Existing
  BY <1>2 DEF Marks
<1>4. req' = [req EXCEPT ![r] = k]
  BY <1>1, <1>2 DEF MarkServed, TypeOK
<1> QED BY <1>1, <1>3, <1>4

LEMMA ServedLoad ==
  ASSUME TypeOK, NEW r \in Requests, LoadServed(r)
  PROVE  /\ req' = [req EXCEPT ![r] = [op |-> "load", no |-> req[r].no, answer |-> ListByUser]]
         /\ req[r].no \in 1..MaxLoads
<1>1. PICK m \in Loads : m = req[r]
  BY Kinds DEF LoadServed, TypeOK
<1>2. m.op = "load" /\ m.no \in 1..MaxLoads
  BY DEF Loads
<1>3. [m EXCEPT !.answer = ListByUser] = [op |-> "load", no |-> m.no, answer |-> ListByUser]
  BY <1>2 DEF Loads
<1>4. req' = [req EXCEPT ![r] = [m EXCEPT !.answer = ListByUser]]
  BY <1>1 DEF LoadServed, TypeOK
<1> QED BY <1>1, <1>2, <1>3, <1>4

LEMMA ListTypes == ListByUser \in Lists /\ InList(ListByUser) = Listed
  BY DEF ListByUser, Lists, InList, Listed, Existing

\* A record among the newest was among the newest before, unless it is new.
LEMMA ListedBefore ==
  ASSUME NEW n \in Notes, Existing \subseteq Existing', n \in Existing, n \in Listed'
  PROVE  n \in Listed
<1> DEFINE above == {m \in Existing : m > n}
           aboveNow == {m \in Existing' : m > n}
<1>1. IsFiniteSet(Notes)
  BY FS_Interval, Bounds DEF Notes
<1>2. IsFiniteSet(aboveNow)
  BY <1>1, FS_Subset DEF Existing
<1>3. above \subseteq aboveNow
  OBVIOUS
<1>4. Cardinality(above) <= Cardinality(aboveNow) /\ Cardinality(above) \in Nat /\ Cardinality(aboveNow) \in Nat
  BY <1>2, <1>3, FS_Subset, FS_CardinalityType
<1>5. Cardinality(aboveNow) < Limit
  BY DEF Listed
<1>6. Cardinality(above) < Limit
  BY <1>4, <1>5, Bounds
<1> QED BY <1>6 DEF Listed

(***************************************************************************)
(* What a step does                                                        *)
(***************************************************************************)
\* Records are stored, read and deleted, and never the other way.
LEMMA RecordsMove ==
  ASSUME TypeOK, [Next]_vars, NEW n \in Notes
  PROVE  /\ records[n] \in {"read", "gone"} => records'[n] \in {"read", "gone"}
         /\ records[n] # "none" => records'[n] # "none"
         /\ records[n] # "none" /\ n \in Listed' => n \in Listed
<1> USE DEF client, history
<1>1. ASSUME NEW notes, records' = SetRead(notes)
      PROVE  /\ records[n] \in {"read", "gone"} => records'[n] \in {"read", "gone"}
             /\ records[n] # "none" => records'[n] # "none"
             /\ Existing' = Existing
  BY <1>1 DEF SetRead, Existing, TypeOK
<1>2. ASSUME NEW m \in Notes, Store(m)
      PROVE  /\ records[n] # "none" => records'[n] = records[n]
             /\ Existing \subseteq Existing'
             /\ n \in Existing' /\ records[n] # "none" => n \in Existing
  BY <1>2 DEF Store, Existing, TypeOK
<1>3. ASSUME Unlink
      PROVE  /\ records[n] = "gone" => records'[n] = "gone"
             /\ records[n] = "read" => records'[n] = "gone"
             /\ records[n] # "none" => records'[n] # "none"
             /\ n \notin Existing'
  BY <1>3 DEF Unlink, Existing, TypeOK
<1>4. CASE records' = records
  BY <1>4 DEF Listed, Existing
<1>5. CASE \E notes : records' = SetRead(notes)
  <2>1. PICK notes : records' = SetRead(notes)
    BY <1>5
  <2> QED BY <1>1, <2>1 DEF Listed
<1>6. CASE \E m \in Notes : Store(m)
  <2>1. PICK m \in Notes : Store(m)
    BY <1>6
  <2>2. n \in Listed' => n \in Existing'
    BY DEF Listed
  <2> QED BY <1>2, <2>1, <2>2, ListedBefore DEF TypeOK
<1>7. CASE Unlink
  BY <1>3, <1>7 DEF Listed, TypeOK
<1>8. \/ records' = records
      \/ \E notes : records' = SetRead(notes)
      \/ \E m \in Notes : Store(m)
      \/ Unlink
  BY DEF Next, vars, OnBackgroundMessage, OnMessage, MarkElsewhere, Click, Refresh, MarkAll, Tap, Mark,
         Answer, LoadServed, LoadShown, LoadFails, Show, MarkServed, Marked, MarkFails
<1> QED BY <1>4, <1>5, <1>6, <1>7, <1>8

\* Asks(r): the next load is asked for, and only then does the client learn of marks and
\* messages.  Quiet: loads, what is shown and what the client learned stay as they are.
Asks(r) == Ask(r) /\ req[r].op # "load" /\ UNCHANGED <<shown, shownNo, newest>>

Quiet ==
  /\ UNCHANGED <<shown, history>>
  /\ \A r \in Requests : req'[r] = req[r] \/ (req'[r].op # "load" /\ req[r].op # "load")

LEMMA Steps ==
  ASSUME TypeOK, [Next]_vars
  PROVE  \/ \E r \in Requests : Asks(r) \/ LoadShown(r) \/ LoadFails(r) \/ LoadServed(r)
         \/ Quiet
<1> USE DEF client, history
<1>1. ASSUME NEW r \in Requests, Refresh(r) \/ Marked(r) \/ \E n \in Notes : OnMessage(r, n)
      PROVE  Asks(r)
  BY <1>1 DEF Refresh, Marked, OnMessage, Asks, Idle
<1>2. ASSUME NEW r \in Requests, NEW all, NEW notes, Mark(r, all, notes) PROVE Quiet
  BY <1>2 DEF Mark, Quiet, Idle, TypeOK
<1>3. ASSUME NEW r \in Requests, MarkAll(r) \/ \E n \in Notes : Tap(r, n) PROVE Quiet
  BY <1>2, <1>3 DEF MarkAll, Tap
<1>4. ASSUME NEW r \in Requests, MarkServed(r) PROVE Quiet
  <2>1. PICK k \in Marks : req' = [req EXCEPT ![r] = k] /\ k.op = "mark"
    BY <1>4, ServedMark
  <2> QED BY <1>4, <2>1 DEF MarkServed, Quiet, TypeOK
<1>5. ASSUME NEW r \in Requests, MarkFails(r) PROVE Quiet
  BY <1>5 DEF MarkFails, Quiet, Idle, TypeOK
<1>6. CASE \/ \E n \in Notes : Store(n) \/ OnBackgroundMessage(n)
           \/ \E notes \in {Notes} \cup {{n} : n \in Notes} : MarkElsewhere(notes)
           \/ Unlink
           \/ UNCHANGED vars
  BY <1>6 DEF Store, OnBackgroundMessage, MarkElsewhere, Unlink, vars, Quiet
<1> QED BY <1>1, <1>3, <1>4, <1>5, <1>6 DEF Next, Click, Answer

(***************************************************************************)
(* The invariant is kept                                                   *)
(***************************************************************************)
LEMMA InitInv == Init => Inv
<1> SUFFICES ASSUME Init PROVE Inv
  OBVIOUS
<1> USE DEF Init
<1>1. Nothing \in Lists
  BY DEF Nothing, Lists
<1>2. TypeOK
  BY <1>1, Bounds DEF TypeOK
<1>3. \A r \in Requests : req[r].op = "idle"
  BY DEF Idle
<1>4. RecordsMarked /\ LoadsCounted
  BY <1>3 DEF RecordsMarked, LoadsCounted
<1>5. LastUpToDate
  BY <1>3 DEF LastUpToDate, Loading, UpToDate
<1> QED BY <1>2, <1>4, <1>5 DEF Inv

LEMMA TypeStep ==
  ASSUME Inv, [Next]_vars
  PROVE  TypeOK'
<1> USE DEF Inv, client, history
<1> DEFINE Stored == {"none", "unread", "read", "gone"}
<1>1. ASSUME NEW notes PROVE SetRead(notes) \in [Notes -> Stored]
  BY DEF SetRead, TypeOK
<1>2. ASSUME NEW r \in Requests, Ask(r)
      PROVE  req' \in [Requests -> {Idle} \cup Marks \cup Loads] /\ asked' \in 0..MaxLoads
  <2>1. asked + 1 \in 1..MaxLoads
    BY <1>2, Bounds DEF Ask, TypeOK
  <2>2. [op |-> "load", no |-> asked + 1, answer |-> Unserved] \in Loads
    BY <2>1 DEF Loads
  <2> QED BY <1>2, <2>1, <2>2, Bounds DEF Ask, TypeOK
<1>3. ASSUME NEW r \in Requests, NEW answer, Show(r, answer), req[r].op = "load", answer \in Lists \cup {Failed}
      PROVE  TypeOK'
  <2>1. req[r].no \in 1..MaxLoads
    BY <1>3, Kinds DEF TypeOK, Loads
  <2>2. req[r].no \in 0..MaxLoads
    BY <2>1, Bounds
  <2> QED BY <1>3, <2>2 DEF Show, TypeOK
<1>4. ASSUME NEW n \in Notes, Store(n) PROVE TypeOK'
  BY <1>4 DEF Store, TypeOK
<1>5. ASSUME NEW n \in Notes, OnBackgroundMessage(n) PROVE TypeOK'
  BY <1>5 DEF OnBackgroundMessage, TypeOK
<1>6. ASSUME NEW r \in Requests, NEW n \in Notes, OnMessage(r, n) PROVE TypeOK'
  BY <1>2, <1>6 DEF OnMessage, TypeOK
<1>7. ASSUME NEW notes, MarkElsewhere(notes) PROVE TypeOK'
  BY <1>1, <1>7 DEF MarkElsewhere, TypeOK
<1>8. ASSUME NEW r \in Requests, Refresh(r) PROVE TypeOK'
  BY <1>2, <1>8 DEF Refresh, TypeOK
<1>9. ASSUME NEW r \in Requests, NEW all \in BOOLEAN, NEW notes \in SUBSET Notes, Mark(r, all, notes)
      PROVE  TypeOK'
  <2>1. [op |-> "mark", all |-> all, notes |-> notes, served |-> FALSE] \in Marks
    BY DEF Marks
  <2> QED BY <1>9, <2>1 DEF Mark, TypeOK
<1>10. ASSUME NEW r \in Requests, MarkAll(r) \/ \E n \in Notes : Tap(r, n) PROVE TypeOK'
  BY <1>9, <1>10 DEF MarkAll, Tap
<1>11. ASSUME NEW r \in Requests, LoadServed(r) PROVE TypeOK'
  <2>1. [op |-> "load", no |-> req[r].no, answer |-> ListByUser] \in Loads
    BY <1>11, ServedLoad, ListTypes DEF Loads
  <2> QED BY <1>11, <2>1, ServedLoad DEF LoadServed, TypeOK
<1>12. ASSUME NEW r \in Requests, LoadShown(r) PROVE TypeOK'
  <2>1. req[r].answer \in Lists
    BY <1>12, Kinds DEF LoadShown, TypeOK, Loads
  <2> QED BY <1>3, <1>12, <2>1 DEF LoadShown
<1>13. ASSUME NEW r \in Requests, LoadFails(r) PROVE TypeOK'
  BY <1>3, <1>13 DEF LoadFails
<1>14. ASSUME NEW r \in Requests, MarkServed(r) PROVE TypeOK'
  <2>1. PICK k \in Marks : req' = [req EXCEPT ![r] = k]
    BY <1>14, ServedMark
  <2> QED BY <1>1, <1>14, <2>1 DEF MarkServed, TypeOK
<1>15. ASSUME NEW r \in Requests, Marked(r) PROVE TypeOK'
  <2>1. req[r].notes \subseteq Notes
    BY <1>15, Kinds DEF Marked, TypeOK, Marks
  <2> QED BY <1>2, <1>15, <2>1 DEF Marked, TypeOK
<1>16. ASSUME NEW r \in Requests, MarkFails(r) PROVE TypeOK'
  BY <1>16 DEF MarkFails, TypeOK
<1>17. CASE Unlink
  BY <1>17 DEF Unlink, TypeOK
<1>18. CASE UNCHANGED vars
  BY <1>18 DEF vars, TypeOK
<1> QED
  BY <1>4, <1>5, <1>6, <1>7, <1>8, <1>10, <1>11, <1>12, <1>13, <1>14, <1>15, <1>16, <1>17, <1>18
  DEF Next, Click, Answer


LEMMA MarkedStep ==
  ASSUME Inv, [Next]_vars
  PROVE  RecordsMarked'
<1> USE DEF Inv, client, history
<1> DEFINE Past(n) == records'[n] \in {"read", "gone"}
<1>1. \A n \in Notes : records[n] \in {"read", "gone"} => Past(n)
  BY RecordsMove
<1>2. \A n \in Notes : records[n] # "none" => records'[n] # "none"
  BY RecordsMove
<1>3. \A r \in Requests : req[r].op = "mark" => req[r].notes \subseteq Notes
  BY Kinds DEF TypeOK, Marks
<1>4. \A n \in marked' : Past(n)
  <2>1. CASE marked' = marked
    BY <2>1, <1>1 DEF RecordsMarked, TypeOK
  <2>2. CASE \E r \in Requests : Marked(r)
    BY <2>2, <1>1, <1>3 DEF Marked, RecordsMarked, TypeOK
  <2>3. marked' = marked \/ \E r \in Requests : Marked(r)
    BY DEF Next, vars, Store, OnBackgroundMessage, OnMessage, MarkElsewhere, Click, Refresh, MarkAll, Tap,
           Mark, Answer, LoadServed, LoadShown, LoadFails, Show, MarkServed, MarkFails, Unlink
  <2> QED BY <2>1, <2>2, <2>3
<1>5. ASSUME NEW r \in Requests, req'[r].op = "mark", req'[r].served PROVE \A n \in req'[r].notes : Past(n)
  <2>1. CASE req'[r] = req[r]
    BY <2>1, <1>1, <1>3, <1>5 DEF RecordsMarked
  <2>2. CASE MarkServed(r)
    <3>1. PICK k \in Marks : req' = [req EXCEPT ![r] = k] /\ k.notes = req[r].notes \cap Existing
      BY <2>2, ServedMark
    <3>2. req'[r].notes = req[r].notes \cap Existing
      BY <3>1 DEF TypeOK
    <3>3. records' = SetRead(req[r].notes)
      BY <2>2 DEF MarkServed
    <3> QED BY <3>2, <3>3 DEF SetRead, Existing
  <2>3. req'[r] = req[r] \/ MarkServed(r)
    <3>1. ASSUME NEW q \in Requests, NEW all, NEW notes, Mark(q, all, notes) PROVE req'[r] = req[r]
      BY <3>1, <1>5 DEF Mark, TypeOK
    <3>2. ASSUME NEW q \in Requests, Click(q) PROVE req'[r] = req[r]
      <4>1. CASE Refresh(q)
        BY <4>1, <1>5 DEF Refresh, Ask, TypeOK
      <4>2. CASE MarkAll(q) \/ \E n \in Notes : Tap(q, n)
        BY <3>1, <4>2 DEF MarkAll, Tap
      <4> QED BY <3>2, <4>1, <4>2 DEF Click
    <3>3. ASSUME NEW q \in Requests, LoadServed(q) PROVE req'[r] = req[r]
      BY <3>3, <1>5, ServedLoad DEF TypeOK
    <3>4. ASSUME NEW q \in Requests, MarkServed(q), q # r PROVE req'[r] = req[r]
      BY <3>4, ServedMark DEF TypeOK
    <3>5. ASSUME NEW q \in Requests, LoadShown(q) \/ LoadFails(q) \/ MarkFails(q) PROVE req'[r] = req[r]
      BY <3>5, <1>5 DEF LoadShown, LoadFails, Show, MarkFails, Idle, TypeOK
    <3>6. ASSUME NEW q \in Requests, Marked(q) \/ \E n \in Notes : OnMessage(q, n) PROVE req'[r] = req[r]
      BY <3>6, <1>5 DEF Marked, OnMessage, Ask, TypeOK
    <3>7. CASE \/ \E n \in Notes : Store(n) \/ OnBackgroundMessage(n)
               \/ \E notes \in {Notes} \cup {{n} : n \in Notes} : MarkElsewhere(notes)
               \/ Unlink
               \/ UNCHANGED vars
      BY <3>7 DEF Store, OnBackgroundMessage, MarkElsewhere, Unlink, vars
    <3> QED BY <3>2, <3>3, <3>4, <3>5, <3>6, <3>7 DEF Next, Answer
  <2> QED BY <2>1, <2>2, <2>3
<1>6. \A n \in pushes' \cup heard' : records'[n] # "none"
  <2>1. CASE pushes' \cup heard' \subseteq pushes \cup heard
    BY <2>1, <1>2 DEF RecordsMarked, TypeOK
  <2>2. CASE \E n \in Notes : Store(n)
    <3>1. PICK n \in Notes : Store(n)
      BY <2>2
    <3>2. records'[n] # "none" /\ pushes' \cup heard' \subseteq pushes \cup heard \cup {n}
      BY <3>1 DEF Store, TypeOK
    <3> QED BY <3>2, <1>2 DEF RecordsMarked, TypeOK
  <2>3. pushes' \cup heard' \subseteq pushes \cup heard \/ \E n \in Notes : Store(n)
    BY DEF Next, vars, OnBackgroundMessage, OnMessage, MarkElsewhere, Click, Refresh, MarkAll, Tap,
           Mark, Answer, LoadServed, LoadShown, LoadFails, Show, MarkServed, Marked, MarkFails, Unlink
  <2> QED BY <2>1, <2>2, <2>3
<1> QED BY <1>4, <1>5, <1>6 DEF RecordsMarked

LEMMA CountedStep ==
  ASSUME Inv, [Next]_vars
  PROVE  LoadsCounted'
<1> USE DEF Inv, client, history
<1>0. asked \in Nat /\ newest \in Nat /\ shownNo \in Nat
  BY Bounds DEF TypeOK
<1>1. ASSUME NEW r \in Requests, Asks(r) PROVE LoadsCounted'
  <2>1. /\ req'[r].op = "load" /\ req'[r].no = asked + 1 /\ asked' = asked + 1
        /\ \A q \in Requests : q # r => req'[q] = req[q]
    BY <1>1 DEF Asks, Ask, TypeOK
  <2>2. \A q \in Requests : req[q].op = "load" => req[q].no \in Nat /\ req[q].no <= asked
    BY Kinds, Bounds DEF LoadsCounted, TypeOK, Loads
  <2>3. \A q \in Requests : req'[q].op = "load" => req'[q].no <= asked'
    BY <1>0, <2>1, <2>2
  <2>4. shownNo' <= newest' /\ newest' <= asked'
    BY <1>0, <1>1, <2>1 DEF Asks, LoadsCounted
  <2> QED BY <2>1, <2>3, <2>4 DEF LoadsCounted, Loading
<1>2. ASSUME NEW r \in Requests, LoadShown(r) \/ LoadFails(r) PROVE LoadsCounted'
  <2>1. req[r].op = "load" /\ req[r].no \in Nat /\ req[r].no <= asked
    BY <1>2, Kinds, Bounds DEF LoadShown, LoadFails, LoadsCounted, TypeOK, Loads
  <2>2. /\ shownNo' = req[r].no /\ asked' = asked
        /\ newest' = IF req[r].no > newest THEN req[r].no ELSE newest
        /\ \A q \in Requests : IF q = r THEN req'[q].op = "idle" ELSE req'[q] = req[q]
    BY <1>2 DEF LoadShown, LoadFails, Show, Idle, TypeOK
  <2>3. shownNo' <= newest' /\ newest' <= asked' /\ newest <= newest'
    BY <1>0, <2>1, <2>2 DEF LoadsCounted
  <2>4. \A q \in Requests : req'[q].op = "load" => req'[q].no <= asked'
    BY <2>2 DEF LoadsCounted
  <2>5. ASSUME newest' < asked' PROVE \E q \in Requests : Loading(q, asked)'
    <3>1. newest < asked /\ req[r].no # asked
      BY <1>0, <2>1, <2>2, <2>5
    <3>2. PICK q \in Requests : Loading(q, asked)
      BY <3>1 DEF LoadsCounted
    <3>3. q # r
      BY <3>1, <3>2 DEF Loading
    <3> QED BY <2>2, <3>2, <3>3 DEF Loading
  <2> QED BY <2>3, <2>4, <2>5 DEF LoadsCounted
<1>3. ASSUME NEW r \in Requests, LoadServed(r) PROVE LoadsCounted'
  <2>1. /\ UNCHANGED <<asked, newest, shownNo>>
        /\ \A q \in Requests : req'[q].op = req[q].op /\ (req[q].op = "load" => req'[q].no = req[q].no)
    BY <1>3, ServedLoad DEF LoadServed, TypeOK
  <2> QED BY <2>1 DEF LoadsCounted, Loading
<1>4. CASE Quiet
  BY <1>4 DEF Quiet, LoadsCounted, Loading
<1> QED BY <1>1, <1>2, <1>3, <1>4, Steps

LEMMA LastStep ==
  ASSUME Inv, TypeOK', [Next]_vars
  PROVE  LastUpToDate'
<1> USE DEF Inv, client, history
<1>0. asked \in Nat /\ newest \in Nat /\ shownNo \in Nat
  BY Bounds DEF TypeOK
<1>1. \A n \in heard : n \in Listed' => n \in Listed
  BY RecordsMove DEF RecordsMarked, TypeOK
<1>2. ASSUME NEW list, UpToDate(list), marked' = marked, heard' = heard
      PROVE  list.unread \cap marked' = {} /\ heard' \cap Listed' \subseteq InList(list)
  BY <1>1, <1>2 DEF UpToDate
<1>3. ASSUME NEW r \in Requests, Asks(r) PROVE LastUpToDate'
  <2>1. /\ req'[r].answer = Unserved /\ asked' = asked + 1
        /\ \A q \in Requests : q # r => req'[q] = req[q]
    BY <1>3 DEF Asks, Ask, TypeOK
  <2>2. \A q \in Requests : q # r => ~Loading(q, asked)'
    <3> SUFFICES ASSUME NEW q \in Requests, q # r, Loading(q, asked)' PROVE FALSE
      OBVIOUS
    <3>1. req[q].op = "load" /\ req[q].no = asked + 1
      BY <2>1 DEF Loading
    <3>2. req[q].no <= asked
      BY <3>1 DEF LoadsCounted
    <3> QED BY <1>0, <3>1, <3>2
  <2>3. shownNo' # asked'
    BY <1>0, <1>3, <2>1 DEF Asks, LoadsCounted
  <2> QED BY <2>1, <2>2, <2>3 DEF LastUpToDate
<1>4. ASSUME NEW r \in Requests, LoadShown(r) \/ LoadFails(r) PROVE LastUpToDate'
  <2>1. /\ UNCHANGED <<asked, marked, heard, records>> /\ shownNo' = req[r].no /\ req[r].op = "load"
        /\ \A q \in Requests : req'[q] = req[q] \/ req'[q].op = "idle"
        /\ shown' = Failed \/ (shown' = req[r].answer /\ req[r].answer # Unserved)
    BY <1>4 DEF LoadShown, LoadFails, Show, Idle, TypeOK
  <2>2. Listed' = Listed
    BY <2>1 DEF Listed, Existing
  <2>3. \A q \in Requests : Loading(q, asked)' /\ req'[q].answer # Unserved => UpToDate(req[q].answer)'
    BY <2>1, <2>2 DEF LastUpToDate, Loading, UpToDate, InList
  <2>4. shownNo' = asked' /\ shown' # Failed => UpToDate(shown)'
    BY <2>1, <2>2 DEF LastUpToDate, Loading, UpToDate, InList
  <2> QED BY <2>3, <2>4 DEF LastUpToDate
<1>5. ASSUME NEW r \in Requests, LoadServed(r) PROVE LastUpToDate'
  <2>1. /\ UNCHANGED <<records, asked, shownNo, shown, marked, heard>>
        /\ req'[r].answer = ListByUser
        /\ \A q \in Requests : q # r => req'[q] = req[q]
    BY <1>5, ServedLoad DEF LoadServed, TypeOK
  <2>2. Listed' = Listed
    BY <2>1 DEF Listed, Existing
  <2>3. ListByUser.unread \cap marked = {}
    BY DEF ListByUser, RecordsMarked
  <2>4. UpToDate(ListByUser)
    BY <2>3, ListTypes DEF UpToDate
  <2>5. \A q \in Requests : Loading(q, asked)' /\ req'[q].answer # Unserved => UpToDate(req[q].answer)'
    BY <2>1, <2>2, <2>4 DEF LastUpToDate, Loading, UpToDate, InList
  <2>6. shownNo' = asked' /\ shown' # Failed => UpToDate(shown)'
    BY <2>1, <2>2 DEF LastUpToDate, UpToDate, InList
  <2> QED BY <2>5, <2>6 DEF LastUpToDate
<1>6. CASE Quiet
  <2>1. UNCHANGED <<shown, asked, shownNo, marked, heard>>
    BY <1>6 DEF Quiet
  <2>2. \A q \in Requests : Loading(q, asked)' => Loading(q, asked) /\ req'[q] = req[q]
    BY <1>6 DEF Quiet, Loading
  <2>3. ASSUME NEW q \in Requests, Loading(q, asked)', req'[q].answer # Unserved
        PROVE  UpToDate(req[q].answer)'
    BY <1>1, <2>1, <2>2, <2>3 DEF LastUpToDate, UpToDate, InList
  <2>4. ASSUME shownNo' = asked', shown' # Failed PROVE UpToDate(shown)'
    BY <1>1, <2>1, <2>4 DEF LastUpToDate, UpToDate, InList
  <2> QED BY <2>3, <2>4 DEF LastUpToDate
<1> QED BY <1>3, <1>4, <1>5, <1>6, Steps

(***************************************************************************)
(* The theorems                                                            *)
(***************************************************************************)
THEOREM InvHolds == Spec => []Inv
<1>1. Inv /\ [Next]_vars => Inv'
  BY TypeStep, MarkedStep, CountedStep, LastStep DEF Inv
<1> QED BY <1>1, InitInv, PTL DEF Spec

\* Records, requests and what the client shows keep their types.
THEOREM TypeCorrect == Spec => []TypeOK
<1>1. Inv => TypeOK
  BY DEF Inv
<1> QED BY <1>1, InvHolds, PTL

\* A client at rest shows the last load it asked for.
LEMMA SettledIsLast ==
  ASSUME Inv, Settled
  PROVE  UpToDate(shown)
<1>1. asked \in Nat /\ newest \in Nat /\ shownNo \in Nat
  BY Bounds DEF Inv, TypeOK
<1>2. \A r \in Requests : ~Loading(r, asked)
  BY DEF Settled, Loading, Idle
<1>3. shownNo = asked
  BY <1>1, <1>2 DEF Inv, LoadsCounted, Settled, Overtaken
<1> QED BY <1>3 DEF Inv, LastUpToDate, Settled

\* The client's markRead and markAllRead load the list once the mark is answered: what
\* it marked is not shown unread again, whatever order the answers come in.
THEOREM MarksStay == Spec => []ReadStaysRead
<1>1. Inv => ReadStaysRead
  BY SettledIsLast DEF ReadStaysRead, UpToDate
<1> QED BY <1>1, InvHolds, PTL

\* A message in the foreground loads the list: its record is in it.
THEOREM PushesAreShown == Spec => []PushIsShown
<1>1. Inv => PushIsShown
  BY SettledIsLast DEF PushIsShown, UpToDate
<1> QED BY <1>1, InvHolds, PTL

=============================================================================
