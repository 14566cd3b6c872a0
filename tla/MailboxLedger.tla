--------------------------- MODULE MailboxLedger ---------------------------
(***************************************************************************)
(* What the backend promises of a linked mailbox, without the goroutines   *)
(* that share its row: which account is linked, how far its mailbox has    *)
(* been worked through, and what became of each message.                   *)
(***************************************************************************)
EXTENDS Naturals

CONSTANTS MaxHistory, MaxLinks

Messages == 1..MaxHistory
Ids      == 1..MaxLinks

VARIABLES
  account,    \* the id of the linked account, or 0
  watermark,  \* the history id up to which its messages are accounted for
  mail,       \* the mailbox's current history id
  nextId,     \* the id the next account draws
  base,       \* the history id at which each account was linked
  records,    \* pairs <<account id, message>>: what the app's list shows
  dropped,    \* ... rejected, or given up on
  skipped,    \* ... passed by a jump of the watermark
  pushed      \* ... sent to the user's devices

vars == <<account, watermark, mail, nextId, base, records, dropped, skipped, pushed>>

Init ==
  /\ account = 1
  /\ watermark = 1
  /\ mail = 1
  /\ nextId = 2
  /\ base = [i \in Ids |-> IF i = 1 THEN 1 ELSE 0]
  /\ records = {} /\ dropped = {} /\ skipped = {} /\ pushed = {}

Accounted(i, m) == <<i, m>> \in records \cup dropped \cup skipped

MailArrives ==
  /\ mail < MaxHistory
  /\ mail' = mail + 1
  /\ UNCHANGED <<account, watermark, nextId, base, records, dropped, skipped, pushed>>

\* A message of the linked account goes into its list.
Store(m) ==
  /\ account # 0
  /\ m <= mail
  /\ records' = records \cup {<<account, m>>}
  /\ UNCHANGED <<account, watermark, mail, nextId, base, dropped, skipped, pushed>>

\* A message is rejected or given up on, of the linked account or an earlier one.
Drop(i, m) ==
  /\ i < nextId
  /\ m <= mail
  /\ dropped' = dropped \cup {<<i, m>>}
  /\ UNCHANGED <<account, watermark, mail, nextId, base, records, skipped, pushed>>

\* The user's devices are told; of the linked account, only what its list shows.
Push(i, m) ==
  /\ i < nextId
  /\ m <= mail
  /\ i = account => <<i, m>> \in records
  /\ pushed' = pushed \cup {<<i, m>>}
  /\ UNCHANGED <<account, watermark, mail, nextId, base, records, dropped, skipped>>

\* The watermark goes on, or back, to where no message is left behind.
Move(h) ==
  /\ account # 0
  /\ h <= mail
  /\ \A m \in Messages : base[account] < m /\ m <= h => Accounted(account, m)
  /\ watermark' = h
  /\ UNCHANGED <<account, mail, nextId, base, records, dropped, skipped, pushed>>

\* The watermark becomes an id Google answered: the messages passed are skipped.
Jump(h) ==
  /\ account # 0
  /\ h <= mail
  /\ watermark' = h
  /\ skipped' = skipped \cup
       {<<account, m>> : m \in {k \in watermark + 1 .. h : ~Accounted(account, k)}}
  /\ UNCHANGED <<account, mail, nextId, base, records, dropped, pushed>>

\* The account goes, and its list with it.
Unlink ==
  /\ account # 0
  /\ account' = 0
  /\ watermark' = 0
  /\ records' = {}
  /\ UNCHANGED <<mail, nextId, base, dropped, skipped, pushed>>

\* The mailbox is linked again, under an id never used before, with an empty list.
Link(h) ==
  /\ account = 0
  /\ nextId \in Ids
  /\ h <= mail
  /\ account' = nextId
  /\ watermark' = h
  /\ base' = [base EXCEPT ![nextId] = h]
  /\ nextId' = nextId + 1
  /\ UNCHANGED <<mail, records, dropped, skipped, pushed>>

Next ==
  \/ MailArrives
  \/ \E m \in Messages : Store(m) \/ Move(m) \/ Jump(m) \/ Link(m)
  \/ \E i \in Ids, m \in Messages : Drop(i, m) \/ Push(i, m)
  \/ Unlink

Spec == Init /\ [][Next]_vars
=============================================================================
