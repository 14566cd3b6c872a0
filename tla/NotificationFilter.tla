------------------------- MODULE NotificationFilter -------------------------
(***************************************************************************)
(* shouldNotify and inQuietHours: which new messages a user hears of, and  *)
(* when.  A text is the set of keywords and senders it contains, trimmed   *)
(* and in lower case.                                                      *)
(***************************************************************************)
EXTENDS Integers

CONSTANT Words   \* what users filter by: keywords, and parts of an allowlist

Day       == 24 * 60
Blank     == ""     \* a text that is empty once trimmed
Malformed == <<>>   \* a time that is not two numbers with a colon between

\* A filter may be blank.
ASSUME FilterAssumption == Blank \in Words

Categories ==
  {"CATEGORY_PERSONAL", "CATEGORY_PROMOTIONS", "CATEGORY_SOCIAL", "CATEGORY_UPDATES",
   "CATEGORY_FORUMS"}

\* NotificationSettings.  A time is the pair of its numbers, whatever their
\* range; the allowlist is the set of its parts.
Settings ==
  [enabled : BOOLEAN, quiet : BOOLEAN,
   start : (Int \X Int) \cup {Malformed}, end : (Int \X Int) \cup {Malformed},
   onlyPrimary : BOOLEAN, includeSpam : BOOLEAN,
   keyword : Words, allow : SUBSET Words]

\* What Register, a first Google sign-in and GetSettings insert.
Default ==
  [enabled |-> TRUE, quiet |-> FALSE, start |-> <<22, 0>>, end |-> <<7, 0>>,
   onlyPrimary |-> TRUE, includeSpam |-> FALSE, keyword |-> Blank, allow |-> {}]

\* A message has labels, the keywords its subject, snippet and sender contain,
\* and the parts of addresses its sender contains.
ShouldNotify(settings, msg) ==
  /\ "SPAM" \in msg.labels => settings.includeSpam
  /\ settings.onlyPrimary =>
       /\ "INBOX" \in msg.labels
       /\ Categories \cap msg.labels # {} => "CATEGORY_PERSONAL" \in msg.labels
  /\ settings.keyword # Blank => settings.keyword \in msg.text
  /\ settings.allow # {} => (settings.allow \ {Blank}) \cap msg.from # {}

\* parseHHMM: no range is checked.
Minutes(time) == time[1] * 60 + time[2]

\* Mutant: a window that wraps midnight needs both conditions.
InQuietHoursBoth(settings, mins) ==
  /\ settings.quiet
  /\ settings.start # Malformed /\ settings.end # Malformed
  /\ Minutes(settings.start) <= mins /\ mins < Minutes(settings.end)

\* From start up to, but not including, end; around midnight if end is smaller.
InQuietHours(settings, mins) ==
  /\ settings.quiet
  /\ settings.start # Malformed /\ settings.end # Malformed
  /\ LET start == Minutes(settings.start)
         end   == Minutes(settings.end)
     IN  IF start <= end THEN start <= mins /\ mins < end
                         ELSE start <= mins \/ mins < end

(***************************************************************************)
(* What quiet hours mean                                                   *)
(***************************************************************************)
\* A time a clock shows.
ClockTime(time) == time # Malformed /\ Minutes(time) \in 0..(Day - 1)

\* How long a clock takes from one minute of the day to the next sight of another.
Ahead(from, to) == IF from <= to THEN to - from ELSE to - from + Day

\* Going round the clock from start, the minute comes before end does.
InWindow(settings, mins) ==
  LET start == Minutes(settings.start)
  IN  Ahead(start, mins) < Ahead(start, Minutes(settings.end))
=============================================================================
