----------------------------- MODULE MCAlerts -----------------------------
(* Settings and messages of the instance of Alerts. *)
EXTENDS Alerts, TLC

CONSTANTS w1, c1, c2, t1, t2

\* Quiet hours around midnight, and within the day; a filter by keyword and
\* sender that takes spam, with a time no clock shows.
TheChoices ==
  { [Default EXCEPT !.quiet = TRUE],
    [Default EXCEPT !.quiet = TRUE, !.start = <<7, 0>>, !.end = <<22, 0>>],
    [Default EXCEPT !.quiet = TRUE, !.start = <<25, 0>>, !.onlyPrimary = FALSE,
                    !.includeSpam = TRUE, !.keyword = "invoice", !.allow = {"boss@", Blank}] }

TheMessages ==
  { [labels |-> {"INBOX", "CATEGORY_PERSONAL"}, text |-> {}, from |-> {}],
    [labels |-> {"SPAM"}, text |-> {"invoice"}, from |-> {"boss@"}] }

\* Clients are alike, and so are tokens.
Alike == Permutations({c1, c2}) \cup Permutations({t1, t2})
=============================================================================
