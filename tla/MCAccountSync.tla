--------------------------- MODULE MCAccountSync ---------------------------
(* Model values for the goroutines of AccountSync's instances, and a bound. *)
EXTENDS AccountSync, FiniteSets, TLC

CONSTANTS poller, renewer, h1, h2

\* The handlers run the same code, and what is checked names none of them.
TwoAlike == Permutations({h1, h2})

\* Bound: after the last account was created, one goroutine at a time.
FewAtTheEnd ==
  nextId > MaxLinks => Cardinality({w \in Workers : pc[w] # "idle"}) <= 1
=============================================================================
