-------------------------- MODULE MCTokenRefresh --------------------------
(* Model values for the requests of TokenRefresh's instances. *)
EXTENDS TokenRefresh, TLC

CONSTANTS r1, r2, r3

\* r1 is a bootstrap request, which clears the tokens on failure, r2 and r3 behave alike.
Alike == Permutations({r2, r3})
=============================================================================
