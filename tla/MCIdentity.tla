----------------------------- MODULE MCIdentity -----------------------------
(* Model values for Identity's instance. *)
EXTENDS Identity

CONSTANTS ann, s1, light, dark, r1, r2
=============================================================================
