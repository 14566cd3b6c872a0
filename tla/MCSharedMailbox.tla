-------------------------- MODULE MCSharedMailbox --------------------------
(* Model values for the users and the delivery of SharedMailbox's instance. *)
EXTENDS SharedMailbox

CONSTANTS ann, bob, d1
=============================================================================
