----------------------------- MODULE MCQRLogin -----------------------------
(* Model values for the polls of QRLogin's instances. *)
EXTENDS QRLogin

CONSTANTS p1, p2
=============================================================================
