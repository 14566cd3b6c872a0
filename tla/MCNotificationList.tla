------------------------- MODULE MCNotificationList -------------------------
(* Model values for the requests of NotificationList's instance. *)
EXTENDS NotificationList

CONSTANTS r1, r2
=============================================================================
