-------------------------- MODULE OneTimeHandoff --------------------------
(***************************************************************************)
(* What QR login promises: a session is granted at most one login, and a   *)
(* granted login is handed over once, after which the session keeps no     *)
(* trace of it.                                                            *)
(***************************************************************************)
EXTENDS Naturals

CONSTANTS Sessions, Logins

\* A session without a login; no element of Logins.
NoLogin == 0

VARIABLES
  state,   \* of each session: open, granted, taken or closed
  login,   \* the login a granted session holds
  handed   \* how often each login was handed over

vars == <<state, login, handed>>

Init ==
  /\ state = [s \in Sessions |-> "open"]
  /\ login = [s \in Sessions |-> NoLogin]
  /\ handed = [c \in Logins |-> 0]

\* A login never granted before goes to an open session.
Grant(s, c) ==
  /\ state[s] = "open"
  /\ handed[c] = 0
  /\ \A t \in Sessions : login[t] # c
  /\ state' = [state EXCEPT ![s] = "granted"]
  /\ login' = [login EXCEPT ![s] = c]
  /\ UNCHANGED handed

\* The login is handed over and forgotten.
Take(s) ==
  /\ state[s] = "granted"
  /\ handed' = [handed EXCEPT ![login[s]] = @ + 1]
  /\ login' = [login EXCEPT ![s] = NoLogin]
  /\ state' = [state EXCEPT ![s] = "taken"]

\* The session ends without a login.
Close(s) ==
  /\ state[s] = "open"
  /\ state' = [state EXCEPT ![s] = "closed"]
  /\ UNCHANGED <<login, handed>>

Next == \E s \in Sessions : Take(s) \/ Close(s) \/ \E c \in Logins : Grant(s, c)

Spec == Init /\ [][Next]_vars

\* No login is ever handed over twice.
AtMostOnce == \A c \in Logins : handed[c] <= 1
=============================================================================
