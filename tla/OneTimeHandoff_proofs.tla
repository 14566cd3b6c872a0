----------------------- MODULE OneTimeHandoff_proofs -----------------------
(* The promise of OneTimeHandoff, for any sessions and logins. *)
EXTENDS OneTimeHandoff, TLAPS

States == {"open", "granted", "taken", "closed"}

TypeInv ==
  /\ state \in [Sessions -> States]
  /\ login \in [Sessions -> Logins \cup {NoLogin}]
  /\ handed \in [Logins -> Nat]

\* Only a granted session holds a login; it is its only holder, and the login
\* has not been handed over yet.
Granted(s) ==
  /\ login[s] \in Logins \ {NoLogin}
  /\ handed[login[s]] = 0
  /\ \A t \in Sessions \ {s} : login[t] # login[s]

Holding ==
  \A s \in Sessions : IF state[s] = "granted" THEN Granted(s) ELSE login[s] = NoLogin

Inv == TypeInv /\ Holding /\ AtMostOnce

LEMMA InitInv == Init => Inv
  BY DEF Init, Inv, TypeInv, Holding, AtMostOnce, States

LEMMA GrantInv ==
  ASSUME Inv, NEW s \in Sessions, NEW c \in Logins, Grant(s, c)
  PROVE  Inv'
<1>1. /\ state[s] = "open"
      /\ handed[c] = 0
      /\ \A t \in Sessions : login[t] # c
      /\ state' = [state EXCEPT ![s] = "granted"]
      /\ login' = [login EXCEPT ![s] = c]
      /\ handed' = handed
  BY DEF Grant
<1>2. TypeInv'
  BY <1>1 DEF Inv, TypeInv, States
<1>3. c # NoLogin
  BY <1>1 DEF Inv, Holding
<1>4. Holding'
  <2> SUFFICES ASSUME NEW t \in Sessions
               PROVE  IF state'[t] = "granted" THEN Granted(t)' ELSE login'[t] = NoLogin
    BY DEF Holding
  <2>1. CASE t = s
    BY <2>1, <1>1, <1>3 DEF Inv, TypeInv, Granted
  <2>2. CASE t # s
    BY <2>2, <1>1 DEF Inv, TypeInv, Holding, Granted
  <2> QED BY <2>1, <2>2
<1>5. AtMostOnce'
  BY <1>1 DEF Inv, AtMostOnce
<1> QED BY <1>2, <1>4, <1>5 DEF Inv

LEMMA TakeInv ==
  ASSUME Inv, NEW s \in Sessions, Take(s)
  PROVE  Inv'
<1>1. /\ state[s] = "granted"
      /\ handed' = [handed EXCEPT ![login[s]] = @ + 1]
      /\ login' = [login EXCEPT ![s] = NoLogin]
      /\ state' = [state EXCEPT ![s] = "taken"]
  BY DEF Take
<1>2. Granted(s)
  BY <1>1 DEF Inv, Holding
<1>3. TypeInv'
  BY <1>1, <1>2 DEF Inv, TypeInv, States, Granted
<1>4. Holding'
  <2> SUFFICES ASSUME NEW t \in Sessions
               PROVE  IF state'[t] = "granted" THEN Granted(t)' ELSE login'[t] = NoLogin
    BY DEF Holding
  <2>1. CASE t = s
    BY <2>1, <1>1 DEF Inv, TypeInv
  <2>2. CASE t # s /\ state[t] = "granted"
    <3>1. Granted(t) /\ login[t] # login[s]
      BY <2>2, <1>2 DEF Inv, Holding, Granted
    <3>2. login'[t] = login[t] /\ state'[t] = "granted"
      BY <2>2, <1>1 DEF Inv, TypeInv
    <3>3. handed'[login[t]] = 0
      BY <3>1, <1>1, <1>2 DEF Inv, TypeInv, Granted
    <3>4. \A u \in Sessions \ {t} : login'[u] # login[t]
      BY <3>1, <1>1 DEF Inv, TypeInv, Granted
    <3> QED BY <3>1, <3>2, <3>3, <3>4 DEF Granted
  <2>3. CASE t # s /\ state[t] # "granted"
    BY <2>3, <1>1 DEF Inv, TypeInv, Holding
  <2> QED BY <2>1, <2>2, <2>3
<1>5. AtMostOnce'
  BY <1>1, <1>2 DEF Inv, TypeInv, AtMostOnce, Granted
<1> QED BY <1>3, <1>4, <1>5 DEF Inv

LEMMA CloseInv ==
  ASSUME Inv, NEW s \in Sessions, Close(s)
  PROVE  Inv'
  BY DEF Inv, TypeInv, Holding, Granted, AtMostOnce, Close, States

(* Whatever order sessions are granted, taken and closed in, no login is handed *)
(* over twice: the promise QR login makes of its tokens.                        *)
THEOREM NeverTwice == Spec => []AtMostOnce
<1>1. Inv /\ [Next]_vars => Inv'
  <2> SUFFICES ASSUME Inv, [Next]_vars PROVE Inv'
    OBVIOUS
  <2>1. CASE UNCHANGED vars
    BY <2>1 DEF vars, Inv, TypeInv, Holding, Granted, AtMostOnce
  <2>2. ASSUME NEW s \in Sessions, NEW c \in Logins, Grant(s, c) PROVE Inv'
    BY <2>2, GrantInv
  <2>3. ASSUME NEW s \in Sessions, Take(s) PROVE Inv'
    BY <2>3, TakeInv
  <2>4. ASSUME NEW s \in Sessions, Close(s) PROVE Inv'
    BY <2>4, CloseInv
  <2> QED BY <2>1, <2>2, <2>3, <2>4 DEF Next
<1>2. Inv => AtMostOnce
  BY DEF Inv
<1> QED BY InitInv, <1>1, <1>2, PTL DEF Spec
=============================================================================
