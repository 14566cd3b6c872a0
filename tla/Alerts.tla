------------------------------- MODULE Alerts -------------------------------
(***************************************************************************)
(* What one user hears of: the settings row, read and written by the       *)
(* clients and read by every sync; the devices registered for push; and    *)
(* the push of a message, which prunes the devices FCM reports.            *)
(* AccountSync has the mailbox side of a sync, which is left out here.     *)
(***************************************************************************)
EXTENDS NotificationFilter

CONSTANTS
  Syncs,     \* syncs that may run at once
  Clients,   \* requests of the user's clients that may run at once
  Tokens,    \* FCM registration tokens, in the course of time, of the phone
  Choices,   \* the settings the user may save
  Messages,  \* the messages a sync may find
  Instants,  \* the minutes of the day at which something happens
  NoRow,     \* the user has no settings row
  Faults     \* the failures that may happen: subset of FaultKinds

FaultKinds == {"database", "fcm", "payload"}
Callers == Syncs \cup Clients
NoTime  == -1

\* Requests and syncs are different things; settings and instants have their types.
ASSUME AlertsAssumption ==
  /\ Syncs \cap Clients = {}
  /\ Choices \subseteq Settings
  /\ NoRow \notin Settings
  /\ Instants \subseteq 0..(Day - 1)
  /\ Faults \subseteq FaultKinds

VARIABLES
  row,       \* the row of notification_settings
  devices,   \* tokens in device_tokens
  pc,        \* where each request and each sync is
  held,      \* the settings it holds
  at,        \* the minute at which a sync decided on its message, or NoTime
  listed,    \* the tokens it pushes to, then those it is to delete
  phone,     \* the phone's current token
  posts,     \* registrations under way
  dead,      \* tokens FCM no longer knows
  mine,      \* history: tokens whose registration was answered
  rejected,  \* history: tokens FCM rejected because of the message, and that were
             \* not registered again after they were pruned for it
  saved,     \* history: the settings saved last
  early      \* history: at the last save, some caller was to insert the defaults

store   == <<row, devices>>
callers == <<pc, held, at, listed>>
fcm     == <<phone, posts, dead>>
history == <<mine, rejected, saved, early>>
vars    == <<store, callers, fcm, history>>

\* The user was just created: Register, or a first Google sign-in, is about to
\* insert the default settings.
Init ==
  /\ row = NoRow /\ devices = {}
  /\ \E creator \in Clients :
       pc = [c \in Callers |-> IF c = creator THEN "default" ELSE "idle"]
  /\ held = [c \in Callers |-> Default]
  /\ at = [w \in Syncs |-> NoTime]
  /\ listed = [w \in Syncs |-> {}]
  /\ phone \in Tokens
  /\ posts = {} /\ dead = {}
  /\ mine = {} /\ rejected = {} /\ saved = NoRow /\ early = FALSE

At(c, label) == pc' = [pc EXCEPT ![c] = label]

Over(c) == At(c, "idle") /\ held' = [held EXCEPT ![c] = Default]

(***************************************************************************)
(* Settings                                                                *)
(***************************************************************************)
\* A GET of the settings, or a sync, begins.
Ask(c) ==
  /\ pc[c] = "idle"
  /\ At(c, "get")
  /\ UNCHANGED <<store, held, at, listed, fcm, history>>

\* Mutant: any error of GetByUser is taken for a missing row.
GetSettingsAnyError(c) ==
  /\ pc[c] = "get"
  /\ IF row = NoRow THEN held' = [held EXCEPT ![c] = Default] /\ At(c, "default")
     ELSE \/ held' = [held EXCEPT ![c] = row] /\ At(c, "have")
          \/ "database" \in Faults /\ held' = [held EXCEPT ![c] = Default] /\ At(c, "default")
  /\ UNCHANGED <<store, at, listed, fcm, history>>

\* Mutant: a missing row is no error, and no settings.
GetSettingsNone(c) ==
  /\ pc[c] = "get"
  /\ held' = [held EXCEPT ![c] = row]
  /\ At(c, "have")
  /\ UNCHANGED <<store, at, listed, fcm, history>>

\* GetSettings: the row, or the defaults where there is none, to be inserted next.
GetSettings(c) ==
  /\ pc[c] = "get"
  /\ IF row = NoRow THEN held' = [held EXCEPT ![c] = Default] /\ At(c, "default")
                    ELSE held' = [held EXCEPT ![c] = row] /\ At(c, "have")
  /\ UNCHANGED <<store, at, listed, fcm, history>>

\* GetByUser fails otherwise: the request, or the sync, is over.
GetSettingsFails(c) ==
  /\ "database" \in Faults
  /\ pc[c] = "get"
  /\ Over(c)
  /\ UNCHANGED <<store, at, listed, fcm, history>>

\* The Upsert of the defaults, over whatever is there by now; its error is ignored.
InsertDefaults(c) ==
  /\ pc[c] = "default"
  /\ row' = Default \/ ("database" \in Faults /\ row' = row)
  /\ At(c, "have")
  /\ UNCHANGED <<devices, held, at, listed, fcm, history>>

\* UpdateSettings: Upsert, then GetSettings for the answer; an Upsert that fails
\* changes nothing.
UpdateSettings(c, settings) ==
  /\ pc[c] = "idle"
  /\ row' = settings
  /\ saved' = settings
  /\ early' = (\E d \in Callers : pc[d] = "default")
  /\ At(c, "get")
  /\ UNCHANGED <<devices, held, at, listed, fcm, mine, rejected>>

\* The request is answered, the sync at the end of its list.
Answered(c) ==
  /\ pc[c] = "have"
  /\ Over(c)
  /\ UNCHANGED <<store, at, listed, fcm, history>>

(***************************************************************************)
(* A sync and its messages                                                 *)
(***************************************************************************)
\* A new message passes the filter: stored only during quiet hours, else pushed.
Decide(w, msg, now) ==
  /\ pc[w] = "have"
  /\ held[w].enabled
  /\ ShouldNotify(held[w], msg)
  /\ at' = [at EXCEPT ![w] = now]
  /\ At(w, IF InQuietHours(held[w], now) THEN "store" ELSE "push")
  /\ UNCHANGED <<store, held, listed, fcm, history>>

StoreOnly(w) ==
  /\ pc[w] = "store"
  /\ at' = [at EXCEPT ![w] = NoTime]
  /\ At(w, "have")
  /\ UNCHANGED <<store, held, listed, fcm, history>>

\* storeAndPush: the record is stored, the devices are read.
ListDevices(w) ==
  /\ pc[w] = "push"
  /\ listed' = [listed EXCEPT ![w] = devices]
  /\ at' = [at EXCEPT ![w] = NoTime]
  /\ At(w, "send")
  /\ UNCHANGED <<store, held, fcm, history>>

\* The INSERT, the SELECT of the devices or the call to FCM fails: a warning.
PushFails(w) ==
  /\ \/ pc[w] = "push" /\ "database" \in Faults
     \/ pc[w] = "send" /\ "fcm" \in Faults
  /\ At(w, "have")
  /\ at' = [at EXCEPT ![w] = NoTime]
  /\ listed' = [listed EXCEPT ![w] = {}]
  /\ UNCHANGED <<store, held, fcm, history>>

\* Mutant: every token that failed is returned, a passing error included.
SendMulticastAll(w) ==
  /\ pc[w] = "send"
  /\ \/ listed' = [listed EXCEPT ![w] = @ \cap dead] /\ UNCHANGED rejected
     \/ /\ "fcm" \in Faults
        /\ \E failed \in SUBSET listed[w] : listed' = [listed EXCEPT ![w] = failed]
        /\ UNCHANGED rejected
  /\ At(w, "prune")
  /\ UNCHANGED <<store, held, at, fcm, mine, saved, early>>

\* SendMulticast returns the tokens FCM does not know, as far as no passing error
\* hides one, or, if FCM finds the message itself invalid, all of them.
SendMulticast(w) ==
  /\ pc[w] = "send"
  /\ \/ listed' = [listed EXCEPT ![w] = @ \cap dead] /\ UNCHANGED rejected
     \/ /\ "fcm" \in Faults
        /\ \E known \in SUBSET (listed[w] \cap dead) :
             listed' = [listed EXCEPT ![w] = known]
        /\ UNCHANGED rejected
     \/ /\ "payload" \in Faults
        /\ rejected' = rejected \cup listed[w]
        /\ UNCHANGED listed
  /\ At(w, "prune")
  /\ UNCHANGED <<store, held, at, fcm, mine, saved, early>>

\* DeleteByToken, one token at a time; its error is ignored.
Prune(w, token) ==
  /\ pc[w] = "prune"
  /\ token \in listed[w]
  /\ devices' = devices \ {token} \/ ("database" \in Faults /\ devices' = devices)
  /\ listed' = [listed EXCEPT ![w] = @ \ {token}]
  /\ UNCHANGED <<row, pc, held, at, fcm, history>>

Pruned(w) ==
  /\ pc[w] = "prune"
  /\ listed[w] = {}
  /\ At(w, "have")
  /\ UNCHANGED <<store, held, at, listed, fcm, history>>

(***************************************************************************)
(* The phone                                                               *)
(***************************************************************************)
\* fcmBootstrapProvider: the app signs in and posts its token.
Bootstrap ==
  /\ posts' = posts \cup {phone}
  /\ UNCHANGED <<store, callers, phone, dead, history>>

\* FCM has forgotten the old token; onTokenRefresh posts the new one, unless the
\* bootstrap's own post failed, or was not answered yet, and nobody listens.
TokenRefreshed(token) ==
  /\ token \notin dead \cup {phone}
  /\ dead' = dead \cup {phone}
  /\ phone' = token
  /\ posts' = posts \cup {token} \/ posts' = posts
  /\ UNCHANGED <<store, callers, history>>

\* A sync is about to delete the token.
Condemned(token) == \E w \in Syncs : pc[w] = "prune" /\ token \in listed[w]

\* RegisterDevice; posts may arrive in any order.
RegisterDevice(token) ==
  /\ token \in posts
  /\ posts' = posts \ {token}
  /\ devices' = devices \cup {token}
  /\ mine' = mine \cup {token}
  /\ rejected' = IF Condemned(token) THEN rejected ELSE rejected \ {token}
  /\ UNCHANGED <<row, callers, phone, dead, saved, early>>

\* The post is lost, or the database fails; the app does not try again.
RegisterFails(token) ==
  /\ "database" \in Faults
  /\ token \in posts
  /\ posts' = posts \ {token}
  /\ UNCHANGED <<store, callers, phone, dead, history>>

\* UnregisterDevice answers alike whether the DELETE worked or not.
UnregisterDevice(token) ==
  /\ token \in mine
  /\ devices' = devices \ {token} \/ ("database" \in Faults /\ devices' = devices)
  /\ mine' = mine \ {token}
  /\ UNCHANGED <<row, callers, fcm, rejected, saved, early>>

CallerStep(c) ==
  Ask(c) \/ GetSettings(c) \/ GetSettingsFails(c) \/ InsertDefaults(c) \/ Answered(c)

SyncStep(w) ==
  \/ \E msg \in Messages, now \in Instants : Decide(w, msg, now)
  \/ StoreOnly(w) \/ ListDevices(w) \/ PushFails(w) \/ SendMulticast(w)
  \/ \E token \in Tokens : Prune(w, token)
  \/ Pruned(w)

PhoneStep ==
  \/ Bootstrap
  \/ \E token \in Tokens : \/ TokenRefreshed(token) \/ RegisterDevice(token)
                           \/ RegisterFails(token) \/ UnregisterDevice(token)

Next ==
  \/ \E c \in Callers : CallerStep(c)
  \/ \E c \in Clients, settings \in Choices : UpdateSettings(c, settings)
  \/ \E w \in Syncs : SyncStep(w)
  \/ PhoneStep

Spec == Init /\ [][Next]_vars

(***************************************************************************)
(* Properties                                                              *)
(***************************************************************************)
CallerLabels == {"idle", "get", "default", "have"}
SyncLabels == CallerLabels \cup {"store", "push", "send", "prune"}

\* Every variable has its type; only syncs decide and push.
TypeOK ==
  /\ row \in Choices \cup {Default, NoRow}
  /\ devices \subseteq Tokens
  /\ pc \in [Callers -> SyncLabels]
  /\ \A c \in Clients : pc[c] \in CallerLabels
  /\ held \in [Callers -> Choices \cup {Default}]
  /\ at \in [Syncs -> Instants \cup {NoTime}]
  /\ listed \in [Syncs -> SUBSET Tokens]
  /\ phone \in Tokens
  /\ posts \subseteq Tokens
  /\ dead \subseteq Tokens
  /\ mine \subseteq Tokens
  /\ rejected \subseteq Tokens
  /\ saved \in Choices \cup {NoRow}
  /\ early \in BOOLEAN

\* Quiet hours are a stretch of the clock's round (TestInQuietHoursOvernight has
\* two minutes of one such stretch): a sync withholds the push of a message
\* exactly within it, whether or not it wraps midnight.
QuietIsKept ==
  \A w \in Syncs :
    pc[w] \in {"store", "push"} /\ ClockTime(held[w].start) /\ ClockTime(held[w].end)
      => (pc[w] = "store" <=> held[w].quiet /\ InWindow(held[w], at[w]))

\* Saved settings stand (the page's alert "Settings saved"): but for a request or
\* sync that had found no row before the first save, and was still to insert the
\* defaults at the last, nothing puts the defaults back over them.
SaveStands ==
  saved # NoRow /\ row # saved => row = Default /\ early

\* A device that registered stays registered while FCM knows its token: whatever
\* pushes fail, only one that FCM finds invalid costs it its row, and then one that
\* was refused after the registration, or whose deletions were still under way.
RegisteredStaysListed ==
  \A token \in mine : token \in devices \cup dead \cup rejected
=============================================================================
