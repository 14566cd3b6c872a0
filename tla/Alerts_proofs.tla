--------------------------- MODULE Alerts_proofs ---------------------------
(***************************************************************************)
(* Settings, quiet hours and devices, for any number of requests, syncs,   *)
(* tokens and saved settings, and for every minute of the day.             *)
(***************************************************************************)
EXTENDS Alerts, TLAPS

(* The code's two comparisons are going round the clock, for every start, end *)
(* and minute.                                                                *)
THEOREM QuietIsWindow ==
  ASSUME NEW settings, ClockTime(settings.start), ClockTime(settings.end),
         NEW mins \in 0..(Day - 1)
  PROVE  InQuietHours(settings, mins) <=> settings.quiet /\ InWindow(settings, mins)
<1> DEFINE start == Minutes(settings.start)
           end   == Minutes(settings.end)
<1>1. start \in 0..(Day - 1) /\ end \in 0..(Day - 1) /\ Day \in Nat
  BY DEF ClockTime, Day
<1>2. InQuietHours(settings, mins) <=>
        settings.quiet /\ IF start <= end THEN start <= mins /\ mins < end
                                          ELSE start <= mins \/ mins < end
  BY DEF InQuietHours, ClockTime
<1>3. InWindow(settings, mins) <=> Ahead(start, mins) < Ahead(start, end)
  BY DEF InWindow
<1> HIDE DEF start, end
<1>4. Ahead(start, mins) < Ahead(start, end) <=>
        IF start <= end THEN start <= mins /\ mins < end
                        ELSE start <= mins \/ mins < end
  BY <1>1 DEF Ahead
<1> QED BY <1>1, <1>2, <1>3, <1>4

\* After the first save there is a row, and unless a caller was early, nobody
\* is to insert the defaults.
SaveInv ==
  saved # NoRow =>
    /\ row \in {saved, Default}
    /\ ~early => row = saved /\ \A c \in Callers : pc[c] # "default"

\* What a sync decided is what the filter said of the settings it holds.
Decided ==
  \A w \in Syncs :
    /\ pc[w] \in {"store", "push"} => at[w] \in Instants
    /\ pc[w] = "store" => InQuietHours(held[w], at[w])
    /\ pc[w] = "push" => ~InQuietHours(held[w], at[w])

\* Only tokens that FCM does not know, or rejected, are to be deleted.
PruneList ==
  \A w \in Syncs : pc[w] = "prune" => listed[w] \subseteq dead \cup rejected

IInv == TypeOK /\ SaveInv /\ Decided /\ PruneList /\ RegisteredStaysListed

LEMMA RowsAreSettings ==
  /\ Default \in Settings /\ Default # NoRow
  /\ \A settings \in Choices : settings \in Settings /\ settings # NoRow
<1>1. Default \in Settings
  <2>1. Blank \in Words /\ {} \in SUBSET Words
    BY FilterAssumption
  <2> QED BY <2>1 DEF Default, Settings
<1> QED BY <1>1, AlertsAssumption

LEMMA CallersAre ==
  Syncs \subseteq Callers /\ Clients \subseteq Callers /\ \A w \in Syncs : w \notin Clients
  BY AlertsAssumption DEF Callers

LEMMA InitInv == Init => IInv
<1> SUFFICES ASSUME Init PROVE IInv
  OBVIOUS
<1> USE CallersAre, RowsAreSettings DEF Init
<1>1. TypeOK
  BY DEF TypeOK, CallerLabels, SyncLabels
<1>2. SaveInv /\ Decided /\ PruneList /\ RegisteredStaysListed
  BY DEF SaveInv, Decided, PruneList, RegisteredStaysListed
<1> QED BY <1>1, <1>2 DEF IInv

LEMMA AskInv ==
  ASSUME IInv, NEW c \in Callers, Ask(c)
  PROVE  IInv'
<1> USE CallersAre, RowsAreSettings
    DEF IInv, TypeOK, CallerLabels, SyncLabels,
        Ask, At, store, callers, fcm, history
<1>1. TypeOK'
  OBVIOUS
<1>2. SaveInv'
  BY DEF SaveInv
<1>3. Decided'
  BY DEF Decided
<1>4. PruneList' /\ RegisteredStaysListed'
  BY DEF PruneList, RegisteredStaysListed
<1> QED BY <1>1, <1>2, <1>3, <1>4

LEMMA GetSettingsInv ==
  ASSUME IInv, NEW c \in Callers, GetSettings(c)
  PROVE  IInv'
<1> USE CallersAre, RowsAreSettings
    DEF IInv, TypeOK, CallerLabels, SyncLabels,
        GetSettings, At, store, callers, fcm, history
<1>1. TypeOK'
  OBVIOUS
<1>2. SaveInv'
  BY DEF SaveInv
<1>3. Decided'
  BY DEF Decided
<1>4. PruneList' /\ RegisteredStaysListed'
  BY DEF PruneList, RegisteredStaysListed
<1> QED BY <1>1, <1>2, <1>3, <1>4

LEMMA GetSettingsFailsInv ==
  ASSUME IInv, NEW c \in Callers, GetSettingsFails(c)
  PROVE  IInv'
<1> USE CallersAre, RowsAreSettings
    DEF IInv, TypeOK, CallerLabels, SyncLabels,
        GetSettingsFails, Over, At, store, callers, fcm, history
<1>1. TypeOK'
  OBVIOUS
<1>2. SaveInv'
  BY DEF SaveInv
<1>3. Decided'
  BY DEF Decided
<1>4. PruneList' /\ RegisteredStaysListed'
  BY DEF PruneList, RegisteredStaysListed
<1> QED BY <1>1, <1>2, <1>3, <1>4

LEMMA InsertDefaultsInv ==
  ASSUME IInv, NEW c \in Callers, InsertDefaults(c)
  PROVE  IInv'
<1> USE CallersAre, RowsAreSettings
    DEF IInv, TypeOK, CallerLabels, SyncLabels,
        InsertDefaults, At, store, callers, fcm, history
<1>1. TypeOK'
  OBVIOUS
<1>2. SaveInv'
  BY DEF SaveInv
<1>3. Decided'
  BY DEF Decided
<1>4. PruneList' /\ RegisteredStaysListed'
  BY DEF PruneList, RegisteredStaysListed
<1> QED BY <1>1, <1>2, <1>3, <1>4

LEMMA AnsweredInv ==
  ASSUME IInv, NEW c \in Callers, Answered(c)
  PROVE  IInv'
<1> USE CallersAre, RowsAreSettings
    DEF IInv, TypeOK, CallerLabels, SyncLabels,
        Answered, Over, At, store, callers, fcm, history
<1>1. TypeOK'
  OBVIOUS
<1>2. SaveInv'
  BY DEF SaveInv
<1>3. Decided'
  BY DEF Decided
<1>4. PruneList' /\ RegisteredStaysListed'
  BY DEF PruneList, RegisteredStaysListed
<1> QED BY <1>1, <1>2, <1>3, <1>4

LEMMA UpdateSettingsInv ==
  ASSUME IInv, NEW c \in Clients, NEW settings \in Choices, UpdateSettings(c, settings)
  PROVE  IInv'
<1> USE CallersAre, RowsAreSettings
    DEF IInv, TypeOK, CallerLabels, SyncLabels,
        UpdateSettings, At, store, callers, fcm, history
<1>1. TypeOK'
  OBVIOUS
<1>2. SaveInv'
  BY DEF SaveInv
<1>3. Decided'
  BY DEF Decided
<1>4. PruneList' /\ RegisteredStaysListed'
  BY DEF PruneList, RegisteredStaysListed
<1> QED BY <1>1, <1>2, <1>3, <1>4

LEMMA DecideInv ==
  ASSUME IInv, NEW w \in Syncs, NEW msg \in Messages, NEW now \in Instants, Decide(w, msg, now)
  PROVE  IInv'
<1> USE CallersAre, RowsAreSettings
    DEF IInv, TypeOK, CallerLabels, SyncLabels,
        Decide, At, store, callers, fcm, history
<1>1. TypeOK'
  OBVIOUS
<1>2. SaveInv'
  BY DEF SaveInv
<1>3. Decided'
  BY DEF Decided
<1>4. PruneList' /\ RegisteredStaysListed'
  BY DEF PruneList, RegisteredStaysListed
<1> QED BY <1>1, <1>2, <1>3, <1>4

LEMMA StoreOnlyInv ==
  ASSUME IInv, NEW w \in Syncs, StoreOnly(w)
  PROVE  IInv'
<1> USE CallersAre, RowsAreSettings
    DEF IInv, TypeOK, CallerLabels, SyncLabels,
        StoreOnly, At, store, callers, fcm, history
<1>1. TypeOK'
  OBVIOUS
<1>2. SaveInv'
  BY DEF SaveInv
<1>3. Decided'
  BY DEF Decided
<1>4. PruneList' /\ RegisteredStaysListed'
  BY DEF PruneList, RegisteredStaysListed
<1> QED BY <1>1, <1>2, <1>3, <1>4

LEMMA ListDevicesInv ==
  ASSUME IInv, NEW w \in Syncs, ListDevices(w)
  PROVE  IInv'
<1> USE CallersAre, RowsAreSettings
    DEF IInv, TypeOK, CallerLabels, SyncLabels,
        ListDevices, At, store, callers, fcm, history
<1>1. TypeOK'
  OBVIOUS
<1>2. SaveInv'
  BY DEF SaveInv
<1>3. Decided'
  BY DEF Decided
<1>4. PruneList' /\ RegisteredStaysListed'
  BY DEF PruneList, RegisteredStaysListed
<1> QED BY <1>1, <1>2, <1>3, <1>4

LEMMA PushFailsInv ==
  ASSUME IInv, NEW w \in Syncs, PushFails(w)
  PROVE  IInv'
<1> USE CallersAre, RowsAreSettings
    DEF IInv, TypeOK, CallerLabels, SyncLabels,
        PushFails, At, store, callers, fcm, history
<1>1. TypeOK'
  OBVIOUS
<1>2. SaveInv'
  BY DEF SaveInv
<1>3. Decided'
  BY DEF Decided
<1>4. PruneList' /\ RegisteredStaysListed'
  BY DEF PruneList, RegisteredStaysListed
<1> QED BY <1>1, <1>2, <1>3, <1>4

LEMMA SendMulticastInv ==
  ASSUME IInv, NEW w \in Syncs, SendMulticast(w)
  PROVE  IInv'
<1> USE CallersAre, RowsAreSettings
    DEF IInv, TypeOK, CallerLabels, SyncLabels,
        SendMulticast, At, store, callers, fcm, history
<1>1. TypeOK'
  OBVIOUS
<1>2. SaveInv'
  BY DEF SaveInv
<1>3. Decided'
  BY DEF Decided
<1>4. PruneList' /\ RegisteredStaysListed'
  BY DEF PruneList, RegisteredStaysListed
<1> QED BY <1>1, <1>2, <1>3, <1>4

LEMMA PruneInv ==
  ASSUME IInv, NEW w \in Syncs, NEW token \in Tokens, Prune(w, token)
  PROVE  IInv'
<1> USE CallersAre, RowsAreSettings
    DEF IInv, TypeOK, CallerLabels, SyncLabels,
        Prune, store, callers, fcm, history
<1>1. TypeOK'
  OBVIOUS
<1>2. SaveInv'
  BY DEF SaveInv
<1>3. Decided'
  BY DEF Decided
<1>4. PruneList' /\ RegisteredStaysListed'
  BY DEF PruneList, RegisteredStaysListed
<1> QED BY <1>1, <1>2, <1>3, <1>4

LEMMA PrunedInv ==
  ASSUME IInv, NEW w \in Syncs, Pruned(w)
  PROVE  IInv'
<1> USE CallersAre, RowsAreSettings
    DEF IInv, TypeOK, CallerLabels, SyncLabels,
        Pruned, At, store, callers, fcm, history
<1>1. TypeOK'
  OBVIOUS
<1>2. SaveInv'
  BY DEF SaveInv
<1>3. Decided'
  BY DEF Decided
<1>4. PruneList' /\ RegisteredStaysListed'
  BY DEF PruneList, RegisteredStaysListed
<1> QED BY <1>1, <1>2, <1>3, <1>4

LEMMA BootstrapInv ==
  ASSUME IInv, Bootstrap
  PROVE  IInv'
<1> USE CallersAre, RowsAreSettings
    DEF IInv, TypeOK, CallerLabels, SyncLabels,
        Bootstrap, store, callers, fcm, history
<1>1. TypeOK'
  OBVIOUS
<1>2. SaveInv'
  BY DEF SaveInv
<1>3. Decided'
  BY DEF Decided
<1>4. PruneList' /\ RegisteredStaysListed'
  BY DEF PruneList, RegisteredStaysListed
<1> QED BY <1>1, <1>2, <1>3, <1>4

LEMMA TokenRefreshedInv ==
  ASSUME IInv, NEW token \in Tokens, TokenRefreshed(token)
  PROVE  IInv'
<1> USE CallersAre, RowsAreSettings
    DEF IInv, TypeOK, CallerLabels, SyncLabels,
        TokenRefreshed, store, callers, fcm, history
<1>1. TypeOK'
  OBVIOUS
<1>2. SaveInv'
  BY DEF SaveInv
<1>3. Decided'
  BY DEF Decided
<1>4. PruneList' /\ RegisteredStaysListed'
  BY DEF PruneList, RegisteredStaysListed
<1> QED BY <1>1, <1>2, <1>3, <1>4

LEMMA RegisterDeviceInv ==
  ASSUME IInv, NEW token \in Tokens, RegisterDevice(token)
  PROVE  IInv'
<1> USE CallersAre, RowsAreSettings
    DEF IInv, TypeOK, CallerLabels, SyncLabels,
        RegisterDevice, store, callers, fcm, history
<1>1. TypeOK'
  OBVIOUS
<1>2. SaveInv'
  BY DEF SaveInv
<1>3. Decided'
  BY DEF Decided
<1>4. PruneList'
  <2> SUFFICES ASSUME NEW w \in Syncs, pc[w] = "prune", NEW t \in listed[w]
               PROVE  t \in dead' \cup rejected'
    BY DEF PruneList
  <2>1. t \in dead \cup rejected
    BY DEF PruneList
  <2>2. t = token => rejected' = rejected
    BY DEF Condemned
  <2> QED BY <2>1, <2>2
<1>5. RegisteredStaysListed'
  BY DEF RegisteredStaysListed
<1> QED BY <1>1, <1>2, <1>3, <1>4, <1>5

LEMMA RegisterFailsInv ==
  ASSUME IInv, NEW token \in Tokens, RegisterFails(token)
  PROVE  IInv'
<1> USE CallersAre, RowsAreSettings
    DEF IInv, TypeOK, CallerLabels, SyncLabels,
        RegisterFails, store, callers, fcm, history
<1>1. TypeOK'
  OBVIOUS
<1>2. SaveInv'
  BY DEF SaveInv
<1>3. Decided'
  BY DEF Decided
<1>4. PruneList' /\ RegisteredStaysListed'
  BY DEF PruneList, RegisteredStaysListed
<1> QED BY <1>1, <1>2, <1>3, <1>4

LEMMA UnregisterDeviceInv ==
  ASSUME IInv, NEW token \in Tokens, UnregisterDevice(token)
  PROVE  IInv'
<1> USE CallersAre, RowsAreSettings
    DEF IInv, TypeOK, CallerLabels, SyncLabels,
        UnregisterDevice, store, callers, fcm, history
<1>1. TypeOK'
  OBVIOUS
<1>2. SaveInv'
  BY DEF SaveInv
<1>3. Decided'
  BY DEF Decided
<1>4. PruneList' /\ RegisteredStaysListed'
  BY DEF PruneList, RegisteredStaysListed
<1> QED BY <1>1, <1>2, <1>3, <1>4

LEMMA StepInv == IInv /\ [Next]_vars => IInv'
<1> SUFFICES ASSUME IInv, [Next]_vars PROVE IInv'
  OBVIOUS
<1>1. CASE UNCHANGED vars
  BY <1>1 DEF vars, store, callers, fcm, history, IInv, TypeOK, SaveInv, Decided, PruneList,
     RegisteredStaysListed
<1>2. ASSUME NEW c \in Callers, CallerStep(c) PROVE IInv'
  BY <1>2, AskInv, GetSettingsInv, GetSettingsFailsInv, InsertDefaultsInv, AnsweredInv DEF
     CallerStep
<1>3. ASSUME NEW c \in Clients, NEW settings \in Choices, UpdateSettings(c, settings)
      PROVE  IInv'
  BY <1>3, UpdateSettingsInv
<1>4. ASSUME NEW w \in Syncs, SyncStep(w) PROVE IInv'
  BY <1>4, DecideInv, StoreOnlyInv, ListDevicesInv, PushFailsInv, SendMulticastInv, PruneInv,
     PrunedInv DEF SyncStep
<1>5. CASE PhoneStep
  BY <1>5, BootstrapInv, TokenRefreshedInv, RegisterDeviceInv, RegisterFailsInv,
     UnregisterDeviceInv DEF PhoneStep
<1> QED BY <1>1, <1>2, <1>3, <1>4, <1>5 DEF Next

LEMMA AlwaysInv == Spec => []IInv
  BY InitInv, StepInv, PTL DEF Spec

(* The type invariant of settings, syncs and devices. *)
THEOREM TypeCorrect == Spec => []TypeOK
<1>1. IInv => TypeOK
  BY DEF IInv
<1> QED BY AlwaysInv, <1>1, PTL

(* A sync withholds the push of a message exactly within the quiet hours of the *)
(* settings it read, whatever the settings and the minute.                      *)
THEOREM QuietHoursKept == Spec => []QuietIsKept
<1>1. IInv => QuietIsKept
  <2> SUFFICES ASSUME IInv, NEW w \in Syncs, pc[w] \in {"store", "push"},
                      ClockTime(held[w].start), ClockTime(held[w].end)
               PROVE  pc[w] = "store" <=> held[w].quiet /\ InWindow(held[w], at[w])
    BY DEF QuietIsKept
  <2>1. at[w] \in 0..(Day - 1)
    BY AlertsAssumption DEF IInv, Decided
  <2>2. InQuietHours(held[w], at[w]) <=> held[w].quiet /\ InWindow(held[w], at[w])
    BY <2>1, QuietIsWindow
  <2>3. pc[w] = "store" <=> InQuietHours(held[w], at[w])
    BY DEF IInv, Decided
  <2> QED BY <2>2, <2>3
<1> QED BY AlwaysInv, <1>1, PTL

(* Nothing puts the defaults back over saved settings, but for callers that were *)
(* to insert them when the settings were saved.                                  *)
THEOREM SavedSettingsStand == Spec => []SaveStands
<1>1. IInv => SaveStands
  BY DEF IInv, SaveInv, SaveStands
<1> QED BY AlwaysInv, <1>1, PTL

(* A device that registered is pruned only when FCM no longer knows its token, *)
(* or has rejected a message since, or is being pruned for one already.        *)
THEOREM RegistrationsStand == Spec => []RegisteredStaysListed
<1>1. IInv => RegisteredStaysListed
  BY DEF IInv
<1> QED BY AlwaysInv, <1>1, PTL

=============================================================================
