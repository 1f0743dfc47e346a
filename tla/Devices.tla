------------------------------- MODULE Devices -------------------------------
(***************************************************************************)
(* Push tokens (apps/notifications: views.py, services.py, models.py,      *)
(* admin.py).  A phone registers its token for the account that is signed  *)
(* in; a push reads the active tokens of its addressee, sends to each, and *)
(* deactivates those that the service reports as unregistered.  Phones     *)
(* change hands meanwhile.                                                 *)
(***************************************************************************)
CONSTANTS
  Owners,      \* accounts
  Nobody,
  Phones,      \* FCM tokens
  Pushes       \* pushes that can be under way at the same time

ASSUME DevicesAssumption == Nobody \notin Owners

VARIABLES
  device,      \* [Phones -> row]; user Nobody: no row
  using,       \* [Phones -> account whose app registered last and has not signed out]
  installed,   \* phones whose token the push service knows
  push,        \* [Pushes -> what the push has read and does next]
  deviceForm,  \* the admin's form on a device
  swapped,     \* history: a row was changed or a phone changed hands while a push or form held it
  misdirected, \* history: a push arrived at a phone that somebody else or nobody was using
  flaggedByHand  \* history: the admin has changed a flag

devicesVars == <<device, using, installed, push, deviceForm, swapped, misdirected, flaggedByHand>>

DeviceRows == [user: Owners \cup {Nobody}, active: BOOLEAN]
NoDevice == [user |-> Nobody, active |-> FALSE]
PushStates == [step: {"idle", "send", "answer"}, to: Owners \cup {Nobody}, tokens: SUBSET Phones,
               dead: SUBSET Phones]
NoPush == [step |-> "idle", to |-> Nobody, tokens |-> {}, dead |-> {}]
FormStates == [phones: SUBSET Phones, copy: DeviceRows]
NoDeviceForm == [phones |-> {}, copy |-> NoDevice]

DevicesInit ==
  /\ device = [t \in Phones |-> NoDevice]
  /\ using = [t \in Phones |-> Nobody]
  /\ installed = Phones
  /\ push = [p \in Pushes |-> NoPush]
  /\ deviceForm = NoDeviceForm
  /\ swapped = FALSE /\ misdirected = FALSE /\ flaggedByHand = FALSE

Held(t) == (\E p \in Pushes : t \in push[p].tokens) \/ t \in deviceForm.phones

(***************************************************************************)
(* Devices.                                                                *)
(***************************************************************************)
\* Mutation: the row of a token stays with its first account.
RegisteredFor(t, u) == [user |-> IF device[t] = NoDevice THEN u ELSE device[t].user, active |-> TRUE]

Registered(t, u) == [user |-> u, active |-> TRUE]

\* DeviceViewSet.create: update_or_create on the unique token.  An app that is installed again
\* registers before the service reaches it.
RegisterDevice(t, u) ==
  /\ device' = [device EXCEPT ![t] = Registered(t, u)]
  /\ using' = [using EXCEPT ![t] = u]
  /\ installed' = installed \cup {t}
  /\ swapped' = (swapped \/ Held(t))
  /\ UNCHANGED <<push, deviceForm, misdirected, flaggedByHand>>

OwnDevice(t, u) == device[t].user = u

\* unregister, called by the app on logout; it matches rows of the caller only.
UnregisterDevice(t, u) ==
  /\ OwnDevice(t, u)
  /\ device' = [device EXCEPT ![t].active = FALSE]
  /\ using' = [using EXCEPT ![t] = IF @ = u THEN Nobody ELSE @]
  /\ swapped' = (swapped \/ Held(t))
  /\ UNCHANGED <<installed, push, deviceForm, misdirected, flaggedByHand>>

\* The push service no longer knows the token.
UninstallApp(t) ==
  /\ t \in installed
  /\ installed' = installed \ {t}
  /\ using' = [using EXCEPT ![t] = Nobody]
  /\ swapped' = (swapped \/ Held(t))
  /\ UNCHANGED <<device, push, deviceForm, misdirected, flaggedByHand>>

(***************************************************************************)
(* send_push_to_user                                                       *)
(***************************************************************************)
AddressedTokens(u) == {t \in Phones : device[t].user = u /\ device[t].active}

ReadTokens(p, u) ==
  /\ push[p].step = "idle"
  /\ AddressedTokens(u) # {}
  /\ push' = [push EXCEPT ![p] = [step |-> "send", to |-> u, tokens |-> AddressedTokens(u), dead |-> {}]]
  /\ UNCHANGED <<device, using, installed, deviceForm, swapped, misdirected, flaggedByHand>>

\* The service delivers to the tokens it knows, may fail for some of them, and names the rest.
SendPush(p) ==
  /\ push[p].step = "send"
  /\ push' = [push EXCEPT ![p].step = "answer", ![p].dead = push[p].tokens \ installed]
  /\ \E reached \in SUBSET (push[p].tokens \cap installed) :
       misdirected' = (misdirected \/ \E t \in reached : using[t] # push[p].to)
  /\ UNCHANGED <<device, using, installed, deviceForm, swapped, flaggedByHand>>

DeadTokens(p) == push[p].dead

DeactivateDead(p) ==
  /\ push[p].step = "answer"
  /\ device' = [t \in Phones |-> IF t \in DeadTokens(p) THEN [device[t] EXCEPT !.active = FALSE]
                                 ELSE device[t]]
  /\ push' = [push EXCEPT ![p] = NoPush]
  /\ swapped' = (swapped \/ \E t \in DeadTokens(p) : t \in deviceForm.phones)
  /\ UNCHANGED <<using, installed, deviceForm, misdirected, flaggedByHand>>

\* The service cannot be reached, or the worker dies.
PushDies(p) ==
  /\ push[p].step # "idle"
  /\ push' = [push EXCEPT ![p] = NoPush]
  /\ UNCHANGED <<device, using, installed, deviceForm, swapped, misdirected, flaggedByHand>>

(***************************************************************************)
(* The admin site saves the copy it loaded, whole.                         *)
(***************************************************************************)
OpenDeviceForm(t) ==
  /\ deviceForm = NoDeviceForm /\ device[t] # NoDevice
  /\ deviceForm' = [phones |-> {t}, copy |-> device[t]]
  /\ UNCHANGED <<device, using, installed, push, swapped, misdirected, flaggedByHand>>

SaveDeviceForm(t) ==
  /\ t \in deviceForm.phones
  /\ \E active \in BOOLEAN :
       /\ device' = [device EXCEPT ![t] = [deviceForm.copy EXCEPT !.active = active]]
       /\ flaggedByHand' = (flaggedByHand \/ active # deviceForm.copy.active)
  /\ deviceForm' = NoDeviceForm
  /\ swapped' = (swapped \/ \E p \in Pushes : t \in push[p].tokens)
  /\ UNCHANGED <<using, installed, push, misdirected>>

DevicesNext ==
  \/ \E t \in Phones :
       \/ \E u \in Owners : RegisterDevice(t, u) \/ UnregisterDevice(t, u)
       \/ UninstallApp(t) \/ OpenDeviceForm(t) \/ SaveDeviceForm(t)
  \/ \E p \in Pushes :
       \/ \E u \in Owners : ReadTokens(p, u)
       \/ SendPush(p) \/ DeactivateDead(p) \/ PushDies(p)

DevicesSpec == DevicesInit /\ [][DevicesNext]_devicesVars

(***************************************************************************)
(* Properties.                                                             *)
(***************************************************************************)
\* Rows, pushes and forms are well-formed, and no push is under way without a token.
DevicesTypeOK ==
  /\ device \in [Phones -> DeviceRows]
  /\ using \in [Phones -> Owners \cup {Nobody}]
  /\ installed \subseteq Phones
  /\ push \in [Pushes -> PushStates]
  /\ \A p \in Pushes : push[p].step # "idle" <=> push[p].tokens # {}
  /\ deviceForm \in FormStates
  /\ swapped \in BOOLEAN /\ misdirected \in BOOLEAN /\ flaggedByHand \in BOOLEAN

\* A push is shown only to the account it is for: not on a phone that somebody else has
\* registered since or that was signed out, unless that happened while the push was under way.
PushesReachTheirOwner == misdirected => swapped \/ flaggedByHand

\* A phone in use gets its pushes: its row is active and of the account using it, whatever was
\* reported about the token before, unless a push or form under way had read it earlier.
PhonesInUseAreActive ==
  \A t \in Phones : using[t] # Nobody => device[t] = [user |-> using[t], active |-> TRUE] \/ swapped \/ flaggedByHand

\* What registered phones promise of every state.
DevicesSound ==
  /\ DevicesTypeOK
  /\ PushesReachTheirOwner
  /\ PhonesInUseAreActive
=============================================================================
