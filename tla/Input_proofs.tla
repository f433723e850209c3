----------------------------- MODULE Input_proofs -----------------------------
(***************************************************************************)
(* Theorems about KeyRelay, for any screens, keys and lists of screens: a  *)
(* key that is let go is let go wherever it was pressed.  And about        *)
(* InputSessions, for any computers, sessions and features: who has        *)
(* control has it by an agreement that holds, and while the server itself  *)
(* forwards nothing.                                                       *)
(***************************************************************************)
EXTENDS KeyRelay, InputSessions, TLAPS

-----------------------------------------------------------------------------
(* Keys. *)

(***************************************************************************)
(* The strengthening.  While no key controls the input language nothing is *)
(* recorded as a control press; while no connection is lost the clients    *)
(* served are those connected, and the others hold no keys; while input is *)
(* not paused a record is of a key that is down, and whoever holds a key   *)
(* that has a record is one of its recipients.                             *)
(***************************************************************************)
ControlsInv ==
  ~setting.controls => m_inputLanguageControlButtons = {}
LossesInv ==
  ~setting.losses =>
    linked = m_clients /\ \A n \in Name \ linked : held[n] = {}
PausesInv == ~setting.pauses => ~paused /\ m_pressed \subseteq physical
HoldersInv ==
  Calmly => \A b \in m_pressed : \A n \in linked :
              b \in held[n] => n \in recipients[b]

KeyInv == ControlsInv /\ LossesInv /\ PausesInv /\ HoldersInv

RelayInv == RelayTypeOK /\ RecordsAreRight /\ NoKeyIsStuck /\ KeyInv

(***************************************************************************)
(* What releases do.                                                       *)
(***************************************************************************)
LEMMA WithoutType ==
  ASSUME NEW keys \in [Name -> SUBSET Button], NEW ups \in [Name -> SUBSET Button]
  PROVE  /\ Without(keys, ups) \in [Name -> SUBSET Button]
         /\ \A n \in Name : Without(keys, ups)[n] = keys[n] \ ups[n]
BY DEF Without

LEMMA ReleasesType ==
  ASSUME NEW ups \in SUBSET (Screen \X Button)
  PROVE  /\ Releases(ups) \in [Name -> SUBSET Button]
         /\ ReleasesSent(ups) \in [Name -> SUBSET Button]
         /\ \A n \in Name, b \in Button :
              /\ b \in Releases(ups)[n] <=> <<n, b>> \in ups
              /\ b \in ReleasesSent(ups)[n] <=>
                   /\ n \in linked /\ <<n, b>> \in ups
                   /\ <<n, b>> \notin m_inputLanguageControlButtons
BY DEF Releases, ReleasesSent

\* A screen loses the keys it is sent the release of, if it is connected and
\* they were not control presses.
KeysReleased(keys, ups) ==
  /\ keys \in [Name -> SUBSET Button]
  /\ \A n \in Name, b \in Button :
       b \in keys[n] <=>
         /\ b \in held[n]
         /\ ~(/\ n \in linked /\ <<n, b>> \in ups
              /\ <<n, b>> \notin m_inputLanguageControlButtons)
PressesReleased(presses, ups) ==
  /\ presses \in [Name -> SUBSET Button]
  /\ \A n \in Name, b \in Button :
       b \in presses[n] <=> b \in sent[n] /\ <<n, b>> \notin ups

LEMMA ReleasesWork ==
  ASSUME RelayTypeOK, NEW ups \in SUBSET (Screen \X Button)
  PROVE  /\ KeysReleased(Without(held, ReleasesSent(ups)), ups)
         /\ PressesReleased(Without(sent, Releases(ups)), ups)
<1>1. held \in [Name -> SUBSET Button] /\ sent \in [Name -> SUBSET Button]
  BY DEF RelayTypeOK
<1>2. KeysReleased(Without(held, ReleasesSent(ups)), ups)
  BY <1>1, ReleasesType, WithoutType DEF KeysReleased
<1>3. PressesReleased(Without(sent, Releases(ups)), ups)
  BY <1>1, ReleasesType, WithoutType DEF PressesReleased
<1>4. QED  BY <1>2, <1>3

LEMMA SentUps ==
  ASSUME RelayTypeOK, NEW ups \in SUBSET (Screen \X Button), sendKeyUps(ups)
  PROVE  /\ KeysReleased(held', ups) /\ PressesReleased(sent', ups)
         /\ m_inputLanguageControlButtons' \subseteq m_inputLanguageControlButtons
BY ReleasesWork DEF sendKeyUps

LEMMA RecordedUpsType == RecordedUps \in SUBSET (Screen \X Button)
BY DEF RecordedUps

\* The screens served that a record names are sent its release.
LEMMA RecordedUpsOf ==
  ASSUME RelayTypeOK, NEW n \in Name, NEW b \in Button
  PROVE  <<n, b>> \in RecordedUps <=> n \in recipients[b] /\ n \in m_clients
BY PrimaryIsNoName DEF RecordedUps, Served, Screen, RelayTypeOK

\* Once the recorded keys are released, the records are empty.
AllReleased(keys, presses) ==
  /\ KeysReleased(keys, RecordedUps) /\ PressesReleased(presses, RecordedUps)
  /\ m_inputLanguageControlButtons' \subseteq m_inputLanguageControlButtons
  /\ recipients' = [b \in Button |-> {}]

LEMMA RecordsReleased == RelayTypeOK /\ releaseBroadcastKeys => AllReleased(held', sent')
BY SentUps, RecordedUpsType DEF releaseBroadcastKeys, Empties, AllReleased

(***************************************************************************)
(* Keys.                                                                   *)
(***************************************************************************)
LEMMA ServedType == ASSUME RelayTypeOK, NEW names PROVE
  /\ Served(names) \subseteq m_clients \cup {Primary}
  /\ Served(names) \subseteq names /\ Served(names) \subseteq Screen
BY DEF Served, RelayTypeOK, Screen

\* A press is sent to screens; a control press is remembered.
PressesSent(to, b, control) ==
  /\ sent' \in [Name -> SUBSET Button] /\ held' \in [Name -> SUBSET Button]
  /\ m_inputLanguageControlButtons' \subseteq m_clients \X Button
  /\ \A n \in Name, d \in Button :
       /\ d \in sent'[n] <=> d \in sent[n] \/ (n \in to /\ d = b)
       /\ d \in held'[n] => d \in held[n] \/ (n \in to \cap linked /\ d = b)
  /\ ~control =>
       m_inputLanguageControlButtons' = m_inputLanguageControlButtons

LEMMA PressSent ==
  ASSUME RelayTypeOK, NEW to \in SUBSET (m_clients \cup {Primary}),
         NEW b \in Button, NEW control \in BOOLEAN, sendKeyDown(to, b, control)
  PROVE  PressesSent(to, b, control)
BY DEF RelayTypeOK, sendKeyDown, PressesSent

LEMMA PlainPress ==
  ASSUME RelayInv, NEW b \in Button, NEW control \in BOOLEAN,
         b \notin physical, physical' = physical \cup {b}, setting' = setting,
         control => setting.controls,
         sendKeyDown({m_active}, b, control),
         UNCHANGED <<m_pressed, recipients, m_keyboardBroadcasting>>,
         UNCHANGED <<m_clients, linked, m_active, m_keyboardBroadcastingScreens,
                     licensed, paused, entered>>
  PROVE  RelayInv'
<1>1. PressesSent({m_active}, b, control)
  BY PressSent DEF RelayInv, RelayTypeOK
<1>2. RelayTypeOK'
  BY <1>1 DEF RelayInv, RelayTypeOK, PressesSent
<1>3. RecipientsGotThePress'
  BY <1>1 DEF RelayInv, RelayTypeOK, RecordsAreRight, RecipientsGotThePress, PressesSent
<1>4. BackgroundKeysAreRecorded'
  BY <1>1 DEF RelayInv, RelayTypeOK, RecordsAreRight, BackgroundKeysAreRecorded, PressesSent
<1>5. NoKeyIsStuck'
  BY <1>1 DEF RelayInv, RelayTypeOK, NoKeyIsStuck, NoKeyStaysDown, Calmly, PressesSent
<1>6. KeyInv'
  BY <1>1 DEF RelayInv, RelayTypeOK, KeyInv, ControlsInv, LossesInv, PausesInv,
     HoldersInv, Calmly, PressesSent
<1>7. QED  BY <1>2, <1>3, <1>4, <1>5, <1>6 DEF RelayInv, RecordsAreRight

LEMMA BroadcastPress ==
  ASSUME RelayInv, NEW b \in Button, NEW screens, NEW control \in BOOLEAN,
         b \notin physical, physical' = physical \cup {b}, setting' = setting,
         control => setting.controls,
         PressIsBroadcast(b, screens, control),
         UNCHANGED <<m_clients, linked, m_active, m_keyboardBroadcasting,
                     m_keyboardBroadcastingScreens, licensed, paused, entered>>
  PROVE  RelayInv'
<1> DEFINE to == Destinations(screens)
<1>a. to \subseteq m_clients \cup {Primary} /\ to \subseteq Screen
  BY ServedType DEF Destinations, RelayInv
<1> HIDE DEF to
<1>1. CASE Remembers(b, to)
  <2>1. /\ m_pressed' = m_pressed \cup {b}
        /\ recipients' = [recipients EXCEPT ![b] = to]
        /\ sendKeyDown(to, b, control) /\ b \notin m_pressed
    BY <1>1 DEF PressIsBroadcast, Remembers, to
  <2>2. PressesSent(to, b, control)
    BY <1>a, <2>1, PressSent DEF RelayInv
  <2>3. RelayTypeOK'
    BY <1>a, <2>1, <2>2 DEF RelayInv, RelayTypeOK, PressesSent
  <2>4. RecipientsGotThePress'
    BY <1>a, <2>1, <2>2, PrimaryIsNoName
       DEF RelayInv, RelayTypeOK, RecordsAreRight, RecipientsGotThePress, PressesSent
  <2>5. BackgroundKeysAreRecorded'
    BY <1>a, <2>1, <2>2
       DEF RelayInv, RelayTypeOK, RecordsAreRight, BackgroundKeysAreRecorded, PressesSent
  <2>6. NoKeyIsStuck'
    BY <1>a, <2>1, <2>2
       DEF RelayInv, RelayTypeOK, NoKeyIsStuck, NoKeyStaysDown, Calmly, PressesSent
  <2>7. KeyInv'
    <3>1. ControlsInv' /\ PausesInv'
      BY <2>1, <2>2 DEF RelayInv, KeyInv, ControlsInv, PausesInv, PressesSent
    <3>2. LossesInv'
      BY <2>2 DEF RelayInv, RelayTypeOK, KeyInv, LossesInv, PressesSent
    <3>3. ASSUME Calmly, NEW d \in m_pressed', NEW n \in linked, d \in held'[n]
          PROVE  n \in recipients'[d]
      <4>1. n \in Name /\ d \in Button /\ recipients \in [Button -> SUBSET Screen]
        BY <2>3, <3>3 DEF RelayInv, RelayTypeOK
      <4>2. CASE d = b
        <5>1. d \notin held[n]
          BY <3>3, <4>1, <4>2 DEF RelayInv, NoKeyIsStuck, NoKeyStaysDown
        <5>2. n \in to
          BY <2>2, <3>3, <4>1, <5>1 DEF PressesSent
        <5>3. QED  BY <2>1, <4>1, <4>2, <5>2
      <4>3. CASE d # b
        <5>1. d \in held[n] /\ d \in m_pressed
          BY <2>1, <2>2, <3>3, <4>1, <4>3 DEF PressesSent
        <5>2. n \in recipients[d]
          BY <3>3, <5>1 DEF RelayInv, KeyInv, HoldersInv
        <5>3. QED  BY <2>1, <4>1, <4>3, <5>2
      <4>4. QED  BY <4>2, <4>3
    <3>4. HoldersInv'
      BY <3>3 DEF HoldersInv, Calmly
    <3>5. QED  BY <3>1, <3>2, <3>4 DEF KeyInv
  <2>8. QED  BY <2>3, <2>4, <2>5, <2>6, <2>7 DEF RelayInv, RecordsAreRight
<1>2. CASE ~Remembers(b, to)
  <2>1. KeepsKeys /\ UNCHANGED m_pressed
    BY <1>2 DEF PressIsBroadcast, to
  <2>2. QED
    BY <2>1 DEF RelayInv, RelayTypeOK, RecordsAreRight, RecipientsGotThePress,
       BackgroundKeysAreRecorded, NoKeyIsStuck, NoKeyStaysDown, Calmly, KeyInv,
       ControlsInv, LossesInv, PausesInv, HoldersInv, KeepsKeys
<1>3. QED  BY <1>1, <1>2

\* Once all records are released, a client has keys only if it is the active
\* one, and none that has a record.
ReleasedInv(keys, presses) ==
  /\ keys \in [Name -> SUBSET Button] /\ presses \in [Name -> SUBSET Button]
  /\ \A n \in Name : keys[n] \subseteq held[n]
  /\ ~setting.losses /\ ~setting.controls =>
       \A n \in linked \ {m_active} : keys[n] = {}
  /\ Calmly => \A n \in linked : keys[n] \cap m_pressed = {}

LEMMA ReleasedAll ==
  ASSUME RelayInv, NEW keys, NEW presses,
         KeysReleased(keys, RecordedUps), PressesReleased(presses, RecordedUps)
  PROVE  ReleasedInv(keys, presses)
<1>1. /\ keys \in [Name -> SUBSET Button] /\ presses \in [Name -> SUBSET Button]
      /\ \A n \in Name : keys[n] \subseteq held[n]
  BY DEF KeysReleased, PressesReleased, RelayInv, RelayTypeOK
<1>2. ASSUME ~setting.controls, NEW n \in linked, NEW b \in keys[n]
      PROVE  b \in held[n] /\ n \notin recipients[b]
  <2>1. n \in Name /\ n \in m_clients /\ b \in Button
    BY <1>1, <1>2 DEF RelayInv, RelayTypeOK
  <2>2. m_inputLanguageControlButtons = {}
    BY <1>2 DEF RelayInv, KeyInv, ControlsInv
  <2>3. QED  BY <1>2, <2>1, <2>2, RecordedUpsOf DEF KeysReleased, RelayInv
<1>3. ASSUME ~setting.losses, ~setting.controls, NEW n \in linked \ {m_active}
      PROVE  keys[n] = {}
  BY <1>2, <1>3 DEF RelayInv, RecordsAreRight, BackgroundKeysAreRecorded
<1>4. ASSUME Calmly, NEW n \in linked PROVE keys[n] \cap m_pressed = {}
  BY <1>2, <1>4 DEF RelayInv, KeyInv, HoldersInv, Calmly
<1>5. QED  BY <1>1, <1>3, <1>4 DEF ReleasedInv

LEMMA PressAfterReleases ==
  ASSUME RelayInv, NEW b \in Button, NEW control \in BOOLEAN,
         b \notin physical, physical' = physical \cup {b}, setting' = setting,
         control => setting.controls,
         ReleasesThenPresses(b, control),
         UNCHANGED <<m_clients, linked, m_active, m_pressed,
                     m_keyboardBroadcastingScreens, licensed, paused, entered>>,
         m_keyboardBroadcasting' = FALSE
  PROVE  RelayInv'
<1> DEFINE keys == Without(held, ReleasesSent(RecordedUps))
           presses == Without(sent, Releases(RecordedUps))
           to == {m_active} \ {Primary}
<1>1. ReleasedInv(keys, presses)
  BY ReleasedAll, ReleasesWork, RecordedUpsType DEF RelayInv
<1>2. /\ recipients' = [d \in Button |-> {}]
      /\ held' \in [Name -> SUBSET Button] /\ sent' \in [Name -> SUBSET Button]
      /\ m_inputLanguageControlButtons' \subseteq m_clients \X Button
      /\ ~control => m_inputLanguageControlButtons' \subseteq
                       m_inputLanguageControlButtons
      /\ \A n \in Name, d \in Button :
           d \in held'[n] => d \in keys[n] \/ (n = m_active /\ n \in linked /\ d = b)
  <2>1. keys \in [Name -> SUBSET Button] /\ presses \in [Name -> SUBSET Button]
    BY <1>1 DEF ReleasedInv
  <2> HIDE DEF keys, presses
  <2>2. /\ recipients' = [d \in Button |-> {}]
        /\ sent' = [n \in Name |-> presses[n] \cup (IF n \in to THEN {b} ELSE {})]
        /\ held' = [n \in Name |-> keys[n] \cup
                      (IF n \in to \cap linked /\ ~control THEN {b} ELSE {})]
    BY DEF ReleasesThenPresses, Empties, keys, presses
  <2>3. \/ m_inputLanguageControlButtons' =
            (m_inputLanguageControlButtons \ RecordedUps) \cup (to \X {b}) /\ control
        \/ m_inputLanguageControlButtons' =
            m_inputLanguageControlButtons \ RecordedUps
    BY DEF ReleasesThenPresses
  <2>4. to \subseteq m_clients /\ m_inputLanguageControlButtons \subseteq m_clients \X Button
    BY DEF RelayInv, RelayTypeOK
  <2>5. m_inputLanguageControlButtons' \subseteq m_clients \X Button
    BY <2>3, <2>4
  <2>6. ~control => m_inputLanguageControlButtons' \subseteq
                     m_inputLanguageControlButtons
    BY <2>3
  <2>7. QED  BY <2>1, <2>2, <2>5, <2>6
<1> HIDE DEF keys, presses
<1>3. RelayTypeOK'
  BY <1>1, <1>2 DEF RelayInv, RelayTypeOK
<1>4. RecordsAreRight'
  BY <1>1, <1>2
     DEF RelayInv, RelayTypeOK, RecordsAreRight, RecipientsGotThePress,
         BackgroundKeysAreRecorded, ReleasedInv
<1>5. NoKeyIsStuck'
  BY <1>1, <1>2
     DEF RelayInv, RelayTypeOK, NoKeyIsStuck, NoKeyStaysDown, Calmly, ReleasedInv
<1>6. ControlsInv' /\ PausesInv'
  BY <1>2 DEF RelayInv, KeyInv, ControlsInv, PausesInv
<1>7. LossesInv'
  BY <1>1, <1>2 DEF RelayInv, RelayTypeOK, KeyInv, LossesInv, ReleasedInv
<1>8. HoldersInv'
  <2>1. ASSUME Calmly, NEW d \in m_pressed, NEW n \in linked PROVE d \notin held'[n]
    <3>1. d \in Button /\ n \in Name /\ d \in physical
      BY <2>1 DEF RelayInv, RelayTypeOK, KeyInv, PausesInv, Calmly
    <3>2. d \notin keys[n]
      BY <1>1, <2>1 DEF ReleasedInv
    <3>3. QED  BY <1>2, <3>1, <3>2
  <2>2. QED  BY <2>1 DEF HoldersInv, Calmly
<1>9. QED  BY <1>3, <1>4, <1>5, <1>6, <1>7, <1>8 DEF RelayInv, KeyInv

\* What releases and a change of the active screen leave.
LEMMA ReleaseAndSwitch ==
  ASSUME RelayInv, NEW keys, NEW presses, ReleasedInv(keys, presses),
         held' \in [Name -> SUBSET Button], sent' = presses, setting' = setting,
         \A n \in Name : held'[n] \subseteq keys[n],
         ~setting.losses /\ ~setting.controls =>
           \A n \in linked \ {m_active'} : held'[n] = {},
         recipients' = [b \in Button |-> {}],
         m_inputLanguageControlButtons' \subseteq m_inputLanguageControlButtons,
         m_active' \in m_clients \cup {Primary}, entered' \subseteq Name,
         m_keyboardBroadcasting' \in BOOLEAN,
         m_keyboardBroadcastingScreens' \in Lists \cup {{}},
         paused' \in BOOLEAN, paused' => paused \/ setting.pauses,
         UNCHANGED <<physical, m_clients, linked, m_pressed, licensed>>
  PROVE  RelayInv'
BY DEF RelayInv, RelayTypeOK, RecordsAreRight, RecipientsGotThePress,
       BackgroundKeysAreRecorded, NoKeyIsStuck, NoKeyStaysDown, Calmly, KeyInv,
       ControlsInv, LossesInv, PausesInv, HoldersInv, ReleasedInv

LEMMA RepeatStep ==
  ASSUME RelayInv, NEW b \in Button, onKeyRepeat(b), setting' = setting
  PROVE  RelayInv'
<1>1. AllReleased(held', sent')
  BY RecordsReleased DEF onKeyRepeat, RelayInv
<1>2. ReleasedInv(held', sent')
  BY <1>1, ReleasedAll DEF AllReleased
<1>3. QED
  BY <1>1, <1>2, ReleaseAndSwitch
     DEF onKeyRepeat, AllReleased, ReleasedInv, RelayInv, RelayTypeOK

LEMMA BroadcastStep ==
  ASSUME RelayInv, NEW on \in BOOLEAN, NEW screens \in Lists \cup {{}},
         handleKeyboardBroadcastEvent(on, screens), setting' = setting
  PROVE  RelayInv'
<1>1. AllReleased(held', sent')
  BY RecordsReleased DEF handleKeyboardBroadcastEvent, RelayInv
<1>2. ReleasedInv(held', sent')
  BY <1>1, ReleasedAll DEF AllReleased
<1>3. m_keyboardBroadcasting' \in BOOLEAN
  BY DEF handleKeyboardBroadcastEvent, RelayInv, RelayTypeOK
<1>4. QED
  BY <1>1, <1>2, <1>3, ReleaseAndSwitch
     DEF handleKeyboardBroadcastEvent, AllReleased, ReleasedInv, RelayInv, RelayTypeOK

LEMMA SwitchKeys ==
  ASSUME RelayTypeOK, NEW n \in Screen, NEW keys \in [Name -> SUBSET Button],
         SwitchesTo(n, keys)
  PROVE  /\ held' \in [Name -> SUBSET Button] /\ entered' \subseteq Name
         /\ m_active' = n
         /\ \A c \in Name :
              held'[c] = IF c = m_active /\ c \in linked /\ c # n THEN {} ELSE keys[c]
BY DEF RelayTypeOK, SwitchesTo

LEMMA PauseStep ==
  ASSUME RelayInv, pauseForProfessionalInput, setting' = setting
  PROVE  RelayInv'
<1> DEFINE keys == Without(held, ReleasesSent(RecordedUps))
           presses == Without(sent, Releases(RecordedUps))
<1>1. ReleasedInv(keys, presses)
  BY ReleasedAll, ReleasesWork, RecordedUpsType DEF RelayInv
<1>2. /\ recipients' = [b \in Button |-> {}] /\ sent' = presses
      /\ SwitchesTo(Primary, keys)
      /\ m_inputLanguageControlButtons' \subseteq m_inputLanguageControlButtons
  BY DEF pauseForProfessionalInput, Empties
<1> HIDE DEF keys, presses
<1>3. /\ held' \in [Name -> SUBSET Button] /\ entered' \subseteq Name
      /\ m_active' = Primary
      /\ \A c \in Name : held'[c] =
           IF c = m_active /\ c \in linked /\ c # Primary THEN {} ELSE keys[c]
  BY <1>1, <1>2, SwitchKeys DEF RelayInv, ReleasedInv, Screen
<1>4. ~setting.losses /\ ~setting.controls =>
        \A n \in linked \ {m_active'} : held'[n] = {}
  BY <1>1, <1>3 DEF ReleasedInv, RelayInv, RelayTypeOK
<1>5. \A n \in Name : held'[n] \subseteq keys[n]
  BY <1>3
<1>6. QED
  BY <1>1, <1>2, <1>3, <1>4, <1>5, ReleaseAndSwitch
     DEF pauseForProfessionalInput, RelayInv, RelayTypeOK

LEMMA PressStep ==
  ASSUME RelayInv, NEW b \in Button, NEW screens \in Lists \cup {{}},
         NEW control \in BOOLEAN, onKeyDown(b, screens, control),
         setting' = setting
  PROVE  RelayInv'
<1>1. /\ b \notin physical /\ physical' = physical \cup {b}
      /\ control => setting.controls
      /\ UNCHANGED <<m_clients, linked, m_active, m_keyboardBroadcastingScreens,
                     licensed, paused, entered>>
  BY DEF onKeyDown
<1>2. CASE paused /\ KeepsKeys /\ UNCHANGED <<m_pressed, m_keyboardBroadcasting>>
  BY <1>1, <1>2
     DEF RelayInv, RelayTypeOK, RecordsAreRight, RecipientsGotThePress,
       BackgroundKeysAreRecorded, NoKeyIsStuck, NoKeyStaysDown, Calmly, KeyInv,
       ControlsInv, LossesInv, PausesInv, HoldersInv, KeepsKeys
<1>3. CASE /\ sendKeyDown({m_active}, b, control)
           /\ UNCHANGED <<m_pressed, recipients, m_keyboardBroadcasting>>
  BY <1>1, <1>3, PlainPress
<1>4. CASE /\ ReleasesThenPresses(b, control) /\ m_keyboardBroadcasting' = FALSE
           /\ UNCHANGED m_pressed
  BY <1>1, <1>4, PressAfterReleases
<1>5. CASE PressIsBroadcast(b, screens, control) /\ UNCHANGED m_keyboardBroadcasting
  BY <1>1, <1>5, BroadcastPress
<1>6. QED  BY <1>2, <1>3, <1>4, <1>5 DEF onKeyDown

\* The release of a recorded key goes to those that got its press, that of
\* another to the active screen; who else has the key down is in the record.
LEMMA ReleaseStep ==
  ASSUME RelayInv, NEW b \in Button, onKeyUp(b), setting' = setting
  PROVE  RelayInv'
<1>1. /\ b \in physical /\ physical' = physical \ {b}
      /\ UNCHANGED <<m_clients, linked, m_active, m_keyboardBroadcasting,
                     m_keyboardBroadcastingScreens, licensed, paused, entered>>
  BY DEF onKeyUp
<1>2. CASE paused /\ KeepsKeys /\ UNCHANGED m_pressed
  BY <1>1, <1>2
     DEF RelayInv, RelayTypeOK, RecordsAreRight, RecipientsGotThePress,
       BackgroundKeysAreRecorded, NoKeyIsStuck, NoKeyStaysDown, Calmly, KeyInv,
       ControlsInv, LossesInv, PausesInv, HoldersInv, KeepsKeys
<1>3. CASE /\ b \in m_pressed /\ sendKeyUps(Served(recipients[b]) \X {b})
           /\ m_pressed' = m_pressed \ {b}
           /\ recipients' = [recipients EXCEPT ![b] = {}]
  <2> DEFINE ups == Served(recipients[b]) \X {b}
  <2>1. ups \in SUBSET (Screen \X Button)
    BY ServedType DEF RelayInv
  <2>2. \A n \in Name, d \in Button :
          <<n, d>> \in ups <=> d = b /\ n \in recipients[b] /\ n \in m_clients
    BY PrimaryIsNoName DEF Served, RelayInv, RelayTypeOK, Screen
  <2> HIDE DEF ups
  <2>3. /\ KeysReleased(held', ups) /\ PressesReleased(sent', ups)
        /\ m_inputLanguageControlButtons' \subseteq m_inputLanguageControlButtons
    BY <1>3, <2>1, SentUps DEF RelayInv, ups
  <2>4. RelayTypeOK'
    BY <1>1, <1>3, <2>3 DEF RelayInv, RelayTypeOK, KeysReleased, PressesReleased
  <2>5. RecipientsGotThePress'
    BY <1>1, <1>3, <2>2, <2>3
       DEF RelayInv, RelayTypeOK, RecordsAreRight, RecipientsGotThePress,
           PressesReleased
  <2>6. BackgroundKeysAreRecorded'
    BY <1>1, <1>3, <2>2, <2>3
       DEF RelayInv, RelayTypeOK, RecordsAreRight, BackgroundKeysAreRecorded,
           KeyInv, ControlsInv, KeysReleased
  <2>7. NoKeyIsStuck'
    <3>1. ASSUME Calmly, NEW n \in linked, NEW d \in held'[n] PROVE d \in physical'
      <4>1. n \in Name /\ n \in m_clients /\ d \in Button
        BY <2>4, <3>1 DEF RelayInv, RelayTypeOK
      <4>2. d \in held[n]
        BY <2>3, <3>1, <4>1 DEF KeysReleased
      <4>3. <<n, d>> \notin ups
        BY <2>3, <3>1, <4>1
           DEF KeysReleased, RelayInv, KeyInv, ControlsInv, Calmly
      <4>4. d # b
        BY <1>3, <2>2, <3>1, <4>1, <4>2, <4>3 DEF RelayInv, KeyInv, HoldersInv
      <4>5. d \in physical
        BY <3>1, <4>2 DEF RelayInv, NoKeyIsStuck, NoKeyStaysDown
      <4>6. QED  BY <1>1, <4>4, <4>5
    <3>2. QED  BY <1>1, <3>1 DEF NoKeyIsStuck, NoKeyStaysDown, Calmly
  <2>8. KeyInv'
    <3>1. ControlsInv' /\ PausesInv'
      BY <1>1, <1>3, <2>3 DEF RelayInv, KeyInv, ControlsInv, PausesInv
    <3>2. LossesInv'
      BY <1>1, <2>3, <2>4 DEF RelayInv, RelayTypeOK, KeyInv, LossesInv, KeysReleased
    <3>3. HoldersInv'
      BY <1>1, <1>3, <2>3
         DEF RelayInv, RelayTypeOK, KeyInv, HoldersInv, Calmly, KeysReleased
    <3>4. QED  BY <3>1, <3>2, <3>3 DEF KeyInv
  <2>9. QED  BY <2>4, <2>5, <2>6, <2>7, <2>8 DEF RelayInv, RecordsAreRight
<1>4. CASE /\ b \notin m_pressed /\ sendKeyUps({<<m_active, b>>})
           /\ UNCHANGED <<m_pressed, recipients>>
  <2>1. {<<m_active, b>>} \in SUBSET (Screen \X Button)
    BY DEF RelayInv, RelayTypeOK, Screen
  <2>2. /\ KeysReleased(held', {<<m_active, b>>})
        /\ PressesReleased(sent', {<<m_active, b>>})
        /\ m_inputLanguageControlButtons' \subseteq m_inputLanguageControlButtons
    BY <1>4, <2>1, SentUps DEF RelayInv
  <2>3. recipients[b] = {}
    BY <1>4 DEF RelayInv, RelayTypeOK
  <2>4. RelayTypeOK'
    BY <1>1, <1>4, <2>2 DEF RelayInv, RelayTypeOK, KeysReleased, PressesReleased
  <2>5. RecipientsGotThePress'
    BY <1>1, <1>4, <2>2, <2>3
       DEF RelayInv, RelayTypeOK, RecordsAreRight, RecipientsGotThePress,
           PressesReleased
  <2>6. BackgroundKeysAreRecorded'
    BY <1>1, <1>4, <2>2
       DEF RelayInv, RelayTypeOK, RecordsAreRight, BackgroundKeysAreRecorded,
           KeysReleased
  <2>7. NoKeyIsStuck'
    BY <1>1, <1>4, <2>2, <2>3
       DEF RelayInv, RelayTypeOK, NoKeyIsStuck, NoKeyStaysDown, Calmly, KeyInv,
           ControlsInv, RecordsAreRight, BackgroundKeysAreRecorded, KeysReleased
  <2>8. KeyInv'
    <3>1. ControlsInv' /\ PausesInv'
      BY <1>1, <1>4, <2>2 DEF RelayInv, KeyInv, ControlsInv, PausesInv
    <3>2. LossesInv'
      BY <1>1, <2>2, <2>4 DEF RelayInv, RelayTypeOK, KeyInv, LossesInv, KeysReleased
    <3>3. HoldersInv'
      BY <1>1, <1>4, <2>2
         DEF RelayInv, RelayTypeOK, KeyInv, HoldersInv, Calmly, KeysReleased
    <3>4. QED  BY <3>1, <3>2, <3>3 DEF KeyInv
  <2>9. QED  BY <2>4, <2>5, <2>6, <2>7, <2>8 DEF RelayInv, RecordsAreRight
<1>5. QED  BY <1>2, <1>3, <1>4 DEF onKeyUp

(***************************************************************************)
(* Screens.                                                                *)
(***************************************************************************)
LEMMA SwitchStep ==
  ASSUME RelayInv, NEW n \in Screen, switchScreen(n), setting' = setting
  PROVE  RelayInv'
<1>1. /\ n \in m_clients \cup {Primary} /\ n # m_active /\ SwitchesTo(n, held)
      /\ UNCHANGED <<physical, m_clients, linked, m_pressed, recipients,
                 m_keyboardBroadcasting, m_keyboardBroadcastingScreens,
                 m_inputLanguageControlButtons, licensed, paused, sent>>
  BY DEF switchScreen
<1>2. /\ held' \in [Name -> SUBSET Button] /\ entered' \subseteq Name
      /\ m_active' = n
      /\ \A c \in Name :
           held'[c] = IF c = m_active /\ c \in linked /\ c # n THEN {} ELSE held[c]
  <2>1. held \in [Name -> SUBSET Button]
    BY DEF RelayInv, RelayTypeOK
  <2>2. QED  BY <1>1, <2>1, SwitchKeys DEF RelayInv
<1>3. RelayTypeOK'
  BY <1>1, <1>2 DEF RelayInv, RelayTypeOK
<1>4. RecordsAreRight'
  BY <1>1, <1>2 DEF RelayInv, RelayTypeOK, RecordsAreRight, RecipientsGotThePress,
     BackgroundKeysAreRecorded
<1>5. NoKeyIsStuck' /\ KeyInv'
  BY <1>1, <1>2
     DEF RelayInv, RelayTypeOK, NoKeyIsStuck, NoKeyStaysDown, Calmly, KeyInv,
       ControlsInv, LossesInv, PausesInv, HoldersInv
<1>6. QED  BY <1>3, <1>4, <1>5 DEF RelayInv

LEMMA PlainSteps ==
  ASSUME RelayInv, PauseEnds \/ LicenceChanges, setting' = setting
  PROVE  RelayInv'
<1>1. UNCHANGED <<physical, m_clients, linked, m_active, m_pressed, recipients,
                 m_keyboardBroadcasting, m_keyboardBroadcastingScreens,
                 m_inputLanguageControlButtons, held, entered, sent>>
  BY DEF PauseEnds, LicenceChanges
<1>2. licensed' \in BOOLEAN /\ paused' \in BOOLEAN /\ (paused' => paused)
  <2>1. licensed \in BOOLEAN /\ paused \in BOOLEAN
    BY DEF RelayInv, RelayTypeOK
  <2>2. /\ (licensed' = ~licensed) \/ (licensed' = licensed)
        /\ (paused' = FALSE) \/ (paused' = paused)
    BY DEF PauseEnds, LicenceChanges
  <2>3. licensed' \in BOOLEAN
    BY <2>1, <2>2, Zenon
  <2>4. paused' \in BOOLEAN
    BY <2>1, <2>2, Zenon
  <2>5. paused' => paused
    BY <2>1, <2>2
  <2>6. QED  BY <2>3, <2>4, <2>5
<1>3. RelayTypeOK'
  BY <1>1, <1>2 DEF RelayInv, RelayTypeOK
<1>4. RecordsAreRight' /\ NoKeyIsStuck'
  BY <1>1 DEF RelayInv, RecordsAreRight, RecipientsGotThePress,
     BackgroundKeysAreRecorded, NoKeyIsStuck, NoKeyStaysDown, Calmly
<1>5. KeyInv'
  BY <1>1, <1>2
     DEF RelayInv, Calmly, KeyInv, ControlsInv, LossesInv, PausesInv, HoldersInv
<1>6. QED  BY <1>3, <1>4, <1>5 DEF RelayInv

\* A new client has no keys down, unless one of its name was lost with keys
\* down.
LEMMA AddStep ==
  ASSUME RelayInv, NEW n \in Name, addClient(n), setting' = setting
  PROVE  RelayInv'
<1>1. ~setting.losses => held[n] = {} /\ linked = m_clients
  BY DEF addClient, RelayInv, RelayTypeOK, KeyInv, LossesInv
<1>2. RelayTypeOK'
  BY DEF addClient, RelayInv, RelayTypeOK
<1>3. RecordsAreRight'
  BY <1>1 DEF addClient, RelayInv, RelayTypeOK, RecordsAreRight,
     RecipientsGotThePress, BackgroundKeysAreRecorded
<1>4. NoKeyIsStuck' /\ KeyInv'
  BY <1>1
     DEF addClient, RelayInv, RelayTypeOK, NoKeyIsStuck, NoKeyStaysDown, Calmly,
       KeyInv, ControlsInv, LossesInv, PausesInv, HoldersInv
<1>5. QED  BY <1>2, <1>3, <1>4 DEF RelayInv

LEMMA LossStep ==
  ASSUME RelayInv, NEW n \in Name, cleanupScreen(n), setting' = setting
  PROVE  RelayInv'
<1>1. setting'.losses
  BY DEF cleanupScreen
<1>2. held' \in [Name -> SUBSET Button]
  BY DEF cleanupScreen, RelayInv, RelayTypeOK
<1>3. RelayTypeOK'
  BY <1>2 DEF cleanupScreen, RelayInv, RelayTypeOK
<1>4. RecordsAreRight'
  BY <1>1 DEF cleanupScreen, RelayInv, RecordsAreRight, RecipientsGotThePress,
     BackgroundKeysAreRecorded
<1>5. NoKeyIsStuck' /\ KeyInv'
  BY <1>1
     DEF cleanupScreen, RelayInv, NoKeyIsStuck, Calmly,
       KeyInv, ControlsInv, LossesInv, PausesInv, HoldersInv
<1>6. QED  BY <1>3, <1>4, <1>5 DEF RelayInv

LEMMA RemoveStep ==
  ASSUME RelayInv, NEW n \in Name, removeClient(n), setting' = setting
  PROVE  RelayInv'
<1>1. setting'.losses
  BY DEF removeClient, RelayInv, KeyInv, LossesInv
<1>2. /\ recipients' = [b \in Button |-> recipients[b] \ {n}]
      /\ recipients' \in [Button -> SUBSET Screen]
      /\ sent' \in [Name -> SUBSET Button] /\ UNCHANGED m_pressed
      /\ \A c \in Name \ {n} : sent'[c] = sent[c]
  BY DEF removeClient, forgetPeer, RelayInv, RelayTypeOK
<1>3. RelayTypeOK'
  BY <1>2 DEF removeClient, RelayInv, RelayTypeOK
<1>4. RecordsAreRight'
  BY <1>1, <1>2 DEF removeClient, RelayInv, RelayTypeOK, RecordsAreRight,
     RecipientsGotThePress, BackgroundKeysAreRecorded
<1>5. NoKeyIsStuck' /\ LossesInv' /\ HoldersInv'
  BY <1>1 DEF NoKeyIsStuck, Calmly, LossesInv, HoldersInv
<1>6. ControlsInv' /\ PausesInv'
  BY <1>2 DEF removeClient, RelayInv, KeyInv, ControlsInv, PausesInv
<1>7. QED  BY <1>3, <1>4, <1>5, <1>6 DEF RelayInv, KeyInv

(***************************************************************************)
(* The theorems.                                                           *)
(***************************************************************************)
LEMMA RelayInvInit == RelayInit => RelayInv
BY RelaySettings DEF RelayInit, RelayInv, RelayTypeOK, RecordsAreRight,
   RecipientsGotThePress, BackgroundKeysAreRecorded, NoKeyIsStuck, NoKeyStaysDown,
   Calmly, KeyInv, ControlsInv, LossesInv, PausesInv, HoldersInv, Screen

LEMMA RelayInvNext == RelayInv /\ [RelayNext]_keyRelayVars => RelayInv'
<1> SUFFICES ASSUME RelayInv, [RelayNext]_keyRelayVars PROVE RelayInv'
  OBVIOUS
<1>1. CASE RelayNext
  <2>1. setting' = setting /\ RelayStep
    BY <1>1 DEF RelayNext
  <2>2. ASSUME NEW b \in Button, NEW screens \in Lists \cup {{}},
               NEW control \in BOOLEAN, onKeyDown(b, screens, control)
        PROVE  RelayInv'
    BY <2>1, <2>2, PressStep
  <2>3. ASSUME NEW b \in Button, onKeyUp(b) PROVE RelayInv'
    BY <2>1, <2>3, ReleaseStep
  <2>4. ASSUME NEW b \in Button, onKeyRepeat(b) PROVE RelayInv'
    BY <2>1, <2>4, RepeatStep
  <2>5. ASSUME NEW n \in Screen, switchScreen(n) PROVE RelayInv'
    BY <2>1, <2>5, SwitchStep
  <2>6. ASSUME NEW on \in BOOLEAN, NEW screens \in Lists \cup {{}},
               handleKeyboardBroadcastEvent(on, screens)
        PROVE  RelayInv'
    BY <2>1, <2>6, BroadcastStep
  <2>7. CASE pauseForProfessionalInput
    BY <2>1, <2>7, PauseStep
  <2>8. CASE PauseEnds \/ LicenceChanges
    BY <2>1, <2>8, PlainSteps
  <2>9. ASSUME NEW n \in Name, addClient(n) \/ cleanupScreen(n) \/ removeClient(n)
        PROVE  RelayInv'
    BY <2>1, <2>9, AddStep, LossStep, RemoveStep
  <2>10. QED
    BY <2>1, <2>2, <2>3, <2>4, <2>5, <2>6, <2>7, <2>8, <2>9 DEF RelayStep
<1>2. CASE UNCHANGED keyRelayVars
  BY <1>2
     DEF keyRelayVars, relayVars, RelayInv, RelayTypeOK, RecordsAreRight,
       RecipientsGotThePress, BackgroundKeysAreRecorded, NoKeyIsStuck,
       NoKeyStaysDown, Calmly, KeyInv, ControlsInv, LossesInv, PausesInv, HoldersInv
<1>3. QED  BY <1>1, <1>2

LEMMA RelayInvAlways == RelaySpec => []RelayInv
BY RelayInvInit, RelayInvNext, PTL DEF RelaySpec

\* The relay's state is well formed: what is active is served, what became a
\* control message belongs to a client that is served, and only keys that
\* have a record have recipients (Server.cpp, BroadcastKeys.h).
THEOREM RelayTypeCorrect == RelaySpec => []RelayTypeOK
<1>1. RelayInv => RelayTypeOK  BY DEF RelayInv
<1>2. QED  BY <1>1, RelayInvAlways, PTL

\* For any screens, keys and lists: each recipient a record names got the
\* press on the connection it has, and a client in the background holds no key
\* down that its release would not find (Server::onKeyUp, releaseBroadcastKeys,
\* removeClient).
THEOREM RecordsAreAlwaysRight == RelaySpec => []RecordsAreRight
<1>1. RelayInv => RecordsAreRight  BY DEF RelayInv
<1>2. QED  BY <1>1, RelayInvAlways, PTL

\* For any screens, keys and lists: while nothing pauses input, loses a
\* connection or controls the input language, a key that the user let go is
\* down nowhere (Server::onKeyUp).
THEOREM NoKeyIsEverStuck == RelaySpec => []NoKeyIsStuck
<1>1. RelayInv => NoKeyIsStuck  BY DEF RelayInv
<1>2. QED  BY <1>1, RelayInvAlways, PTL

-----------------------------------------------------------------------------
(* Sessions. *)

(***************************************************************************)
(* What is always true.  A session has a source a and a target b, and its  *)
(* identifier is one session's for good.                                   *)
(***************************************************************************)
\* A message about session id.
IsAbout(m, id) == m.op # "peers" /\ m.id = id
Speaks(q, op, id) == \E i \in 1 .. Len(q) : q[i].op = op /\ q[i].id = id
Mentions(q, id) == \E i \in 1 .. Len(q) : IsAbout(q[i], id)

\* Whatever is known of it is consistent.
EntriesFit(id, a, b, f) ==
  \A c \in Computer : \A s \in m_sessions[c] : s.id = id =>
    /\ s.feature = f
    /\ \/ c = a /\ s.peer = b /\ s.outgoing
       \/ c = b /\ s.peer = a /\ ~s.outgoing
RoutesFit(id, a, b, f) ==
  \A r \in m_routes : r.id = id => r.source = a /\ r.target = b /\ r.feature = f
Fits(m, from, to, id, a, b, f) ==
  IsAbout(m, id) =>
    /\ m.feature = f /\ m.source = from /\ m.target = to
    /\ (from = a /\ to = b /\ m.op \in {"open", "close"})
         \/ (from = b /\ to = a /\ m.op \in {"accept", "close"})
FitIn(q, from, to, id, a, b, f) ==
  \A i \in 1 .. Len(q) : Fits(q[i], from, to, id, a, b, f)
Other(c, a, b) == IF c = a THEN b ELSE a
LettersFit(id, a, b, f) ==
  \A c \in Computer :
    /\ FitIn(toHub[c], c, Other(c, a, b), id, a, b, f)
    /\ FitIn(fromHub[c], Other(c, a, b), c, id, a, b, f)

NoRoute(id) == \A r \in m_routes : r.id # id

\* Its request comes before anything else that is said of it.
OpensFirst(q, id) ==
  \A i, j \in 1 .. Len(q) : q[i].op = "open" /\ q[i].id = id /\ IsAbout(q[j], id) => i <= j
OpensOnce(q, id) ==
  \A i, j \in 1 .. Len(q) :
    q[i].op = "open" /\ q[i].id = id /\ q[j].op = "open" /\ q[j].id = id => i = j
Unanswered(id, a, b) ==
  /\ ~Holds(b, id) /\ ~IsActive(a, id) /\ ~Mentions(toHub[b], id) /\ ~Mentions(fromHub[a], id)
RequestIsFirst(id, a, b) ==
  /\ OpensFirst(toHub[a], id) /\ OpensOnce(fromHub[b], id)
  /\ Speaks(toHub[a], "open", id) =>
       Unanswered(id, a, b) /\ NoRoute(id) /\ ~Mentions(fromHub[b], id)
  /\ Speaks(fromHub[b], "open", id) => Unanswered(id, a, b)

\* What has been agreed to, at the source or on its way there.
Answered(id, a, b) ==
  IsActive(a, id) \/ Speaks(toHub[b], "accept", id) \/ Speaks(fromHub[a], "accept", id)
Agreed(id, b) ==
  \/ IsActive(b, id)
  \/ Speaks(toHub[b], "close", id)
  \/ b \notin m_online
  \/ NoRoute(id)
AgreementHolds(id, a, b) ==
  Answered(id, a, b) =>
    Agreed(id, b) /\ (Holds(b, id) => IsActive(b, id))

\* What is over is over.
EndsHold(id, a, b) ==
  /\ \A c \in {a, b} : Speaks(toHub[c], "close", id) => ~Holds(c, id)
  /\ \A c \in {a, b} : Speaks(fromHub[c], "close", id) => NoRoute(id)

\* Forwarding is paused.
Paused(id, b) ==
  HasLease(id) \/ b \notin known \/ ~IsActive(b, id)
PauseHolds(id, a, b) ==
  IsActive(a, id) \/ (Speaks(fromHub[a], "accept", id) /\ Holds(a, id)) => Paused(id, b)

SessionInv(id, a, b, f) ==
  /\ EntriesFit(id, a, b, f) /\ RoutesFit(id, a, b, f) /\ LettersFit(id, a, b, f)
  /\ RequestIsFirst(id, a, b) /\ AgreementHolds(id, a, b) /\ EndsHold(id, a, b)
  /\ PauseHolds(id, a, b)

\* An identifier that has not been used.
Unused(id) ==
  /\ \A c \in Computer :
       ~Holds(c, id) /\ ~Mentions(toHub[c], id) /\ ~Mentions(fromHub[c], id)
  /\ NoRoute(id)

\* Who is absent from a list of peers has no route for what the list will end.
ListsAreRight(p) ==
  \A i \in 1 .. Len(fromHub[p]) : fromHub[p][i].op = "peers" =>
    \A q \in Computer \ (fromHub[p][i].peers \union {p}) :
      /\ \A s \in m_sessions[p] : s.peer = q /\ ~s.outgoing => NoRoute(s.id)
      /\ \A j \in 1 .. i - 1 :
           fromHub[p][j].op = "open" /\ fromHub[p][j].source = q => NoRoute(fromHub[p][j].id)

\* A computer has sessions with its peers, never with itself, and those that
\* are not connected have none.
PeersFit ==
  /\ \A c \in Computer :
       /\ \A s \in m_sessions[c] : s.peer \in m_peers[c]
       /\ c \notin m_peers[c]
       /\ \A i \in 1 .. Len(fromHub[c]) :
            fromHub[c][i].op = "peers" => c \notin fromHub[c][i].peers
  /\ \A c \in Computer \ m_online :
       m_sessions[c] = {} /\ toHub[c] = << >> /\ fromHub[c] = << >>

SessionsInv ==
  /\ SessionTypeOK /\ PeersFit
  /\ \A id \in Session \ requested : Unused(id)
  /\ \A id \in requested : \E a, b \in Computer, f \in Feature : a # b /\ SessionInv(id, a, b, f)
  /\ \A p \in Computer : ListsAreRight(p)

(***************************************************************************)
(* What reading and sending one message does to a stream.                  *)
(***************************************************************************)
LEMMA Letters ==
  ASSUME NEW m \in SessionMessage
  PROVE  /\ m.op \in {"open", "accept", "close", "peers"}
         /\ m.op = "peers" => m.peers \subseteq Computer
         /\ m.op # "peers" =>
              m.id \in Session /\ m.source \in Computer
              /\ m.target \in Computer /\ m.feature \in Feature
BY DEF SessionMessage

LEMMA ReadTail ==
  ASSUME NEW q \in Seq(SessionMessage), q # << >>
  PROVE  /\ Head(q) \in SessionMessage /\ Tail(q) \in Seq(SessionMessage)
         /\ Len(q) \in Nat \ {0} /\ Len(Tail(q)) = Len(q) - 1
         /\ q[1] = Head(q)
         /\ \A i \in 1 .. Len(Tail(q)) : i + 1 \in 1 .. Len(q) /\ Tail(q)[i] = q[i + 1]
         /\ \A i \in 1 .. Len(q) : i # 1 => i - 1 \in 1 .. Len(Tail(q)) /\ Tail(q)[i - 1] = q[i]
OBVIOUS

LEMMA PeersReadOn ==
  ASSUME NEW q \in Seq(SessionMessage), q # << >>, NEW c,
         \A i \in 1 .. Len(q) : q[i].op = "peers" => c \notin q[i].peers
  PROVE  \A i \in 1 .. Len(Tail(q)) : Tail(q)[i].op = "peers" => c \notin Tail(q)[i].peers
<1>1. \A i \in 1 .. Len(Tail(q)) : i + 1 \in 1 .. Len(q) /\ Tail(q)[i] = q[i + 1]
  BY ReadTail
<1> SUFFICES ASSUME NEW i \in 1 .. Len(Tail(q)), Tail(q)[i].op = "peers"
             PROVE  c \notin Tail(q)[i].peers
  OBVIOUS
<1>2. i + 1 \in 1 .. Len(q) /\ Tail(q)[i] = q[i + 1]
  BY <1>1
<1> QED BY <1>2

LEMMA SentEnd ==
  ASSUME NEW q \in Seq(SessionMessage), NEW m \in SessionMessage
  PROVE  /\ Append(q, m) \in Seq(SessionMessage)
         /\ Len(q) \in Nat /\ Len(Append(q, m)) = Len(q) + 1
         /\ Append(q, m)[Len(q) + 1] = m
         /\ \A i \in 1 .. Len(q) : i \in 1 .. Len(q) + 1 /\ Append(q, m)[i] = q[i]
         /\ \A i \in 1 .. Len(q) + 1 : i \in 1 .. Len(q) \/ i = Len(q) + 1
OBVIOUS

LEMMA Reading ==
  ASSUME NEW q \in Seq(SessionMessage), q # << >>, NEW id
  PROVE  /\ \A op : Speaks(q, op, id) <=>
                      Speaks(Tail(q), op, id) \/ (Head(q).op = op /\ Head(q).id = id)
         /\ Mentions(q, id) <=> Mentions(Tail(q), id) \/ IsAbout(Head(q), id)
         /\ OpensFirst(q, id) =>
              /\ OpensFirst(Tail(q), id)
              /\ IsAbout(Head(q), id) => ~Speaks(Tail(q), "open", id)
         /\ OpensOnce(q, id) =>
              /\ OpensOnce(Tail(q), id)
              /\ Head(q).op = "open" /\ Head(q).id = id => ~Speaks(Tail(q), "open", id)
<1> DEFINE r == Tail(q)
           h == Head(q)
<1>1. /\ Len(q) \in Nat \ {0} /\ Len(r) = Len(q) - 1 /\ q[1] = h
      /\ \A i \in 1 .. Len(r) : i + 1 \in 1 .. Len(q) /\ r[i] = q[i + 1]
      /\ \A i \in 1 .. Len(q) : i # 1 => i - 1 \in 1 .. Len(r) /\ r[i - 1] = q[i]
      /\ 1 \in 1 .. Len(q)
  BY ReadTail
<1> HIDE DEF r, h
<1>2. \A op : Speaks(q, op, id) <=> Speaks(r, op, id) \/ (h.op = op /\ h.id = id)
  BY <1>1 DEF Speaks
<1>3. Mentions(q, id) <=> Mentions(r, id) \/ IsAbout(h, id)
  BY <1>1 DEF Mentions, IsAbout
<1>4. ASSUME OpensFirst(q, id)
      PROVE  OpensFirst(r, id) /\ (IsAbout(h, id) => ~Speaks(r, "open", id))
  <2>1. OpensFirst(r, id)
    <3> SUFFICES ASSUME NEW i \in 1 .. Len(r), NEW j \in 1 .. Len(r),
                        r[i].op = "open" /\ r[i].id = id /\ IsAbout(r[j], id)
                 PROVE  i <= j
      BY DEF OpensFirst
    <3>1. i + 1 <= j + 1
      BY <1>1, <1>4 DEF OpensFirst
    <3> QED BY <3>1, <1>1
  <2>2. ASSUME IsAbout(h, id), NEW i \in 1 .. Len(r), r[i].op = "open", r[i].id = id
        PROVE  FALSE
    <3>1. i + 1 <= 1
      BY <1>1, <1>4, <2>2 DEF OpensFirst
    <3> QED BY <3>1, <1>1
  <2> QED BY <2>1, <2>2 DEF Speaks
<1>5. ASSUME OpensOnce(q, id)
      PROVE  OpensOnce(r, id) /\ (h.op = "open" /\ h.id = id => ~Speaks(r, "open", id))
  <2>1. OpensOnce(r, id)
    <3> SUFFICES ASSUME NEW i \in 1 .. Len(r), NEW j \in 1 .. Len(r),
                        r[i].op = "open" /\ r[i].id = id /\ r[j].op = "open" /\ r[j].id = id
                 PROVE  i = j
      BY DEF OpensOnce
    <3>1. i + 1 = j + 1
      BY <1>1, <1>5 DEF OpensOnce
    <3> QED BY <3>1, <1>1
  <2>2. ASSUME h.op = "open", h.id = id, NEW i \in 1 .. Len(r), r[i].op = "open", r[i].id = id
        PROVE  FALSE
    <3>1. i + 1 = 1
      BY <1>1, <1>5, <2>2 DEF OpensOnce
    <3> QED BY <3>1, <1>1
  <2> QED BY <2>1, <2>2 DEF Speaks
<1> QED BY <1>2, <1>3, <1>4, <1>5 DEF r, h

LEMMA Sending ==
  ASSUME NEW q \in Seq(SessionMessage), NEW m \in SessionMessage, NEW id
  PROVE  /\ \A op : Speaks(Append(q, m), op, id) <=>
                      Speaks(q, op, id) \/ (m.op = op /\ m.id = id)
         /\ Mentions(Append(q, m), id) <=> Mentions(q, id) \/ IsAbout(m, id)
         /\ OpensFirst(q, id) /\ (m.op = "open" /\ m.id = id => ~Mentions(q, id)) =>
              OpensFirst(Append(q, m), id)
         /\ OpensOnce(q, id) /\ (m.op = "open" /\ m.id = id => ~Speaks(q, "open", id)) =>
              OpensOnce(Append(q, m), id)
<1> DEFINE r == Append(q, m)
           n == Len(q) + 1
<1>1. /\ Len(q) \in Nat /\ Len(r) = n /\ r[n] = m /\ n \in 1 .. n
      /\ \A i \in 1 .. Len(q) : i \in 1 .. n /\ r[i] = q[i] /\ i <= n /\ i # n
      /\ \A i \in 1 .. n : i \in 1 .. Len(q) \/ i = n
  BY SentEnd
<1> HIDE DEF r, n
<1>2. \A op : Speaks(r, op, id) <=> Speaks(q, op, id) \/ (m.op = op /\ m.id = id)
  BY <1>1 DEF Speaks
<1>3. Mentions(r, id) <=> Mentions(q, id) \/ IsAbout(m, id)
  BY <1>1 DEF Mentions, IsAbout
<1>4. ASSUME OpensFirst(q, id), m.op = "open" /\ m.id = id => ~Mentions(q, id)
      PROVE  OpensFirst(r, id)
  <2> SUFFICES ASSUME NEW i \in 1 .. n, NEW j \in 1 .. n,
                      r[i].op = "open" /\ r[i].id = id /\ IsAbout(r[j], id)
               PROVE  i <= j
    BY <1>1 DEF OpensFirst
  <2>1. CASE j = n
    BY <1>1, <2>1
  <2>2. CASE i = n /\ j # n
    BY <1>1, <1>4, <2>2 DEF Mentions
  <2>3. CASE i # n /\ j # n
    BY <1>1, <1>4, <2>3 DEF OpensFirst
  <2> QED BY <2>1, <2>2, <2>3
<1>5. ASSUME OpensOnce(q, id), m.op = "open" /\ m.id = id => ~Speaks(q, "open", id)
      PROVE  OpensOnce(r, id)
  <2> SUFFICES ASSUME NEW i \in 1 .. n, NEW j \in 1 .. n,
                      r[i].op = "open" /\ r[i].id = id /\ r[j].op = "open" /\ r[j].id = id
               PROVE  i = j
    BY <1>1 DEF OpensOnce
  <2> QED BY <1>1, <1>5 DEF OpensOnce, Speaks
<1> QED BY <1>2, <1>3, <1>4, <1>5 DEF r, n

LEMMA NoLetters ==
  ASSUME NEW id
  PROVE  /\ \A op : ~Speaks(<< >>, op, id)
         /\ ~Mentions(<< >>, id) /\ OpensFirst(<< >>, id) /\ OpensOnce(<< >>, id)
BY DEF Speaks, Mentions, OpensFirst, OpensOnce

LEMMA SpokenIsMentioned ==
  ASSUME NEW q, NEW id, NEW op, op # "peers", Speaks(q, op, id)
  PROVE  Mentions(q, id)
BY DEF Speaks, Mentions, IsAbout

(***************************************************************************)
(* A step that is not about a session.                                     *)
(***************************************************************************)
About(S, id) == {x \in S : x.id = id}
KeptIn(q, r, id) ==
  /\ \A op \in {"open", "accept", "close"} : Speaks(r, op, id) <=> Speaks(q, op, id)
  /\ Mentions(r, id) <=> Mentions(q, id)
  /\ OpensFirst(q, id) => OpensFirst(r, id)
  /\ OpensOnce(q, id) => OpensOnce(r, id)
  /\ \A from, to, a, b, f : FitIn(q, from, to, id, a, b, f) => FitIn(r, from, to, id, a, b, f)

LEMMA QuietlyRead ==
  ASSUME NEW q \in Seq(SessionMessage), q # << >>, NEW id, ~IsAbout(Head(q), id)
  PROVE  KeptIn(q, Tail(q), id)
<1>1. \A from, to, a, b, f :
        FitIn(q, from, to, id, a, b, f) => FitIn(Tail(q), from, to, id, a, b, f)
  BY ReadTail DEF FitIn
<1>2. ~(Head(q).op \in {"open", "accept", "close"} /\ Head(q).id = id)
  BY DEF IsAbout
<1> QED BY <1>1, <1>2, Reading DEF KeptIn

LEMMA QuietlySent ==
  ASSUME NEW q \in Seq(SessionMessage), NEW m \in SessionMessage, NEW id, ~IsAbout(m, id)
  PROVE  KeptIn(q, Append(q, m), id)
<1>1. \A from, to, a, b, f :
        FitIn(q, from, to, id, a, b, f) => FitIn(Append(q, m), from, to, id, a, b, f)
  BY SentEnd DEF FitIn, Fits
<1>2. ~(m.op \in {"open", "accept", "close"} /\ m.id = id)
  BY DEF IsAbout
<1> QED BY <1>1, <1>2, Sending DEF KeptIn

LEMMA SameIsKept == \A q, id : KeptIn(q, q, id)
BY DEF KeptIn

LEMMA SameEntries ==
  ASSUME NEW c, NEW id, About(m_sessions'[c], id) = About(m_sessions[c], id)
  PROVE  /\ Holds(c, id)' <=> Holds(c, id)
         /\ IsActive(c, id)' <=> IsActive(c, id)
<1>1. /\ Holds(c, id) <=> \E s \in About(m_sessions[c], id) : TRUE
      /\ IsActive(c, id) <=> \E s \in About(m_sessions[c], id) : s.active
      /\ Holds(c, id)' <=> \E s \in About(m_sessions'[c], id) : TRUE
      /\ IsActive(c, id)' <=> \E s \in About(m_sessions'[c], id) : s.active
  BY DEF Holds, IsActive, About
<1> QED BY <1>1

LEMMA SameRoutes ==
  ASSUME NEW id, About(m_routes', id) = About(m_routes, id)
  PROVE  /\ NoRoute(id)' <=> NoRoute(id)
         /\ HasLease(id)' <=> HasLease(id)
         /\ \A a, b, f : RoutesFit(id, a, b, f) => RoutesFit(id, a, b, f)'
<1>1. \A r : r.id = id => (r \in m_routes' <=> r \in m_routes)
  BY DEF About
<1> QED BY <1>1 DEF NoRoute, HasLease, RoutesFit

LEMMA NotAbout ==
  ASSUME NEW id, NEW a \in Computer, NEW b \in Computer, NEW f, a # b,
         \A c \in Computer : About(m_sessions'[c], id) = About(m_sessions[c], id),
         About(m_routes', id) = About(m_routes, id),
         \A c \in Computer : KeptIn(toHub[c], toHub'[c], id) /\ KeptIn(fromHub[c], fromHub'[c], id),
         b \in m_online' => b \in m_online \/ NoRoute(id),
         b \in known' => b \in known \/ ~IsActive(b, id),
         SessionInv(id, a, b, f)
  PROVE  SessionInv(id, a, b, f)'
<1>1. /\ \A c \in Computer : /\ Holds(c, id)' <=> Holds(c, id)
                             /\ IsActive(c, id)' <=> IsActive(c, id)
      /\ NoRoute(id)' <=> NoRoute(id)
      /\ HasLease(id)' <=> HasLease(id)
      /\ RoutesFit(id, a, b, f)'
  BY SameEntries, SameRoutes DEF SessionInv
<1>2. EntriesFit(id, a, b, f)'
  <2>1. \A c \in Computer : \A s \in m_sessions'[c] : s.id = id => s \in m_sessions[c]
    BY DEF About
  <2> QED BY <2>1 DEF SessionInv, EntriesFit
<1>3. LettersFit(id, a, b, f)'
  BY DEF SessionInv, LettersFit, KeptIn
<1>4. RequestIsFirst(id, a, b)'
  BY <1>1 DEF SessionInv, RequestIsFirst, Unanswered, KeptIn
<1>5. AgreementHolds(id, a, b)'
  BY <1>1 DEF SessionInv, AgreementHolds, Answered, Agreed, KeptIn
<1>6. EndsHold(id, a, b)'
  BY <1>1 DEF SessionInv, EndsHold, KeptIn
<1>7. PauseHolds(id, a, b)'
  BY <1>1 DEF SessionInv, PauseHolds, Paused, KeptIn
<1> QED BY <1>1, <1>2, <1>3, <1>4, <1>5, <1>6, <1>7 DEF SessionInv

LEMMA StaysUnused ==
  ASSUME NEW id,
         \A c \in Computer : About(m_sessions'[c], id) = About(m_sessions[c], id),
         About(m_routes', id) = About(m_routes, id),
         \A c \in Computer : KeptIn(toHub[c], toHub'[c], id) /\ KeptIn(fromHub[c], fromHub'[c], id),
         Unused(id)
  PROVE  Unused(id)'
BY SameEntries, SameRoutes DEF Unused, KeptIn

(***************************************************************************)
(* Every action keeps the invariant.                                       *)
(***************************************************************************)
LEMMA TypesOfStreams ==
  ASSUME SessionTypeOK, NEW c \in Computer
  PROVE  /\ toHub[c] \in Seq(SessionMessage) /\ fromHub[c] \in Seq(SessionMessage)
         /\ m_sessions[c] \subseteq SessionEntry /\ m_peers[c] \subseteq Computer
BY DEF SessionTypeOK

LEMMA KeptElsewhere ==
  ASSUME NEW p, NEW id
  PROVE  /\ m_sessions'[p] = m_sessions[p] =>
              About(m_sessions'[p], id) = About(m_sessions[p], id)
         /\ m_routes' = m_routes => About(m_routes', id) = About(m_routes, id)
         /\ toHub'[p] = toHub[p] => KeptIn(toHub[p], toHub'[p], id)
         /\ fromHub'[p] = fromHub[p] => KeptIn(fromHub[p], fromHub'[p], id)
BY SameIsKept

\* A session that a computer is the target of.
Hosts(c, id) == \E s \in m_sessions[c] : s.id = id /\ ~s.outgoing

\* Lists that are not read: what they will end has no new route.
LEMMA ListsStay ==
  ASSUME NEW p, ListsAreRight(p), fromHub'[p] = fromHub[p],
         \A id : NoRoute(id) /\ (Hosts(p, id) \/ Speaks(fromHub[p], "open", id)) => NoRoute(id)',
         \A t \in m_sessions'[p] : ~t.outgoing =>
           \E u \in m_sessions[p] : u.id = t.id /\ u.peer = t.peer /\ ~u.outgoing,
         Len(fromHub[p]) \in Nat
  PROVE  ListsAreRight(p)'
<1> SUFFICES ASSUME NEW i \in 1 .. Len(fromHub[p]), fromHub[p][i].op = "peers",
                    NEW q \in Computer \ (fromHub[p][i].peers \union {p})
             PROVE  /\ \A t \in m_sessions'[p] : t.peer = q /\ ~t.outgoing => NoRoute(t.id)'
                    /\ \A j \in 1 .. i - 1 :
                         fromHub[p][j].op = "open" /\ fromHub[p][j].source = q =>
                           NoRoute(fromHub[p][j].id)'
  BY DEF ListsAreRight, NoRoute
<1>1. \A t \in m_sessions[p] : t.peer = q /\ ~t.outgoing => NoRoute(t.id) /\ Hosts(p, t.id)
  BY DEF ListsAreRight, Hosts
<1>2. \A t \in m_sessions'[p] : t.peer = q /\ ~t.outgoing => NoRoute(t.id)'
  BY <1>1
<1>3. ASSUME NEW j \in 1 .. i - 1, fromHub[p][j].op = "open", fromHub[p][j].source = q
      PROVE  NoRoute(fromHub[p][j].id)'
  <2>1. NoRoute(fromHub[p][j].id)
    BY <1>3 DEF ListsAreRight
  <2>2. j \in 1 .. Len(fromHub[p])
    OBVIOUS
  <2>3. Speaks(fromHub[p], "open", fromHub[p][j].id)
    BY <1>3, <2>2 DEF Speaks
  <2> QED BY <2>1, <2>3
<1> QED BY <1>2, <1>3

LEMMA RequestKeeps ==
  ASSUME SessionsInv, NEW c \in Computer, NEW peer \in Computer, NEW new \in Session,
         NEW feature \in Feature, request(c, peer, new, feature)
  PROVE  SessionsInv'
<1> DEFINE s == [id |-> new, peer |-> peer, feature |-> feature,
                 outgoing |-> TRUE, active |-> FALSE]
           m == LetterOf(c, s, "open")
<1>1. /\ s \in SessionEntry /\ s.id = new /\ s.peer = peer /\ s.feature = feature
      /\ s.outgoing = TRUE /\ s.active = FALSE
      /\ m \in SessionMessage /\ m.op = "open" /\ m.id = new /\ m.source = c
      /\ m.target = peer /\ m.feature = feature
  BY DEF SessionEntry, SessionMessage, LetterOf
<1>2. /\ c \in m_online /\ peer \in m_peers[c] /\ new \notin requested
      /\ m_sessions' = [m_sessions EXCEPT ![c] = @ \cup {s}]
      /\ toHub' = [toHub EXCEPT ![c] = Append(@, m)]
      /\ requested' = requested \cup {new}
      /\ m_peers' = m_peers /\ m_online' = m_online /\ known' = known
      /\ m_routes' = m_routes /\ fromHub' = fromHub
  BY DEF request, Sends
<1>3. SessionTypeOK /\ PeersFit
  BY DEF SessionsInv
<1>4. /\ m_sessions'[c] = m_sessions[c] \cup {s}
      /\ toHub'[c] = Append(toHub[c], m)
      /\ \A p \in Computer \ {c} : m_sessions'[p] = m_sessions[p] /\ toHub'[p] = toHub[p]
      /\ \A p \in Computer : fromHub'[p] = fromHub[p]
  BY <1>2, <1>3 DEF SessionTypeOK
<1> HIDE DEF s, m
<1>5. Unused(new)
  BY <1>2 DEF SessionsInv
<1>6. peer # c
  BY <1>2, <1>3 DEF PeersFit
<1>7. SessionTypeOK'
  <2>1. m_sessions' \in [Computer -> SUBSET SessionEntry]
    BY <1>1, <1>2, <1>3 DEF SessionTypeOK
  <2>2. \A p \in Computer : \A t, u \in m_sessions'[p] : t.peer # p /\ (t.id = u.id => t = u)
    <3>1. \A t, u \in m_sessions[c] : t.id # new /\ t.peer # c /\ (t.id = u.id => t = u)
      BY <1>3, <1>5 DEF SessionTypeOK, Unused, Holds
    <3>2. \A t, u \in m_sessions'[c] : t.peer # c /\ (t.id = u.id => t = u)
      BY <3>1, <1>1, <1>4, <1>6
    <3>3. \A p \in Computer \ {c} : \A t, u \in m_sessions'[p] :
            t.peer # p /\ (t.id = u.id => t = u)
      BY <1>3, <1>4 DEF SessionTypeOK
    <3> QED BY <3>2, <3>3
  <2>3. toHub' \in [Computer -> Seq(SessionMessage)]
    BY <1>1, <1>2, <1>3, SentEnd DEF SessionTypeOK
  <2> QED BY <2>1, <2>2, <2>3, <1>2, <1>3 DEF SessionTypeOK
<1>8. PeersFit'
  BY <1>1, <1>2, <1>3, <1>4 DEF PeersFit
<1>9. ASSUME NEW id, id # new
      PROVE  /\ \A p \in Computer : About(m_sessions'[p], id) = About(m_sessions[p], id)
             /\ About(m_routes', id) = About(m_routes, id)
             /\ \A p \in Computer :
                  KeptIn(toHub[p], toHub'[p], id) /\ KeptIn(fromHub[p], fromHub'[p], id)
  <2>1. About(m_sessions'[c], id) = About(m_sessions[c], id)
    BY <1>1, <1>4, <1>9 DEF About
  <2>2. KeptIn(toHub[c], toHub'[c], id)
    BY <1>1, <1>3, <1>4, <1>9, QuietlySent, TypesOfStreams DEF IsAbout
  <2> QED BY <2>1, <2>2, <1>2, <1>4, KeptElsewhere
<1>10. \A id \in Session \ requested' : Unused(id)'
  BY <1>2, <1>9, StaysUnused DEF SessionsInv
<1>11. ASSUME NEW id \in requested
       PROVE  \E a, b \in Computer, f \in Feature : a # b /\ SessionInv(id, a, b, f)'
  <2>1. PICK a \in Computer, b \in Computer, f \in Feature : a # b /\ SessionInv(id, a, b, f)
    BY DEF SessionsInv
  <2>2. SessionInv(id, a, b, f)'
    BY <2>1, <1>2, <1>9, NotAbout
  <2> QED BY <2>1, <2>2
<1>12. SessionInv(new, c, peer, feature)'
  <2>1. /\ \A p \in Computer : ~IsActive(p, new)'
        /\ ~Holds(peer, new)' /\ NoRoute(new)' /\ ~HasLease(new)'
        /\ \A p \in Computer : ~Mentions(fromHub'[p], new)
        /\ \A p \in Computer \ {c} : ~Mentions(toHub'[p], new)
    BY <1>1, <1>2, <1>4, <1>5, <1>6 DEF Unused, Holds, IsActive, NoRoute, HasLease
  <2>2. /\ ~Speaks(toHub'[c], "accept", new) /\ ~Speaks(toHub'[c], "close", new)
        /\ OpensFirst(toHub'[c], new)
    <3>1. ~Mentions(toHub[c], new) /\ toHub[c] \in Seq(SessionMessage)
      BY <1>3, <1>5, TypesOfStreams DEF Unused
    <3>2. /\ OpensFirst(toHub[c], new)
          /\ ~Speaks(toHub[c], "accept", new) /\ ~Speaks(toHub[c], "close", new)
      BY <3>1, SpokenIsMentioned DEF OpensFirst, Mentions, IsAbout
    <3> QED BY <3>1, <3>2, <1>1, <1>4, Sending
  <2>3. /\ \A p \in Computer : \A op \in {"open", "accept", "close"} : ~Speaks(fromHub'[p], op, new)
        /\ \A op \in {"open", "accept", "close"} : ~Speaks(toHub'[peer], op, new)
        /\ ~Mentions(toHub'[peer], new)
        /\ OpensOnce(fromHub'[peer], new)
    BY <2>1, <1>6, SpokenIsMentioned DEF OpensOnce, Mentions, IsAbout
  <2>4. EntriesFit(new, c, peer, feature)'
    BY <1>1, <1>4, <1>5 DEF EntriesFit, Unused, Holds
  <2>5. RoutesFit(new, c, peer, feature)'
    BY <2>1 DEF RoutesFit, NoRoute
  <2>6. LettersFit(new, c, peer, feature)'
    <3>1. FitIn(toHub'[c], c, peer, new, c, peer, feature)
      <4>1. \A i \in 1 .. Len(toHub[c]) : ~IsAbout(toHub[c][i], new)
        BY <1>5 DEF Unused, Mentions
      <4> QED BY <4>1, <1>1, <1>3, <1>4, SentEnd, TypesOfStreams DEF FitIn, Fits
    <3>2. \A p \in Computer \ {c} : \A i \in 1 .. Len(toHub'[p]) : ~IsAbout(toHub'[p][i], new)
      BY <2>1 DEF Mentions
    <3>3. \A p \in Computer : \A i \in 1 .. Len(fromHub'[p]) : ~IsAbout(fromHub'[p][i], new)
      BY <2>1 DEF Mentions
    <3> QED BY <3>1, <3>2, <3>3 DEF LettersFit, FitIn, Fits, Other
  <2>7. RequestIsFirst(new, c, peer)'
    BY <2>1, <2>2, <2>3 DEF RequestIsFirst, Unanswered
  <2>8. AgreementHolds(new, c, peer)'
    BY <2>1, <2>3 DEF AgreementHolds, Answered
  <2>9. EndsHold(new, c, peer)'
    BY <2>2, <2>3 DEF EndsHold
  <2>10. PauseHolds(new, c, peer)'
    BY <2>1, <2>3 DEF PauseHolds
  <2> QED BY <2>4, <2>5, <2>6, <2>7, <2>8, <2>9, <2>10 DEF SessionInv
<1>13. \A id \in requested' : \E a, b \in Computer, f \in Feature :
         a # b /\ SessionInv(id, a, b, f)'
  BY <1>2, <1>6, <1>11, <1>12
<1>14. ASSUME NEW p \in Computer
       PROVE  ListsAreRight(p)'
  <2>1. \A t \in m_sessions'[p] : ~t.outgoing => t \in m_sessions[p]
    BY <1>1, <1>4
  <2>2. \A id : NoRoute(id) => NoRoute(id)'
    BY <1>2 DEF NoRoute
  <2>3. ListsAreRight(p) /\ Len(fromHub[p]) \in Nat /\ fromHub'[p] = fromHub[p]
    BY <1>2, <1>3, TypesOfStreams DEF SessionsInv
  <2> QED BY <2>1, <2>2, <2>3, ListsStay
<1> QED BY <1>7, <1>8, <1>10, <1>13, <1>14 DEF SessionsInv

\* A computer says that it agrees to a session, or ends it.
Says(c, s, T, op) ==
  /\ c \in m_online /\ s \in m_sessions[c]
  /\ T \subseteq SessionEntry
  /\ \A t \in T : t.id = s.id /\ t.peer = s.peer /\ t.feature = s.feature /\ t.outgoing = s.outgoing
  /\ \A t, u \in T : t = u
  /\ m_sessions' = [m_sessions EXCEPT ![c] = (@ \ {s}) \cup T]
  /\ toHub' = [toHub EXCEPT ![c] = Append(@, LetterOf(c, s, op))]
  /\ m_peers' = m_peers /\ m_online' = m_online /\ known' = known
  /\ m_routes' = m_routes /\ fromHub' = fromHub /\ requested' = requested

LEMMA SayingChanges ==
  ASSUME SessionTypeOK, NEW c \in Computer, NEW s, NEW T, NEW op \in {"accept", "close"},
         Says(c, s, T, op)
  PROVE  /\ s \in SessionEntry /\ LetterOf(c, s, op) \in SessionMessage
         /\ m_sessions'[c] = (m_sessions[c] \ {s}) \cup T
         /\ toHub'[c] = Append(toHub[c], LetterOf(c, s, op))
         /\ \A p \in Computer \ {c} : m_sessions'[p] = m_sessions[p] /\ toHub'[p] = toHub[p]
         /\ \A p \in Computer : fromHub'[p] = fromHub[p]
         /\ \A t \in m_sessions'[c] : t.id = s.id => t \in T
         /\ LetterOf(c, s, op).op = op /\ LetterOf(c, s, op).id = s.id
         /\ LetterOf(c, s, op).source = c /\ LetterOf(c, s, op).target = s.peer
         /\ LetterOf(c, s, op).feature = s.feature
<1>1. s \in SessionEntry
  BY DEF Says, SessionTypeOK
<1>2. m_sessions'[c] = (m_sessions[c] \ {s}) \cup T
  BY DEF Says, SessionTypeOK
<1>3. toHub'[c] = Append(toHub[c], LetterOf(c, s, op))
  BY DEF Says, SessionTypeOK
<1>4. \A p \in Computer \ {c} : m_sessions'[p] = m_sessions[p] /\ toHub'[p] = toHub[p]
  BY DEF Says, SessionTypeOK
<1>5. \A t \in m_sessions'[c] : t.id = s.id => t \in T
  BY <1>2 DEF Says, SessionTypeOK
<1>6. LetterOf(c, s, op) \in SessionMessage
  BY <1>1 DEF LetterOf, SessionMessage, SessionEntry
<1> QED BY <1>1, <1>2, <1>3, <1>4, <1>5, <1>6 DEF LetterOf, Says

LEMMA SayingKeeps ==
  ASSUME SessionsInv, NEW c \in Computer, NEW s, NEW T, NEW op \in {"accept", "close"},
         Says(c, s, T, op),
         \A a, b \in Computer, f \in Feature :
           a # b /\ SessionInv(s.id, a, b, f) => SessionInv(s.id, a, b, f)'
  PROVE  SessionsInv'
<1> DEFINE m == LetterOf(c, s, op)
<1>1. SessionTypeOK /\ PeersFit
  BY DEF SessionsInv
<1>2. /\ s \in SessionEntry /\ m \in SessionMessage
      /\ m_sessions'[c] = (m_sessions[c] \ {s}) \cup T
      /\ toHub'[c] = Append(toHub[c], m)
      /\ \A p \in Computer \ {c} : m_sessions'[p] = m_sessions[p] /\ toHub'[p] = toHub[p]
      /\ \A p \in Computer : fromHub'[p] = fromHub[p]
      /\ m.op = op /\ m.id = s.id
  BY <1>1, SayingChanges
<1>3. /\ s \in m_sessions[c] /\ c \in m_online
      /\ T \subseteq SessionEntry
      /\ \A t \in T : t.id = s.id /\ t.peer = s.peer /\ t.outgoing = s.outgoing
      /\ \A t, u \in T : t = u
      /\ m_sessions' = [m_sessions EXCEPT ![c] = (@ \ {s}) \cup T]
      /\ toHub' = [toHub EXCEPT ![c] = Append(@, m)]
      /\ m_peers' = m_peers /\ m_online' = m_online /\ known' = known
      /\ m_routes' = m_routes /\ fromHub' = fromHub /\ requested' = requested
  BY DEF Says
<1> HIDE DEF m
<1>4. SessionTypeOK'
  <2>1. m_sessions' \in [Computer -> SUBSET SessionEntry]
    BY <1>1, <1>3 DEF SessionTypeOK
  <2>2. \A p \in Computer : \A t, u \in m_sessions'[p] : t.peer # p /\ (t.id = u.id => t = u)
    <3>1. \A t, u \in m_sessions[c] : t.peer # c /\ (t.id = u.id => t = u)
      BY <1>1 DEF SessionTypeOK
    <3>2. \A t, u \in m_sessions'[c] : t.peer # c /\ (t.id = u.id => t = u)
      BY <3>1, <1>2, <1>3
    <3>3. \A p \in Computer \ {c} : \A t, u \in m_sessions'[p] :
            t.peer # p /\ (t.id = u.id => t = u)
      BY <1>1, <1>2 DEF SessionTypeOK
    <3> QED BY <3>2, <3>3
  <2>3. toHub' \in [Computer -> Seq(SessionMessage)]
    BY <1>1, <1>2, <1>3, SentEnd DEF SessionTypeOK
  <2> QED BY <2>1, <2>2, <2>3, <1>1, <1>3 DEF SessionTypeOK
<1>5. PeersFit'
  BY <1>1, <1>2, <1>3 DEF PeersFit
<1>6. ASSUME NEW id, id # s.id
      PROVE  /\ \A p \in Computer : About(m_sessions'[p], id) = About(m_sessions[p], id)
             /\ About(m_routes', id) = About(m_routes, id)
             /\ \A p \in Computer :
                  KeptIn(toHub[p], toHub'[p], id) /\ KeptIn(fromHub[p], fromHub'[p], id)
  <2>1. About(m_sessions'[c], id) = About(m_sessions[c], id)
    BY <1>2, <1>3, <1>6 DEF About
  <2>2. KeptIn(toHub[c], toHub'[c], id)
    BY <1>1, <1>2, <1>6, QuietlySent, TypesOfStreams DEF IsAbout
  <2> QED BY <2>1, <2>2, <1>2, <1>3, KeptElsewhere
<1>7. \A id \in Session \ requested' : Unused(id)'
  <2>1. ~Unused(s.id)
    BY <1>3 DEF Unused, Holds
  <2> QED BY <2>1, <1>3, <1>6, StaysUnused DEF SessionsInv
<1>8. ASSUME NEW id \in requested
      PROVE  \E a, b \in Computer, f \in Feature : a # b /\ SessionInv(id, a, b, f)'
  <2>1. PICK a \in Computer, b \in Computer, f \in Feature : a # b /\ SessionInv(id, a, b, f)
    BY DEF SessionsInv
  <2>2. SessionInv(id, a, b, f)'
    BY <2>1, <1>3, <1>6, NotAbout
  <2> QED BY <2>1, <2>2
<1>9. ASSUME NEW p \in Computer
      PROVE  ListsAreRight(p)'
  <2>1. \A t \in m_sessions'[p] : ~t.outgoing =>
          \E u \in m_sessions[p] : u.id = t.id /\ u.peer = t.peer /\ ~u.outgoing
    BY <1>2, <1>3
  <2>2. \A id : NoRoute(id) => NoRoute(id)'
    BY <1>3 DEF NoRoute
  <2>3. ListsAreRight(p) /\ Len(fromHub[p]) \in Nat /\ fromHub'[p] = fromHub[p]
    BY <1>1, <1>2, TypesOfStreams DEF SessionsInv
  <2> QED BY <2>1, <2>2, <2>3, ListsStay
<1>10. requested' = requested
  BY <1>3
<1> QED BY <1>4, <1>5, <1>7, <1>8, <1>9, <1>10 DEF SessionsInv

LEMMA SayingFits ==
  ASSUME SessionTypeOK, NEW c \in Computer, NEW s, NEW T, NEW op \in {"accept", "close"},
         Says(c, s, T, op), op = "accept" => ~s.outgoing,
         NEW a \in Computer, NEW b \in Computer, NEW f \in Feature, a # b, SessionInv(s.id, a, b, f)
  PROVE  /\ EntriesFit(s.id, a, b, f)' /\ RoutesFit(s.id, a, b, f)' /\ LettersFit(s.id, a, b, f)'
         /\ c = a \/ c = b
         /\ s.outgoing => c = a
         /\ ~s.outgoing => c = b
         /\ \A p \in Computer \ {c} : /\ Holds(p, s.id)' <=> Holds(p, s.id)
                                      /\ IsActive(p, s.id)' <=> IsActive(p, s.id)
                                      /\ toHub'[p] = toHub[p]
         /\ \A p \in Computer : fromHub'[p] = fromHub[p]
         /\ NoRoute(s.id)' <=> NoRoute(s.id)
         /\ HasLease(s.id)' <=> HasLease(s.id)
         /\ Speaks(toHub'[c], op, s.id)
         /\ \A o \in {"open", "accept", "close"} :
              o # op => (Speaks(toHub'[c], o, s.id) <=> Speaks(toHub[c], o, s.id))
         /\ OpensFirst(toHub[c], s.id) => OpensFirst(toHub'[c], s.id)
         /\ Holds(c, s.id) /\ (IsActive(c, s.id) <=> s.active)
         /\ Holds(c, s.id)' <=> T # {}
         /\ IsActive(c, s.id)' <=> \E t \in T : t.active
<1> DEFINE m == LetterOf(c, s, op)
<1>1. /\ s \in SessionEntry /\ m \in SessionMessage
      /\ m_sessions'[c] = (m_sessions[c] \ {s}) \cup T
      /\ toHub'[c] = Append(toHub[c], m)
      /\ \A p \in Computer \ {c} : m_sessions'[p] = m_sessions[p] /\ toHub'[p] = toHub[p]
      /\ \A p \in Computer : fromHub'[p] = fromHub[p]
      /\ \A t \in m_sessions'[c] : t.id = s.id => t \in T
      /\ m.op = op /\ m.id = s.id /\ m.source = c /\ m.target = s.peer /\ m.feature = s.feature
  BY SayingChanges
<1>2. /\ s \in m_sessions[c]
      /\ \A t \in T : t.id = s.id /\ t.peer = s.peer
                      /\ t.feature = s.feature /\ t.outgoing = s.outgoing
      /\ m_routes' = m_routes
  BY DEF Says
<1> HIDE DEF m
<1>3. /\ s.feature = f
      /\ \/ c = a /\ s.peer = b /\ s.outgoing
         \/ c = b /\ s.peer = a /\ ~s.outgoing
  BY <1>2 DEF SessionInv, EntriesFit
<1>4. EntriesFit(s.id, a, b, f)'
  <2>1. \A p \in Computer : \A t \in m_sessions'[p] : t.id = s.id =>
            t \in m_sessions[p] \/ (p = c /\ t \in T)
    BY <1>1
  <2>2. \A t \in T : /\ t.feature = f
                     /\ \/ c = a /\ t.peer = b /\ t.outgoing
                        \/ c = b /\ t.peer = a /\ ~t.outgoing
    BY <1>2, <1>3
  <2> QED BY <2>1, <2>2 DEF SessionInv, EntriesFit
<1>5. RoutesFit(s.id, a, b, f)'
  BY <1>2 DEF SessionInv, RoutesFit
<1>6. LettersFit(s.id, a, b, f)'
  <2>1. FitIn(toHub[c], c, Other(c, a, b), s.id, a, b, f)
    BY DEF SessionInv, LettersFit
  <2>2. Fits(m, c, Other(c, a, b), s.id, a, b, f)
    BY <1>1, <1>3 DEF Fits, Other
  <2>3. FitIn(toHub'[c], c, Other(c, a, b), s.id, a, b, f)
    <3>1. PICK q \in Seq(SessionMessage) : q = toHub[c]
      BY <1>1, TypesOfStreams DEF SessionInv
    <3>2. PICK r : r = Append(q, m)
      OBVIOUS
    <3>3. /\ Len(q) \in Nat /\ Len(r) = Len(q) + 1 /\ r[Len(q) + 1] = m
          /\ \A i \in 1 .. Len(q) : r[i] = q[i]
      BY <3>2, <1>1, SentEnd
    <3>4. \A i \in 1 .. Len(r) : i \in 1 .. Len(q) \/ i = Len(q) + 1
      BY ONLY <3>3
    <3>5. FitIn(q, c, Other(c, a, b), s.id, a, b, f)
      BY <2>1, <3>1
    <3>6. FitIn(r, c, Other(c, a, b), s.id, a, b, f)
      BY ONLY <2>2, <3>3, <3>4, <3>5 DEF FitIn
    <3> QED BY <3>1, <3>2, <3>6, <1>1
  <2> QED BY <2>3, <1>1 DEF SessionInv, LettersFit
<1>7. \A p \in Computer \ {c} : /\ Holds(p, s.id)' <=> Holds(p, s.id)
                                /\ IsActive(p, s.id)' <=> IsActive(p, s.id)
                                /\ toHub'[p] = toHub[p]
  BY <1>1 DEF Holds, IsActive
<1>8. /\ NoRoute(s.id)' <=> NoRoute(s.id)
      /\ HasLease(s.id)' <=> HasLease(s.id)
  BY <1>2 DEF NoRoute, HasLease
<1>9. /\ Speaks(toHub'[c], op, s.id)
      /\ \A o \in {"open", "accept", "close"} :
           o # op => (Speaks(toHub'[c], o, s.id) <=> Speaks(toHub[c], o, s.id))
      /\ OpensFirst(toHub[c], s.id) => OpensFirst(toHub'[c], s.id)
  <2>1. toHub[c] \in Seq(SessionMessage)
    BY TypesOfStreams
  <2>2. \A o : Speaks(toHub'[c], o, s.id) <=> Speaks(toHub[c], o, s.id) \/ o = op
    <3>1. m \in SessionMessage /\ toHub'[c] = Append(toHub[c], m)
      BY <1>1
    <3>2. \A o : Speaks(Append(toHub[c], m), o, s.id) <=>
                   Speaks(toHub[c], o, s.id) \/ (m.op = o /\ m.id = s.id)
      BY <2>1, <3>1, Sending
    <3> QED BY <3>1, <3>2, <1>1
  <2>3. OpensFirst(toHub[c], s.id) => OpensFirst(toHub'[c], s.id)
    BY <2>1, <1>1, Sending
  <2> QED BY <2>2, <2>3
<1>10. Holds(c, s.id) /\ (IsActive(c, s.id) <=> s.active)
  <2>1. \A t \in m_sessions[c] : t.id = s.id => t = s
    BY <1>2 DEF SessionTypeOK
  <2> QED BY <2>1, <1>2 DEF Holds, IsActive
<1>11. /\ Holds(c, s.id)' <=> T # {}
       /\ IsActive(c, s.id)' <=> \E t \in T : t.active
  BY <1>1, <1>2 DEF Holds, IsActive
<1>12. /\ c = a \/ c = b
       /\ s.outgoing => c = a
       /\ ~s.outgoing => c = b
  BY <1>3
<1>13. \A p \in Computer : fromHub'[p] = fromHub[p]
  BY <1>1
<1> QED BY <1>4, <1>5, <1>6, <1>7, <1>8, <1>9, <1>10, <1>11, <1>12, <1>13

LEMMA EndingKeeps ==
  ASSUME SessionsInv, NEW c \in Computer, NEW s, Says(c, s, {}, "close")
  PROVE  SessionsInv'
<1>1. SUFFICES ASSUME NEW a \in Computer, NEW b \in Computer, NEW f \in Feature,
                      a # b, SessionInv(s.id, a, b, f)
               PROVE  SessionInv(s.id, a, b, f)'
  BY SayingKeeps
<1>2. SessionTypeOK
  BY DEF SessionsInv
<1> DEFINE id == s.id
<1>3. /\ EntriesFit(id, a, b, f)' /\ RoutesFit(id, a, b, f)' /\ LettersFit(id, a, b, f)'
      /\ c = a \/ c = b
      /\ \A p \in Computer \ {c} : /\ Holds(p, id)' <=> Holds(p, id)
                                   /\ IsActive(p, id)' <=> IsActive(p, id)
                                   /\ toHub'[p] = toHub[p]
      /\ \A p \in Computer : fromHub'[p] = fromHub[p]
      /\ NoRoute(id)' <=> NoRoute(id)
      /\ HasLease(id)' <=> HasLease(id)
      /\ Speaks(toHub'[c], "close", id)
      /\ Speaks(toHub'[c], "open", id) <=> Speaks(toHub[c], "open", id)
      /\ Speaks(toHub'[c], "accept", id) <=> Speaks(toHub[c], "accept", id)
      /\ OpensFirst(toHub[c], id) => OpensFirst(toHub'[c], id)
      /\ Holds(c, id) /\ ~Holds(c, id)' /\ ~IsActive(c, id)'
  BY <1>1, <1>2, SayingFits
<1>4. m_online' = m_online /\ known' = known
  BY DEF Says
<1>5. RequestIsFirst(id, a, b) /\ AgreementHolds(id, a, b)
        /\ EndsHold(id, a, b) /\ PauseHolds(id, a, b)
  BY <1>1 DEF SessionInv
<1> HIDE DEF id
<1>6. RequestIsFirst(id, a, b)'
  BY <1>1, <1>3, <1>5 DEF RequestIsFirst, Unanswered
<1>7. AgreementHolds(id, a, b)'
  BY <1>1, <1>3, <1>4, <1>5 DEF AgreementHolds, Answered, Agreed
<1>8. EndsHold(id, a, b)'
  BY <1>1, <1>3, <1>5 DEF EndsHold
<1>9. PauseHolds(id, a, b)'
  BY <1>1, <1>3, <1>4, <1>5 DEF PauseHolds, Paused
<1> QED BY <1>3, <1>6, <1>7, <1>8, <1>9 DEF SessionInv, id

LEMMA CloseKeeps ==
  ASSUME SessionsInv, NEW c \in Computer, NEW s, closeSession(c, s)
  PROVE  SessionsInv'
<1>1. Says(c, s, {}, "close")
  <2>1. (m_sessions[c] \ {s}) \cup {} = m_sessions[c] \ {s}
    OBVIOUS
  <2> QED BY <2>1 DEF closeSession, Sends, Says
<1> QED BY <1>1, EndingKeeps

LEMMA ConsentKeeps ==
  ASSUME SessionsInv, NEW c \in Computer, NEW s, consent(c, s)
  PROVE  SessionsInv'
<1>1. SessionTypeOK
  BY DEF SessionsInv
<1>2. /\ s \in m_sessions[c] /\ s \in SessionEntry
      /\ s.outgoing = FALSE /\ s.active = FALSE
  BY <1>1 DEF consent, SessionTypeOK, SessionEntry
<1>3. CASE HasInputOwner(c, s)
  <2>1. Says(c, s, {}, "close")
    <3>1. (m_sessions[c] \ {s}) \cup {} = m_sessions[c] \ {s}
      OBVIOUS
    <3> QED BY <3>1, <1>3 DEF consent, Sends, Says
  <2> QED BY <2>1, EndingKeeps
<1>4. CASE ~HasInputOwner(c, s)
  <2> DEFINE T == {Activated(s)}
             id == s.id
  <2>1. /\ Activated(s) \in SessionEntry /\ Activated(s).active = TRUE
        /\ Activated(s).id = id /\ Activated(s).peer = s.peer
        /\ Activated(s).feature = s.feature /\ Activated(s).outgoing = s.outgoing
    BY <1>2 DEF Activated, SessionEntry
  <2>2. Says(c, s, T, "accept")
    <3>1. /\ c \in m_online
          /\ m_sessions' = [m_sessions EXCEPT ![c] = (@ \ {s}) \cup T]
          /\ toHub' = [toHub EXCEPT ![c] = Append(@, LetterOf(c, s, "accept"))]
          /\ m_peers' = m_peers /\ m_online' = m_online /\ known' = known
          /\ m_routes' = m_routes /\ fromHub' = fromHub /\ requested' = requested
      BY <1>4 DEF consent, Sends
    <3> QED BY <3>1, <2>1, <1>2 DEF Says
  <2>3. SUFFICES ASSUME NEW a \in Computer, NEW b \in Computer, NEW f \in Feature,
                        a # b, SessionInv(id, a, b, f)
                 PROVE  SessionInv(id, a, b, f)'
    BY <2>2, SayingKeeps
  <2>4. /\ EntriesFit(id, a, b, f)' /\ RoutesFit(id, a, b, f)' /\ LettersFit(id, a, b, f)'
        /\ c = b
        /\ \A p \in Computer \ {c} : /\ Holds(p, id)' <=> Holds(p, id)
                                     /\ IsActive(p, id)' <=> IsActive(p, id)
                                     /\ toHub'[p] = toHub[p]
        /\ \A p \in Computer : fromHub'[p] = fromHub[p]
        /\ NoRoute(id)' <=> NoRoute(id)
        /\ HasLease(id)' <=> HasLease(id)
        /\ Speaks(toHub'[c], "accept", id)
        /\ Speaks(toHub'[c], "close", id) <=> Speaks(toHub[c], "close", id)
        /\ Holds(c, id) /\ ~IsActive(c, id)
        /\ IsActive(c, id)'
    <3>1. \E t \in T : t.active
      BY <2>1
    <3> QED BY <1>1, <1>2, <2>2, <2>3, <3>1, SayingFits
  <2>5. RequestIsFirst(id, a, b) /\ AgreementHolds(id, a, b)
          /\ EndsHold(id, a, b) /\ PauseHolds(id, a, b)
    BY <2>3 DEF SessionInv
  <2> HIDE DEF id
  <2>6. /\ ~Speaks(toHub[a], "open", id) /\ ~Speaks(fromHub[b], "open", id)
        /\ ~Answered(id, a, b) /\ ~Speaks(toHub[b], "close", id)
    BY <2>3, <2>4, <2>5 DEF RequestIsFirst, Unanswered, AgreementHolds, EndsHold
  <2>7. RequestIsFirst(id, a, b)'
    BY <2>3, <2>4, <2>5, <2>6 DEF RequestIsFirst
  <2>8. AgreementHolds(id, a, b)'
    BY <2>3, <2>4 DEF AgreementHolds, Agreed
  <2>9. EndsHold(id, a, b)'
    BY <2>3, <2>4, <2>5, <2>6 DEF EndsHold
  <2>10. PauseHolds(id, a, b)'
    BY <2>3, <2>4, <2>5, <2>6 DEF PauseHolds, Answered
  <2> QED BY <2>4, <2>7, <2>8, <2>9, <2>10 DEF SessionInv, id
<1> QED BY <1>3, <1>4

LEMMA WhatIsReceived ==
  ASSUME NEW c, NEW m
  PROVE  /\ m.op = "open" => Received(c, m) =
                IF IsNew(c, m) THEN m_sessions[c] \cup {Incoming(m)} ELSE m_sessions[c]
         /\ m.op = "close" => Received(c, m) = m_sessions[c] \ Matching(c, m)
         /\ m.op = "accept" => Received(c, m) = (m_sessions[c] \ Accepted(c, m))
                                 \cup {Activated(s) : s \in Accepted(c, m)}
<1>1. m.op = "open" => Received(c, m) =
          IF IsNew(c, m) THEN m_sessions[c] \cup {Incoming(m)} ELSE m_sessions[c]
  BY DEF Received
<1>2. m.op = "close" => Received(c, m) = m_sessions[c] \ Matching(c, m)
  BY DEF Received
<1>3. m.op = "accept" => Received(c, m) = (m_sessions[c] \ Accepted(c, m))
                                 \cup {Activated(s) : s \in Accepted(c, m)}
  BY DEF Received
<1> QED BY <1>1, <1>2, <1>3

LEMMA WhatIsRouted ==
  ASSUME NEW m
  PROVE  /\ m.op = "open" => Routes(m) = m_routes \cup {NewRoute(m)}
         /\ m.op = "close" => Routes(m) = m_routes \ RouteOf(m)
         /\ m.op = "accept" => Routes(m) = (m_routes \ RouteOf(m)) \cup
                                 {[r EXCEPT !.accepted = TRUE] : r \in RouteOf(m)}
<1>1. m.op = "open" => Routes(m) = m_routes \cup {NewRoute(m)}
  BY DEF Routes
<1>2. m.op = "close" => Routes(m) = m_routes \ RouteOf(m)
  BY DEF Routes
<1>3. m.op = "accept" => Routes(m) = (m_routes \ RouteOf(m)) \cup
                                 {[r EXCEPT !.accepted = TRUE] : r \in RouteOf(m)}
  BY DEF Routes
<1> QED BY <1>1, <1>2, <1>3

\* A computer reads its next letter, and then has the sessions S.
Reads(c, S) ==
  /\ c \in m_online /\ fromHub[c] # << >>
  /\ fromHub' = [fromHub EXCEPT ![c] = Tail(@)]
  /\ m_sessions' = [m_sessions EXCEPT ![c] = S]
  /\ m_online' = m_online /\ known' = known /\ m_routes' = m_routes
  /\ toHub' = toHub /\ requested' = requested

LEMMA ReadingChanges ==
  ASSUME SessionTypeOK, NEW c \in Computer, NEW S, Reads(c, S)
  PROVE  /\ fromHub[c] \in Seq(SessionMessage) /\ fromHub[c] # << >>
         /\ Head(fromHub[c]) \in SessionMessage
         /\ fromHub'[c] = Tail(fromHub[c]) /\ m_sessions'[c] = S
         /\ \A p \in Computer \ {c} : fromHub'[p] = fromHub[p] /\ m_sessions'[p] = m_sessions[p]
         /\ m_online' = m_online /\ known' = known /\ m_routes' = m_routes
         /\ toHub' = toHub /\ requested' = requested
<1>1. fromHub[c] \in Seq(SessionMessage) /\ fromHub[c] # << >>
  BY TypesOfStreams DEF Reads
<1>2. Head(fromHub[c]) \in SessionMessage
  BY <1>1, ReadTail
<1> QED BY <1>1, <1>2 DEF Reads, SessionTypeOK

LEMMA ListsRead ==
  ASSUME NEW c, fromHub[c] \in Seq(SessionMessage), fromHub[c] # << >>, ListsAreRight(c),
         fromHub'[c] = Tail(fromHub[c]), m_routes' = m_routes,
         \A t \in m_sessions'[c] : ~t.outgoing =>
           \/ \E u \in m_sessions[c] : u.id = t.id /\ u.peer = t.peer /\ ~u.outgoing
           \/ /\ Head(fromHub[c]).op = "open" /\ Head(fromHub[c]).id = t.id
              /\ Head(fromHub[c]).source = t.peer
  PROVE  ListsAreRight(c)'
<1> DEFINE q == fromHub[c]
           r == Tail(fromHub[c])
<1>1. /\ Len(q) \in Nat \ {0} /\ Len(r) = Len(q) - 1 /\ q[1] = Head(fromHub[c])
      /\ \A i \in 1 .. Len(r) : i + 1 \in 1 .. Len(q) /\ r[i] = q[i + 1]
  BY ReadTail
<1>2. \A i \in 1 .. Len(q) : q[i].op = "peers" =>
        \A p \in Computer \ (q[i].peers \union {c}) :
          /\ \A s \in m_sessions[c] : s.peer = p /\ ~s.outgoing => NoRoute(s.id)
          /\ \A j \in 1 .. i - 1 : q[j].op = "open" /\ q[j].source = p => NoRoute(q[j].id)
  BY DEF ListsAreRight
<1>3. fromHub'[c] = r
  OBVIOUS
<1> HIDE DEF q, r
<1>4. SUFFICES ASSUME NEW i \in 1 .. Len(r), r[i].op = "peers",
                    NEW p \in Computer \ (r[i].peers \union {c})
             PROVE  /\ \A t \in m_sessions'[c] : t.peer = p /\ ~t.outgoing => NoRoute(t.id)
                    /\ \A j \in 1 .. i - 1 :
                         r[j].op = "open" /\ r[j].source = p => NoRoute(r[j].id)
  BY <1>3 DEF ListsAreRight, NoRoute
<1>5. /\ i + 1 \in 1 .. Len(q) /\ q[i + 1] = r[i] /\ i \in Nat \ {0}
      /\ 1 \in 1 .. (i + 1) - 1
  BY <1>1
<1>6. ASSUME NEW t \in m_sessions'[c], t.peer = p /\ ~t.outgoing
      PROVE  NoRoute(t.id)
  <2>1. CASE \E u \in m_sessions[c] : u.id = t.id /\ u.peer = t.peer /\ ~u.outgoing
    BY <2>1, <1>2, <1>4, <1>5, <1>6
  <2>2. CASE q[1].op = "open" /\ q[1].id = t.id /\ q[1].source = t.peer
    BY <2>2, <1>2, <1>4, <1>5, <1>6
  <2> QED BY <2>1, <2>2, <1>1, <1>6
<1>7. ASSUME NEW j \in 1 .. i - 1, r[j].op = "open" /\ r[j].source = p
      PROVE  NoRoute(r[j].id)
  <2>1. j \in Nat \ {0} /\ i \in Nat /\ i <= Len(r) /\ j <= i - 1 /\ Len(r) \in Nat
    BY <1>1, <1>4, <1>7
  <2>2. j + 1 \in 1 .. (i + 1) - 1 /\ j \in 1 .. Len(r)
    BY <2>1
  <2>3. q[j + 1] = r[j]
    BY <2>2, <1>1
  <2>4. q[j + 1].op = "open" /\ q[j + 1].source = p
    BY <2>3, <1>7
  <2>5. NoRoute(q[j + 1].id)
    BY <2>2, <2>4, <1>2, <1>4, <1>5
  <2> QED BY <2>3, <2>5
<1> QED BY <1>6, <1>7

LEMMA ReadingKeeps ==
  ASSUME SessionsInv, NEW c \in Computer, NEW S \in SUBSET SessionEntry, Reads(c, S),
         \A t, u \in S : t.peer # c /\ (t.id = u.id => t = u),
         \A t \in S : t.id \in requested,
         m_peers' \in [Computer -> SUBSET Computer],
         \A p \in Computer \ {c} : m_peers'[p] = m_peers[p],
         c \notin m_peers'[c], \A t \in S : t.peer \in m_peers'[c],
         \A id \in requested : \A a, b \in Computer, f \in Feature :
           a # b /\ SessionInv(id, a, b, f) => SessionInv(id, a, b, f)',
         \A t \in S : ~t.outgoing =>
           \/ \E u \in m_sessions[c] : u.id = t.id /\ u.peer = t.peer /\ ~u.outgoing
           \/ /\ Head(fromHub[c]).op = "open" /\ Head(fromHub[c]).id = t.id
              /\ Head(fromHub[c]).source = t.peer
  PROVE  SessionsInv'
<1>1. SessionTypeOK /\ PeersFit
  BY DEF SessionsInv
<1>2. /\ fromHub[c] \in Seq(SessionMessage) /\ fromHub[c] # << >>
      /\ Head(fromHub[c]) \in SessionMessage
      /\ fromHub'[c] = Tail(fromHub[c]) /\ m_sessions'[c] = S
      /\ \A p \in Computer \ {c} : fromHub'[p] = fromHub[p] /\ m_sessions'[p] = m_sessions[p]
      /\ m_online' = m_online /\ known' = known /\ m_routes' = m_routes
      /\ toHub' = toHub /\ requested' = requested
  BY <1>1, ReadingChanges
<1>3. Tail(fromHub[c]) \in Seq(SessionMessage)
  BY <1>2, ReadTail
<1>4. SessionTypeOK'
  <2>1. m_sessions' \in [Computer -> SUBSET SessionEntry]
    BY <1>1 DEF SessionTypeOK, Reads
  <2>2. fromHub' \in [Computer -> Seq(SessionMessage)]
    BY <1>1, <1>3 DEF SessionTypeOK, Reads
  <2>3. \A p \in Computer : \A t, u \in m_sessions'[p] : t.peer # p /\ (t.id = u.id => t = u)
    <3>1. \A p \in Computer \ {c} : \A t, u \in m_sessions'[p] :
            t.peer # p /\ (t.id = u.id => t = u)
      BY <1>1, <1>2 DEF SessionTypeOK
    <3> QED BY <3>1, <1>2
  <2> QED BY <2>1, <2>2, <2>3, <1>1, <1>2 DEF SessionTypeOK
<1>5. PeersFit'
  <2>1. \A i \in 1 .. Len(fromHub'[c]) :
          fromHub'[c][i].op = "peers" => c \notin fromHub'[c][i].peers
    <3>1. \A i \in 1 .. Len(fromHub[c]) :
            fromHub[c][i].op = "peers" => c \notin fromHub[c][i].peers
      BY <1>1 DEF PeersFit
    <3>2. fromHub[c] \in Seq(SessionMessage) /\ fromHub[c] # << >>
      BY <1>2
    <3>3. \A i \in 1 .. Len(Tail(fromHub[c])) :
            Tail(fromHub[c])[i].op = "peers" => c \notin Tail(fromHub[c])[i].peers
      BY <3>1, <3>2, PeersReadOn
    <3>4. fromHub'[c] = Tail(fromHub[c])
      BY <1>2
    <3> QED BY <3>3, <3>4
  <2>2. \A p \in Computer : /\ \A s \in m_sessions'[p] : s.peer \in m_peers'[p]
                            /\ p \notin m_peers'[p]
    BY <1>1, <1>2 DEF PeersFit
  <2>3. \A p \in Computer : \A i \in 1 .. Len(fromHub'[p]) :
          fromHub'[p][i].op = "peers" => p \notin fromHub'[p][i].peers
    <3>1. \A p \in Computer \ {c} : \A i \in 1 .. Len(fromHub'[p]) :
            fromHub'[p][i].op = "peers" => p \notin fromHub'[p][i].peers
      BY <1>1, <1>2 DEF PeersFit
    <3> QED BY <3>1, <2>1
  <2>4. \A p \in Computer \ m_online' :
          m_sessions'[p] = {} /\ toHub'[p] = << >> /\ fromHub'[p] = << >>
    BY <1>1, <1>2 DEF PeersFit, Reads
  <2> QED BY <2>2, <2>3, <2>4 DEF PeersFit
<1>6. ASSUME NEW id \in Session \ requested'
      PROVE  Unused(id)'
  <2>1. Unused(id)
    BY <1>2 DEF SessionsInv
  <2>2. \A p \in Computer : About(m_sessions'[p], id) = About(m_sessions[p], id)
    BY <2>1, <1>2 DEF Unused, Holds, About
  <2>3. KeptIn(fromHub[c], fromHub'[c], id)
    <3>1. ~Mentions(fromHub[c], id)
      BY <2>1 DEF Unused
    <3>2. ~IsAbout(Head(fromHub[c]), id)
      BY <3>1, <1>2, Reading
    <3> QED BY <3>2, <1>2, QuietlyRead
  <2> QED BY <2>1, <2>2, <2>3, <1>2, KeptElsewhere, StaysUnused
<1>7. ASSUME NEW id \in requested'
      PROVE  \E a, b \in Computer, f \in Feature : a # b /\ SessionInv(id, a, b, f)'
  <2>1. PICK a \in Computer, b \in Computer, f \in Feature : a # b /\ SessionInv(id, a, b, f)
    BY <1>2 DEF SessionsInv
  <2> QED BY <2>1, <1>2
<1>8. ASSUME NEW p \in Computer
      PROVE  ListsAreRight(p)'
  <2>1. ListsAreRight(p)
    BY DEF SessionsInv
  <2>2. CASE p = c
    BY <2>1, <2>2, <1>2, ListsRead
  <2>3. CASE p # c
    <3>1. \A id : NoRoute(id) => NoRoute(id)'
      BY <1>2 DEF NoRoute
    <3>2. fromHub'[p] = fromHub[p] /\ m_sessions'[p] = m_sessions[p] /\ Len(fromHub[p]) \in Nat
      BY <2>3, <1>1, <1>2, TypesOfStreams
    <3> QED BY <3>1, <3>2, <2>1, ListsStay
  <2> QED BY <2>2, <2>3
<1> QED BY <1>4, <1>5, <1>6, <1>7, <1>8 DEF SessionsInv

LEMMA ReadingFits ==
  ASSUME SessionTypeOK, NEW c \in Computer, NEW S, Reads(c, S),
         NEW id, NEW a \in Computer, NEW b \in Computer, NEW f, a # b, SessionInv(id, a, b, f)
  PROVE  /\ RoutesFit(id, a, b, f)' /\ LettersFit(id, a, b, f)'
         /\ \A p \in Computer \ {c} : /\ Holds(p, id)' <=> Holds(p, id)
                                      /\ IsActive(p, id)' <=> IsActive(p, id)
                                      /\ fromHub'[p] = fromHub[p]
         /\ toHub' = toHub /\ m_online' = m_online /\ known' = known
         /\ NoRoute(id)' <=> NoRoute(id)
         /\ HasLease(id)' <=> HasLease(id)
         /\ \A op \in {"open", "accept", "close"} :
              Speaks(fromHub'[c], op, id) => Speaks(fromHub[c], op, id)
         /\ Mentions(fromHub'[c], id) => Mentions(fromHub[c], id)
         /\ OpensOnce(fromHub[c], id) =>
              /\ OpensOnce(fromHub'[c], id)
              /\ Head(fromHub[c]).op = "open" /\ Head(fromHub[c]).id = id =>
                   ~Speaks(fromHub'[c], "open", id)
<1>1. /\ fromHub[c] \in Seq(SessionMessage) /\ fromHub[c] # << >>
      /\ fromHub'[c] = Tail(fromHub[c])
      /\ \A p \in Computer \ {c} : fromHub'[p] = fromHub[p] /\ m_sessions'[p] = m_sessions[p]
      /\ m_online' = m_online /\ known' = known /\ m_routes' = m_routes /\ toHub' = toHub
  BY ReadingChanges
<1>2. RoutesFit(id, a, b, f)'
  BY <1>1 DEF SessionInv, RoutesFit
<1>3. LettersFit(id, a, b, f)'
  <2>1. FitIn(fromHub[c], Other(c, a, b), c, id, a, b, f)
    BY DEF SessionInv, LettersFit
  <2>2. FitIn(fromHub'[c], Other(c, a, b), c, id, a, b, f)
    BY <2>1, <1>1, ReadTail DEF FitIn
  <2> QED BY <2>2, <1>1 DEF SessionInv, LettersFit
<1>4. \A p \in Computer \ {c} : /\ Holds(p, id)' <=> Holds(p, id)
                                /\ IsActive(p, id)' <=> IsActive(p, id)
                                /\ fromHub'[p] = fromHub[p]
  BY <1>1 DEF Holds, IsActive
<1>5. /\ NoRoute(id)' <=> NoRoute(id)
      /\ HasLease(id)' <=> HasLease(id)
  BY <1>1 DEF NoRoute, HasLease
<1>6. /\ \A op \in {"open", "accept", "close"} :
           Speaks(fromHub'[c], op, id) => Speaks(fromHub[c], op, id)
      /\ Mentions(fromHub'[c], id) => Mentions(fromHub[c], id)
      /\ OpensOnce(fromHub[c], id) =>
           /\ OpensOnce(fromHub'[c], id)
           /\ Head(fromHub[c]).op = "open" /\ Head(fromHub[c]).id = id =>
                ~Speaks(fromHub'[c], "open", id)
  BY <1>1, Reading
<1> QED BY <1>1, <1>2, <1>3, <1>4, <1>5, <1>6

\* What is read may end a session, if the server no longer routes it or if it
\* is its source that reads.
LEMMA LessIsKept ==
  ASSUME SessionTypeOK, NEW c \in Computer, NEW S, Reads(c, S),
         NEW id, NEW a \in Computer, NEW b \in Computer, NEW f, a # b, SessionInv(id, a, b, f),
         \/ About(S, id) = About(m_sessions[c], id)
         \/ About(S, id) = {} /\ (c = b => NoRoute(id))
  PROVE  SessionInv(id, a, b, f)'
<1>1. /\ RoutesFit(id, a, b, f)' /\ LettersFit(id, a, b, f)'
      /\ \A p \in Computer \ {c} : /\ Holds(p, id)' <=> Holds(p, id)
                                   /\ IsActive(p, id)' <=> IsActive(p, id)
                                   /\ fromHub'[p] = fromHub[p]
      /\ toHub' = toHub /\ m_online' = m_online /\ known' = known
      /\ NoRoute(id)' <=> NoRoute(id)
      /\ HasLease(id)' <=> HasLease(id)
      /\ \A op \in {"open", "accept", "close"} :
           Speaks(fromHub'[c], op, id) => Speaks(fromHub[c], op, id)
      /\ Mentions(fromHub'[c], id) => Mentions(fromHub[c], id)
      /\ OpensOnce(fromHub[c], id) => OpensOnce(fromHub'[c], id)
  BY ReadingFits
<1>2. m_sessions'[c] = S /\ \A p \in Computer \ {c} : m_sessions'[p] = m_sessions[p]
  BY ReadingChanges
<1>3. \/ /\ Holds(c, id)' <=> Holds(c, id)
         /\ IsActive(c, id)' <=> IsActive(c, id)
      \/ ~Holds(c, id)' /\ ~IsActive(c, id)' /\ (c = b => NoRoute(id))
  <2>1. CASE About(S, id) = About(m_sessions[c], id)
    BY <2>1, <1>2, SameEntries
  <2>2. CASE About(S, id) = {} /\ (c = b => NoRoute(id))
    BY <2>2, <1>2 DEF About, Holds, IsActive
  <2> QED BY <2>1, <2>2
<1>4. EntriesFit(id, a, b, f)'
  <2>1. \A t \in m_sessions'[c] : t.id = id => t \in m_sessions[c]
    BY <1>2 DEF About
  <2> QED BY <2>1, <1>2 DEF SessionInv, EntriesFit
<1>5. RequestIsFirst(id, a, b) /\ AgreementHolds(id, a, b)
        /\ EndsHold(id, a, b) /\ PauseHolds(id, a, b)
  BY DEF SessionInv
<1>6. /\ Holds(a, id)' => Holds(a, id)
      /\ Holds(b, id)' => Holds(b, id)
      /\ IsActive(a, id)' => IsActive(a, id)
      /\ IsActive(b, id)' => IsActive(b, id)
      /\ Holds(b, id)' /\ IsActive(b, id) => IsActive(b, id)'
      /\ IsActive(b, id) /\ ~IsActive(b, id)' => NoRoute(id)
      /\ \A p \in Computer : /\ \A op \in {"open", "accept", "close"} :
                                  Speaks(fromHub'[p], op, id) => Speaks(fromHub[p], op, id)
                             /\ Mentions(fromHub'[p], id) => Mentions(fromHub[p], id)
                             /\ OpensOnce(fromHub[p], id) => OpensOnce(fromHub'[p], id)
  BY <1>1, <1>3
<1>7. RequestIsFirst(id, a, b)'
  BY <1>1, <1>5, <1>6 DEF RequestIsFirst, Unanswered
<1>8. AgreementHolds(id, a, b)'
  BY <1>1, <1>5, <1>6 DEF AgreementHolds, Answered, Agreed
<1>9. EndsHold(id, a, b)'
  BY <1>1, <1>5, <1>6 DEF EndsHold
<1>10. PauseHolds(id, a, b)'
  BY <1>1, <1>5, <1>6 DEF PauseHolds, Paused
<1> QED BY <1>1, <1>4, <1>7, <1>8, <1>9, <1>10 DEF SessionInv

\* What is known of a letter about a session that a computer is to read.
LEMMA LetterRead ==
  ASSUME SessionTypeOK, NEW c \in Computer, fromHub[c] # << >>,
         NEW id, NEW a \in Computer, NEW b \in Computer, NEW f, a # b,
         SessionInv(id, a, b, f), IsAbout(Head(fromHub[c]), id)
  PROVE  /\ Head(fromHub[c]).feature = f
         /\ \/ /\ c = b /\ Head(fromHub[c]).source = a
               /\ Head(fromHub[c]).op \in {"open", "close"}
            \/ /\ c = a /\ Head(fromHub[c]).source = b
               /\ Head(fromHub[c]).op \in {"accept", "close"}
         /\ Speaks(fromHub[c], Head(fromHub[c]).op, id)
         /\ Mentions(fromHub[c], id)
<1> DEFINE m == Head(fromHub[c])
<1>1. fromHub[c] \in Seq(SessionMessage)
  BY TypesOfStreams
<1>2. m \in SessionMessage /\ m = fromHub[c][1] /\ 1 \in 1 .. Len(fromHub[c])
  BY <1>1, ReadTail
<1>3. Fits(m, Other(c, a, b), c, id, a, b, f)
  BY <1>2 DEF SessionInv, LettersFit, FitIn
<1>4. /\ m.feature = f
      /\ \/ c = b /\ m.source = a /\ m.op \in {"open", "close"}
         \/ c = a /\ m.source = b /\ m.op \in {"accept", "close"}
  BY <1>3 DEF Fits
<1>5. Mentions(fromHub[c], id) /\ Speaks(fromHub[c], m.op, id)
  BY <1>2 DEF Mentions, Speaks, IsAbout
<1> QED BY <1>4, <1>5

LEMMA EntryFits ==
  ASSUME NEW c \in Computer, NEW s \in m_sessions[c], NEW a, NEW b, NEW f, SessionInv(s.id, a, b, f)
  PROVE  /\ s.feature = f
         /\ \/ c = a /\ s.peer = b /\ s.outgoing
            \/ c = b /\ s.peer = a /\ ~s.outgoing
BY DEF SessionInv, EntriesFit

LEMMA PeersKeep ==
  ASSUME SessionsInv, NEW c \in Computer, receive(c), Head(fromHub[c]).op = "peers"
  PROVE  SessionsInv'
<1> DEFINE m == Head(fromHub[c])
           S == {s \in m_sessions[c] : s.peer \in m.peers}
<1>1. SessionTypeOK /\ PeersFit
  BY DEF SessionsInv
<1>2. /\ Reads(c, S)
      /\ m_peers' = [m_peers EXCEPT ![c] = m.peers]
  <2>1. m_sessions' = [m_sessions EXCEPT ![c] = S]
    BY DEF receive
  <2> QED BY <2>1 DEF receive, Reads
<1>3. /\ fromHub[c] \in Seq(SessionMessage) /\ fromHub[c] # << >>
      /\ m \in SessionMessage /\ 1 \in 1 .. Len(fromHub[c]) /\ fromHub[c][1] = m
  BY <1>1, <1>2, TypesOfStreams, ReadTail DEF Reads
<1>4. m.peers \subseteq Computer /\ c \notin m.peers
  BY <1>1, <1>3, Letters DEF PeersFit
<1>5. /\ m_peers' \in [Computer -> SUBSET Computer]
      /\ m_peers'[c] = m.peers
      /\ \A p \in Computer \ {c} : m_peers'[p] = m_peers[p]
  BY <1>1, <1>2, <1>4 DEF SessionTypeOK
<1> HIDE DEF m
<1>6. /\ S \in SUBSET SessionEntry /\ S \subseteq m_sessions[c]
      /\ \A t, u \in S : t.peer # c /\ (t.id = u.id => t = u)
      /\ \A t \in S : t.peer \in m_peers'[c]
  BY <1>1, <1>5 DEF SessionTypeOK
<1>7. \A t \in S : t.id \in requested
  BY <1>6 DEF SessionsInv, Unused, Holds, SessionEntry
<1>8. ASSUME NEW id \in requested, NEW a \in Computer, NEW b \in Computer, NEW f \in Feature,
             a # b, SessionInv(id, a, b, f)
      PROVE  SessionInv(id, a, b, f)'
  <2>1. CASE \A s \in m_sessions[c] : s.id = id => s.peer \in m.peers
    <3>1. About(S, id) = About(m_sessions[c], id)
      BY <2>1 DEF About
    <3> QED BY <3>1, <1>1, <1>2, <1>8, LessIsKept
  <2>2. CASE \E s \in m_sessions[c] : s.id = id /\ s.peer \notin m.peers
    <3>1. PICK s \in m_sessions[c] : s.id = id /\ s.peer \notin m.peers
      BY <2>2
    <3>2. \A t \in m_sessions[c] : t.id = id => t = s
      BY <3>1, <1>1 DEF SessionTypeOK
    <3>3. About(S, id) = {}
      BY <3>1, <3>2 DEF About
    <3>4. ASSUME c = b
          PROVE  NoRoute(id)
      <4>1. s.peer = a /\ ~s.outgoing
        BY <3>1, <3>4, <1>8, EntryFits
      <4>2. s.peer \in Computer \ (m.peers \union {c})
        BY <4>1, <3>1, <3>4, <1>8
      <4>3. ListsAreRight(c)
        BY DEF SessionsInv
      <4>4. m.op = "peers"
        BY DEF m
      <4> QED BY <3>1, <4>1, <4>2, <4>3, <4>4, <1>3 DEF ListsAreRight
    <3> QED BY <3>3, <3>4, <1>1, <1>2, <1>8, LessIsKept
  <2> QED BY <2>1, <2>2
<1> HIDE DEF S
<1> QED BY <1>2, <1>4, <1>5, <1>6, <1>7, <1>8, ReadingKeeps

LEMMA ClosedKeeps ==
  ASSUME SessionsInv, NEW c \in Computer, NEW S, Reads(c, S), m_peers' = m_peers,
         Head(fromHub[c]).op # "peers",
         \/ S = m_sessions[c]
         \/ Head(fromHub[c]).op = "close" /\ S = m_sessions[c] \ Matching(c, Head(fromHub[c]))
  PROVE  SessionsInv'
<1> PICK m : m = Head(fromHub[c])
  OBVIOUS
<1>1. SessionTypeOK /\ PeersFit /\ S \subseteq m_sessions[c]
  BY DEF SessionsInv
<1>2. /\ S \in SUBSET SessionEntry
      /\ \A t, u \in S : t.peer # c /\ (t.id = u.id => t = u)
      /\ \A t \in S : t.peer \in m_peers'[c]
      /\ c \notin m_peers'[c]
      /\ m_peers' \in [Computer -> SUBSET Computer]
  BY <1>1 DEF SessionTypeOK, PeersFit
<1>3. \A t \in S : t.id \in requested
  BY <1>1, <1>2 DEF SessionsInv, Unused, Holds, SessionEntry
<1>4. ASSUME NEW id \in requested, NEW a \in Computer, NEW b \in Computer, NEW f \in Feature,
             a # b, SessionInv(id, a, b, f)
      PROVE  SessionInv(id, a, b, f)'
  <2>1. CASE S = m_sessions[c]
    BY <2>1, <1>1, <1>4, LessIsKept
  <2>2. CASE m.id # id /\ S = m_sessions[c] \ Matching(c, m)
    <3>1. About(S, id) = About(m_sessions[c], id)
      BY <2>2 DEF About, Matching
    <3> QED BY <3>1, <1>1, <1>4, LessIsKept
  <2>3. CASE m.id = id /\ m.op = "close" /\ S = m_sessions[c] \ Matching(c, m)
    <3>1. IsAbout(m, id)
      BY <2>3 DEF IsAbout
    <3>2. /\ \/ c = b /\ m.source = a /\ m.op \in {"open", "close"}
             \/ c = a /\ m.source = b /\ m.op \in {"accept", "close"}
          /\ m.feature = f /\ Speaks(fromHub[c], "close", id)
      BY <3>1, <2>3, <1>1, <1>4, LetterRead DEF Reads
    <3>3. NoRoute(id)
      BY <3>2, <1>4 DEF SessionInv, EndsHold
    <3>4. \A s \in m_sessions[c] : s.id = id => s.peer = m.source /\ s.feature = m.feature
      <4>1. ASSUME NEW s \in m_sessions[c], s.id = id
            PROVE  s.peer = m.source /\ s.feature = m.feature
        <5>1. EntriesFit(id, a, b, f)
          BY ONLY <1>4 DEF SessionInv
        <5>2. s.feature = f /\ ((c = a /\ s.peer = b) \/ (c = b /\ s.peer = a))
          BY ONLY <5>1, <4>1, c \in Computer DEF EntriesFit
        <5>3. a # b /\ m.feature = f /\ ((c = b /\ m.source = a) \/ (c = a /\ m.source = b))
          BY <3>2, <1>4
        <5> QED BY ONLY <5>2, <5>3, Zenon
      <4> QED BY ONLY <4>1
    <3>5. About(S, id) = {}
      BY <3>4, <2>3 DEF About, Matching
    <3> QED BY <3>3, <3>5, <1>1, <1>4, LessIsKept
  <2> QED BY <2>1, <2>2, <2>3
<1> QED BY <1>1, <1>2, <1>3, <1>4, ReadingKeeps

LEMMA OpenedKeeps ==
  ASSUME SessionsInv, NEW c \in Computer, Head(fromHub[c]).op = "open",
         Head(fromHub[c]).source \in m_peers[c], IsNew(c, Head(fromHub[c])),
         Reads(c, m_sessions[c] \cup {Incoming(Head(fromHub[c]))}), m_peers' = m_peers
  PROVE  SessionsInv'
<1> PICK m : m = Head(fromHub[c])
  OBVIOUS
<1> PICK S : S = m_sessions[c] \cup {Incoming(m)}
  OBVIOUS
<1>1. SessionTypeOK /\ PeersFit /\ Reads(c, S) /\ m.op = "open" /\ IsNew(c, m)
        /\ m.source \in m_peers[c]
  BY DEF SessionsInv
<1>2. /\ fromHub[c] \in Seq(SessionMessage) /\ fromHub[c] # << >>
      /\ m \in SessionMessage /\ m_sessions'[c] = S
      /\ \A p \in Computer \ {c} : m_sessions'[p] = m_sessions[p]
  BY <1>1, ReadingChanges
<1>3. m.id \in Session /\ m.source \in Computer /\ m.feature \in Feature
  BY <1>1, <1>2, Letters
<1>4. /\ Incoming(m) \in SessionEntry /\ Incoming(m).id = m.id /\ Incoming(m).peer = m.source
      /\ Incoming(m).feature = m.feature /\ Incoming(m).outgoing = FALSE
      /\ Incoming(m).active = FALSE
  BY <1>3 DEF Incoming, SessionEntry
<1>5. \A s \in m_sessions[c] : s.id # m.id
  BY <1>1 DEF IsNew
<1>6. IsAbout(m, m.id) /\ Mentions(fromHub[c], m.id)
  BY <1>1, <1>2, Reading DEF IsAbout
<1>7. m.id \in requested
  BY <1>3, <1>6 DEF SessionsInv, Unused
<1>8. /\ S \in SUBSET SessionEntry
      /\ \A t, u \in S : t.peer # c /\ (t.id = u.id => t = u)
      /\ \A t \in S : t.peer \in m_peers'[c]
      /\ c \notin m_peers'[c]
      /\ m_peers' \in [Computer -> SUBSET Computer]
  <2>1. c \notin m_peers[c] /\ m.source # c
    BY <1>1 DEF PeersFit
  <2>2. /\ m_sessions[c] \subseteq SessionEntry
        /\ \A t, u \in m_sessions[c] : t.peer # c /\ (t.id = u.id => t = u)
        /\ \A t \in m_sessions[c] : t.peer \in m_peers[c]
    BY <1>1 DEF SessionTypeOK, PeersFit
  <2>3. \A t, u \in S : t.peer # c /\ (t.id = u.id => t = u)
    BY <2>1, <2>2, <1>4, <1>5
  <2> QED BY <2>1, <2>2, <2>3, <1>1, <1>4 DEF SessionTypeOK
<1>9. \A t \in S : t.id \in requested
  BY <1>1, <1>4, <1>7 DEF SessionsInv, SessionTypeOK, Unused, Holds, SessionEntry
<1>10. ASSUME NEW id \in requested, NEW a \in Computer, NEW b \in Computer, NEW f \in Feature,
              a # b, SessionInv(id, a, b, f)
       PROVE  SessionInv(id, a, b, f)'
  <2>1. CASE m.id # id
    <3>1. About(S, id) = About(m_sessions[c], id)
      BY <2>1, <1>4 DEF About
    <3> QED BY <3>1, <1>1, <1>10, LessIsKept
  <2>2. CASE m.id = id
    <3>1. /\ c = b /\ m.source = a /\ m.feature = f
          /\ Speaks(fromHub[b], "open", id) /\ Mentions(fromHub[b], id)
      BY <2>2, <1>1, <1>2, <1>6, <1>10, LetterRead
    <3>2. RequestIsFirst(id, a, b) /\ AgreementHolds(id, a, b)
            /\ EndsHold(id, a, b) /\ PauseHolds(id, a, b)
      BY <1>10 DEF SessionInv
    <3>3. /\ RoutesFit(id, a, b, f)' /\ LettersFit(id, a, b, f)'
          /\ Holds(a, id)' <=> Holds(a, id)
          /\ IsActive(a, id)' <=> IsActive(a, id)
          /\ fromHub'[a] = fromHub[a]
          /\ toHub' = toHub /\ m_online' = m_online /\ known' = known
          /\ NoRoute(id)' <=> NoRoute(id)
          /\ Speaks(fromHub'[b], "close", id) => Speaks(fromHub[b], "close", id)
          /\ ~Speaks(fromHub'[b], "open", id)
          /\ OpensOnce(fromHub'[b], id)
      <4>1. OpensOnce(fromHub[c], id)
        BY <3>1, <3>2 DEF RequestIsFirst
      <4> QED BY <4>1, <2>2, <3>1, <1>1, <1>10, ReadingFits
    <3>4. /\ ~Holds(b, id) /\ ~IsActive(a, id)
          /\ ~Mentions(toHub[b], id) /\ ~Mentions(fromHub[a], id)
          /\ ~Speaks(toHub[a], "open", id)
      BY <3>1, <3>2 DEF RequestIsFirst, Unanswered
    <3>5. /\ ~Speaks(toHub[b], "accept", id) /\ ~Speaks(fromHub[a], "accept", id)
          /\ ~Speaks(toHub[b], "close", id)
      BY <3>4, SpokenIsMentioned
    <3>6. EntriesFit(id, a, b, f)'
      <4>1. \A t \in m_sessions'[c] : t \in m_sessions[c] \/ t = Incoming(m)
        BY <1>2
      <4> QED BY <4>1, <1>2, <1>4, <3>1, <1>10 DEF SessionInv, EntriesFit
    <3>7. RequestIsFirst(id, a, b)'
      BY <3>2, <3>3, <3>4 DEF RequestIsFirst
    <3>8. AgreementHolds(id, a, b)'
      BY <3>3, <3>4, <3>5 DEF AgreementHolds, Answered
    <3>9. EndsHold(id, a, b)'
      BY <3>2, <3>3, <3>5 DEF EndsHold
    <3>10. PauseHolds(id, a, b)'
      BY <3>3, <3>4, <3>5 DEF PauseHolds
    <3> QED BY <3>3, <3>6, <3>7, <3>8, <3>9, <3>10 DEF SessionInv
  <2> QED BY <2>1, <2>2
<1>11. \A t \in S : ~t.outgoing =>
         \/ \E u \in m_sessions[c] : u.id = t.id /\ u.peer = t.peer /\ ~u.outgoing
         \/ /\ Head(fromHub[c]).op = "open" /\ Head(fromHub[c]).id = t.id
            /\ Head(fromHub[c]).source = t.peer
  BY <1>4
<1> QED BY <1>1, <1>8, <1>9, <1>10, <1>11, ReadingKeeps

LEMMA AcceptedKeeps ==
  ASSUME SessionsInv, NEW c \in Computer, Head(fromHub[c]).op = "accept",
         Reads(c, (m_sessions[c] \ Accepted(c, Head(fromHub[c])))
                    \cup {Activated(s) : s \in Accepted(c, Head(fromHub[c]))}),
         m_peers' = m_peers
  PROVE  SessionsInv'
<1> PICK m : m = Head(fromHub[c])
  OBVIOUS
<1> PICK S : S = (m_sessions[c] \ Accepted(c, m)) \cup {Activated(s) : s \in Accepted(c, m)}
  OBVIOUS
<1>1. SessionTypeOK /\ PeersFit /\ Reads(c, S) /\ m.op = "accept"
  BY DEF SessionsInv
<1>2. /\ fromHub[c] # << >> /\ m_sessions'[c] = S
      /\ \A p \in Computer \ {c} : m_sessions'[p] = m_sessions[p]
  BY <1>1, ReadingChanges
<1>3. ASSUME NEW s \in m_sessions[c]
      PROVE  /\ s \in SessionEntry /\ Activated(s) \in SessionEntry
             /\ Activated(s).id = s.id /\ Activated(s).peer = s.peer
             /\ Activated(s).feature = s.feature /\ Activated(s).outgoing = s.outgoing
             /\ Activated(s).active = TRUE
  <2>1. s \in SessionEntry
    BY <1>1 DEF SessionTypeOK
  <2> QED BY <2>1 DEF Activated, SessionEntry
<1>4. \A t \in S : \E s \in m_sessions[c] :
        /\ t = s \/ (t = Activated(s) /\ s.id = m.id)
        /\ t.id = s.id /\ t.peer = s.peer /\ t.feature = s.feature /\ t.outgoing = s.outgoing
  <2>1. \A s \in Accepted(c, m) : s \in m_sessions[c] /\ s.id = m.id
    BY DEF Accepted, Matching
  <2> SUFFICES ASSUME NEW t \in S
               PROVE  \E s \in m_sessions[c] :
                        /\ t = s \/ (t = Activated(s) /\ s.id = m.id)
                        /\ t.id = s.id /\ t.peer = s.peer
                        /\ t.feature = s.feature /\ t.outgoing = s.outgoing
    OBVIOUS
  <2>2. CASE t \in m_sessions[c]
    BY <2>2
  <2>3. CASE \E s \in Accepted(c, m) : t = Activated(s)
    <3>1. PICK s \in Accepted(c, m) : t = Activated(s)
      BY <2>3
    <3>2. s \in m_sessions[c] /\ s.id = m.id
      BY <2>1, <3>1
    <3>3. /\ Activated(s).id = s.id /\ Activated(s).peer = s.peer
          /\ Activated(s).feature = s.feature /\ Activated(s).outgoing = s.outgoing
      BY <3>2, <1>3
    <3> QED BY ONLY <3>1, <3>2, <3>3
  <2> QED BY <2>2, <2>3
<1>5. \A s \in m_sessions[c] : s.id # m.id => s \in S
  BY DEF Accepted, Matching
<1>6. /\ S \in SUBSET SessionEntry
      /\ \A t, u \in S : t.peer # c /\ (t.id = u.id => t = u)
      /\ \A t \in S : t.peer \in m_peers'[c]
      /\ c \notin m_peers'[c]
      /\ m_peers' \in [Computer -> SUBSET Computer]
  <2>1. \A s, u \in m_sessions[c] : s.peer # c /\ s.peer \in m_peers[c] /\ (s.id = u.id => s = u)
    BY <1>1 DEF SessionTypeOK, PeersFit
  <2>2. \A t, u \in S : t.peer # c /\ (t.id = u.id => t = u)
    <3> SUFFICES ASSUME NEW t \in S, NEW u \in S
                 PROVE  t.peer # c /\ (t.id = u.id => t = u)
      OBVIOUS
    <3>1. t.peer # c
      BY <1>4, <2>1
    <3>2. ASSUME t.id = u.id
          PROVE  t = u
      <4>1. PICK s \in m_sessions[c] : t.id = s.id /\ (t = s \/ t = Activated(s))
        BY <1>4
      <4>2. PICK v \in m_sessions[c] : u.id = v.id /\ (u = v \/ u = Activated(v))
        BY <1>4
      <4>3. s = v
        BY <4>1, <4>2, <3>2, <2>1
      <4>4. CASE s \in Accepted(c, m)
        <5>1. \A x \in S : x.id = s.id => x = Activated(s)
          BY <4>4, <1>3, <2>1 DEF Accepted, Matching
        <5> QED BY <5>1, <4>1, <4>2, <4>3
      <4>5. CASE s \notin Accepted(c, m)
        <5>1. \A x \in Accepted(c, m) : x \in m_sessions[c] /\ x # s
          BY <4>5 DEF Accepted, Matching
        <5>2. \A x \in Accepted(c, m) : Activated(x).id # s.id
          <6>1. \A x \in Accepted(c, m) : x.id # s.id
            BY <5>1, <2>1
          <6> QED BY <5>1, <6>1, <1>3
        <5>3. \A x \in S : x.id = s.id => x = s
          BY <5>2, <2>1
        <5> QED BY <5>3, <4>1, <4>2, <4>3
      <4> QED BY <4>4, <4>5
    <3> QED BY <3>1, <3>2
  <2>3. \A t \in S : t.peer \in m_peers[c]
    BY <2>1, <1>4
  <2>4. S \in SUBSET SessionEntry
    BY <1>3, <1>4
  <2> QED BY <2>2, <2>3, <2>4, <1>1 DEF SessionTypeOK, PeersFit
<1>7. \A t \in S : t.id \in requested
  <2>1. \A s \in m_sessions[c] : s.id \in requested
    BY <1>3 DEF SessionsInv, Unused, Holds, SessionEntry
  <2> QED BY <2>1, <1>4
<1>8. ASSUME NEW id \in requested, NEW a \in Computer, NEW b \in Computer, NEW f \in Feature,
             a # b, SessionInv(id, a, b, f)
      PROVE  SessionInv(id, a, b, f)'
  <2>1. CASE m.id # id
    <3>1. About(S, id) = About(m_sessions[c], id)
      BY <2>1, <1>4, <1>5 DEF About
    <3> QED BY <3>1, <1>1, <1>8, LessIsKept
  <2>2. CASE m.id = id
    <3>1. /\ c = a /\ m.source = b /\ m.feature = f
          /\ Speaks(fromHub[a], "accept", id) /\ Mentions(fromHub[a], id)
      <4>1. IsAbout(m, id)
        BY <2>2, <1>1 DEF IsAbout
      <4> QED BY <4>1, <2>2, <1>1, <1>2, <1>8, LetterRead
    <3>2. RequestIsFirst(id, a, b) /\ AgreementHolds(id, a, b)
            /\ EndsHold(id, a, b) /\ PauseHolds(id, a, b)
      BY <1>8 DEF SessionInv
    <3>3. /\ RoutesFit(id, a, b, f)' /\ LettersFit(id, a, b, f)'
          /\ Holds(b, id)' <=> Holds(b, id)
          /\ IsActive(b, id)' <=> IsActive(b, id)
          /\ fromHub'[b] = fromHub[b]
          /\ toHub' = toHub /\ m_online' = m_online /\ known' = known
          /\ NoRoute(id)' <=> NoRoute(id)
          /\ HasLease(id)' <=> HasLease(id)
          /\ \A op \in {"open", "accept", "close"} :
               Speaks(fromHub'[a], op, id) => Speaks(fromHub[a], op, id)
      BY ONLY <3>1, <1>1, <1>8, ReadingFits
    <3>4. ~Speaks(toHub[a], "open", id) /\ ~Speaks(fromHub[b], "open", id)
      BY <3>1, <3>2 DEF RequestIsFirst, Unanswered
    <3>5. EntriesFit(id, a, b, f)'
      <4>1. EntriesFit(id, a, b, f)
        BY <1>8 DEF SessionInv
      <4>2. \A t \in m_sessions'[c] : t.id = id =>
              /\ t.feature = f
              /\ \/ c = a /\ t.peer = b /\ t.outgoing
                 \/ c = b /\ t.peer = a /\ ~t.outgoing
        BY <4>1, <1>2, <1>4 DEF EntriesFit
      <4>3. \A p \in Computer \ {c} : \A t \in m_sessions'[p] : t.id = id =>
              /\ t.feature = f
              /\ \/ p = a /\ t.peer = b /\ t.outgoing
                 \/ p = b /\ t.peer = a /\ ~t.outgoing
        BY <4>1, <1>2 DEF EntriesFit
      <4> QED BY <4>2, <4>3 DEF EntriesFit
    <3>6. Holds(a, id)' <=> Holds(a, id)
      <4>1. \A t \in S : \E s \in m_sessions[a] : t.id = s.id
        BY <3>1, <1>4
      <4>2. \A s \in m_sessions[a] : \E t \in S : t.id = s.id
        <5>1. \A s \in m_sessions[a] :
                IF s \in Accepted(c, m) THEN Activated(s) \in S ELSE s \in S
          BY <3>1
        <5> QED BY <5>1, <3>1, <1>3
      <4>3. m_sessions'[a] = S
        BY <3>1, <1>2
      <4> QED BY <4>1, <4>2, <4>3 DEF Holds
    <3>7. RequestIsFirst(id, a, b)'
      BY <3>2, <3>3, <3>4 DEF RequestIsFirst
    <3>8. Answered(id, a, b)
      BY <3>1 DEF Answered
    <3>9. AgreementHolds(id, a, b)'
      BY <3>2, <3>3, <3>8 DEF AgreementHolds, Agreed
    <3>10. EndsHold(id, a, b)'
      BY <3>2, <3>3, <3>6 DEF EndsHold
    <3>11. PauseHolds(id, a, b)'
      <4>1. IsActive(a, id)' => Holds(a, id)'
        BY DEF IsActive, Holds
      <4> QED BY <4>1, <3>1, <3>2, <3>3, <3>6 DEF PauseHolds, Paused
    <3> QED BY <3>3, <3>5, <3>7, <3>9, <3>10, <3>11 DEF SessionInv
  <2> QED BY <2>1, <2>2
<1>9. \A t \in S : ~t.outgoing =>
         \E u \in m_sessions[c] : u.id = t.id /\ u.peer = t.peer /\ ~u.outgoing
  BY <1>4
<1> QED BY <1>1, <1>6, <1>7, <1>8, <1>9, ReadingKeeps

LEMMA ReceiveKeeps ==
  ASSUME SessionsInv, NEW c \in Computer, receive(c)
  PROVE  SessionsInv'
<1> PICK m : m = Head(fromHub[c])
  OBVIOUS
<1>1. CASE m.op = "peers"
  BY <1>1, PeersKeep
<1>2. CASE m.op # "peers"
  <2>1. SessionTypeOK /\ fromHub[c] \in Seq(SessionMessage) /\ fromHub[c] # << >>
    BY TypesOfStreams DEF SessionsInv, receive
  <2>2. m.op \in {"open", "accept", "close"}
    BY <2>1, <1>2, ReadTail, Letters
  <2> DEFINE S == IF m.source \in m_peers[c] THEN Received(c, m) ELSE m_sessions[c]
  <2>3. Reads(c, S) /\ m_peers' = m_peers
    BY <1>2 DEF receive, Reads
  <2>4. CASE S = m_sessions[c]
    BY <1>2, <2>3, <2>4, ClosedKeeps
  <2>5. CASE m.source \in m_peers[c] /\ m.op = "open"
    <3>1. Received(c, m) = IF IsNew(c, m) THEN m_sessions[c] \cup {Incoming(m)} ELSE m_sessions[c]
      BY <2>5, WhatIsReceived
    <3>2. CASE IsNew(c, m)
      <4>1. S = m_sessions[c] \cup {Incoming(m)}
        BY <2>5, <3>1, <3>2
      <4> QED BY <4>1, <2>3, <2>5, <3>2, OpenedKeeps
    <3> QED BY <3>1, <3>2, <2>4
  <2>6. CASE m.source \in m_peers[c] /\ m.op = "close"
    <3>1. S = m_sessions[c] \ Matching(c, m)
      BY <2>6, WhatIsReceived
    <3> QED BY <3>1, <1>2, <2>3, <2>6, ClosedKeeps
  <2>7. CASE m.source \in m_peers[c] /\ m.op = "accept"
    <3>1. S = (m_sessions[c] \ Accepted(c, m)) \cup {Activated(s) : s \in Accepted(c, m)}
      BY <2>7, WhatIsReceived
    <3> QED BY <3>1, <2>3, <2>7, AcceptedKeeps
  <2> QED BY <2>2, <2>4, <2>5, <2>6, <2>7
<1> QED BY <1>1, <1>2

(***************************************************************************)
(* The server.                                                             *)
(***************************************************************************)
\* It takes a letter from a computer, and forwards it or not.
Takes(c, m) ==
  /\ toHub[c] # << >> /\ m = Head(toHub[c])
  /\ toHub' = [toHub EXCEPT ![c] = Tail(@)]
  /\ m_sessions' = m_sessions /\ m_peers' = m_peers /\ m_online' = m_online
  /\ known' = known /\ requested' = requested
Forwards(m) ==
  /\ m.op # "peers" /\ m.target \in m_online
  /\ fromHub' = [fromHub EXCEPT ![m.target] = Append(@, m)]

LEMMA TakingChanges ==
  ASSUME SessionTypeOK, NEW c \in Computer, NEW m, Takes(c, m)
  PROVE  /\ toHub[c] \in Seq(SessionMessage) /\ toHub[c] # << >> /\ m \in SessionMessage
         /\ toHub'[c] = Tail(toHub[c])
         /\ \A p \in Computer \ {c} : toHub'[p] = toHub[p]
         /\ m_sessions' = m_sessions /\ m_peers' = m_peers /\ m_online' = m_online
         /\ known' = known /\ requested' = requested
<1>1. toHub[c] \in Seq(SessionMessage) /\ toHub[c] # << >>
  BY TypesOfStreams DEF Takes
<1>2. m \in SessionMessage
  BY <1>1, ReadTail DEF Takes
<1> QED BY <1>1, <1>2 DEF Takes, SessionTypeOK

LEMMA ForwardingChanges ==
  ASSUME SessionTypeOK, NEW m \in SessionMessage, fromHub' = fromHub \/ Forwards(m)
  PROVE  /\ fromHub' \in [Computer -> Seq(SessionMessage)]
         /\ \A p \in Computer :
              \/ fromHub'[p] = fromHub[p]
              \/ /\ p = m.target /\ m.op # "peers" /\ p \in m_online
                 /\ fromHub'[p] = Append(fromHub[p], m)
<1>1. CASE fromHub' = fromHub
  BY <1>1 DEF SessionTypeOK
<1>2. CASE Forwards(m)
  <2>1. m.target \in Computer
    BY <1>2, Letters DEF Forwards
  <2>2. Append(fromHub[m.target], m) \in Seq(SessionMessage)
    BY <2>1, SentEnd, TypesOfStreams
  <2> QED BY <2>1, <2>2, <1>2 DEF Forwards, SessionTypeOK
<1> QED BY <1>1, <1>2

LEMMA ListsForwarded ==
  ASSUME SessionTypeOK, NEW p \in Computer, NEW m \in SessionMessage, m.op # "peers",
         fromHub'[p] = Append(fromHub[p], m), m_sessions' = m_sessions, ListsAreRight(p),
         \A id : NoRoute(id) /\ (Hosts(p, id) \/ Speaks(fromHub[p], "open", id)) => NoRoute(id)'
  PROVE  ListsAreRight(p)'
<1> PICK q : q = fromHub[p]
  OBVIOUS
<1> PICK r : r = Append(q, m)
  OBVIOUS
<1>1. q \in Seq(SessionMessage) /\ fromHub'[p] = r
  BY TypesOfStreams
<1>2. /\ Len(q) \in Nat /\ Len(r) = Len(q) + 1 /\ r[Len(q) + 1] = m
      /\ \A i \in 1 .. Len(q) : r[i] = q[i]
      /\ \A i \in 1 .. Len(q) + 1 : i \in 1 .. Len(q) \/ i = Len(q) + 1
  BY <1>1, SentEnd
<1>3. \A i \in 1 .. Len(q) : q[i].op = "peers" =>
        \A x \in Computer \ (q[i].peers \union {p}) :
          /\ \A s \in m_sessions[p] : s.peer = x /\ ~s.outgoing => NoRoute(s.id)
          /\ \A j \in 1 .. i - 1 : q[j].op = "open" /\ q[j].source = x => NoRoute(q[j].id)
  BY DEF ListsAreRight
<1>4. \A j \in 1 .. Len(q) : q[j].op = "open" /\ NoRoute(q[j].id) => NoRoute(q[j].id)'
  BY DEF Speaks
<1>5. \A s \in m_sessions[p] : ~s.outgoing /\ NoRoute(s.id) => NoRoute(s.id)'
  BY DEF Hosts
<1> SUFFICES ASSUME NEW i \in 1 .. Len(r), r[i].op = "peers",
                    NEW x \in Computer \ (r[i].peers \union {p})
             PROVE  /\ \A s \in m_sessions[p] : s.peer = x /\ ~s.outgoing => NoRoute(s.id)'
                    /\ \A j \in 1 .. i - 1 :
                         r[j].op = "open" /\ r[j].source = x => NoRoute(r[j].id)'
  BY <1>1 DEF ListsAreRight, NoRoute
<1>6. i \in 1 .. Len(q) /\ r[i] = q[i]
  BY <1>2
<1>7. \A s \in m_sessions[p] : s.peer = x /\ ~s.outgoing => NoRoute(s.id)'
  BY <1>3, <1>5, <1>6
<1>8. ASSUME NEW j \in 1 .. i - 1, r[j].op = "open" /\ r[j].source = x
      PROVE  NoRoute(r[j].id)'
  <2>1. j \in 1 .. Len(q)
    BY <1>6, <1>2
  <2>2. r[j] = q[j]
    BY <2>1, <1>2
  <2>3. NoRoute(q[j].id)
    BY <2>2, <1>3, <1>6, <1>8
  <2> QED BY <2>1, <2>2, <2>3, <1>4, <1>8
<1> QED BY <1>7, <1>8

LEMMA RoutingKeeps ==
  ASSUME SessionsInv, NEW c \in Computer, NEW m, Takes(c, m), fromHub' = fromHub \/ Forwards(m),
         m_routes' \subseteq SessionRoute,
         \A r, q \in m_routes' : r.id = q.id => r = q,
         \A r \in m_routes' : {r.source, r.target} \subseteq known,
         \A id : ~IsAbout(m, id) => About(m_routes', id) = About(m_routes, id),
         \A a, b \in Computer, f \in Feature :
           a # b /\ IsAbout(m, m.id) /\ SessionInv(m.id, a, b, f) => SessionInv(m.id, a, b, f)',
         \A p \in Computer : \A id :
           NoRoute(id) /\ (Hosts(p, id) \/ Speaks(fromHub[p], "open", id)) => NoRoute(id)'
  PROVE  SessionsInv'
<1>1. SessionTypeOK /\ PeersFit
  BY DEF SessionsInv
<1>2. /\ toHub[c] \in Seq(SessionMessage) /\ toHub[c] # << >> /\ m \in SessionMessage
      /\ toHub'[c] = Tail(toHub[c])
      /\ \A p \in Computer \ {c} : toHub'[p] = toHub[p]
      /\ m_sessions' = m_sessions /\ m_peers' = m_peers /\ m_online' = m_online
      /\ known' = known /\ requested' = requested
  BY <1>1, TakingChanges
<1>3. /\ fromHub' \in [Computer -> Seq(SessionMessage)]
      /\ \A p \in Computer :
           \/ fromHub'[p] = fromHub[p]
           \/ /\ p = m.target /\ m.op # "peers" /\ p \in m_online
              /\ fromHub'[p] = Append(fromHub[p], m)
  BY <1>1, <1>2, ForwardingChanges
<1>4. SessionTypeOK'
  <2>1. toHub' \in [Computer -> Seq(SessionMessage)]
    BY <1>1, <1>2, ReadTail DEF SessionTypeOK, Takes
  <2> QED BY <2>1, <1>1, <1>2, <1>3 DEF SessionTypeOK
<1>5. PeersFit'
  <2>1. ASSUME NEW p \in Computer
        PROVE  \A i \in 1 .. Len(fromHub'[p]) :
                 fromHub'[p][i].op = "peers" => p \notin fromHub'[p][i].peers
    <3>1. \A i \in 1 .. Len(fromHub[p]) :
            fromHub[p][i].op = "peers" => p \notin fromHub[p][i].peers
      BY <1>1 DEF PeersFit
    <3>2. CASE m.op # "peers" /\ fromHub'[p] = Append(fromHub[p], m)
      BY <3>1, <3>2, <1>1, <1>2, SentEnd, TypesOfStreams
    <3> QED BY <3>1, <3>2, <1>3
  <2>2. \A p \in Computer \ m_online : toHub'[p] = << >> /\ fromHub'[p] = << >>
    BY <1>1, <1>2, <1>3 DEF PeersFit
  <2> QED BY <2>1, <2>2, <1>1, <1>2 DEF PeersFit
<1>6. ASSUME NEW id, ~IsAbout(m, id)
      PROVE  /\ \A p \in Computer : About(m_sessions'[p], id) = About(m_sessions[p], id)
             /\ About(m_routes', id) = About(m_routes, id)
             /\ \A p \in Computer :
                  KeptIn(toHub[p], toHub'[p], id) /\ KeptIn(fromHub[p], fromHub'[p], id)
  <2>1. KeptIn(toHub[c], toHub'[c], id)
    BY <1>2, <1>6, QuietlyRead DEF Takes
  <2>2. \A p \in Computer : KeptIn(fromHub[p], fromHub'[p], id)
    <3> SUFFICES ASSUME NEW p \in Computer
                 PROVE  KeptIn(fromHub[p], fromHub'[p], id)
      OBVIOUS
    <3>1. CASE fromHub'[p] = fromHub[p]
      BY <3>1, KeptElsewhere
    <3>2. CASE fromHub'[p] = Append(fromHub[p], m)
      BY <3>2, <1>1, <1>2, <1>6, QuietlySent, TypesOfStreams
    <3> QED BY <3>1, <3>2, <1>3
  <2>3. \A p \in Computer : KeptIn(toHub[p], toHub'[p], id)
    BY <2>1, <1>2, KeptElsewhere
  <2> QED BY <2>2, <2>3, <1>2, <1>6
<1>7. ASSUME NEW id \in Session \ requested'
      PROVE  Unused(id)'
  <2>1. Unused(id)
    BY <1>2 DEF SessionsInv
  <2>2. ~IsAbout(m, id)
    <3>1. ~Mentions(toHub[c], id)
      BY <2>1 DEF Unused
    <3> QED BY <3>1, <1>2, Reading DEF Takes
  <2> QED BY <2>1, <2>2, <1>6, StaysUnused
<1>8. ASSUME NEW id \in requested'
      PROVE  \E a, b \in Computer, f \in Feature : a # b /\ SessionInv(id, a, b, f)'
  <2>1. PICK a \in Computer, b \in Computer, f \in Feature : a # b /\ SessionInv(id, a, b, f)
    BY <1>2 DEF SessionsInv
  <2>2. CASE IsAbout(m, id)
    BY <2>1, <2>2 DEF IsAbout
  <2>3. CASE ~IsAbout(m, id)
    <3>1. SessionInv(id, a, b, f)'
      BY <2>1, <2>3, <1>2, <1>6, NotAbout
    <3> QED BY <2>1, <3>1
  <2> QED BY <2>2, <2>3
<1>9. ASSUME NEW p \in Computer
      PROVE  ListsAreRight(p)'
  <2>1. ListsAreRight(p)
    BY DEF SessionsInv
  <2>2. CASE fromHub'[p] = fromHub[p]
    BY <2>1, <2>2, <1>1, <1>2, ListsStay, TypesOfStreams
  <2>3. CASE m.op # "peers" /\ fromHub'[p] = Append(fromHub[p], m)
    BY <2>1, <2>3, <1>1, <1>2, ListsForwarded
  <2> QED BY <2>2, <2>3, <1>3
<1> QED BY <1>4, <1>5, <1>7, <1>8, <1>9 DEF SessionsInv

\* What is known of a letter about a session that the server is to read.
LEMMA LetterTaken ==
  ASSUME SessionTypeOK, NEW c \in Computer, NEW m, Takes(c, m),
         NEW id, NEW a \in Computer, NEW b \in Computer, NEW f, a # b,
         SessionInv(id, a, b, f), IsAbout(m, id)
  PROVE  /\ m.feature = f /\ {m.source, m.target} = {a, b}
         /\ \/ c = a /\ m.source = a /\ m.target = b /\ m.op \in {"open", "close"}
            \/ c = b /\ m.source = b /\ m.target = a /\ m.op \in {"accept", "close"}
         /\ Speaks(toHub[c], m.op, id)
         /\ Mentions(toHub[c], id)
         /\ ~Speaks(toHub'[c], "open", id)
         /\ \A op \in {"open", "accept", "close"} :
              /\ Speaks(toHub'[c], op, id) => Speaks(toHub[c], op, id)
              /\ Speaks(toHub[c], op, id) => Speaks(toHub'[c], op, id) \/ m.op = op
         /\ Mentions(toHub'[c], id) => Mentions(toHub[c], id)
         /\ OpensFirst(toHub[c], id) => OpensFirst(toHub'[c], id)
         /\ \A p \in Computer \ {c} : toHub'[p] = toHub[p]
         /\ \A p \in Computer : /\ Holds(p, id)' <=> Holds(p, id)
                                /\ IsActive(p, id)' <=> IsActive(p, id)
         /\ m_online' = m_online /\ known' = known
         /\ EntriesFit(id, a, b, f)'
<1>1. /\ toHub[c] \in Seq(SessionMessage) /\ toHub[c] # << >> /\ m \in SessionMessage
      /\ toHub'[c] = Tail(toHub[c])
      /\ \A p \in Computer \ {c} : toHub'[p] = toHub[p]
      /\ m_sessions' = m_sessions /\ m_online' = m_online /\ known' = known
  BY TakingChanges
<1>2. m = Head(toHub[c]) /\ m = toHub[c][1] /\ 1 \in 1 .. Len(toHub[c])
  BY <1>1, ReadTail DEF Takes
<1>3. Fits(m, c, Other(c, a, b), id, a, b, f)
  BY <1>2 DEF SessionInv, LettersFit, FitIn
<1>4. /\ m.feature = f
      /\ \/ c = a /\ m.source = a /\ m.target = b /\ m.op \in {"open", "close"}
         \/ c = b /\ m.source = b /\ m.target = a /\ m.op \in {"accept", "close"}
  BY <1>3 DEF Fits
<1>5. {m.source, m.target} = {a, b}
  BY <1>4
<1>6. /\ Speaks(toHub[c], m.op, id) /\ Mentions(toHub[c], id)
      /\ \A op \in {"open", "accept", "close"} :
           /\ Speaks(toHub'[c], op, id) => Speaks(toHub[c], op, id)
           /\ Speaks(toHub[c], op, id) => Speaks(toHub'[c], op, id) \/ m.op = op
      /\ Mentions(toHub'[c], id) => Mentions(toHub[c], id)
      /\ OpensFirst(toHub[c], id) => OpensFirst(toHub'[c], id) /\ ~Speaks(toHub'[c], "open", id)
  <2>1. /\ \A op : Speaks(toHub[c], op, id) <=>
                     Speaks(toHub'[c], op, id) \/ (m.op = op /\ m.id = id)
        /\ Mentions(toHub[c], id) <=> Mentions(toHub'[c], id) \/ IsAbout(m, id)
        /\ OpensFirst(toHub[c], id) =>
             /\ OpensFirst(toHub'[c], id)
             /\ IsAbout(m, id) => ~Speaks(toHub'[c], "open", id)
    BY <1>1, <1>2, Reading
  <2>2. m.id = id
    BY DEF IsAbout
  <2> QED BY <2>1, <2>2
<1>7. ~Speaks(toHub'[c], "open", id)
  <2>1. OpensFirst(toHub[a], id)
    BY DEF SessionInv, RequestIsFirst
  <2>2. CASE c = a
    BY <2>1, <2>2, <1>6
  <2>3. CASE c = b
    <3>1. \A i \in 1 .. Len(toHub[b]) : Fits(toHub[b][i], b, Other(b, a, b), id, a, b, f)
      BY DEF SessionInv, LettersFit, FitIn
    <3>2. ~Speaks(toHub[b], "open", id)
      BY <3>1 DEF Fits, IsAbout, Speaks, Other
    <3> QED BY <2>3, <3>2, <1>6
  <2> QED BY <2>2, <2>3, <1>4
<1>8. \A p \in Computer : /\ Holds(p, id)' <=> Holds(p, id)
                          /\ IsActive(p, id)' <=> IsActive(p, id)
  BY <1>1 DEF Holds, IsActive
<1>9. EntriesFit(id, a, b, f)'
  BY <1>1 DEF SessionInv, EntriesFit
<1> QED BY <1>1, <1>4, <1>5, <1>6, <1>7, <1>8, <1>9

\* Letters stay consistent.
LEMMA LettersTaken ==
  ASSUME SessionTypeOK, NEW c \in Computer, NEW m, Takes(c, m),
         NEW id, NEW a \in Computer, NEW b \in Computer, NEW f, a # b,
         SessionInv(id, a, b, f), IsAbout(m, id), fromHub' = fromHub \/ Forwards(m)
  PROVE  LettersFit(id, a, b, f)'
<1>1. /\ toHub[c] \in Seq(SessionMessage) /\ toHub[c] # << >> /\ m \in SessionMessage
      /\ toHub'[c] = Tail(toHub[c])
      /\ \A p \in Computer \ {c} : toHub'[p] = toHub[p]
  BY TakingChanges
<1>2. \A p \in Computer :
        \/ fromHub'[p] = fromHub[p]
        \/ p = m.target /\ fromHub'[p] = Append(fromHub[p], m)
  BY <1>1, ForwardingChanges
<1>3. /\ m.feature = f
      /\ \/ c = a /\ m.source = a /\ m.target = b /\ m.op \in {"open", "close"}
         \/ c = b /\ m.source = b /\ m.target = a /\ m.op \in {"accept", "close"}
  BY LetterTaken
<1>4. LettersFit(id, a, b, f)
  BY DEF SessionInv
<1>5. \A p \in Computer : FitIn(toHub'[p], p, Other(p, a, b), id, a, b, f)
  <2>1. FitIn(Tail(toHub[c]), c, Other(c, a, b), id, a, b, f)
    BY <1>1, <1>4, ReadTail DEF LettersFit, FitIn
  <2> QED BY <2>1, <1>1, <1>4 DEF LettersFit
<1>6. ASSUME NEW p \in Computer
      PROVE  FitIn(fromHub'[p], Other(p, a, b), p, id, a, b, f)
  <2>1. CASE fromHub'[p] = fromHub[p]
    BY <2>1, <1>4 DEF LettersFit
  <2>2. CASE p = m.target /\ fromHub'[p] = Append(fromHub[p], m)
    <3>1. Fits(m, Other(p, a, b), p, id, a, b, f)
      BY <2>2, <1>3 DEF Fits, Other
    <3>2. FitIn(fromHub[p], Other(p, a, b), p, id, a, b, f)
      BY <1>4 DEF LettersFit
    <3>3. fromHub[p] \in Seq(SessionMessage) /\ m \in SessionMessage
      BY <1>1, TypesOfStreams
    <3>4. ASSUME NEW i \in 1 .. Len(fromHub'[p])
          PROVE  Fits(fromHub'[p][i], Other(p, a, b), p, id, a, b, f)
      <4>1. CASE i \in 1 .. Len(fromHub[p])
        BY <2>2, <3>2, <3>3, <4>1, SentEnd DEF FitIn
      <4>2. CASE i = Len(fromHub[p]) + 1
        BY <2>2, <3>1, <3>3, <4>2, SentEnd
      <4> QED BY <2>2, <3>3, <4>1, <4>2, SentEnd
    <3> QED BY <3>4 DEF FitIn
  <2> QED BY <2>1, <2>2, <1>2
<1> QED BY <1>5, <1>6 DEF LettersFit

LEMMA DroppedKeeps ==
  ASSUME SessionsInv, NEW c \in Computer, NEW m, Takes(c, m), fromHub' = fromHub,
         m_routes' = m_routes,
         m.target \notin known \/ ~Passes(m)
  PROVE  SessionsInv'
<1>1. SessionTypeOK
  BY DEF SessionsInv
<1>2. ASSUME NEW id, NEW a \in Computer, NEW b \in Computer, NEW f \in Feature,
             a # b, IsAbout(m, id), SessionInv(id, a, b, f)
      PROVE  SessionInv(id, a, b, f)'
  <2>1. /\ m.feature = f /\ {m.source, m.target} = {a, b}
        /\ \/ c = a /\ m.source = a /\ m.target = b /\ m.op \in {"open", "close"}
           \/ c = b /\ m.source = b /\ m.target = a /\ m.op \in {"accept", "close"}
        /\ ~Speaks(toHub'[c], "open", id)
        /\ \A op \in {"open", "accept", "close"} :
             /\ Speaks(toHub'[c], op, id) => Speaks(toHub[c], op, id)
             /\ Speaks(toHub[c], op, id) => Speaks(toHub'[c], op, id) \/ m.op = op
        /\ Mentions(toHub'[c], id) => Mentions(toHub[c], id)
        /\ OpensFirst(toHub[c], id) => OpensFirst(toHub'[c], id)
        /\ \A p \in Computer \ {c} : toHub'[p] = toHub[p]
        /\ \A p \in Computer : /\ Holds(p, id)' <=> Holds(p, id)
                               /\ IsActive(p, id)' <=> IsActive(p, id)
        /\ m_online' = m_online /\ known' = known
        /\ EntriesFit(id, a, b, f)'
    BY <1>1, <1>2, LetterTaken
  <2>2. LettersFit(id, a, b, f)'
    BY <1>1, <1>2, LettersTaken
  <2>3. /\ NoRoute(id)' <=> NoRoute(id)
        /\ HasLease(id)' <=> HasLease(id)
        /\ RoutesFit(id, a, b, f)'
    BY <1>2 DEF NoRoute, HasLease, SessionInv, RoutesFit
  <2>4. RequestIsFirst(id, a, b) /\ AgreementHolds(id, a, b)
          /\ EndsHold(id, a, b) /\ PauseHolds(id, a, b)
    BY <1>2 DEF SessionInv
  <2>5. m.op = "close" => NoRoute(id)
    <3> SUFFICES ASSUME m.op = "close", NEW r \in m_routes, r.id = id
                 PROVE  FALSE
      BY DEF NoRoute
    <3>1. r.source = a /\ r.target = b /\ r.feature = f
      BY <1>2 DEF SessionInv, RoutesFit
    <3>2. m.target \in known
      BY <3>1, <2>1, <1>1 DEF SessionTypeOK
    <3>3. r \in RouteOf(m)
      BY <3>1, <2>1, <1>2 DEF RouteOf, IsAbout
    <3> QED BY <3>2, <3>3 DEF Passes
  <2>6. \A op \in {"open", "accept", "close"} : \A p \in {a, b} :
          Speaks(toHub'[p], op, id) => Speaks(toHub[p], op, id)
    BY <2>1
  <2>7. Speaks(toHub[b], "close", id) => Speaks(toHub'[b], "close", id) \/ NoRoute(id)
    <3>1. CASE c = a
      BY <3>1, <2>1, <1>2
    <3>2. CASE c = b
      BY <3>2, <2>1, <2>5
    <3> QED BY <3>1, <3>2, <2>1
  <2>8. RequestIsFirst(id, a, b)'
    BY <1>2, <2>1, <2>3, <2>4 DEF RequestIsFirst, Unanswered
  <2>9. AgreementHolds(id, a, b)'
    BY <1>2, <2>1, <2>3, <2>4, <2>6, <2>7 DEF AgreementHolds, Answered, Agreed
  <2>10. EndsHold(id, a, b)'
    BY <1>2, <2>1, <2>3, <2>4, <2>6 DEF EndsHold
  <2>11. PauseHolds(id, a, b)'
    BY <1>2, <2>1, <2>3, <2>4 DEF PauseHolds, Paused
  <2> QED BY <2>1, <2>2, <2>3, <2>8, <2>9, <2>10, <2>11 DEF SessionInv
<1>3. /\ m_routes' \subseteq SessionRoute
      /\ \A r, q \in m_routes' : r.id = q.id => r = q
      /\ \A r \in m_routes' : {r.source, r.target} \subseteq known
      /\ \A id : About(m_routes', id) = About(m_routes, id)
      /\ \A id : NoRoute(id) => NoRoute(id)'
  BY <1>1 DEF SessionTypeOK, NoRoute
<1> QED BY <1>2, <1>3, RoutingKeeps

LEMMA ForwardedLetters ==
  ASSUME SessionTypeOK, NEW m \in SessionMessage, fromHub' = fromHub \/ Forwards(m),
         NEW id, NEW p \in Computer, IsAbout(m, id)
  PROVE  /\ p # m.target => fromHub'[p] = fromHub[p]
         /\ \A op \in {"open", "accept", "close"} :
              op # m.op => (Speaks(fromHub'[p], op, id) <=> Speaks(fromHub[p], op, id))
         /\ OpensOnce(fromHub[p], id) /\ (m.op = "open" => ~Speaks(fromHub[p], "open", id)) =>
              OpensOnce(fromHub'[p], id)
<1>1. fromHub[p] \in Seq(SessionMessage)
  BY TypesOfStreams
<1>2. \/ fromHub'[p] = fromHub[p]
      \/ p = m.target /\ fromHub'[p] = Append(fromHub[p], m)
  BY ForwardingChanges
<1>3. CASE fromHub'[p] = fromHub[p]
  BY <1>3
<1>4. CASE p = m.target /\ fromHub'[p] = Append(fromHub[p], m)
  <2>1. /\ \A op : Speaks(fromHub'[p], op, id) <=>
                     Speaks(fromHub[p], op, id) \/ (m.op = op /\ m.id = id)
        /\ OpensOnce(fromHub[p], id)
           /\ (m.op = "open" /\ m.id = id => ~Speaks(fromHub[p], "open", id)) =>
             OpensOnce(fromHub'[p], id)
    BY <1>1, <1>4, Sending
  <2> QED BY <2>1, <1>4
<1> QED BY <1>2, <1>3, <1>4

\* A session that a letter is about.
LEMMA WhoseLetter ==
  ASSUME SessionsInv, NEW c \in Computer, NEW m, Takes(c, m), m.op # "peers"
  PROVE  /\ m \in SessionMessage /\ m.id \in requested /\ m.id \in Session /\ c \in known
         /\ \E a, b \in Computer, f \in Feature : a # b /\ SessionInv(m.id, a, b, f)
<1>1. SessionTypeOK /\ PeersFit
  BY DEF SessionsInv
<1>2. /\ toHub[c] \in Seq(SessionMessage) /\ toHub[c] # << >> /\ m \in SessionMessage
  BY <1>1, TakingChanges
<1>3. m.id \in Session
  BY <1>2, Letters
<1>4. Mentions(toHub[c], m.id)
  BY <1>2, Reading DEF Takes, IsAbout
<1>5. m.id \in requested
  BY <1>3, <1>4 DEF SessionsInv, Unused
<1>6. c \in known
  BY <1>1, <1>2 DEF PeersFit, SessionTypeOK
<1> QED BY <1>2, <1>3, <1>5, <1>6 DEF SessionsInv

LEMMA OpenRoutedKeeps ==
  ASSUME SessionsInv, NEW c \in Computer, NEW m, Takes(c, m), fromHub' = fromHub \/ Forwards(m),
         m.op = "open", m.target \in known, \A r \in m_routes : r.id # m.id,
         m_routes' = m_routes \cup {NewRoute(m)}
  PROVE  SessionsInv'
<1>1. SessionTypeOK
  BY DEF SessionsInv
<1>2. m \in SessionMessage /\ m.id \in Session /\ c \in known
  BY WhoseLetter
<1>3. PICK a0 \in Computer, b0 \in Computer, f0 \in Feature :
           a0 # b0 /\ SessionInv(m.id, a0, b0, f0)
  BY WhoseLetter
<1>4. IsAbout(m, m.id)
  BY DEF IsAbout
<1>5. m.source = c /\ m.source \in Computer /\ m.target \in Computer /\ m.feature \in Feature
  BY <1>1, <1>2, <1>3, <1>4, LetterTaken, Letters
<1>6. /\ NewRoute(m) \in SessionRoute /\ NewRoute(m).id = m.id
      /\ NewRoute(m).source = m.source /\ NewRoute(m).target = m.target
      /\ NewRoute(m).feature = m.feature /\ NewRoute(m).accepted = FALSE
  BY <1>2, <1>5 DEF NewRoute, SessionRoute
<1>7. /\ m_routes' \subseteq SessionRoute
      /\ \A r, q \in m_routes' : r.id = q.id => r = q
      /\ \A r \in m_routes' : {r.source, r.target} \subseteq known
      /\ \A id : id # m.id => About(m_routes', id) = About(m_routes, id)
      /\ \A id : id # m.id /\ NoRoute(id) => NoRoute(id)'
  <2>1. \A r, q \in m_routes' : r.id = q.id => r = q
    BY <1>1, <1>6 DEF SessionTypeOK
  <2>2. \A r \in m_routes' : {r.source, r.target} \subseteq known
    BY <1>1, <1>2, <1>5, <1>6 DEF SessionTypeOK
  <2>3. \A id : id # m.id => About(m_routes', id) = About(m_routes, id)
    BY <1>6 DEF About
  <2> QED BY <2>1, <2>2, <2>3, <1>1, <1>6 DEF SessionTypeOK, NoRoute
<1>8. ASSUME NEW a \in Computer, NEW b \in Computer, NEW f \in Feature,
             a # b, SessionInv(m.id, a, b, f)
      PROVE  /\ SessionInv(m.id, a, b, f)'
             /\ \A p \in Computer : ~Hosts(p, m.id) /\ ~Speaks(fromHub[p], "open", m.id)
  <2> PICK id : id = m.id
    OBVIOUS
  <2>1. /\ m.feature = f
        /\ c = a /\ m.source = a /\ m.target = b
        /\ Speaks(toHub[a], "open", id)
        /\ ~Speaks(toHub'[a], "open", id)
        /\ \A op \in {"open", "accept", "close"} :
             Speaks(toHub'[a], op, id) => Speaks(toHub[a], op, id)
        /\ OpensFirst(toHub[a], id) => OpensFirst(toHub'[a], id)
        /\ \A p \in Computer \ {c} : toHub'[p] = toHub[p]
        /\ \A p \in Computer : /\ Holds(p, id)' <=> Holds(p, id)
                               /\ IsActive(p, id)' <=> IsActive(p, id)
        /\ m_online' = m_online /\ known' = known
        /\ EntriesFit(id, a, b, f)'
    <3>1. SessionInv(id, a, b, f) /\ IsAbout(m, id)
      BY <1>4, <1>8
    <3> QED BY <3>1, <1>1, <1>8, LetterTaken
  <2>2. LettersFit(id, a, b, f)'
    BY <1>1, <1>4, <1>8, LettersTaken
  <2>3. RequestIsFirst(id, a, b) /\ AgreementHolds(id, a, b)
          /\ EndsHold(id, a, b) /\ PauseHolds(id, a, b)
    BY <1>8 DEF SessionInv
  <2>4. /\ ~Holds(b, id) /\ ~IsActive(a, id) /\ ~Mentions(toHub[b], id) /\ ~Mentions(fromHub[a], id)
        /\ ~Mentions(fromHub[b], id)
    BY <2>1, <2>3 DEF RequestIsFirst, Unanswered
  <2>5. /\ ~Speaks(toHub[b], "accept", id) /\ ~Speaks(fromHub[a], "accept", id)
        /\ \A op \in {"open", "accept", "close"} : ~Speaks(fromHub[b], op, id)
        /\ ~Speaks(fromHub[a], "close", id)
    BY <2>4, SpokenIsMentioned
  <2>6. /\ fromHub'[a] = fromHub[a]
        /\ ~Speaks(fromHub'[b], "accept", id) /\ ~Speaks(fromHub'[b], "close", id)
        /\ OpensOnce(fromHub[b], id) => OpensOnce(fromHub'[b], id)
    BY <2>1, <2>5, <1>1, <1>2, <1>4, <1>8, ForwardedLetters
  <2>7. RoutesFit(id, a, b, f)'
    BY <2>1, <1>6 DEF RoutesFit
  <2>8. RequestIsFirst(id, a, b)'
    BY <1>8, <2>1, <2>3, <2>4, <2>6 DEF RequestIsFirst, Unanswered
  <2>9. AgreementHolds(id, a, b)'
    BY <1>8, <2>1, <2>4, <2>5, <2>6 DEF AgreementHolds, Answered
  <2>10. EndsHold(id, a, b)'
    BY <1>8, <2>1, <2>3, <2>5, <2>6 DEF EndsHold
  <2>11. PauseHolds(id, a, b)'
    BY <1>8, <2>1, <2>4, <2>5, <2>6 DEF PauseHolds
  <2>12. \A p \in Computer : ~Hosts(p, id) /\ ~Speaks(fromHub[p], "open", id)
    <3>1. \A p \in Computer : ~Hosts(p, id)
      BY <1>8, <2>4 DEF SessionInv, EntriesFit, Hosts, Holds
    <3>2. ASSUME NEW p \in Computer, p # b
          PROVE  ~Speaks(fromHub[p], "open", id)
      <4>1. \A i \in 1 .. Len(fromHub[p]) : Fits(fromHub[p][i], Other(p, a, b), p, id, a, b, f)
        BY <1>8 DEF SessionInv, LettersFit, FitIn
      <4> QED BY <4>1, <3>2 DEF Fits, IsAbout, Speaks
    <3> QED BY <3>1, <3>2, <2>5
  <2> QED BY <2>1, <2>2, <2>7, <2>8, <2>9, <2>10, <2>11, <2>12 DEF SessionInv
<1>9. \A id : ~IsAbout(m, id) => id # m.id
  BY <1>4
<1>10. \A p \in Computer : \A id :
         NoRoute(id) /\ (Hosts(p, id) \/ Speaks(fromHub[p], "open", id)) => NoRoute(id)'
  BY <1>3, <1>7, <1>8
<1> QED BY <1>7, <1>8, <1>9, <1>10, RoutingKeeps

LEMMA CloseRoutedKeeps ==
  ASSUME SessionsInv, NEW c \in Computer, NEW m, Takes(c, m), fromHub' = fromHub \/ Forwards(m),
         m.op = "close", m_routes' = m_routes \ RouteOf(m),
         (\E r \in m_routes : r.id = m.id) => RouteOf(m) # {}
  PROVE  SessionsInv'
<1>1. SessionTypeOK
  BY DEF SessionsInv
<1>2. m \in SessionMessage
  BY WhoseLetter
<1>3. IsAbout(m, m.id)
  BY DEF IsAbout
<1>4. /\ m_routes' \subseteq SessionRoute
      /\ \A r, q \in m_routes' : r.id = q.id => r = q
      /\ \A r \in m_routes' : {r.source, r.target} \subseteq known
      /\ \A id : id # m.id => About(m_routes', id) = About(m_routes, id)
      /\ \A id : NoRoute(id) => NoRoute(id)'
  <2>1. \A id : id # m.id => About(m_routes', id) = About(m_routes, id)
    BY DEF About, RouteOf
  <2> QED BY <2>1, <1>1 DEF SessionTypeOK, NoRoute
<1>5. NoRoute(m.id)'
  <2>1. \A r, q \in m_routes : r.id = q.id => r = q
    BY <1>1 DEF SessionTypeOK
  <2> QED BY <2>1 DEF NoRoute, RouteOf
<1>6. ASSUME NEW a \in Computer, NEW b \in Computer, NEW f \in Feature,
             a # b, SessionInv(m.id, a, b, f)
      PROVE  SessionInv(m.id, a, b, f)'
  <2> PICK id : id = m.id
    OBVIOUS
  <2>1. SessionInv(id, a, b, f) /\ IsAbout(m, id) /\ NoRoute(id)'
    BY <1>3, <1>5, <1>6
  <2>2. /\ \/ c = a /\ m.target = b
           \/ c = b /\ m.target = a
        /\ Speaks(toHub[c], "close", id) /\ Mentions(toHub[c], id)
        /\ ~Speaks(toHub'[c], "open", id)
        /\ \A op \in {"open", "accept", "close"} :
             Speaks(toHub'[c], op, id) => Speaks(toHub[c], op, id)
        /\ OpensFirst(toHub[c], id) => OpensFirst(toHub'[c], id)
        /\ \A p \in Computer \ {c} : toHub'[p] = toHub[p]
        /\ \A p \in Computer : /\ Holds(p, id)' <=> Holds(p, id)
                               /\ IsActive(p, id)' <=> IsActive(p, id)
        /\ Mentions(toHub'[c], id) => Mentions(toHub[c], id)
        /\ m_online' = m_online /\ known' = known
        /\ EntriesFit(id, a, b, f)'
    BY <2>1, <1>1, <1>6, LetterTaken
  <2>3. LettersFit(id, a, b, f)'
    BY <2>1, <1>1, <1>6, LettersTaken
  <2>4. RequestIsFirst(id, a, b) /\ AgreementHolds(id, a, b)
          /\ EndsHold(id, a, b) /\ PauseHolds(id, a, b)
    BY <2>1 DEF SessionInv
  <2>5. /\ \A p \in {a, b} : /\ p # m.target => fromHub'[p] = fromHub[p]
                             /\ Speaks(fromHub'[p], "open", id) <=> Speaks(fromHub[p], "open", id)
                             /\ Speaks(fromHub'[p], "accept", id) <=>
                                    Speaks(fromHub[p], "accept", id)
                             /\ OpensOnce(fromHub[p], id) => OpensOnce(fromHub'[p], id)
    BY <2>1, <1>1, <1>2, <1>6, ForwardedLetters
  <2>6. RoutesFit(id, a, b, f)'
    BY <2>1 DEF RoutesFit, NoRoute
  <2>7. ~Speaks(toHub'[a], "open", id)
    <3>1. CASE c = a
      BY <3>1, <2>2
    <3>2. CASE c = b
      BY <3>2, <2>2, <2>4, <1>6 DEF RequestIsFirst, Unanswered
    <3> QED BY <3>1, <3>2, <2>2
  <2>8. Speaks(fromHub'[b], "open", id) => Unanswered(id, a, b)'
    <3>1. CASE c = a
      BY <3>1, <2>2, <2>4, <2>5, <1>6 DEF RequestIsFirst, Unanswered
    <3>2. CASE c = b
      BY <3>2, <2>2, <2>4, <2>5, <1>6 DEF RequestIsFirst, Unanswered
    <3> QED BY <3>1, <3>2, <2>2
  <2>9. RequestIsFirst(id, a, b)'
    <3>1. OpensFirst(toHub'[a], id)
      BY <2>2, <2>4, <1>6 DEF RequestIsFirst
    <3>2. OpensOnce(fromHub'[b], id)
      BY <2>4, <2>5 DEF RequestIsFirst
    <3> QED BY <3>1, <3>2, <2>7, <2>8 DEF RequestIsFirst
  <2>10. Answered(id, a, b)' => Answered(id, a, b)
    BY <1>6, <2>2, <2>5 DEF Answered
  <2>11. AgreementHolds(id, a, b)'
    BY <2>1, <2>2, <2>4, <2>10 DEF AgreementHolds, Agreed
  <2>12. EndsHold(id, a, b)'
    <3>1. \A p \in {a, b} : Speaks(toHub'[p], "close", id) => Speaks(toHub[p], "close", id)
      BY <2>2, <1>6
    <3> QED BY <3>1, <2>1, <2>2, <2>4, <1>6 DEF EndsHold
  <2>13. PauseHolds(id, a, b)'
    <3>1. ~Holds(c, id)
      BY <2>2, <2>4, <1>6 DEF EndsHold
    <3>2. ~IsActive(c, id)
      BY <3>1 DEF IsActive, Holds
    <3> QED BY <3>1, <3>2, <2>2, <1>6 DEF PauseHolds, Paused
  <2> QED BY <2>1, <2>2, <2>3, <2>6, <2>9, <2>11, <2>12, <2>13 DEF SessionInv
<1>7. \A id : ~IsAbout(m, id) => id # m.id
  BY <1>3
<1> QED BY <1>4, <1>6, <1>7, RoutingKeeps

LEMMA AcceptRoutedKeeps ==
  ASSUME SessionsInv, NEW c \in Computer, NEW m, Takes(c, m), fromHub' = fromHub \/ Forwards(m),
         m.op = "accept", AcceptsRoute(m),
         m_routes' = (m_routes \ RouteOf(m)) \cup {[r EXCEPT !.accepted = TRUE] : r \in RouteOf(m)}
  PROVE  SessionsInv'
<1>1. SessionTypeOK
  BY DEF SessionsInv
<1>2. m \in SessionMessage
  BY WhoseLetter
<1>3. IsAbout(m, m.id)
  BY DEF IsAbout
<1>4. PICK r0 \in m_routes : r0 \in RouteOf(m) /\ r0.id = m.id
  BY DEF AcceptsRoute, RouteOf
<1>5. \A r, q \in m_routes : r.id = q.id => r = q
  BY <1>1 DEF SessionTypeOK
<1>6. RouteOf(m) = {r0}
  BY <1>4, <1>5 DEF RouteOf
<1> PICK r1 : r1 = [r0 EXCEPT !.accepted = TRUE]
  OBVIOUS
<1>7. m_routes' = (m_routes \ {r0}) \cup {r1}
  BY <1>6
<1>8. /\ r0 \in SessionRoute /\ r1 \in SessionRoute /\ r1.id = m.id /\ r1.accepted = TRUE
      /\ r1.source = r0.source /\ r1.target = r0.target /\ r1.feature = r0.feature
  <2>1. r0 \in SessionRoute
    BY <1>1, <1>4 DEF SessionTypeOK
  <2> QED BY <2>1, <1>4 DEF SessionRoute
<1>9. /\ m_routes' \subseteq SessionRoute
      /\ \A r, q \in m_routes' : r.id = q.id => r = q
      /\ \A r \in m_routes' : {r.source, r.target} \subseteq known
      /\ \A id : id # m.id => About(m_routes', id) = About(m_routes, id)
      /\ \A id : NoRoute(id) => NoRoute(id)'
  <2>1. \A r, q \in m_routes' : r.id = q.id => r = q
    <3>1. \A r \in m_routes \ {r0} : r.id # m.id
      BY <1>4, <1>5
    <3>2. \A r \in m_routes' : r = r1 \/ (r \in m_routes /\ r.id # m.id)
      BY <3>1, <1>7
    <3> SUFFICES ASSUME NEW r \in m_routes', NEW q \in m_routes', r.id = q.id
                 PROVE  r = q
      OBVIOUS
    <3>3. CASE r = r1 \/ q = r1
      BY <3>2, <3>3, <1>8
    <3>4. CASE r # r1 /\ q # r1
      BY <3>2, <3>4, <1>5
    <3> QED BY <3>3, <3>4
  <2>2. \A r \in m_routes' : {r.source, r.target} \subseteq known
    <3>1. {r0.source, r0.target} \subseteq known
      BY <1>1, <1>4 DEF SessionTypeOK
    <3>2. \A r \in m_routes : {r.source, r.target} \subseteq known
      BY <1>1 DEF SessionTypeOK
    <3>3. {r1.source, r1.target} \subseteq known
      BY <3>1, <1>8
    <3> QED BY <3>2, <3>3, <1>7
  <2>3. \A id : id # m.id => About(m_routes', id) = About(m_routes, id)
    BY <1>4, <1>7, <1>8 DEF About
  <2>4. \A id : NoRoute(id) => NoRoute(id)'
    BY <1>4, <1>7, <1>8 DEF NoRoute
  <2> QED BY <2>1, <2>2, <2>3, <2>4, <1>1, <1>7, <1>8 DEF SessionTypeOK
<1>10. ASSUME NEW a \in Computer, NEW b \in Computer, NEW f \in Feature,
              a # b, SessionInv(m.id, a, b, f)
       PROVE  SessionInv(m.id, a, b, f)'
  <2> PICK id : id = m.id
    OBVIOUS
  <2>1. SessionInv(id, a, b, f) /\ IsAbout(m, id)
    BY <1>3, <1>10
  <2>2. /\ c = b /\ m.target = a
        /\ Speaks(toHub[b], "accept", id) /\ Mentions(toHub[b], id)
        /\ \A op \in {"open", "accept", "close"} :
             /\ Speaks(toHub'[b], op, id) => Speaks(toHub[b], op, id)
             /\ Speaks(toHub[b], op, id) => Speaks(toHub'[b], op, id) \/ m.op = op
        /\ \A p \in Computer \ {c} : toHub'[p] = toHub[p]
        /\ \A p \in Computer : /\ Holds(p, id)' <=> Holds(p, id)
                               /\ IsActive(p, id)' <=> IsActive(p, id)
        /\ m_online' = m_online /\ known' = known
        /\ EntriesFit(id, a, b, f)'
    BY <2>1, <1>1, <1>10, LetterTaken
  <2>3. LettersFit(id, a, b, f)'
    BY <2>1, <1>1, <1>10, LettersTaken
  <2>4. RequestIsFirst(id, a, b) /\ AgreementHolds(id, a, b)
          /\ EndsHold(id, a, b) /\ PauseHolds(id, a, b)
    BY <2>1 DEF SessionInv
  <2>5. /\ fromHub'[b] = fromHub[b]
        /\ Speaks(fromHub'[a], "close", id) <=> Speaks(fromHub[a], "close", id)
    BY <2>1, <2>2, <1>1, <1>2, <1>10, ForwardedLetters
  <2>6. NoRoute(id)' <=> NoRoute(id)
    BY <1>4, <1>7, <1>8, <2>1 DEF NoRoute
  <2>7. HasLease(id)'
    BY <1>7, <1>8 DEF HasLease
  <2>8. RoutesFit(id, a, b, f)'
    BY <1>4, <1>7, <1>8, <2>1 DEF SessionInv, RoutesFit
  <2>9. ~Speaks(toHub[a], "open", id) /\ ~Speaks(fromHub[b], "open", id)
    BY <2>2, <2>4 DEF RequestIsFirst, Unanswered
  <2>10. RequestIsFirst(id, a, b)'
    BY <1>10, <2>2, <2>4, <2>5, <2>9 DEF RequestIsFirst
  <2>11. Answered(id, a, b)
    BY <2>2 DEF Answered
  <2>12. AgreementHolds(id, a, b)'
    BY <2>2, <2>4, <2>6, <2>11 DEF AgreementHolds, Agreed
  <2>13. EndsHold(id, a, b)'
    BY <1>10, <2>2, <2>4, <2>5, <2>6 DEF EndsHold
  <2>14. PauseHolds(id, a, b)'
    BY <2>7 DEF PauseHolds, Paused
  <2> QED BY <2>2, <2>3, <2>8, <2>10, <2>12, <2>13, <2>14 DEF SessionInv
<1>11. \A id : ~IsAbout(m, id) => id # m.id
  BY <1>3
<1> QED BY <1>9, <1>10, <1>11, RoutingKeeps

LEMMA RouteProfessionalKeeps ==
  ASSUME SessionsInv, NEW c \in Computer, routeProfessional(c)
  PROVE  SessionsInv'
<1> PICK m : m = Head(toHub[c])
  OBVIOUS
<1>1. Takes(c, m)
  BY DEF routeProfessional, Takes
<1>2. CASE (m.target \notin known \/ ~Passes(m)) /\ m_routes' = m_routes /\ fromHub' = fromHub
  BY <1>1, <1>2, DroppedKeeps
<1>3. CASE /\ m.target \in known /\ Passes(m) /\ m_routes' = Routes(m)
           /\ IF m.target \in m_online
                THEN /\ HasRoomFor(fromHub[m.target])
                     /\ fromHub' = [fromHub EXCEPT ![m.target] = Append(@, m)]
                ELSE UNCHANGED fromHub
  <2>1. m.op # "peers" /\ m.op \in {"open", "close", "accept"}
    BY <1>3 DEF Passes
  <2>2. fromHub' = fromHub \/ Forwards(m)
    BY <1>3, <2>1 DEF Forwards
  <2>3. CASE m.op = "open"
    <3>1. m_routes' = m_routes \cup {NewRoute(m)} /\ \A r \in m_routes : r.id # m.id
      BY <1>3, <2>3, WhatIsRouted DEF Passes
    <3> QED BY <3>1, <1>1, <1>3, <2>2, <2>3, OpenRoutedKeeps
  <2>4. CASE m.op = "close"
    <3>1. m_routes' = m_routes \ RouteOf(m)
            /\ ((\E r \in m_routes : r.id = m.id) => RouteOf(m) # {})
      BY <1>3, <2>4, WhatIsRouted DEF Passes
    <3> QED BY <3>1, <1>1, <2>2, <2>4, CloseRoutedKeeps
  <2>5. CASE m.op = "accept"
    <3>1. /\ m_routes' = (m_routes \ RouteOf(m))
                           \cup {[r EXCEPT !.accepted = TRUE] : r \in RouteOf(m)}
          /\ AcceptsRoute(m)
      BY <1>3, <2>5, WhatIsRouted DEF Passes
    <3> QED BY <3>1, <1>1, <2>2, <2>5, AcceptRoutedKeeps
  <2> QED BY <2>1, <2>3, <2>4, <2>5
<1> QED BY <1>2, <1>3 DEF routeProfessional

LEMMA DiscoverKeeps ==
  ASSUME SessionsInv, NEW c \in Computer, discover(c)
  PROVE  SessionsInv'
<1> PICK m : m = [op |-> "peers", peers |-> known \ {c}]
  OBVIOUS
<1>1. SessionTypeOK /\ PeersFit
  BY DEF SessionsInv
<1>2. /\ m \in SessionMessage /\ m.op = "peers" /\ m.peers = known \ {c}
  BY <1>1 DEF SessionTypeOK, SessionMessage
<1>3. /\ fromHub' = [fromHub EXCEPT ![c] = Append(@, m)]
      /\ c \in m_online
      /\ m_sessions' = m_sessions /\ m_peers' = m_peers /\ m_online' = m_online /\ known' = known
      /\ m_routes' = m_routes /\ toHub' = toHub /\ requested' = requested
  BY DEF discover
<1>4. /\ fromHub'[c] = Append(fromHub[c], m)
      /\ \A p \in Computer \ {c} : fromHub'[p] = fromHub[p]
      /\ fromHub[c] \in Seq(SessionMessage)
  BY <1>1, <1>3 DEF SessionTypeOK
<1>5. /\ Len(fromHub[c]) \in Nat /\ Len(fromHub'[c]) = Len(fromHub[c]) + 1
      /\ fromHub'[c] \in Seq(SessionMessage)
      /\ fromHub'[c][Len(fromHub[c]) + 1] = m
      /\ \A i \in 1 .. Len(fromHub[c]) : fromHub'[c][i] = fromHub[c][i]
      /\ \A i \in 1 .. Len(fromHub[c]) + 1 : i \in 1 .. Len(fromHub[c]) \/ i = Len(fromHub[c]) + 1
  BY <1>2, <1>4, SentEnd
<1>6. SessionTypeOK'
  <2>1. fromHub' \in [Computer -> Seq(SessionMessage)]
    BY <1>1, <1>3, <1>4, <1>5 DEF SessionTypeOK
  <2> QED BY <2>1, <1>1, <1>3 DEF SessionTypeOK
<1>7. PeersFit'
  <2>1. \A p \in Computer : \A i \in 1 .. Len(fromHub[p]) :
          fromHub[p][i].op = "peers" => p \notin fromHub[p][i].peers
    BY <1>1 DEF PeersFit
  <2>2. \A i \in 1 .. Len(fromHub'[c]) : fromHub'[c][i].op = "peers" =>
            c \notin fromHub'[c][i].peers
    BY <2>1, <1>2, <1>5
  <2>3. \A p \in Computer \ {c} : \A i \in 1 .. Len(fromHub'[p]) :
          fromHub'[p][i].op = "peers" => p \notin fromHub'[p][i].peers
    BY <2>1, <1>4
  <2> QED BY <2>2, <2>3, <1>1, <1>3, <1>4 DEF PeersFit
<1>8. ASSUME NEW id
      PROVE  /\ \A p \in Computer : About(m_sessions'[p], id) = About(m_sessions[p], id)
             /\ About(m_routes', id) = About(m_routes, id)
             /\ \A p \in Computer :
                  KeptIn(toHub[p], toHub'[p], id) /\ KeptIn(fromHub[p], fromHub'[p], id)
  <2>1. KeptIn(fromHub[c], fromHub'[c], id)
    BY <1>2, <1>4, QuietlySent DEF IsAbout
  <2> QED BY <2>1, <1>3, <1>4, KeptElsewhere
<1>9. \A id \in Session \ requested' : Unused(id)'
  BY <1>3, <1>8, StaysUnused DEF SessionsInv
<1>10. ASSUME NEW id \in requested'
       PROVE  \E a, b \in Computer, f \in Feature : a # b /\ SessionInv(id, a, b, f)'
  <2>1. PICK a \in Computer, b \in Computer, f \in Feature : a # b /\ SessionInv(id, a, b, f)
    BY <1>3 DEF SessionsInv
  <2>2. SessionInv(id, a, b, f)'
    BY <2>1, <1>3, <1>8, NotAbout
  <2> QED BY <2>1, <2>2
<1>11. ASSUME NEW p \in Computer
       PROVE  ListsAreRight(p)'
  <2>1. ListsAreRight(p)
    BY DEF SessionsInv
  <2>2. CASE p # c
    <3>1. \A id : NoRoute(id) => NoRoute(id)'
      BY <1>3 DEF NoRoute
    <3>2. fromHub'[p] = fromHub[p] /\ m_sessions'[p] = m_sessions[p] /\ Len(fromHub[p]) \in Nat
      BY <2>2, <1>1, <1>3, <1>4, TypesOfStreams
    <3> QED BY <3>1, <3>2, <2>1, ListsStay
  <2>3. CASE p = c
    <3> PICK q : q = fromHub[c]
      OBVIOUS
    <3> PICK r : r = fromHub'[c]
      OBVIOUS
    <3>1. \A id : NoRoute(id)' <=> NoRoute(id)
      BY <1>3 DEF NoRoute
    <3>2. /\ Len(q) \in Nat /\ Len(r) = Len(q) + 1
          /\ r[Len(q) + 1] = m
          /\ \A i \in 1 .. Len(q) : r[i] = q[i]
          /\ \A i \in 1 .. Len(q) + 1 : i \in 1 .. Len(q) \/ i = Len(q) + 1
      BY <1>5
    <3>3. \A i \in 1 .. Len(q) : q[i].op = "peers" =>
            \A x \in Computer \ (q[i].peers \union {c}) :
              /\ \A s \in m_sessions[c] : s.peer = x /\ ~s.outgoing => NoRoute(s.id)
              /\ \A j \in 1 .. i - 1 : q[j].op = "open" /\ q[j].source = x => NoRoute(q[j].id)
      BY <2>1, <2>3 DEF ListsAreRight
    <3>4. ASSUME NEW id, NEW a \in Computer, a \notin known, id \in Session,
                 \/ \E s \in m_sessions[c] : s.id = id /\ s.peer = a /\ ~s.outgoing
                 \/ \E j \in 1 .. Len(q) : q[j].op = "open" /\ q[j].id = id /\ q[j].source = a
          PROVE  NoRoute(id)
      <4>1. ~Unused(id)
        <5>1. CASE \E s \in m_sessions[c] : s.id = id
          BY <5>1 DEF Unused, Holds
        <5>2. CASE \E j \in 1 .. Len(q) : q[j].op = "open" /\ q[j].id = id
          BY <5>2 DEF Unused, Mentions, IsAbout
        <5> QED BY <5>1, <5>2, <3>4
      <4>2. PICK x \in Computer, b \in Computer, f \in Feature : x # b /\ SessionInv(id, x, b, f)
        BY <4>1, <3>4 DEF SessionsInv
      <4>3. x = a
        <5>1. CASE \E s \in m_sessions[c] : s.id = id /\ s.peer = a /\ ~s.outgoing
          BY <5>1, <4>2 DEF SessionInv, EntriesFit
        <5>2. CASE \E j \in 1 .. Len(q) : q[j].op = "open" /\ q[j].id = id /\ q[j].source = a
          <6>1. \A i \in 1 .. Len(q) : Fits(q[i], Other(c, x, b), c, id, x, b, f)
            BY <4>2 DEF SessionInv, LettersFit, FitIn
          <6> QED BY <5>2, <6>1, <4>2 DEF Fits, IsAbout
        <5> QED BY <5>1, <5>2, <3>4
      <4>4. \A z \in m_routes : z.id = id => z.source = a
        BY <4>2, <4>3 DEF SessionInv, RoutesFit
      <4>5. \A z \in m_routes : z.source \in known
        BY <1>1 DEF SessionTypeOK
      <4> QED BY <4>4, <4>5, <3>4 DEF NoRoute
    <3> SUFFICES ASSUME NEW i \in 1 .. Len(r), r[i].op = "peers",
                        NEW x \in Computer \ (r[i].peers \union {c})
                 PROVE  /\ \A s \in m_sessions[c] : s.peer = x /\ ~s.outgoing => NoRoute(s.id)
                        /\ \A j \in 1 .. i - 1 :
                             r[j].op = "open" /\ r[j].source = x => NoRoute(r[j].id)
      BY <2>3, <3>1, <1>3 DEF ListsAreRight
    <3>5. CASE i \in 1 .. Len(q)
      <4>1. r[i] = q[i]
        BY <3>2, <3>5
      <4>2. \A j \in 1 .. i - 1 : r[j] = q[j]
        BY <3>2, <3>5
      <4>3. /\ \A s \in m_sessions[c] : s.peer = x /\ ~s.outgoing => NoRoute(s.id)
            /\ \A j \in 1 .. i - 1 : q[j].op = "open" /\ q[j].source = x => NoRoute(q[j].id)
        BY <4>1, <3>3, <3>5
      <4> QED BY <4>2, <4>3
    <3>6. CASE i = Len(q) + 1
      <4>1. x \in Computer /\ x \notin known
        BY <3>2, <3>6, <1>2
      <4>2. \A s \in m_sessions[c] : s.peer = x /\ ~s.outgoing => NoRoute(s.id)
        <5>1. \A s \in m_sessions[c] : s.id \in Session
          BY <1>1 DEF SessionTypeOK, SessionEntry
        <5> QED BY <5>1, <4>1, <3>4
      <4>3. ASSUME NEW j \in 1 .. i - 1, r[j].op = "open", r[j].source = x
            PROVE  NoRoute(r[j].id)
        <5>1. j \in 1 .. Len(q) /\ r[j] = q[j]
          BY <3>2, <3>6
        <5>2. r[j].id \in Session
          BY <4>3, <5>1, <1>4, Letters
        <5> QED BY <5>1, <5>2, <4>1, <4>3, <3>4
      <4> QED BY <4>2, <4>3
    <3> QED BY <3>2, <3>5, <3>6
  <2> QED BY <2>2, <2>3
<1> QED BY <1>6, <1>7, <1>9, <1>10, <1>11 DEF SessionsInv

LEMMA RouteExpiresKeeps ==
  ASSUME SessionsInv, NEW gone \in m_routes, RouteExpires(gone)
  PROVE  SessionsInv'
<1>1. /\ ~IsActive(gone.source, gone.id) /\ ~IsActive(gone.target, gone.id)
      /\ m_routes' = m_routes \ {gone}
      /\ m_sessions' = m_sessions /\ m_peers' = m_peers /\ m_online' = m_online /\ known' = known
      /\ toHub' = toHub /\ fromHub' = fromHub /\ requested' = requested
  BY DEF RouteExpires
<1>2. SessionTypeOK /\ PeersFit
  BY DEF SessionsInv
<1>3. SessionTypeOK'
  BY <1>1, <1>2 DEF SessionTypeOK
<1>4. PeersFit'
  BY <1>1, <1>2 DEF PeersFit
<1>5. \A id : NoRoute(id) => NoRoute(id)'
  BY <1>1 DEF NoRoute
<1>6. \A id \in Session \ requested' : Unused(id)'
  <2>1. \A id : Unused(id) => Unused(id)'
    BY <1>1, <1>5 DEF Unused, Holds
  <2> QED BY <2>1, <1>1 DEF SessionsInv
<1>7. ASSUME NEW id \in requested'
      PROVE  \E a, b \in Computer, f \in Feature : a # b /\ SessionInv(id, a, b, f)'
  <2>1. PICK a \in Computer, b \in Computer, f \in Feature : a # b /\ SessionInv(id, a, b, f)
    BY <1>1 DEF SessionsInv
  <2>2. /\ \A p \in Computer : /\ Holds(p, id)' <=> Holds(p, id)
                               /\ IsActive(p, id)' <=> IsActive(p, id)
        /\ NoRoute(id) => NoRoute(id)'
    BY <1>1, <1>5 DEF Holds, IsActive
  <2>3. /\ EntriesFit(id, a, b, f)' /\ RoutesFit(id, a, b, f)' /\ LettersFit(id, a, b, f)'
    BY <1>1, <2>1 DEF SessionInv, EntriesFit, RoutesFit, LettersFit
  <2>4. RequestIsFirst(id, a, b) /\ AgreementHolds(id, a, b)
          /\ EndsHold(id, a, b) /\ PauseHolds(id, a, b)
    BY <2>1 DEF SessionInv
  <2>5. RequestIsFirst(id, a, b)'
    BY <1>1, <2>2, <2>4 DEF RequestIsFirst, Unanswered
  <2>6. AgreementHolds(id, a, b)'
    BY <1>1, <2>2, <2>4 DEF AgreementHolds, Answered, Agreed
  <2>7. EndsHold(id, a, b)'
    BY <1>1, <2>1, <2>2, <2>4 DEF EndsHold
  <2>8. HasLease(id) => HasLease(id)' \/ ~IsActive(b, id)
    <3>1. ASSUME gone.id = id
          PROVE  ~IsActive(b, id)
      BY <3>1, <1>1, <2>1 DEF SessionInv, RoutesFit
    <3> QED BY <3>1, <1>1 DEF HasLease
  <2>9. PauseHolds(id, a, b)'
    BY <1>1, <2>2, <2>4, <2>8 DEF PauseHolds, Paused
  <2> QED BY <2>1, <2>3, <2>5, <2>6, <2>7, <2>9 DEF SessionInv
<1>8. ASSUME NEW p \in Computer
      PROVE  ListsAreRight(p)'
  <2>1. ListsAreRight(p) /\ fromHub'[p] = fromHub[p] /\ m_sessions'[p] = m_sessions[p]
        /\ Len(fromHub[p]) \in Nat
    BY <1>1, <1>2, TypesOfStreams DEF SessionsInv
  <2> QED BY <2>1, <1>5, ListsStay
<1> QED BY <1>3, <1>4, <1>6, <1>7, <1>8 DEF SessionsInv

LEMMA SetOfflineKeeps ==
  ASSUME SessionsInv, NEW c \in Computer, setOffline(c)
  PROVE  SessionsInv'
<1>1. SessionTypeOK /\ PeersFit
  BY DEF SessionsInv
<1>2. /\ c \in m_online /\ c # Hub
      /\ m_online' = m_online \ {c}
      /\ m_sessions' = [m_sessions EXCEPT ![c] = {}]
      /\ m_peers' = [m_peers EXCEPT ![c] = {}]
      /\ toHub' = [toHub EXCEPT ![c] = << >>]
      /\ fromHub' = [fromHub EXCEPT ![c] = << >>]
      /\ known' = known /\ m_routes' = m_routes /\ requested' = requested
  BY DEF setOffline
<1>3. /\ m_sessions'[c] = {} /\ m_peers'[c] = {} /\ toHub'[c] = << >> /\ fromHub'[c] = << >>
      /\ \A p \in Computer \ {c} :
           /\ m_sessions'[p] = m_sessions[p] /\ m_peers'[p] = m_peers[p]
           /\ toHub'[p] = toHub[p] /\ fromHub'[p] = fromHub[p]
  BY <1>1, <1>2 DEF SessionTypeOK
<1>4. SessionTypeOK'
  <2>1. m_sessions' \in [Computer -> SUBSET SessionEntry]
          /\ m_peers' \in [Computer -> SUBSET Computer]
    BY <1>1, <1>2 DEF SessionTypeOK
  <2>2. << >> \in Seq(SessionMessage)
    OBVIOUS
  <2>3. toHub' \in [Computer -> Seq(SessionMessage)]
          /\ fromHub' \in [Computer -> Seq(SessionMessage)]
    BY <1>1, <1>2, <2>2 DEF SessionTypeOK
  <2>4. \A p \in Computer : \A t, u \in m_sessions'[p] : t.peer # p /\ (t.id = u.id => t = u)
    <3>1. \A p \in Computer : \A t, u \in m_sessions[p] : t.peer # p /\ (t.id = u.id => t = u)
      BY <1>1 DEF SessionTypeOK
    <3>2. \A p \in Computer \ {c} : m_sessions'[p] = m_sessions[p]
      BY <1>3
    <3> SUFFICES ASSUME NEW p \in Computer
                 PROVE  \A t, u \in m_sessions'[p] : t.peer # p /\ (t.id = u.id => t = u)
      OBVIOUS
    <3>3. CASE p = c
      BY <3>3, <1>3
    <3>4. CASE p # c
      BY <3>1, <3>2, <3>4
    <3> QED BY <3>3, <3>4
  <2> QED BY <2>1, <2>3, <2>4, <1>1, <1>2 DEF SessionTypeOK
<1>5. PeersFit'
  BY <1>1, <1>2, <1>3 DEF PeersFit
<1>6. \A id : /\ NoRoute(id)' <=> NoRoute(id)
              /\ HasLease(id)' <=> HasLease(id)
              /\ ~Holds(c, id)' /\ ~IsActive(c, id)'
              /\ \A p \in Computer \ {c} : /\ Holds(p, id)' <=> Holds(p, id)
                                           /\ IsActive(p, id)' <=> IsActive(p, id)
              /\ ~Mentions(toHub'[c], id) /\ ~Mentions(fromHub'[c], id)
              /\ OpensFirst(toHub'[c], id) /\ OpensOnce(fromHub'[c], id)
              /\ \A op : ~Speaks(toHub'[c], op, id) /\ ~Speaks(fromHub'[c], op, id)
  BY <1>2, <1>3, NoLetters DEF NoRoute, HasLease, Holds, IsActive
<1>7. \A id \in Session \ requested' : Unused(id)'
  BY <1>2, <1>3, <1>6 DEF SessionsInv, Unused
<1>8. ASSUME NEW id \in requested'
      PROVE  \E a, b \in Computer, f \in Feature : a # b /\ SessionInv(id, a, b, f)'
  <2>1. PICK a \in Computer, b \in Computer, f \in Feature : a # b /\ SessionInv(id, a, b, f)
    BY <1>2 DEF SessionsInv
  <2>2. RequestIsFirst(id, a, b) /\ AgreementHolds(id, a, b)
          /\ EndsHold(id, a, b) /\ PauseHolds(id, a, b)
    BY <2>1 DEF SessionInv
  <2>3. EntriesFit(id, a, b, f)' /\ RoutesFit(id, a, b, f)'
    BY <1>2, <1>3, <2>1 DEF SessionInv, EntriesFit, RoutesFit
  <2>4. LettersFit(id, a, b, f)'
    BY <1>3, <2>1 DEF SessionInv, LettersFit, FitIn
  <2>5. RequestIsFirst(id, a, b)'
    BY <1>3, <1>6, <2>2 DEF RequestIsFirst, Unanswered
  <2>6. AgreementHolds(id, a, b)'
    BY <1>2, <1>3, <1>6, <2>2 DEF AgreementHolds, Answered, Agreed
  <2>7. EndsHold(id, a, b)'
    BY <1>3, <1>6, <2>1, <2>2 DEF EndsHold
  <2>8. PauseHolds(id, a, b)'
    BY <1>2, <1>3, <1>6, <2>2 DEF PauseHolds, Paused
  <2> QED BY <2>1, <2>3, <2>4, <2>5, <2>6, <2>7, <2>8 DEF SessionInv
<1>9. ASSUME NEW p \in Computer
      PROVE  ListsAreRight(p)'
  <2>1. CASE p = c
    BY <2>1, <1>3 DEF ListsAreRight
  <2>2. CASE p # c
    BY <2>2, <1>1, <1>3, <1>6, ListsStay, TypesOfStreams DEF SessionsInv
  <2> QED BY <2>1, <2>2
<1> QED BY <1>4, <1>5, <1>7, <1>8, <1>9 DEF SessionsInv

LEMMA ForgetKeeps ==
  ASSUME SessionsInv, NEW c \in Computer, forget(c)
  PROVE  SessionsInv'
<1>1. /\ c \in known /\ c \notin m_online
      /\ known' = known \ {c}
      /\ m_routes' = {r \in m_routes : c \notin {r.source, r.target}}
      /\ m_sessions' = m_sessions /\ m_peers' = m_peers /\ m_online' = m_online
      /\ toHub' = toHub /\ fromHub' = fromHub /\ requested' = requested
  BY DEF forget
<1>2. SessionTypeOK /\ PeersFit
  BY DEF SessionsInv
<1>3. SessionTypeOK'
  BY <1>1, <1>2 DEF SessionTypeOK
<1>4. PeersFit'
  BY <1>1, <1>2 DEF PeersFit
<1>5. \A id : NoRoute(id) => NoRoute(id)'
  BY <1>1 DEF NoRoute
<1>6. \A id \in Session \ requested' : Unused(id)'
  <2>1. \A id : Unused(id) => Unused(id)'
    BY <1>1, <1>5 DEF Unused, Holds
  <2> QED BY <2>1, <1>1 DEF SessionsInv
<1>7. ASSUME NEW id \in requested'
      PROVE  \E a, b \in Computer, f \in Feature : a # b /\ SessionInv(id, a, b, f)'
  <2>1. PICK a \in Computer, b \in Computer, f \in Feature : a # b /\ SessionInv(id, a, b, f)
    BY <1>1 DEF SessionsInv
  <2>2. /\ \A p \in Computer : /\ Holds(p, id)' <=> Holds(p, id)
                               /\ IsActive(p, id)' <=> IsActive(p, id)
        /\ NoRoute(id) => NoRoute(id)'
    BY <1>1, <1>5 DEF Holds, IsActive
  <2>3. EntriesFit(id, a, b, f)' /\ RoutesFit(id, a, b, f)' /\ LettersFit(id, a, b, f)'
    BY <1>1, <2>1 DEF SessionInv, EntriesFit, RoutesFit, LettersFit
  <2>4. RequestIsFirst(id, a, b) /\ AgreementHolds(id, a, b)
          /\ EndsHold(id, a, b) /\ PauseHolds(id, a, b)
    BY <2>1 DEF SessionInv
  <2>5. RequestIsFirst(id, a, b)'
    BY <1>1, <2>2, <2>4 DEF RequestIsFirst, Unanswered
  <2>6. AgreementHolds(id, a, b)'
    BY <1>1, <2>2, <2>4 DEF AgreementHolds, Answered, Agreed
  <2>7. EndsHold(id, a, b)'
    BY <1>1, <2>1, <2>2, <2>4 DEF EndsHold
  <2>8. c = a => ~IsActive(a, id) /\ ~Holds(a, id)
    BY <1>1, <1>2 DEF PeersFit, IsActive, Holds
  <2>9. c # a /\ c # b => (HasLease(id) => HasLease(id)')
    BY <1>1, <2>1 DEF SessionInv, RoutesFit, HasLease
  <2>10. PauseHolds(id, a, b)'
    BY <1>1, <2>1, <2>2, <2>4, <2>8, <2>9 DEF PauseHolds, Paused
  <2> QED BY <2>1, <2>3, <2>5, <2>6, <2>7, <2>10 DEF SessionInv
<1>8. ASSUME NEW p \in Computer
      PROVE  ListsAreRight(p)'
  <2>1. ListsAreRight(p) /\ fromHub'[p] = fromHub[p] /\ m_sessions'[p] = m_sessions[p]
        /\ Len(fromHub[p]) \in Nat
    BY <1>1, <1>2, TypesOfStreams DEF SessionsInv
  <2> QED BY <2>1, <1>5, ListsStay
<1> QED BY <1>3, <1>4, <1>6, <1>7, <1>8 DEF SessionsInv

LEMMA SetOnlineKeeps ==
  ASSUME SessionsInv, NEW c \in Computer, setOnline(c)
  PROVE  SessionsInv'
<1>1. /\ c \notin known /\ known' = known \cup {c} /\ m_online' = m_online \cup {c}
      /\ m_sessions' = m_sessions /\ m_peers' = m_peers /\ m_routes' = m_routes
      /\ toHub' = toHub /\ fromHub' = fromHub /\ requested' = requested
  BY DEF setOnline
<1>2. SessionTypeOK /\ PeersFit
  BY DEF SessionsInv
<1>3. SessionTypeOK'
  BY <1>1, <1>2 DEF SessionTypeOK
<1>4. PeersFit'
  BY <1>1, <1>2 DEF PeersFit
<1>5. ASSUME NEW id
      PROVE  /\ \A p \in Computer : About(m_sessions'[p], id) = About(m_sessions[p], id)
             /\ About(m_routes', id) = About(m_routes, id)
             /\ \A p \in Computer :
                  KeptIn(toHub[p], toHub'[p], id) /\ KeptIn(fromHub[p], fromHub'[p], id)
  BY <1>1, KeptElsewhere
<1>6. \A id \in Session \ requested' : Unused(id)'
  BY <1>1, <1>5, StaysUnused DEF SessionsInv
<1>7. ASSUME NEW id \in requested'
      PROVE  \E a, b \in Computer, f \in Feature : a # b /\ SessionInv(id, a, b, f)'
  <2>1. PICK a \in Computer, b \in Computer, f \in Feature : a # b /\ SessionInv(id, a, b, f)
    BY <1>1 DEF SessionsInv
  <2>2. b = c => NoRoute(id)
    <3>1. \A r \in m_routes : r.target \in known
      BY <1>2 DEF SessionTypeOK
    <3>2. RoutesFit(id, a, b, f)
      BY <2>1 DEF SessionInv
    <3> QED BY <3>1, <3>2, <1>1 DEF RoutesFit, NoRoute
  <2>3. b = c => ~IsActive(b, id)
    BY <1>1, <1>2 DEF PeersFit, SessionTypeOK, IsActive
  <2>4. SessionInv(id, a, b, f)'
    BY <1>1, <1>5, <2>1, <2>2, <2>3, NotAbout
  <2> QED BY <2>1, <2>4
<1>8. ASSUME NEW p \in Computer
      PROVE  ListsAreRight(p)'
  <2>1. ListsAreRight(p) /\ fromHub'[p] = fromHub[p] /\ m_sessions'[p] = m_sessions[p]
        /\ Len(fromHub[p]) \in Nat
    BY <1>1, <1>2, TypesOfStreams DEF SessionsInv
  <2>2. \A id : NoRoute(id) => NoRoute(id)'
    BY <1>1 DEF NoRoute
  <2> QED BY <2>1, <2>2, ListsStay
<1> QED BY <1>3, <1>4, <1>6, <1>7, <1>8 DEF SessionsInv

(***************************************************************************)
(* The invariant, and what it is for.                                      *)
(***************************************************************************)
LEMMA SessionsStart == SessionInit => SessionsInv
<1> SUFFICES ASSUME SessionInit
             PROVE  SessionsInv
  OBVIOUS
<1>1. /\ \A c \in Computer : m_sessions[c] = {} /\ m_peers[c] = {}
                             /\ toHub[c] = << >> /\ fromHub[c] = << >>
      /\ m_routes = {} /\ requested = {} /\ m_online = Computer /\ known = Computer
  BY DEF SessionInit
<1>2. SessionTypeOK
  <2>1. << >> \in Seq(SessionMessage)
    OBVIOUS
  <2>2. toHub \in [Computer -> Seq(SessionMessage)] /\ fromHub \in [Computer -> Seq(SessionMessage)]
    BY <2>1 DEF SessionInit
  <2>3. m_sessions \in [Computer -> SUBSET SessionEntry]
          /\ m_peers \in [Computer -> SUBSET Computer]
    BY DEF SessionInit
  <2> QED BY <2>2, <2>3, <1>1, HubIsAComputer DEF SessionTypeOK
<1>3. PeersFit
  BY <1>1 DEF PeersFit
<1>4. \A id \in Session : Unused(id)
  BY <1>1, NoLetters DEF Unused, Holds, NoRoute
<1>5. \A p \in Computer : ListsAreRight(p)
  BY <1>1 DEF ListsAreRight
<1> QED BY <1>1, <1>2, <1>3, <1>4, <1>5 DEF SessionsInv

LEMMA SessionsStep == SessionsInv /\ [SessionNext]_sessionVars => SessionsInv'
<1> SUFFICES ASSUME SessionsInv, [SessionNext]_sessionVars
             PROVE  SessionsInv'
  OBVIOUS
<1>1. CASE UNCHANGED sessionVars
  BY <1>1 DEF sessionVars, SessionsInv, SessionTypeOK, PeersFit, Unused, SessionInv,
     EntriesFit,
       RoutesFit, LettersFit, RequestIsFirst, AgreementHolds, EndsHold, PauseHolds, ListsAreRight,
       Unanswered, Answered, Agreed, Paused, NoRoute, HasLease, Holds, IsActive
<1>2. ASSUME NEW c \in Computer, NEW peer \in Computer, NEW id \in Session, NEW f \in Feature,
             request(c, peer, id, f)
      PROVE  SessionsInv'
  BY <1>2, RequestKeeps
<1>3. ASSUME NEW c \in Computer, NEW s \in m_sessions[c],
             closeSession(c, s) \/ consent(c, s) \/ SessionExpires(c, s)
      PROVE  SessionsInv'
  BY <1>3, CloseKeeps, ConsentKeeps DEF SessionExpires
<1>4. ASSUME NEW c \in Computer,
             \/ receive(c) \/ routeProfessional(c) \/ discover(c)
             \/ setOffline(c) \/ forget(c) \/ setOnline(c)
      PROVE  SessionsInv'
  BY <1>4, ReceiveKeeps, RouteProfessionalKeeps, DiscoverKeeps, SetOfflineKeeps,
     ForgetKeeps,
     SetOnlineKeeps
<1>5. ASSUME NEW r \in m_routes, RouteExpires(r)
      PROVE  SessionsInv'
  BY <1>5, RouteExpiresKeeps
<1> QED BY <1>1, <1>2, <1>3, <1>4, <1>5 DEF SessionNext

LEMMA SessionsInvariant == SessionSpec => []SessionsInv
BY SessionsStart, SessionsStep, PTL DEF SessionSpec

LEMMA WhatIsControlled ==
  ASSUME SessionsInv, NEW c \in Computer, NEW s \in m_sessions[c], s.active, s.outgoing
  PROVE  /\ SessionTypeOK /\ IsActive(c, s.id) /\ s.peer \in Computer
         /\ AgreementHolds(s.id, c, s.peer) /\ PauseHolds(s.id, c, s.peer)
<1>1. SessionTypeOK
  BY DEF SessionsInv
<1>2. s.id \in Session /\ s.peer \in Computer
  BY <1>1 DEF SessionTypeOK, SessionEntry
<1>3. s.id \in requested
  BY <1>2 DEF SessionsInv, Unused, Holds
<1>4. PICK a \in Computer, b \in Computer, f \in Feature : a # b /\ SessionInv(s.id, a, b, f)
  BY <1>3 DEF SessionsInv
<1>5. c = a /\ s.peer = b
  BY <1>4, EntryFits
<1>6. IsActive(c, s.id)
  BY DEF IsActive
<1> QED BY <1>1, <1>2, <1>4, <1>5, <1>6 DEF SessionInv

LEMMA AgreementIsKept == SessionsInv => ControlIsAgreed
<1> SUFFICES ASSUME SessionsInv, NEW c \in Computer, NEW s \in m_sessions[c], s.active, s.outgoing
             PROVE  \/ IsActive(s.peer, s.id)
                    \/ Carries(toHub[s.peer], "close", s.id)
                    \/ s.peer \notin m_online
                    \/ \A r \in m_routes : r.id # s.id
  BY DEF ControlIsAgreed
<1>1. Agreed(s.id, s.peer)
  BY WhatIsControlled DEF AgreementHolds, Answered
<1>2. toHub[s.peer] \in Seq(SessionMessage)
  BY WhatIsControlled, TypesOfStreams
<1>3. Speaks(toHub[s.peer], "close", s.id) => Carries(toHub[s.peer], "close", s.id)
  BY <1>2 DEF Speaks, Carries
<1> QED BY <1>1, <1>3 DEF Agreed, NoRoute

LEMMA PauseIsKept == SessionsInv => ForwardingIsPaused
<1> SUFFICES ASSUME SessionsInv, NEW c \in Computer, NEW s \in m_sessions[c], s.active, s.outgoing
             PROVE  \/ HasLease(s.id)
                    \/ s.peer \notin known
                    \/ ~IsActive(s.peer, s.id)
  BY DEF ForwardingIsPaused
<1>1. Paused(s.id, s.peer)
  BY WhatIsControlled DEF PauseHolds
<1> QED BY <1>1 DEF Paused

\* Whoever controls a computer does so by the consent of its user, which has
\* not been withdrawn unless the server already knows or is about to hear of it
\* (SessionController::acceptSession, closeSession, Server::handleClientClose).
THEOREM ControlIsAlwaysAgreed == SessionSpec => []ControlIsAgreed
BY SessionsInvariant, AgreementIsKept, PTL

\* As long as a controller sends its input to a computer that takes it, the
\* server keeps the lease that stops its own forwarding.
THEOREM ForwardingIsAlwaysPaused == SessionSpec => []ForwardingIsPaused
BY SessionsInvariant, PauseIsKept, PTL
=============================================================================
