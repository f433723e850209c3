------------------------------ MODULE KeyRelay ------------------------------
(***************************************************************************)
(* The relay of keys (Server::onKeyDown, onKeyUp, onKeyRepeat with         *)
(* server/BroadcastKeys.h): a key goes to the active screen, or to a set   *)
(* of screens while keyboard broadcasting is on or an input filter action  *)
(* names them.  Screens, broadcasting, licence and input pauses change     *)
(* while keys are down, and what was pressed must be released where it     *)
(* was pressed.  Clients release what they were left with: all keys when   *)
(* they are left (Screen::leaveSecondary) or lose the connection while     *)
(* entered (Screen::disable).                                              *)
(*                                                                         *)
(* Abstracted: what a key means (its identifier and modifiers), repeats    *)
(* but for what they do to the relay, and time on the wire: a client acts  *)
(* on what it is sent at once, as its stream is FIFO and nothing it says   *)
(* matters here.  All clients translate keys (fakeKeyDown) and, where      *)
(* `setting.controls`, all use the same input language keys.               *)
(***************************************************************************)
EXTENDS FiniteSets

CONSTANTS
  Name,       \* names of secondary screens
  Primary,    \* the server's own screen: it ignores relayed keys
  Button,     \* physical keys of the server's keyboard
  Lists,      \* lists of screens that the configuration names; {} for none
  Settings    \* what may happen: pauses, losses, controls (see below)

ASSUME PrimaryIsNoName == Primary \notin Name
ASSUME ListsOfScreens == Lists \subseteq SUBSET (Name \cup {Primary})
ASSUME RelaySettings ==
  Settings \subseteq [pauses : BOOLEAN, losses : BOOLEAN, controls : BOOLEAN]

Screen == Name \cup {Primary}

VARIABLES
  setting,
  physical,                       \* keys the user holds down
  m_clients,                      \* names of the clients served
  linked,                         \* clients whose end is connected
  m_active,
  m_pressed,                      \* BroadcastKeys: the keys with a record
  recipients,                     \* and the recipients it names
  m_keyboardBroadcasting,
  m_keyboardBroadcastingScreens,  \* {} is the default, every screen
  m_inputLanguageControlButtons,  \* presses that became a control message
  licensed,                       \* the plan has simultaneous-input
  paused,                         \* professionalInputActive()
  held,                           \* keys down at a client (m_serverKeys)
  entered,                        \* clients that believe they are entered
  sent                            \* history: presses this connection got

relayVars == <<physical, m_clients, linked, m_active, m_pressed,
               recipients, m_keyboardBroadcasting,
               m_keyboardBroadcastingScreens,
               m_inputLanguageControlButtons, licensed, paused, held, entered,
               sent>>
keyRelayVars == <<setting, relayVars>>

\* Types: a record names screens, the active screen is served, and control
\* presses belong to clients that are served.
RelayTypeOK ==
  /\ setting \in Settings
  /\ physical \subseteq Button
  /\ m_clients \subseteq Name
  /\ linked \subseteq m_clients
  /\ m_active \in m_clients \cup {Primary}
  /\ m_pressed \subseteq Button
  /\ recipients \in [Button -> SUBSET Screen]
  /\ \A b \in Button \ m_pressed : recipients[b] = {}
  /\ m_keyboardBroadcasting \in BOOLEAN
  /\ m_keyboardBroadcastingScreens \in Lists \cup {{}}
  /\ m_inputLanguageControlButtons \subseteq m_clients \X Button
  /\ licensed \in BOOLEAN
  /\ paused \in BOOLEAN
  /\ held \in [Name -> SUBSET Button]
  /\ entered \subseteq Name
  /\ sent \in [Name -> SUBSET Button]

RelayInit ==
  /\ setting \in Settings
  /\ physical = {} /\ m_clients = {} /\ linked = {} /\ entered = {}
  /\ m_active = Primary
  /\ m_pressed = {}
  /\ recipients = [b \in Button |-> {}]
  /\ m_keyboardBroadcasting = FALSE /\ m_keyboardBroadcastingScreens = {}
  /\ m_inputLanguageControlButtons = {}
  /\ licensed \in BOOLEAN /\ paused = FALSE
  /\ held = [n \in Name |-> {}]
  /\ sent = [n \in Name |-> {}]

----------------------------------------------------------------------------
(* What is sent to a set of screens.                                       *)

\* sendKeyDown: an input language key is remembered and sent as a control.
sendKeyDown(to, b, control) ==
  /\ sent' = [n \in Name |-> IF n \in to THEN sent[n] \cup {b} ELSE sent[n]]
  /\ IF control
       THEN /\ m_inputLanguageControlButtons' =
                 m_inputLanguageControlButtons \cup ((to \ {Primary}) \X {b})
            /\ UNCHANGED held
       ELSE /\ held' = [n \in Name |-> IF n \in to \cap linked
                                       THEN held[n] \cup {b} ELSE held[n]]
            /\ UNCHANGED m_inputLanguageControlButtons

\* The releases `ups` (pairs of screen and key), each a sendKeyUp: one of a
\* control press ends the control press and is not sent.
Releases(ups) ==
  [n \in Name |-> {b \in Button : <<n, b>> \in ups}]
ReleasesSent(ups) ==
  [n \in Name |->
     IF n \in linked THEN Releases(ups \ m_inputLanguageControlButtons)[n]
                     ELSE {}]
Without(keys, ups) == [n \in Name |-> keys[n] \ ups[n]]

sendKeyUps(ups) ==
  /\ m_inputLanguageControlButtons' = m_inputLanguageControlButtons \ ups
  /\ held' = Without(held, ReleasesSent(ups))
  /\ sent' = Without(sent, Releases(ups))

\* BroadcastKeys: the screens that still wait for a key's release.
Served(names) == names \cap (m_clients \cup {Primary})
RecordedUps ==
  {up \in Screen \X Button : up[1] \in Served(recipients[up[2]])}

\* releaseAll: the records stay, empty, until their keys come up.
Empties == recipients' = [b \in Button |-> {}]
ForgetsThem ==
  Empties /\ UNCHANGED <<m_inputLanguageControlButtons, held, sent>>
releaseBroadcastKeys == sendKeyUps(RecordedUps) /\ Empties
KeepsKeys == UNCHANGED <<m_inputLanguageControlButtons, held, sent, recipients>>

----------------------------------------------------------------------------
(* Keys.  `screens` is {} for a key whose event names no screens.          *)

\* The screens a licensed press goes to, where it does not go to the active.
Destinations(screens) ==
  Served(IF screens # {} THEN screens
         ELSE IF m_keyboardBroadcastingScreens # {}
         THEN m_keyboardBroadcastingScreens
         ELSE Screen)

\* The press of an unlicensed key after the releases of those recorded.
ReleasesThenPresses(b, control) ==
  LET ups == RecordedUps
      to  == {m_active} \ {Primary}
      ctl == m_inputLanguageControlButtons \ ups
  IN /\ Empties
     /\ sent' = [n \in Name |-> Without(sent, Releases(ups))[n]
                                  \cup (IF n \in to THEN {b} ELSE {})]
     /\ m_inputLanguageControlButtons' =
          IF control THEN ctl \cup (to \X {b}) ELSE ctl
     /\ held' = [n \in Name |-> Without(held, ReleasesSent(ups))[n]
                  \cup (IF n \in to \cap linked /\ ~control
                        THEN {b} ELSE {})]

\* remember: a press without recipients, or of a key already recorded, is
\* not recorded, and then not sent.
Remembers(b, to) == to # {} /\ b \notin m_pressed

PressIsBroadcast(b, screens, control) ==
  LET to == Destinations(screens) IN
  IF Remembers(b, to)
    THEN /\ m_pressed' = m_pressed \cup {b}
         /\ recipients' = [recipients EXCEPT ![b] = to]
         /\ sendKeyDown(to, b, control)
    ELSE KeepsKeys /\ UNCHANGED m_pressed

onKeyDown(b, screens, control) ==
  /\ b \notin physical
  /\ control => setting.controls
  /\ physical' = physical \cup {b}
  /\ \/ paused /\ KeepsKeys /\ UNCHANGED <<m_pressed, m_keyboardBroadcasting>>
     \/ /\ ~paused /\ ~m_keyboardBroadcasting /\ screens = {}
        /\ sendKeyDown({m_active}, b, control)
        /\ UNCHANGED <<m_pressed, recipients, m_keyboardBroadcasting>>
     \/ /\ ~paused /\ (m_keyboardBroadcasting \/ screens # {}) /\ ~licensed
        /\ ReleasesThenPresses(b, control)
        /\ m_keyboardBroadcasting' = FALSE
        /\ UNCHANGED m_pressed
     \/ /\ ~paused /\ (m_keyboardBroadcasting \/ screens # {}) /\ licensed
        /\ PressIsBroadcast(b, screens, control)
        /\ UNCHANGED m_keyboardBroadcasting
  /\ UNCHANGED <<m_clients, linked, m_active, m_keyboardBroadcastingScreens,
                 licensed, paused, entered>>

\* take: whoever got the press gets the release, else the active screen.
onKeyUp(b) ==
  /\ b \in physical
  /\ physical' = physical \ {b}
  /\ \/ paused /\ KeepsKeys /\ UNCHANGED m_pressed
     \/ /\ ~paused /\ b \in m_pressed
        /\ sendKeyUps(Served(recipients[b]) \X {b})
        /\ m_pressed' = m_pressed \ {b}
        /\ recipients' = [recipients EXCEPT ![b] = {}]
     \/ /\ ~paused /\ b \notin m_pressed
        /\ sendKeyUps({<<m_active, b>>})
        /\ UNCHANGED <<m_pressed, recipients>>
  /\ UNCHANGED <<m_clients, linked, m_active, m_keyboardBroadcasting,
                 m_keyboardBroadcastingScreens, licensed, paused, entered>>

\* A repeat finds out that the licence has ended; others change nothing.
onKeyRepeat(b) ==
  /\ b \in physical /\ ~paused /\ ~licensed /\ b \in m_pressed
  /\ releaseBroadcastKeys
  /\ m_keyboardBroadcasting' = FALSE
  /\ UNCHANGED <<physical, m_clients, linked, m_active, m_pressed,
                 m_keyboardBroadcastingScreens, licensed, paused, entered>>

----------------------------------------------------------------------------
(* What happens while keys are down.                                       *)

\* What the clients do when the active screen changes: the one left
\* releases all its keys (Screen::leaveSecondary).
LeavesKeysDown(n, keys) ==
  m_active' = n /\ held' = keys /\ UNCHANGED entered
SwitchesTo(n, keys) ==
  /\ m_active' = n
  /\ held' = [c \in Name |-> IF c = m_active /\ c \in linked /\ c # n
                             THEN {} ELSE keys[c]]
  /\ entered' = IF n = m_active THEN entered
                ELSE (entered \ {m_active}) \cup ({n} \cap linked)

switchScreen(n) ==
  /\ n \in (m_clients \cup {Primary}) \ {m_active}
  /\ SwitchesTo(n, held)
  /\ UNCHANGED <<physical, m_clients, linked, m_pressed, recipients,
                 m_keyboardBroadcasting, m_keyboardBroadcastingScreens,
                 m_inputLanguageControlButtons, licensed, paused, sent>>

\* A hot key turns broadcasting on or off; the screens may change with it.
handleKeyboardBroadcastEvent(on, screens) ==
  LET newState == on /\ licensed IN
  /\ \/ newState # m_keyboardBroadcasting
     \/ screens # m_keyboardBroadcastingScreens
  /\ releaseBroadcastKeys
  /\ m_keyboardBroadcasting' = newState
  /\ m_keyboardBroadcastingScreens' = screens
  /\ UNCHANGED <<physical, m_clients, linked, m_active, m_pressed, licensed,
                 paused, entered>>

\* Another computer takes the server's input; keys are not relayed.
pauseForProfessionalInput ==
  /\ setting.pauses /\ ~paused
  /\ paused' = TRUE
  /\ m_inputLanguageControlButtons' =
       m_inputLanguageControlButtons \ RecordedUps
  /\ sent' = Without(sent, Releases(RecordedUps))
  /\ Empties
  /\ SwitchesTo(Primary, Without(held, ReleasesSent(RecordedUps)))
  /\ m_keyboardBroadcasting' = FALSE
  /\ UNCHANGED <<physical, m_clients, linked, m_pressed,
                 m_keyboardBroadcastingScreens, licensed>>

PauseEnds ==
  /\ paused /\ paused' = FALSE
  /\ UNCHANGED <<physical, m_clients, linked, m_active, m_pressed, recipients,
                 m_keyboardBroadcasting, m_keyboardBroadcastingScreens,
                 m_inputLanguageControlButtons, licensed, held, entered, sent>>

LicenceChanges ==
  /\ licensed' = ~licensed
  /\ UNCHANGED <<physical, m_clients, linked, m_active, m_pressed, recipients,
                 m_keyboardBroadcasting, m_keyboardBroadcastingScreens,
                 m_inputLanguageControlButtons, paused, held, entered, sent>>

addClient(n) ==
  /\ n \in Name \ m_clients
  /\ m_clients' = m_clients \cup {n}
  /\ linked' = linked \cup {n}
  /\ UNCHANGED <<physical, m_active, m_pressed, recipients,
                 m_keyboardBroadcasting,
                 m_keyboardBroadcastingScreens, m_inputLanguageControlButtons,
                 licensed, paused, held, entered, sent>>

\* A client whose connection ends disables its screen, and leaves it only if
\* it was entered (Screen::disable).
cleanupScreen(n) ==
  /\ setting.losses /\ n \in linked
  /\ linked' = linked \ {n}
  /\ held' = IF n \in entered THEN [held EXCEPT ![n] = {}] ELSE held
  /\ entered' = entered \ {n}
  /\ UNCHANGED <<physical, m_clients, m_active, m_pressed, recipients,
                 m_keyboardBroadcasting, m_keyboardBroadcastingScreens,
                 m_inputLanguageControlButtons, licensed, paused, sent>>

\* A record forgets a screen that has gone; it stays, though
\* empty, so that a screen of that name does not inherit the key.
RemembersPeer(n) == UNCHANGED <<recipients, m_pressed>>
forgetPeer(n) ==
  /\ recipients' = [b \in Button |-> recipients[b] \ {n}]
  /\ UNCHANGED m_pressed

removeClient(n) ==
  /\ n \in m_clients \ linked
  /\ m_clients' = m_clients \ {n}
  /\ m_active' = IF m_active = n THEN Primary ELSE m_active
  /\ forgetPeer(n)
  /\ m_inputLanguageControlButtons' =
       m_inputLanguageControlButtons \ ({n} \X Button)
  /\ sent' = [sent EXCEPT ![n] = {}]
  /\ UNCHANGED <<physical, linked, m_keyboardBroadcasting,
                 m_keyboardBroadcastingScreens, licensed, paused, held,
                 entered>>

RelayStep ==
  \/ \E b \in Button, screens \in Lists \cup {{}}, control \in BOOLEAN :
       onKeyDown(b, screens, control)
  \/ \E b \in Button : onKeyUp(b) \/ onKeyRepeat(b)
  \/ \E n \in Screen : switchScreen(n)
  \/ \E on \in BOOLEAN, screens \in Lists \cup {{}} :
       handleKeyboardBroadcastEvent(on, screens)
  \/ pauseForProfessionalInput
  \/ PauseEnds
  \/ LicenceChanges
  \/ \E n \in Name : addClient(n) \/ cleanupScreen(n) \/ removeClient(n)

RelayNext == RelayStep /\ UNCHANGED setting
RelaySpec == RelayInit /\ [][RelayNext]_keyRelayVars

----------------------------------------------------------------------------
(* Properties.                                                             *)

\* Records and keys agree.  A recorded press was sent to each of its
\* recipients on the connection it has now: a screen that comes back is not sent
\* the release of a key its predecessor got (BroadcastKeys.h:61-62).  A client in
\* the background has no key down but those whose record names it: the release
\* will find it, whatever becomes of the active screen, broadcasting and the
\* licence.
RecipientsGotThePress ==
  \A b \in Button : \A n \in recipients[b] \cap Name :
    n \in m_clients /\ b \in sent[n]
BackgroundKeysAreRecorded ==
  ~setting.losses /\ ~setting.controls =>
    \A n \in linked \ {m_active} : \A b \in held[n] : n \in recipients[b]
RecordsAreRight == RecipientsGotThePress /\ BackgroundKeysAreRecorded

\* "Release follows the original press, even after a plan or target changes"
\* (BroadcastKeys.h:16): no key stays down at a client once the user has let it
\* go.
NoKeyStaysDown == \A n \in linked : held[n] \subseteq physical

\* So it is while input is not paused, no connection is lost and no key
\* controls the input language.
Calmly == ~setting.pauses /\ ~setting.losses /\ ~setting.controls
NoKeyIsStuck == Calmly => NoKeyStaysDown
=============================================================================
