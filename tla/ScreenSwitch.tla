---------------------------- MODULE ScreenSwitch ----------------------------
(***************************************************************************)
(* The server's screens (lib/server/Server.cpp): secondary screens come    *)
(* and go, and exactly one screen has the keyboard and mouse.  Every       *)
(* handler runs to completion on the server's event loop, so each action   *)
(* is one handler; the clients run on other machines and are reached by    *)
(* the enter, leave and close messages of a FIFO stream each.              *)
(*                                                                         *)
(* Abstracted: coordinates (where a motion event lands is a choice of      *)
(* neighbour, corner and zone), the layout (any edge may lead to any       *)
(* served screen), time (a timer that is running may expire), options      *)
(* other than the two switching delays, and clipboards (ClipboardShare).   *)
(* A proxy is named by its connection; a connection's name may be used     *)
(* again once its proxy is deleted and its client is gone.                 *)
(***************************************************************************)
EXTENDS Naturals, Sequences, FiniteSets

CONSTANTS
  Conn,          \* connections of secondary screens: a ClientProxy each
  Primary,       \* the server's own screen, m_primaryClient
  NoScreen,      \* a null BaseClientProxy pointer
  NameOf,        \* the screen name each connection's client announces
  Dir,           \* directions a screen can be left in
  NoDirection,
  WaitDelay,     \* m_switchWaitDelay > 0
  HotKeys,       \* the input filter has rules that switch screens
  TwoTap,        \* m_switchTwoTapDelay > 0
  Saver,         \* the primary's screen saver may start
  SaverInput,    \* input may reach the server while the saver is on
  ShapeLost,     \* the primary may have no valid shape for a while
  MaxLink        \* bound: messages under way to one client

ASSUME ScreensDistinct ==
  Primary \notin Conn /\ NoScreen \notin Conn /\ Primary # NoScreen
ASSUME NamesGiven == NameOf \in [Conn -> {NameOf[c] : c \in Conn}]
ASSUME DirAssumption == NoDirection \notin Dir
ASSUME OptionAssumption ==
  /\ WaitDelay \in BOOLEAN /\ TwoTap \in BOOLEAN /\ HotKeys \in BOOLEAN
  /\ Saver \in BOOLEAN /\ SaverInput \in BOOLEAN /\ ShapeLost \in BOOLEAN
ASSUME MaxLinkAssumption == MaxLink \in Nat

VARIABLES
  config,                 \* names the server's configuration knows
  proxies,                \* proxies allocated and not yet deleted
  m_clientSet,            \* proxies of the secondary screens it serves
  m_oldClients,           \* proxies told to close, each with a 5 s timer
  disconnecting,          \* proxies that gave up; their event is queued
  m_active,               \* the screen that has keyboard and mouse
  m_activeSaver,          \* m_active when the screen saver started
  saverOn,                \* the primary's screen saver is on
  m_switchScreen,         \* target of a pending switch
  m_switchDir,            \* the edge it is pending on
  m_switchWaitTimer,      \* "none", "armed", or "fired" and not deleted
  m_switchTwoTapEngaged,
  m_switchTwoTapArmed,
  m_lockedToScreen,
  professionalInput,      \* professionalInputActive()
  primaryEntered,         \* Screen::m_entered on the server
  up,                     \* connections whose client end is still open
  link,                   \* messages under way to the client
  entered                 \* Screen::m_entered on the client

pendingVars == <<m_switchScreen, m_switchDir, m_switchWaitTimer,
                 m_switchTwoTapEngaged, m_switchTwoTapArmed>>
serverVars == <<config, proxies, m_clientSet, m_oldClients>>
inputVars  == <<m_lockedToScreen, professionalInput, saverOn>>
clientVars == <<up, entered>>
focusVars  == <<m_active, primaryEntered, link>>
vars == <<config, proxies, m_clientSet, m_oldClients, disconnecting, m_active,
          m_activeSaver, saverOn, m_switchScreen, m_switchDir,
          m_switchWaitTimer, m_switchTwoTapEngaged, m_switchTwoTapArmed,
          m_lockedToScreen, professionalInput, primaryEntered, up, link,
          entered>>

Name == {NameOf[c] : c \in Conn}
Message == {"enter", "leave", "close"}
Screens == m_clientSet \union {Primary}     \* what m_clients holds

\* A pointer to a deleted proxy has no defined use; what uses one waits here.
Valid(s) == s = Primary \/ s \in proxies

Init ==
  /\ config = Name
  /\ proxies = {} /\ m_clientSet = {} /\ m_oldClients = {}
  /\ disconnecting = {}
  /\ m_active = Primary
  /\ m_activeSaver = NoScreen /\ saverOn = FALSE
  /\ m_switchScreen = NoScreen /\ m_switchDir = NoDirection
  /\ m_switchWaitTimer = "none"
  /\ m_switchTwoTapEngaged = FALSE /\ m_switchTwoTapArmed = FALSE
  /\ m_lockedToScreen \in BOOLEAN
  /\ professionalInput = FALSE
  /\ primaryEntered = TRUE
  /\ up = {}
  /\ link = [c \in Conn |-> << >>]
  /\ entered = [c \in Conn |-> FALSE]

-----------------------------------------------------------------------------
(* Messages.  What is written to a stream either end has closed is lost.   *)

Reaches(c) == c \in up /\ c \notin disconnecting
Sent(c, m) == IF Reaches(c) THEN Append(link[c], m) ELSE link[c]
Room(S) == \A c \in S \intersect Conn : Len(link[c]) < MaxLink

-----------------------------------------------------------------------------
(* Switching.                                                              *)

stopSwitch ==
  IF m_switchScreen # NoScreen
  THEN /\ m_switchScreen' = NoScreen
       /\ m_switchDir' = NoDirection
       /\ m_switchWaitTimer' = "none"
       /\ m_switchTwoTapEngaged' = FALSE
       /\ m_switchTwoTapArmed' = FALSE
  ELSE UNCHANGED pendingVars

\* mutant: the screen that is left is not told
EntersOnly(dst) ==
  /\ Room({dst})
  /\ m_active' = dst
  /\ primaryEntered' = (dst = Primary)
  /\ link' = [c \in Conn |-> IF c = dst THEN Sent(c, "enter") ELSE link[c]]

\* Leaving the active screen and entering another.
CutOver(dst) ==
  /\ Room({m_active, dst})
  /\ m_active' = dst
  /\ primaryEntered' = (dst = Primary)
  /\ link' = [c \in Conn |-> IF c = m_active THEN Sent(c, "leave")
                             ELSE IF c = dst THEN Sent(c, "enter")
                             ELSE link[c]]

\* mutant: going to the active screen leaves it and enters it again
SwitchesInPlace(dst) ==
  /\ Valid(m_active) /\ Valid(dst)
  /\ stopSwitch
  /\ CutOver(dst)

\* What switchScreen does with a destination that has a shape.  The primary's
\* platform may refuse to be left (Screen::canLeave); going to the active
\* screen only warps its cursor.
switchAccepted(dst) ==
  /\ Valid(m_active) /\ Valid(dst)
  /\ stopSwitch
  /\ \/ dst # m_active /\ CutOver(dst)
     \/ (dst = m_active \/ m_active = Primary) /\ UNCHANGED focusVars

\* A client without a valid shape is never served (ClientProxy1_0::recvInfo),
\* but the primary's displays may sleep.
switchRefused(dst) ==
  /\ ShapeLost /\ dst = Primary /\ m_active # Primary
  /\ UNCHANGED focusVars

switchScreen(dst) ==
  \/ switchAccepted(dst)
  \/ switchRefused(dst) /\ UNCHANGED pendingVars

InputArrives == saverOn => SaverInput

\* Hot keys and InputFilter actions: to a named screen, to a neighbour, to the
\* next screen in turn.  None of them looks at locks or input leases.
jumpToScreen(dst) ==
  /\ HotKeys /\ InputArrives
  /\ dst \in Screens
  /\ switchScreen(dst)
  /\ UNCHANGED <<serverVars, inputVars, clientVars, disconnecting,
                 m_activeSaver>>

\* isSwitchOkay's verdict on a motion event that crosses edge d; inTime says
\* whether m_switchTwoTapTimer has not run out yet.
IsNewDirection(d) == d # m_switchDir
SecondTap(d, inTime) ==
  ~IsNewDirection(d) /\ m_switchTwoTapEngaged /\ m_switchTwoTapArmed /\ inTime
AwaitsTap(d, inTime) == TwoTap /\ ~SecondTap(d, inTime)
AwaitsTimer(d, inTime) == WaitDelay /\ ~(TwoTap /\ SecondTap(d, inTime))

NotePending(d, dst) ==
  IF IsNewDirection(d) \/ m_switchScreen = NoScreen
  THEN m_switchDir' = d /\ m_switchScreen' = dst
  ELSE UNCHANGED <<m_switchDir, m_switchScreen>>

Motion == InputArrives /\ ~professionalInput /\ Valid(m_active)

\* The motion event is at an edge with no neighbour, or in a locked corner, or
\* the cursor is locked to the screen (by the user, by a button held on the
\* primary or by a full-screen program).
EdgeBlocked ==
  /\ Motion
  /\ stopSwitch
  /\ UNCHANGED <<serverVars, inputVars, clientVars, focusVars, disconnecting,
                 m_activeSaver>>

\* It is too early to switch: note the edge, and wait for a tap or the timer.
EdgePending(d, dst, inTime) ==
  /\ Motion /\ ~m_lockedToScreen
  /\ AwaitsTap(d, inTime) \/ AwaitsTimer(d, inTime)
  /\ NotePending(d, dst)
  /\ m_switchTwoTapEngaged' = (AwaitsTap(d, inTime) \/ m_switchTwoTapEngaged)
  /\ m_switchTwoTapArmed' = (~AwaitsTap(d, inTime) /\ m_switchTwoTapArmed)
  /\ m_switchWaitTimer' =
       IF AwaitsTimer(d, inTime)
            /\ (IsNewDirection(d) \/ m_switchWaitTimer = "none")
       THEN "armed" ELSE m_switchWaitTimer
  /\ UNCHANGED <<serverVars, inputVars, clientVars, focusVars, disconnecting,
                 m_activeSaver>>

EdgeSwitch(d, dst, inTime) ==
  /\ Motion /\ ~m_lockedToScreen
  /\ ~AwaitsTap(d, inTime) /\ ~AwaitsTimer(d, inTime)
  /\ switchAccepted(dst)
  /\ UNCHANGED <<serverVars, inputVars, clientVars, disconnecting,
                 m_activeSaver>>

\* The switch is refused after the edge was noted, which leaves it pending.
EdgeRefused(d, inTime) ==
  /\ Motion /\ ~m_lockedToScreen
  /\ ~AwaitsTap(d, inTime) /\ ~AwaitsTimer(d, inTime)
  /\ NotePending(d, Primary)
  /\ switchRefused(Primary)
  /\ UNCHANGED <<serverVars, inputVars, clientVars, disconnecting,
                 m_activeSaver, m_switchWaitTimer, m_switchTwoTapEngaged,
                 m_switchTwoTapArmed>>

\* The cursor is away from every edge: no more waiting, and the double tap is
\* armed, left alone or given up.
noSwitch ==
  /\ Motion
  /\ IF m_active = Primary THEN ~m_lockedToScreen
                           ELSE m_switchScreen # NoScreen
  /\ m_switchWaitTimer' = "none"
  /\ \/ UNCHANGED <<m_switchTwoTapEngaged, m_switchTwoTapArmed>>
     \/ /\ m_switchTwoTapEngaged
        /\ m_switchTwoTapEngaged' \in BOOLEAN
        /\ m_switchTwoTapArmed' = m_switchTwoTapEngaged'
  /\ UNCHANGED <<serverVars, inputVars, clientVars, focusVars, disconnecting,
                 m_activeSaver, m_switchScreen, m_switchDir>>

\* The one-shot timer expires; held says that the screen is locked by other
\* means than m_lockedToScreen.  A refused switch leaves the timer behind.
handleSwitchWaitTimeout(held) ==
  /\ m_switchWaitTimer = "armed" /\ m_switchScreen # NoScreen
  /\ IF m_lockedToScreen \/ held
     THEN stopSwitch /\ UNCHANGED focusVars
     ELSE \/ switchAccepted(m_switchScreen)
          \/ /\ switchRefused(m_switchScreen)
             /\ m_switchWaitTimer' = "fired"
             /\ UNCHANGED <<m_switchScreen, m_switchDir,
                            m_switchTwoTapEngaged, m_switchTwoTapArmed>>
  /\ UNCHANGED <<serverVars, inputVars, clientVars, disconnecting,
                 m_activeSaver>>

handleLockCursorToScreenEvent ==
  /\ m_lockedToScreen' = ~m_lockedToScreen
  /\ UNCHANGED <<serverVars, clientVars, focusVars, pendingVars,
                 disconnecting, m_activeSaver, professionalInput, saverOn>>

\* Another computer's user takes over the keyboard or mouse of this one
\* (setProfessionalInputActive, or a lease the hub observes).
pauseForProfessionalInput ==
  /\ ~professionalInput
  /\ professionalInput' = TRUE
  /\ IF m_active = Primary
     THEN UNCHANGED <<focusVars, pendingVars>>
     ELSE switchScreen(Primary)
  /\ UNCHANGED <<serverVars, clientVars, disconnecting, m_activeSaver,
                 m_lockedToScreen, saverOn>>

professionalInputEnds ==
  /\ professionalInput
  /\ professionalInput' = FALSE
  /\ UNCHANGED <<serverVars, clientVars, focusVars, pendingVars,
                 disconnecting, m_activeSaver, m_lockedToScreen, saverOn>>

\* onScreensaver(true)
ScreensaverOn ==
  /\ Saver /\ ~saverOn
  /\ saverOn' = TRUE
  /\ m_activeSaver' = m_active
  /\ IF m_active = Primary
     THEN UNCHANGED <<focusVars, pendingVars>>
     ELSE switchScreen(Primary)
  /\ UNCHANGED <<serverVars, clientVars, disconnecting, m_lockedToScreen,
                 professionalInput>>

\* onScreensaver(false)
ScreensaverOff ==
  /\ saverOn
  /\ saverOn' = FALSE
  /\ m_activeSaver' = NoScreen
  /\ IF m_activeSaver \in {NoScreen, Primary}
     THEN UNCHANGED <<focusVars, pendingVars>>
     ELSE switchScreen(m_activeSaver)
  /\ UNCHANGED <<serverVars, clientVars, disconnecting, m_lockedToScreen,
                 professionalInput>>

-----------------------------------------------------------------------------
(* Clients come and go.                                                    *)

\* forceLeaveClient for the proxies in S, which m_clients no longer holds.
\* While the saver is on it looks at the screen that was active before.
WasActive == IF m_activeSaver # NoScreen THEN m_activeSaver ELSE m_active

\* mutant: only the screen the saver interrupted is looked at
LeavingWhenSaved(S) == m_activeSaver \in S
Leaving(S) == WasActive \in S
StopsWaiting(S) == Leaving(S) /\ WasActive = m_switchScreen

\* mutant: the screen to go back to after the saver is not forgotten
ReturnsToClosed(S) ==
  /\ m_active' = IF Leaving(S) THEN Primary ELSE m_active
  /\ primaryEntered' =
       (primaryEntered \/ (Leaving(S) /\ m_activeSaver = NoScreen))
  /\ UNCHANGED m_activeSaver

\* mutant: the active screen is left to none
LeavesToNone(S) ==
  /\ m_active' = IF Leaving(S) THEN NoScreen ELSE m_active
  /\ UNCHANGED <<primaryEntered, m_activeSaver>>

forceLeaveClient(S) ==
  /\ m_active' = IF Leaving(S) THEN Primary ELSE m_active
  /\ primaryEntered' =
       (primaryEntered \/ (Leaving(S) /\ m_activeSaver = NoScreen))
  /\ m_activeSaver' = IF m_activeSaver \in S THEN NoScreen ELSE m_activeSaver

\* A handshake is complete (ClientProxyUnknown) and the proxy is handed over.
Connects(c) ==
  /\ c \notin proxies /\ c \notin up
  /\ proxies' = proxies \union {c}
  /\ up' = up \union {c}
  /\ entered' = [entered EXCEPT ![c] = FALSE]

\* mutant: addClient takes every client
NeverBusy(name) == FALSE
IsBusy(name) == \E d \in m_clientSet : NameOf[d] = name

adoptClient(c) ==
  /\ Connects(c)
  /\ NameOf[c] \in config /\ ~IsBusy(NameOf[c])
  /\ m_clientSet' = m_clientSet \union {c}
  /\ link' = [link EXCEPT ![c] = << >>]
  /\ UNCHANGED <<config, inputVars, pendingVars, m_oldClients, disconnecting,
                 m_active, m_activeSaver, primaryEntered>>

\* adoptClient turns the client away: its name is unknown or taken.
RefuseClient(c) ==
  /\ Connects(c)
  /\ NameOf[c] \notin config \/ IsBusy(NameOf[c])
  /\ m_oldClients' = m_oldClients \union {c}
  /\ link' = [link EXCEPT ![c] = <<"close">>]
  /\ forceLeaveClient({c})
  /\ IF StopsWaiting({c}) THEN stopSwitch ELSE UNCHANGED pendingVars
  /\ UNCHANGED <<config, inputVars, m_clientSet, disconnecting>>

\* setConfig: closeClients for the screens no longer configured, then
\* processOptions, which stops the wait and the double tap it reconfigures.
setConfig(names) ==
  LET dropped == {c \in m_clientSet : NameOf[c] \notin names}
  IN /\ Room(dropped)
     /\ config' = names
     /\ m_clientSet' = m_clientSet \ dropped
     /\ m_oldClients' = m_oldClients \union dropped
     /\ forceLeaveClient(dropped)
     /\ IF StopsWaiting(dropped)
        THEN m_switchScreen' = NoScreen /\ m_switchDir' = NoDirection
        ELSE UNCHANGED <<m_switchScreen, m_switchDir>>
     /\ m_switchWaitTimer' = "none"
     /\ m_switchTwoTapEngaged' = FALSE /\ m_switchTwoTapArmed' = FALSE
     /\ link' = [c \in Conn |-> IF c \in dropped
                                THEN Sent(c, "close") ELSE link[c]]
     /\ UNCHANGED <<inputVars, clientVars, proxies, disconnecting>>

\* ClientProxy1_0::disconnect: the stream ended or failed, a message could not
\* be parsed, or the client's heartbeat went missing.
ProxyDisconnects(c) ==
  /\ c \in proxies /\ c \notin disconnecting
  /\ disconnecting' = disconnecting \union {c}
  /\ UNCHANGED <<serverVars, inputVars, clientVars, focusVars, pendingVars,
                 m_activeSaver>>

\* mutant: the closing list and its timer outlive the proxy
OldClientKept(c) == UNCHANGED m_oldClients
removeOldClient(c) == m_oldClients' = m_oldClients \ {c}

\* mutant: a proxy that was not closing is never deleted
ServedProxyLeaked(c) == proxies' = proxies \ (m_oldClients \intersect {c})
DeleteProxy(c) == proxies' = proxies \ {c}

\* removeActiveClient, removeOldClient, delete.
handleClientDisconnected(c) ==
  /\ c \in disconnecting
  /\ disconnecting' = disconnecting \ {c}
  /\ removeOldClient(c) /\ DeleteProxy(c)
  /\ m_clientSet' = m_clientSet \ {c}
  /\ IF c \in m_clientSet
     THEN /\ forceLeaveClient({c})
          /\ IF StopsWaiting({c}) THEN stopSwitch ELSE UNCHANGED pendingVars
     ELSE UNCHANGED <<m_active, primaryEntered, m_activeSaver, pendingVars>>
  /\ UNCHANGED <<config, inputVars, clientVars, link>>

\* The five seconds are over.  Deleting the proxy leaves no handler for a
\* ClientProxyDisconnected that may be queued.
handleClientCloseTimeout(c) ==
  /\ c \in m_oldClients
  /\ removeOldClient(c) /\ DeleteProxy(c)
  /\ disconnecting' = disconnecting \ {c}
  /\ UNCHANGED <<config, inputVars, clientVars, focusVars, pendingVars,
                 m_clientSet, m_activeSaver>>

-----------------------------------------------------------------------------
(* The client's end of the stream.                                         *)

ClientReceives(c) ==
  /\ c \in up /\ link[c] # << >>
  /\ Head(link[c]) \in {"enter", "leave"}
  /\ link' = [link EXCEPT ![c] = Tail(@)]
  /\ entered' = [entered EXCEPT ![c] = (Head(link[c]) = "enter")]
  /\ UNCHANGED <<serverVars, inputVars, pendingVars, up, disconnecting,
                 m_active, m_activeSaver, primaryEntered>>

\* The client is told to close, loses the stream, hears no keep-alive or
\* quits: Client::cleanupScreen disables its screen, which leaves it.
ClientDrops(c) ==
  /\ c \in up
  /\ up' = up \ {c}
  /\ link' = [link EXCEPT ![c] = << >>]
  /\ entered' = [entered EXCEPT ![c] = FALSE]
  /\ UNCHANGED <<serverVars, inputVars, pendingVars, disconnecting, m_active,
                 m_activeSaver, primaryEntered>>

-----------------------------------------------------------------------------
Next ==
  \/ \E s \in Screens : jumpToScreen(s)
  \/ EdgeBlocked
  \/ \E d \in Dir, s \in Screens, t \in BOOLEAN : EdgePending(d, s, t)
  \/ \E d \in Dir, s \in Screens, t \in BOOLEAN : EdgeSwitch(d, s, t)
  \/ \E d \in Dir, t \in BOOLEAN : EdgeRefused(d, t)
  \/ noSwitch
  \/ \E held \in BOOLEAN : handleSwitchWaitTimeout(held)
  \/ handleLockCursorToScreenEvent
  \/ pauseForProfessionalInput
  \/ professionalInputEnds
  \/ ScreensaverOn
  \/ ScreensaverOff
  \/ \E c \in Conn : adoptClient(c)
  \/ \E c \in Conn : RefuseClient(c)
  \/ \E names \in SUBSET Name : setConfig(names)
  \/ \E c \in Conn : ProxyDisconnects(c)
  \/ \E c \in Conn : handleClientDisconnected(c)
  \/ \E c \in Conn : handleClientCloseTimeout(c)
  \/ \E c \in Conn : ClientReceives(c)
  \/ \E c \in Conn : ClientDrops(c)

Spec == Init /\ [][Next]_vars

\* What goes on by itself: timers expire, queued events are handled, streams
\* deliver, and an end whose peer is gone notices (end of stream, or the
\* heartbeat and keep-alive timers).  Input, clients and users owe nothing.
Fairness ==
  \A c \in Conn :
    /\ WF_vars(handleClientCloseTimeout(c))
    /\ WF_vars(handleClientDisconnected(c))
    /\ WF_vars(c \notin up /\ ProxyDisconnects(c))
    /\ WF_vars(ClientReceives(c))
    /\ WF_vars((c \in disconnecting \/ c \notin proxies) /\ ClientDrops(c))
    /\ WF_vars(link[c] # << >> /\ Head(link[c]) = "close" /\ ClientDrops(c))

FairSpec == Spec /\ Fairness

-----------------------------------------------------------------------------
(* Properties.                                                             *)

\* Every variable has its type: in particular the active screen is never null
\* and the streams carry nothing but what the server writes.
TypeOK ==
  /\ config \subseteq Name
  /\ proxies \subseteq Conn /\ m_clientSet \subseteq Conn
  /\ m_oldClients \subseteq Conn /\ disconnecting \subseteq Conn
  /\ m_active \in Conn \union {Primary}
  /\ m_activeSaver \in Conn \union {Primary, NoScreen}
  /\ m_switchScreen \in Conn \union {Primary, NoScreen}
  /\ m_switchDir \in Dir \union {NoDirection}
  /\ m_switchWaitTimer \in {"none", "armed", "fired"}
  /\ m_switchTwoTapEngaged \in BOOLEAN /\ m_switchTwoTapArmed \in BOOLEAN
  /\ m_lockedToScreen \in BOOLEAN /\ professionalInput \in BOOLEAN
  /\ saverOn \in BOOLEAN /\ primaryEntered \in BOOLEAN
  /\ up \subseteq Conn
  /\ link \in [Conn -> Seq(Message)]
  /\ entered \in [Conn -> BOOLEAN]

\* Every allocated proxy is owned by exactly one of the server's two lists, so
\* none is leaked and none is deleted twice; a name is served once.
ProxiesAccountedFor ==
  /\ m_clientSet \intersect m_oldClients = {}
  /\ proxies = m_clientSet \union m_oldClients
  /\ disconnecting \subseteq proxies
  /\ \A c, d \in m_clientSet : NameOf[c] = NameOf[d] => c = d

\* The screen with the keyboard and mouse is one the server serves: input is
\* never sent to a proxy that is closing or deleted (closeClient: "if this
\* client is the active screen then we have to jump off of it").
ActiveIsServed == m_active \in Screens

\* Once a client whose screen has the cursor (e) or not has read the messages
\* in q, does its screen have the cursor?
EndsEntered(q, e) == IF q = << >> THEN e ELSE q[Len(q)] = "enter"

\* The active screen, and no other, has been entered, or will have been when
\* the messages under way arrive; a client being closed has been told so.
OneScreenHasTheCursor ==
  /\ primaryEntered <=> (m_active = Primary)
  /\ \A c \in m_clientSet :
       Reaches(c) => (EndsEntered(link[c], entered[c]) <=> m_active = c)
  /\ \A c \in m_oldClients : Reaches(c) =>
       link[c] # << >> /\ link[c][Len(link[c])] = "close"

\* No screen is entered twice or left twice in a row (Screen::enter and
\* Screen::leave warn of it), nor told anything after "close".
Alternates(q, e) ==
  /\ q # << >> => q[1] # (IF e THEN "enter" ELSE "leave")
  /\ \A i \in 1 .. Len(q) - 1 : q[i] # "close" /\ q[i] # q[i + 1]
EntersAndLeavesAlternate == \A c \in Conn : Alternates(link[c], entered[c])

\* A client that is being closed, or whose stream is gone, does not stay: its
\* proxy is deleted, whatever the client does.
ClosedClientsAreDeleted ==
  \A c \in Conn : (c \in m_oldClients \/ c \in proxies \ up) ~> c \notin proxies

\* A screen that is not the active one does not keep the cursor.
OthersLoseTheCursor ==
  \A c \in Conn : (entered[c] /\ m_active # c) ~> (~entered[c] \/ m_active = c)

\* What is left is left in the end.
LeavingEnds == ClosedClientsAreDeleted /\ OthersLoseTheCursor

\* Where the three properties of the active screen hold: nothing switches
\* behind the back of forceLeaveClient.
Calm == ~WaitDelay /\ (Saver => ~SaverInput /\ ~ShapeLost)

\* What they rest on: the screen saver shows on the primary, a switch is never
\* left to the timer, and a served client has not been told to close.
SaverShowsOnPrimary ==
  /\ saverOn => Saver /\ m_active = Primary
  /\ ~saverOn => m_activeSaver = NoScreen
  /\ m_activeSaver \in Screens \union {NoScreen}
NoTimer == m_switchWaitTimer = "none"
ServedStayOpen ==
  \A c \in m_clientSet : link[c] # << >> => link[c][Len(link[c])] # "close"

CalmInv ==
  /\ ProxiesAccountedFor /\ ActiveIsServed /\ OneScreenHasTheCursor
  /\ EntersAndLeavesAlternate
  /\ SaverShowsOnPrimary /\ NoTimer /\ ServedStayOpen

\* What the server promises.
F == INSTANCE Focus WITH present <- m_clientSet, focus <- m_active
ImplementsFocus == F!Spec
=============================================================================
