--------------------------- MODULE ClipboardShare ---------------------------
(***************************************************************************)
(* One clipboard shared by the server's screen and its clients' screens    *)
(* (lib/server/Server.cpp, PrimaryClient.cpp, ClientProxy1_0.cpp,          *)
(* ClientProxy1_6.cpp, lib/client/Client.cpp, ServerProxy.cpp).            *)
(*                                                                         *)
(* A screen where something is copied grabs the clipboard: the server      *)
(* empties it on every other screen (on macOS, where that does nothing,    *)
(* what is there stays).  What was copied travels when the cursor leaves   *)
(* that screen, or at once if the cursor is elsewhere, and goes on to the  *)
(* screen with the cursor; each other screen is marked dirty and gets it   *)
(* when it is entered.  Sequence numbers of the enter messages tell old    *)
(* grabs and data from new ones.                                           *)
(*                                                                         *)
(* Both sides run an event loop, so an action is a handler.  Data leaves   *)
(* through the event queue (StreamChunker::sendClipboard), the other       *)
(* messages are written at once.  Abstracted: the formats, sizes and       *)
(* chunks of the data (a copy is a number), the size limit, the licence's  *)
(* image rule, and how the cursor comes to move (ScreenSwitch).            *)
(***************************************************************************)
EXTENDS Naturals, Sequences, FiniteSets

CONSTANTS
  Client,        \* secondary screens
  Home,          \* the primary, the server's own screen
  Settings,      \* the circumstances considered, one for each behaviour
  MaxCopies,     \* bound: copies
  MaxSwitches,   \* bound: m_seqNum
  MaxConnects    \* bound: connections of one client

ASSUME HomeAssumption == Home \notin Client
ASSUME SettingAssumption ==
  Settings \subseteq
    [platform : {"macOS", "Windows", "X11"},
     background : BOOLEAN,  \* copies on a screen without the cursor
     hurried : BOOLEAN,     \* copies while grabs and data are under way
     drops : BOOLEAN,       \* connections may be lost
     switches : 0 .. MaxSwitches]
ASSUME CopyAssumption == {MaxCopies, MaxSwitches, MaxConnects} \subseteq Nat

Screen == Client \union {Home}
Empty == 0                       \* an empty clipboard; copies are 1, 2, ...
NotSent == MaxCopies + 1         \* ~m_sentClipboard
Data == 0 .. MaxCopies

VARIABLES
  setting,       \* in Settings
  \* the screens
  content,       \* what the screen's own clipboard holds
  held,          \* the platform takes its clipboard for this program's
  unnoticed,     \* screens with a copy the platform has yet to report
  copies,        \* how many copies were made; the next is copies + 1
  \* the server
  connected,     \* clients it serves
  connects,      \* connections each client has had
  activeScreen,  \* m_active, the screen with the cursor
  m_seqNum,      \* number of the last switch
  primarySeq,    \* the number the primary's platform reports grabs with
  m_clipboardOwner,
  m_clipboardSeqNum,
  m_clipboardData,
  dirty,         \* screens that lack the clipboard's data
  proxyClip,     \* ClientProxy::m_clipboard, last data to or from a client
  events,        \* the server's event queue
  \* the clients
  seqNum,        \* ServerProxy::m_seqNum
  clientActive,  \* Client::m_active
  ownClipboard,  \* clients that believe they own it
  sentClipboard, \* m_dataClipboard, or NotSent
  clientEvents,  \* a client's event queue
  toClient, toServer    \* the two directions of the stream

screenVars == <<content, held>>
copyVars == <<unnoticed, copies>>
peerVars == <<connected, connects>>
cursorVars == <<activeScreen, m_seqNum, primarySeq>>
clipVars == <<m_clipboardOwner, m_clipboardSeqNum, m_clipboardData, dirty>>
ownerVars == <<seqNum, clientActive, ownClipboard, sentClipboard>>
clipboardVars == <<setting, content, held, unnoticed, copies, connected, connects, activeScreen,
          m_seqNum, primarySeq, m_clipboardOwner, m_clipboardSeqNum,
          m_clipboardData, dirty, proxyClip, events, seqNum, clientActive,
          ownClipboard, sentClipboard, clientEvents, toClient, toServer>>

ClipboardInit ==
  /\ setting \in Settings
  /\ content = [s \in Screen |-> Empty]
  /\ held = [s \in Screen |-> FALSE]
  /\ unnoticed = {} /\ copies = 0
  /\ connected = {} /\ connects = [c \in Client |-> 0]
  /\ activeScreen = Home /\ m_seqNum = 0 /\ primarySeq = 0
  /\ m_clipboardOwner = Home /\ m_clipboardSeqNum = 0
  /\ m_clipboardData = Empty /\ dirty = {}
  /\ proxyClip = [c \in Client |-> Empty]
  /\ events = << >>
  /\ seqNum = [c \in Client |-> 0]
  /\ clientActive = [c \in Client |-> FALSE]
  /\ ownClipboard = {}
  /\ sentClipboard = [c \in Client |-> NotSent]
  /\ clientEvents = [c \in Client |-> << >>]
  /\ toClient = [c \in Client |-> << >>]
  /\ toServer = [c \in Client |-> << >>]

Grabbed(s, n) == [type |-> "grabbed", screen |-> s, seq |-> n]
Changed(s, n) == [type |-> "changed", screen |-> s, seq |-> n]
Sending(s, n, v) == [type |-> "sending", screen |-> s, seq |-> n, data |-> v]
Enter(n) == [type |-> "enter", seq |-> n]
Leave == [type |-> "leave"]
Grab(n) == [type |-> "grab", seq |-> n]
Put(n, v) == [type |-> "data", seq |-> n, data |-> v]

Quiet ==
  /\ events = << >> /\ unnoticed = {}
  /\ \A c \in connected :
       clientEvents[c] = << >> /\ toClient[c] = << >> /\ toServer[c] = << >>

-----------------------------------------------------------------------------
(* The screens' own clipboards.                                            *)

\* macOS polls the clipboard's change count; the others are told when the
\* clipboard is taken from this program.
NoticesEveryCopy == setting.platform = "macOS"

\* What a screen that grabs the clipboard for this program has then: macOS
\* leaves what is there (setClipboard of nothing).
AfterGrab(s) == IF setting.platform = "macOS" THEN content[s] ELSE Empty

\* checkClipboards, which leaving a screen calls, reports what is unnoticed.
ReadyToLeave(s) == setting.platform = "X11" \/ s \notin unnoticed

\* An application on the screen takes its clipboard.
Copy(s) ==
  /\ copies < MaxCopies
  /\ s \in connected \union {Home}
  /\ ~setting.background => s = activeScreen /\ (s # Home => clientActive[s])
  /\ ~setting.hurried => Quiet
  /\ copies' = copies + 1
  /\ content' = [content EXCEPT ![s] = copies + 1]
  /\ held' = [held EXCEPT ![s] = FALSE]
  /\ unnoticed' = IF held[s] \/ NoticesEveryCopy
                  THEN unnoticed \union {s} ELSE unnoticed
  /\ UNCHANGED <<peerVars, cursorVars, clipVars, proxyClip, events, ownerVars,
                 clientEvents, toClient, toServer>>

\* The platform reports it (sendClipboardEvent).
Notice(s) ==
  /\ s \in unnoticed
  /\ unnoticed' = unnoticed \ {s}
  /\ IF s = Home
     THEN /\ events' = Append(events, Grabbed(Home, primarySeq))
          /\ UNCHANGED clientEvents
     ELSE /\ clientEvents' = [clientEvents EXCEPT
                                ![s] = Append(@, Grabbed(s, 0))]
          /\ UNCHANGED events
  /\ UNCHANGED <<screenVars, copies, peerVars, cursorVars, clipVars, proxyClip,
                 ownerVars, toClient, toServer>>

-----------------------------------------------------------------------------
(* The server.                                                             *)

\* mutant: only the screen with the cursor is thought of
SharesWithActive(sender, v, target) ==
  m_clipboardData' = v /\ UNCHANGED dirty

\* onClipboardChanged for a sender that is not out of date: all screens but
\* the sender become dirty, and target, if it is one of them, gets the data.
\* assertion: the sender is the owner.
Shares(sender, v, target) ==
  /\ m_clipboardData' = v
  /\ dirty' = (connected \union {Home}) \ {sender, target}

\* setClipboard of the screens' proxies: a clean screen has the data already.
Delivers(s, v, queue) ==
  IF s = Home
  THEN /\ content' = [content EXCEPT ![Home] = v]
       /\ held' = [held EXCEPT ![Home] = TRUE]
       /\ events' = queue /\ UNCHANGED proxyClip
  ELSE /\ proxyClip' = [proxyClip EXCEPT ![s] = v]
       /\ events' = Append(queue, Sending(s, 0, v))
       /\ UNCHANGED screenVars
DeliversNothing(queue) ==
  events' = queue /\ UNCHANGED <<screenVars, proxyClip>>

\* switchScreen, as far as the clipboard goes.  The data of a clipboard the
\* primary owns is read when the cursor leaves the primary.
Switch(dst) ==
  LET flushed == activeScreen = Home /\ m_clipboardOwner = Home
                   /\ content[Home] # m_clipboardData
      data == IF flushed THEN content[Home] ELSE m_clipboardData
      stale == IF flushed THEN connected ELSE dirty
  IN /\ dst \in (connected \union {Home}) \ {activeScreen}
     /\ m_seqNum < setting.switches
     /\ activeScreen = Home => ReadyToLeave(Home)
     /\ activeScreen' = dst
     /\ m_seqNum' = m_seqNum + 1
     /\ primarySeq' = IF dst = Home THEN m_seqNum + 1 ELSE primarySeq
     /\ toClient' = [c \in Client |->
                       IF c = activeScreen THEN Append(toClient[c], Leave)
                       ELSE IF c = dst
                            THEN Append(toClient[c], Enter(m_seqNum + 1))
                            ELSE toClient[c]]
     /\ m_clipboardData' = data
     /\ dirty' = stale \ {dst}
     /\ IF dst \in stale THEN Delivers(dst, data, events)
                         ELSE DeliversNothing(events)
     /\ UNCHANGED <<copyVars, peerVars, m_clipboardOwner, m_clipboardSeqNum,
                    ownerVars, clientEvents, toServer>>

\* mutant: no data and no grab is out of date
NeverOld(s, n) == FALSE
IsOld(s, n) == n < m_clipboardSeqNum

\* handleClipboardGrabbed.  A grab on the primary while the cursor is
\* elsewhere has its data sent at once.
handleClipboardGrabbed ==
  /\ events # << >> /\ Head(events).type = "grabbed"
  /\ LET s == Head(events).screen
         n == Head(events).seq
         sends == s = Home /\ activeScreen # Home
                    /\ content[Home] # Empty
     IN IF s # Home /\ IsOld(s, n)
        THEN DeliversNothing(Tail(events)) /\ UNCHANGED <<clipVars, toClient>>
        ELSE /\ m_clipboardOwner' = s
             /\ m_clipboardSeqNum' = n
             /\ toClient' = [c \in Client |-> IF c \in connected \ {s}
                                            THEN Append(toClient[c], Grab(0))
                                            ELSE toClient[c]]
             /\ IF sends
                THEN /\ Shares(Home, content[Home], activeScreen)
                     /\ Delivers(activeScreen, content[Home], Tail(events))
                ELSE /\ m_clipboardData' = Empty
                     /\ dirty' = (connected \union {Home}) \ {s}
                     /\ IF s = Home
                        THEN DeliversNothing(Tail(events))
                        ELSE Delivers(Home, AfterGrab(Home), Tail(events))
  /\ UNCHANGED <<copyVars, peerVars, cursorVars, ownerVars, clientEvents,
                 toServer>>

\* handleClipboardChanged: the proxy has read new data from its client.
handleClipboardChanged ==
  /\ events # << >> /\ Head(events).type = "changed"
  /\ LET s == Head(events).screen
     IN IF IsOld(s, Head(events).seq) \/ proxyClip[s] = m_clipboardData
        THEN DeliversNothing(Tail(events)) /\ UNCHANGED clipVars
        ELSE /\ Shares(s, proxyClip[s], activeScreen)
             /\ IF activeScreen = s
                THEN DeliversNothing(Tail(events))
                ELSE Delivers(activeScreen, proxyClip[s], Tail(events))
             /\ UNCHANGED <<m_clipboardOwner, m_clipboardSeqNum>>
  /\ UNCHANGED <<copyVars, peerVars, cursorVars, ownerVars, clientEvents,
                 toClient, toServer>>

\* ClipboardSending: ClipboardChunk::send writes what was queued.
SendClipboard ==
  /\ events # << >> /\ Head(events).type = "sending"
  /\ events' = Tail(events)
  /\ toClient' = [toClient EXCEPT
                    ![Head(events).screen] = Append(@, Put(0, Head(events).data))]
  /\ UNCHANGED <<screenVars, copyVars, peerVars, cursorVars, clipVars, proxyClip,
                 ownerVars, clientEvents, toServer>>

\* EventQueue::dispatchEvent finds no handler for an event of a deleted proxy.
DispatchToNobody ==
  /\ events # << >> /\ Head(events).type = "gone"
  /\ DeliversNothing(Tail(events))
  /\ UNCHANGED <<copyVars, peerVars, cursorVars, clipVars, ownerVars, clientEvents,
                 toClient, toServer>>

\* ClientProxy: recvGrabClipboard and recvClipboard leave events.
ServerReceives(c) ==
  /\ toServer[c] # << >>
  /\ toServer' = [toServer EXCEPT ![c] = Tail(@)]
  /\ LET m == Head(toServer[c])
     IN IF m.type = "grab"
        THEN /\ events' = Append(events, Grabbed(c, m.seq))
             /\ UNCHANGED proxyClip
        ELSE /\ events' = Append(events, Changed(c, m.seq))
             /\ proxyClip' = [proxyClip EXCEPT ![c] = m.data]
  /\ UNCHANGED <<screenVars, copyVars, peerVars, cursorVars, clipVars,
                 ownerVars, clientEvents, toClient>>

-----------------------------------------------------------------------------
(* The clients.                                                            *)

\* sendClipboard, to be sent with number n, behind the events in queue.
sendClipboard(c, queue) ==
  /\ sentClipboard' = [sentClipboard EXCEPT ![c] = content[c]]
  /\ clientEvents' = [clientEvents EXCEPT
                        ![c] = Append(queue, Sending(c, seqNum[c], content[c]))]

\* mutant: the data always wait until the cursor leaves
AlwaysWaits(c) == TRUE
WaitsUntilLeave(c) == clientActive[c]

\* Client::handleClipboardGrabbed
ClientGrabs(c) ==
  /\ clientEvents[c] # << >> /\ Head(clientEvents[c]).type = "grabbed"
  /\ toServer' = [toServer EXCEPT ![c] = Append(@, Grab(seqNum[c]))]
  /\ ownClipboard' = ownClipboard \union {c}
  /\ IF WaitsUntilLeave(c)
     THEN /\ sentClipboard' = [sentClipboard EXCEPT ![c] = NotSent]
          /\ clientEvents' = [clientEvents EXCEPT ![c] = Tail(@)]
     ELSE sendClipboard(c, Tail(clientEvents[c]))
  /\ UNCHANGED <<screenVars, copyVars, peerVars, cursorVars, clipVars, proxyClip,
                 events, seqNum, clientActive, toClient>>

\* ClipboardSending on the client
ClientSends(c) ==
  /\ clientEvents[c] # << >> /\ Head(clientEvents[c]).type = "sending"
  /\ clientEvents' = [clientEvents EXCEPT ![c] = Tail(@)]
  /\ LET e == Head(clientEvents[c])
     IN toServer' = [toServer EXCEPT ![c] = Append(@, Put(e.seq, e.data))]
  /\ UNCHANGED <<screenVars, copyVars, peerVars, cursorVars, clipVars, proxyClip,
                 events, ownerVars, toClient>>

\* ServerProxy::enter, Client::enter
ClientEnters(c, n) ==
  /\ seqNum' = [seqNum EXCEPT ![c] = n]
  /\ clientActive' = [clientActive EXCEPT ![c] = TRUE]
  /\ UNCHANGED <<ownClipboard, sentClipboard, clientEvents, screenVars>>

\* mutant: leaving sends nothing
LeavesUnsent(c) ==
  /\ ReadyToLeave(c)
  /\ clientActive' = [clientActive EXCEPT ![c] = FALSE]
  /\ UNCHANGED <<sentClipboard, clientEvents, seqNum, ownClipboard, screenVars>>

\* Client::leave sends a clipboard it owns, unless it has been sent.
ClientLeaves(c) ==
  /\ ReadyToLeave(c)
  /\ clientActive' = [clientActive EXCEPT ![c] = FALSE]
  /\ IF c \in ownClipboard /\ sentClipboard[c] # content[c]
     THEN sendClipboard(c, clientEvents[c])
     ELSE UNCHANGED <<sentClipboard, clientEvents>>
  /\ UNCHANGED <<seqNum, ownClipboard, screenVars>>

\* Client::grabClipboard and Client::setClipboard
ClientTakes(c, v) ==
  /\ content' = [content EXCEPT ![c] = v]
  /\ held' = [held EXCEPT ![c] = TRUE]
  /\ ownClipboard' = ownClipboard \ {c}
  /\ sentClipboard' = [sentClipboard EXCEPT ![c] = NotSent]
  /\ UNCHANGED <<seqNum, clientActive, clientEvents>>

Receives(c) ==
  /\ toClient[c] # << >>
  /\ toClient' = [toClient EXCEPT ![c] = Tail(@)]
  /\ LET m == Head(toClient[c])
     IN \/ m.type = "enter" /\ ClientEnters(c, m.seq)
        \/ m.type = "leave" /\ ClientLeaves(c)
        \/ m.type = "grab" /\ ClientTakes(c, AfterGrab(c))
        \/ m.type = "data" /\ ClientTakes(c, m.data)
  /\ UNCHANGED <<copyVars, peerVars, cursorVars, clipVars, proxyClip, events,
                 toServer>>

-----------------------------------------------------------------------------
(* Connections.                                                            *)

\* mutant: a new proxy's clipboard is clean
NewIsClean(c) ==
  /\ UNCHANGED dirty
  /\ proxyClip' = [proxyClip EXCEPT ![c] = Empty]

\* A new ClientProxy's clipboard is empty and dirty.
NewProxy(c) ==
  /\ dirty' = dirty \union {c}
  /\ proxyClip' = [proxyClip EXCEPT ![c] = Empty]

\* Client::handleConnected, Screen::enableSecondary, Server::adoptClient
Connect(c) ==
  /\ c \notin connected /\ connects[c] < MaxConnects
  /\ connected' = connected \union {c}
  /\ connects' = [connects EXCEPT ![c] = @ + 1]
  /\ NewProxy(c)
  /\ content' = [content EXCEPT ![c] = AfterGrab(c)]
  /\ held' = [held EXCEPT ![c] = TRUE]
  /\ seqNum' = [seqNum EXCEPT ![c] = 0]
  /\ ownClipboard' = ownClipboard \ {c}
  /\ sentClipboard' = [sentClipboard EXCEPT ![c] = NotSent]
  /\ UNCHANGED <<copyVars, cursorVars, m_clipboardOwner, m_clipboardSeqNum,
                 m_clipboardData, events, clientActive, clientEvents, toClient,
                 toServer>>

\* mutant: the cursor stays with a screen that is gone
StaysActive(c) == UNCHANGED <<activeScreen, primarySeq>>

\* The primary is entered with the last number, and is given no data.
ForceLeave(c) ==
  /\ activeScreen' = IF activeScreen = c THEN Home ELSE activeScreen
  /\ primarySeq' = IF activeScreen = c THEN m_seqNum ELSE primarySeq

\* An event of a proxy that is deleted finds no handler.
Orphaned(e, c) ==
  IF e.screen = c THEN [type |-> "gone", screen |-> c] ELSE e

\* The connection ends on both sides: Server::removeActiveClient and
\* Client::cleanupScreen.
Disconnect(c) ==
  /\ setting.drops /\ c \in connected
  /\ connected' = connected \ {c}
  /\ ForceLeave(c)
  /\ events' = [i \in DOMAIN events |-> Orphaned(events[i], c)]
  /\ clientEvents' = [clientEvents EXCEPT ![c] = << >>]
  /\ toClient' = [toClient EXCEPT ![c] = << >>]
  /\ toServer' = [toServer EXCEPT ![c] = << >>]
  /\ dirty' = dirty \ {c}
  /\ unnoticed' = unnoticed \ {c}
  /\ UNCHANGED <<screenVars, copies, connects, m_seqNum, m_clipboardOwner,
                 m_clipboardSeqNum, m_clipboardData, proxyClip, ownerVars>>

-----------------------------------------------------------------------------
\* Nothing is under way and the users do nothing.
Idle == Quiet /\ UNCHANGED clipboardVars

Step ==
  \/ \E s \in Screen : Copy(s)
  \/ \E s \in Screen : Notice(s)
  \/ \E s \in Screen : Switch(s)
  \/ handleClipboardGrabbed
  \/ handleClipboardChanged
  \/ SendClipboard
  \/ DispatchToNobody
  \/ \E c \in Client : ServerReceives(c)
  \/ \E c \in Client : ClientGrabs(c)
  \/ \E c \in Client : ClientSends(c)
  \/ \E c \in Client : Receives(c)
  \/ \E c \in Client : Connect(c)
  \/ \E c \in Client : Disconnect(c)
  \/ Idle

ClipboardNext == Step /\ UNCHANGED setting

ClipboardSpec == ClipboardInit /\ [][ClipboardNext]_clipboardVars

-----------------------------------------------------------------------------
(* Properties.                                                             *)

\* Every variable has its type; the active screen is served, only served
\* screens are dirty, and no number runs ahead of the server's.
ClipboardTypeOK ==
  /\ setting \in Settings
  /\ content \in [Screen -> Data] /\ held \in [Screen -> BOOLEAN]
  /\ unnoticed \subseteq Screen /\ copies \in Data
  /\ connected \subseteq Client /\ connects \in [Client -> 0 .. MaxConnects]
  /\ activeScreen \in connected \union {Home}
  /\ m_seqNum \in 0 .. MaxSwitches /\ primarySeq \in 0 .. m_seqNum
  /\ m_clipboardOwner \in Screen /\ m_clipboardSeqNum \in 0 .. m_seqNum
  /\ m_clipboardData \in Data
  /\ dirty \subseteq connected \union {Home}
  /\ proxyClip \in [Client -> Data]
  /\ seqNum \in [Client -> 0 .. m_seqNum] /\ clientActive \in [Client -> BOOLEAN]
  /\ ownClipboard \subseteq Client
  /\ sentClipboard \in [Client -> Data \union {NotSent}]

\* Users copy on the screen with the cursor and wait until it has been told.
InFocus == ~setting.background /\ ~setting.hurried

\* The data a proxy announces and the server accepts is the owner's
\* (onClipboardChanged: "should be the expected client"), as long as something
\* is copied only on the screen with the cursor, once it is told.
ExpectedClientInFocus ==
  LET e == Head(events)
  IN InFocus /\ events # << >> /\ e.type = "changed"
       /\ ~IsOld(e.screen, e.seq) => e.screen = m_clipboardOwner

\* Nothing is under way to or from s, and it has no copy of its own.
Settled(s) ==
  /\ s \notin unnoticed
  /\ \A i \in 1 .. Len(events) : events[i].type = "gone" \/ events[i].screen # s
  /\ s \in connected =>
       clientEvents[s] = << >> /\ toClient[s] = << >> /\ toServer[s] = << >>

\* A screen the server thinks clean has the shared data, so that entering it
\* need not send it again; unless a copy elsewhere, or in a hurry, made it take
\* data that are not the owner's.
CleanScreensHaveTheData ==
  InFocus =>
    \A s \in (connected \union {Home}) \ dirty :
      Settled(s) /\ s # m_clipboardOwner => content[s] = m_clipboardData

\* And every copy is noticed and no connection is lost.
CalmCopies == InFocus /\ NoticesEveryCopy /\ ~setting.drops

\* Wherever the cursor is, what was copied last can be pasted once grabs and
\* data have arrived; the screen with the cursor has the shared data, unless it
\* is to provide them (switchScreen: "send the clipboard data to new active
\* screen"); and a client where something was copied while the cursor was
\* elsewhere has sent it, if no connection is lost
\* (Client::handleClipboardGrabbed: "if we're not the active screen then send
\* the clipboard now").
LastCopyIsShared ==
  CalmCopies /\ Quiet => content[activeScreen] = copies
ActiveHasTheData ==
  CalmCopies /\ Quiet /\ activeScreen # m_clipboardOwner => content[activeScreen] = m_clipboardData
InactiveOwnersHaveSent ==
  \A c \in connected \ {activeScreen} :
    NoticesEveryCopy /\ ~setting.hurried /\ ~setting.drops
      /\ Quiet /\ c \in ownClipboard => sentClipboard[c] = content[c]
CopiesAreShared ==
  LastCopyIsShared /\ ActiveHasTheData /\ InactiveOwnersHaveSent /\ ExpectedClientInFocus
=============================================================================
