------------------------- MODULE ClientConnection --------------------------
(***************************************************************************)
(* How a client finds a server and keeps to it (lib/client/Client.cpp,     *)
(* lib/deskflow/ClientApp.cpp and the handshake of ServerProxy.cpp): it    *)
(* goes through the addresses of the configured servers, answers the hello *)
(* of one, and tries again, later or elsewhere, whenever that comes to     *)
(* nothing.  The machine may be suspended and resumed at any time.         *)
(*                                                                         *)
(* An action is one event of the client's loop with its handler; a timer   *)
(* runs when the queue is empty (EventQueue).  Events for a stream that is *)
(* deleted find no handler and are left out of the queue.                  *)
(* Abstracted: the delays, what is in the messages, the screen, and the    *)
(* keep-alives that reset the alarm: a server that is not heard of in time *)
(* is one of the troubles, which are bounded.                              *)
(***************************************************************************)
EXTENDS Naturals, Sequences, FiniteSets

CONSTANTS
  Addresses,     \* how many addresses each server's name resolves to
  MaxTroubles    \* bound: suspensions, refusals, hang-ups, silences, names not resolved

Server == 0 .. Len(Addresses) - 1
CountOf(s) == Addresses[s + 1]
Address == UNION {{<<s, i>> : i \in 0 .. CountOf(s) - 1} : s \in Server}

ASSUME AddressesAssumption ==
  /\ Len(Addresses) > 0 /\ Addresses \in Seq(Nat \ {0})
  /\ MaxTroubles \in Nat

VARIABLES
  reachable,             \* the addresses where a server answers
  troubles,
  clientEvents,
  m_suspended,           \* of the Client; the ClientApp's never changes
  m_connectOnResume,
  conn,                  \* "none", "connecting", "hello", "handshake", "ready"
  target,                \* the address that m_stream connects to
  m_timer,               \* the time for connecting and for the hello
  m_keepAliveAlarmTimer,
  m_serverAddress,       \* the server that the Client was last told of
  m_resolvedAddressesCount,
  m_currentServerIndex, m_lastServerAddressIndex,
  m_restartTimer

envVars == <<reachable, troubles>>
suspendVars == <<m_suspended, m_connectOnResume>>
streamVars == <<conn, target, m_timer, m_keepAliveAlarmTimer>>
appVars == <<m_currentServerIndex, m_lastServerAddressIndex, m_restartTimer>>
serverVars == <<m_serverAddress, m_resolvedAddressesCount>>
connectionVars == <<envVars, clientEvents, suspendVars, streamVars, serverVars, appVars>>

\* Events for the stream, and for the ClientApp.
StreamEvent == {"connected", "connectionFailed", "hello", "badHello", "options",
                "close", "refuse", "hangUp", "closeRequested", "refuseRequested",
                "failRequested"}
AppEvent == {"clientConnected", "clientFailed", "clientRefused", "clientDisconnected"}
Queued(kinds) == \E i \in 1 .. Len(clientEvents) : clientEvents[i] \in kinds

Takes(kind) == clientEvents # << >> /\ Head(clientEvents) = kind
Posts(kind) == clientEvents' = Append(Tail(clientEvents), kind)
ForApp(queue) ==
  LET kept[i \in 0 .. Len(queue)] ==
        IF i = 0 THEN << >>
        ELSE IF queue[i] \in AppEvent THEN Append(kept[i - 1], queue[i])
        ELSE kept[i - 1]
  IN kept[Len(queue)]

-----------------------------------------------------------------------------
(* Client.                                                                 *)

\* What cleanup, or the handlers' own cleaning, does to the stream; the event
\* for the ClientApp goes after those that are there already.
CleanUp(queue, kind) ==
  /\ conn' = "none" /\ m_timer' = FALSE /\ m_keepAliveAlarmTimer' = FALSE
  /\ UNCHANGED target
  /\ clientEvents' = Append(ForApp(queue), kind)

\* What Client::connect tries: one of the addresses of a server, the last if the
\* index is too large.  It fails at once when the name is not resolved, and the
\* count is that of an earlier server, or when there is no socket to be had.
Attempt(server, index) ==
  LET count == CountOf(server)
  IN \/ /\ conn' = "connecting" /\ m_timer' = TRUE
        /\ m_resolvedAddressesCount' = count
        /\ target' = <<server, IF index < count THEN index ELSE count - 1>>
        /\ UNCHANGED <<m_keepAliveAlarmTimer, clientEvents, troubles>>
     \/ /\ troubles < MaxTroubles /\ troubles' = troubles + 1
        /\ clientEvents' = Append(clientEvents, "clientFailed")
        /\ m_resolvedAddressesCount' \in {m_resolvedAddressesCount, count}
        /\ UNCHANGED streamVars

\* Client::connect
connect(server, index) ==
  \/ /\ conn # "none"
     /\ UNCHANGED <<suspendVars, streamVars, m_resolvedAddressesCount, clientEvents, troubles>>
  \/ /\ conn = "none" /\ m_suspended
     /\ m_connectOnResume' = TRUE
     /\ UNCHANGED <<m_suspended, streamVars, m_resolvedAddressesCount, clientEvents, troubles>>
  \/ /\ conn = "none" /\ ~m_suspended
     /\ Attempt(server, index)
     /\ UNCHANGED suspendVars

\* The first attempt has been made, and perhaps failed at once.
ConnectionInit ==
  /\ reachable \in SUBSET Address
  /\ \/ /\ conn = "connecting" /\ m_timer = TRUE
        /\ m_resolvedAddressesCount = CountOf(0)
        /\ clientEvents = << >> /\ troubles = 0
     \/ /\ conn = "none" /\ m_timer = FALSE
        /\ m_resolvedAddressesCount \in {0, CountOf(0)}
        /\ clientEvents = <<"clientFailed">> /\ MaxTroubles > 0 /\ troubles = 1
  /\ m_suspended = FALSE /\ m_connectOnResume = FALSE
  /\ target = <<0, 0>> /\ m_keepAliveAlarmTimer = FALSE
  /\ m_serverAddress = 0 /\ m_currentServerIndex = 0 /\ m_lastServerAddressIndex = 0
  /\ m_restartTimer = FALSE

handleConnected ==
  /\ Takes("connected") /\ clientEvents' = Tail(clientEvents)
  /\ conn' = "hello"
  /\ UNCHANGED <<envVars, suspendVars, target, m_timer, m_keepAliveAlarmTimer,
                 serverVars, appVars>>

\* handleConnectionFailed, and the hellos that are not accepted
handleConnectionFailed ==
  /\ Takes("connectionFailed") \/ Takes("badHello")
  /\ CleanUp(Tail(clientEvents), "clientFailed")
  /\ UNCHANGED <<envVars, suspendVars, serverVars, appVars>>

handleConnectTimeout ==
  /\ m_timer /\ clientEvents = << >>
  /\ IF target \in reachable THEN troubles < MaxTroubles /\ troubles' = troubles + 1
                           ELSE UNCHANGED troubles
  /\ CleanUp(clientEvents, "clientFailed")
  /\ UNCHANGED <<reachable, suspendVars, serverVars, appVars>>

\* mutant: nothing watches the server until the handshake is complete
NoAlarmYet == UNCHANGED m_keepAliveAlarmTimer
SetsAlarm == m_keepAliveAlarmTimer' = TRUE

\* The ServerProxy is made, which sets its alarm.
handleHello ==
  /\ Takes("hello") /\ clientEvents' = Tail(clientEvents)
  /\ conn' = "handshake" /\ m_timer' = FALSE
  /\ SetsAlarm
  /\ UNCHANGED <<envVars, suspendVars, target, serverVars, appVars>>

\* handshakeComplete
handleOptions ==
  /\ Takes("options") /\ Posts("clientConnected")
  /\ conn' = "ready"
  /\ UNCHANGED <<envVars, suspendVars, target, m_timer, m_keepAliveAlarmTimer,
                 serverVars, appVars>>

\* ServerProxy: the server wants the client to hang up, or refuses it.
handleFarewell ==
  /\ \/ Takes("close") /\ Posts("closeRequested")
     \/ Takes("refuse") /\ Posts("refuseRequested")
  /\ UNCHANGED <<envVars, suspendVars, streamVars, serverVars, appVars>>

\* "server is not responding"
handleKeepAliveAlarm ==
  /\ m_keepAliveAlarmTimer /\ clientEvents = << >>
  /\ troubles < MaxTroubles /\ troubles' = troubles + 1
  /\ m_keepAliveAlarmTimer' = FALSE
  /\ clientEvents' = << "failRequested" >>
  /\ UNCHANGED <<reachable, suspendVars, conn, target, m_timer,
                 serverVars, appVars>>

\* handleDisconnectRequested, handleDisconnected and handleOutputError
handleDisconnected ==
  /\ \/ Takes("closeRequested") /\ CleanUp(Tail(clientEvents), "clientDisconnected")
     \/ Takes("refuseRequested") /\ CleanUp(Tail(clientEvents), "clientRefused")
     \/ Takes("failRequested") /\ CleanUp(Tail(clientEvents), "clientFailed")
     \/ Takes("hangUp") /\ CleanUp(Tail(clientEvents), "clientDisconnected")
  /\ m_connectOnResume' = IF Takes("hangUp") THEN m_connectOnResume ELSE FALSE
  /\ UNCHANGED <<envVars, m_suspended, serverVars, appVars>>

\* The screen's events, which are delivered at once.
handleSuspend ==
  /\ ~m_suspended /\ troubles < MaxTroubles
  /\ troubles' = troubles + 1
  /\ m_suspended' = TRUE
  /\ m_connectOnResume' = (conn \in {"handshake", "ready"})
  /\ CleanUp(clientEvents, "clientDisconnected")
  /\ UNCHANGED <<reachable, serverVars, appVars>>

\* connect is called for the first address.
handleResume ==
  /\ m_suspended
  /\ m_suspended' = FALSE /\ m_connectOnResume' = FALSE
  /\ IF m_connectOnResume /\ conn = "none"
     THEN Attempt(m_serverAddress, 0)
     ELSE UNCHANGED <<streamVars, m_resolvedAddressesCount, clientEvents, troubles>>
  /\ UNCHANGED <<reachable, m_serverAddress, appVars>>

-----------------------------------------------------------------------------
(* ClientApp.                                                              *)

handleClientConnected ==
  /\ Takes("clientConnected") /\ clientEvents' = Tail(clientEvents)
  /\ m_restartTimer' = FALSE
  /\ m_currentServerIndex' = 0 /\ m_lastServerAddressIndex' = 0
  /\ UNCHANGED <<envVars, suspendVars, streamVars, serverVars>>

\* mutant: the addresses of the next server are gone through from where those of
\* the last one ended
KeepsPlace == UNCHANGED m_lastServerAddressIndex
FirstAddress == m_lastServerAddressIndex' = 0

\* mutant: there is always a next one
PastTheLast == m_currentServerIndex + 1
NextServer == (m_currentServerIndex + 1) % Len(Addresses)

\* The next address, or the first one of the next server.
handleClientFailed ==
  /\ Takes("clientFailed") /\ clientEvents' = Tail(clientEvents)
  /\ m_restartTimer' = TRUE
  /\ IF m_lastServerAddressIndex + 1 < m_resolvedAddressesCount
     THEN /\ m_lastServerAddressIndex' = m_lastServerAddressIndex + 1
          /\ UNCHANGED m_currentServerIndex
     ELSE /\ FirstAddress
          /\ m_currentServerIndex' = NextServer
  /\ UNCHANGED <<envVars, suspendVars, streamVars, serverVars>>

\* mutant: no attempt is made after the server has closed the connection
GivesUp == UNCHANGED m_restartTimer
Restarts == m_restartTimer' = TRUE

\* handleClientRefused and handleClientDisconnected
handleClientLost ==
  /\ Takes("clientRefused") \/ Takes("clientDisconnected")
  /\ clientEvents' = Tail(clientEvents)
  /\ Restarts
  /\ UNCHANGED <<envVars, suspendVars, streamVars, serverVars,
                 m_currentServerIndex, m_lastServerAddressIndex>>

handleClientRestart ==
  /\ m_restartTimer /\ clientEvents = << >>
  /\ m_restartTimer' = FALSE
  /\ m_serverAddress' = m_currentServerIndex
  /\ connect(m_currentServerIndex, m_lastServerAddressIndex)
  /\ UNCHANGED <<reachable, m_currentServerIndex, m_lastServerAddressIndex>>

-----------------------------------------------------------------------------
(* The server, and the network.                                            *)

Arrives(kind) ==
  /\ ~Queued(StreamEvent) /\ clientEvents' = Append(clientEvents, kind)
  /\ UNCHANGED <<reachable, suspendVars, streamVars, serverVars,
                 appVars>>

\* Where there is a server, it does its part.
ServerAnswers ==
  /\ target \in reachable
  /\ \/ conn = "connecting" /\ Arrives("connected")
     \/ conn = "hello" /\ Arrives("hello")
     \/ conn = "handshake" /\ m_keepAliveAlarmTimer /\ Arrives("options")
  /\ UNCHANGED troubles

ConnectFails ==
  /\ conn = "connecting" /\ target \notin reachable
  /\ Arrives("connectionFailed") /\ UNCHANGED troubles

Trouble ==
  /\ troubles < MaxTroubles /\ troubles' = troubles + 1
  /\ \/ conn = "connecting" /\ Arrives("connectionFailed")
     \/ conn = "hello" /\ Arrives("badHello")
     \/ conn \in {"hello", "handshake", "ready"} /\ Arrives("hangUp")
     \/ conn \in {"handshake", "ready"} /\ (Arrives("close") \/ Arrives("refuse"))

-----------------------------------------------------------------------------
Handler ==
  \/ handleConnected \/ handleConnectionFailed \/ handleHello \/ handleOptions
  \/ handleFarewell \/ handleDisconnected
  \/ handleClientConnected \/ handleClientFailed \/ handleClientLost
ConnectionNext ==
  \/ Handler \/ handleConnectTimeout \/ handleKeepAliveAlarm \/ handleClientRestart
  \/ handleSuspend \/ handleResume
  \/ ServerAnswers \/ ConnectFails \/ Trouble

ConnectionSpec == ConnectionInit /\ [][ConnectionNext]_connectionVars

\* The loop goes on, its timers expire, and a server that can be reached answers.
ConnectionFairness ==
  /\ WF_connectionVars(Handler) /\ WF_connectionVars(handleConnectTimeout)
  /\ WF_connectionVars(handleClientRestart) /\ WF_connectionVars(ServerAnswers)
ConnectionFairSpec == ConnectionSpec /\ ConnectionFairness

-----------------------------------------------------------------------------
(* Properties.                                                             *)

\* Every variable has its type.
ConnectionTypeOK ==
  /\ reachable \subseteq Address /\ troubles \in 0 .. MaxTroubles
  /\ clientEvents \in Seq(StreamEvent \union AppEvent)
  /\ m_suspended \in BOOLEAN /\ m_connectOnResume \in BOOLEAN
  /\ conn \in {"none", "connecting", "hello", "handshake", "ready"}
  /\ target \in Address /\ m_timer \in BOOLEAN /\ m_keepAliveAlarmTimer \in BOOLEAN
  /\ m_resolvedAddressesCount \in {0} \union {CountOf(s) : s \in Server}
  /\ m_currentServerIndex \in Server
  /\ m_serverAddress \in Server
  /\ m_lastServerAddressIndex \in {a[2] : a \in Address}
  /\ m_restartTimer \in BOOLEAN

\* A client always has a way on.  Without a connection it will try again: when the
\* machine is resumed, when the restart timer fires, or after an event that starts
\* that timer (every handler of ClientApp must).  Until the server's hello there is
\* the timer; from then on the server is watched, or an event of the stream waits.
Loss == {"clientFailed", "clientRefused", "clientDisconnected"}
NeverStuck ==
  /\ conn = "none" =>
       (m_suspended /\ m_connectOnResume) \/ m_restartTimer \/ Queued(Loss)
  /\ conn \in {"connecting", "hello"} => m_timer
  /\ conn \in {"handshake", "ready"} => m_keepAliveAlarmTimer \/ Queued(StreamEvent)

\* While no server answers, every address of every server is tried again and
\* again, unless the machine stays suspended; if a server can be reached at one
\* of the addresses then the client gets there in the end, once the troubles
\* are over.
EveryAddressIsTried ==
  reachable = {} =>
    \A a \in Address :
      []<>(conn = "connecting" /\ target = a) \/ <>[]m_suspended
ReachesAServer ==
  reachable # {} => <>[](conn = "ready" \/ m_suspended)
SearchesWell ==
  [](ConnectionTypeOK /\ NeverStuck) /\ EveryAddressIsTried /\ ReachesAServer
=============================================================================
