-------------------------- MODULE ClientAdmission --------------------------
(***************************************************************************)
(* How a client is admitted to the server (lib/server/ClientListener.cpp,  *)
(* ClientProxyUnknown.cpp and the handshake of ClientProxy1_0.cpp): its    *)
(* socket is accepted, a ClientProxyUnknown says hello and makes a proxy   *)
(* of the version that the client answers, the proxy asks for the client's *)
(* screen, and the proxy waits in the listener until the server takes it.  *)
(*                                                                         *)
(* An action is one event of the server's loop: the handler that the table *)
(* of handlers has for it runs, if there is one, and what it posts goes to *)
(* the end of the queue.  A timer runs only when the queue is empty        *)
(* (EventQueue).  Peers connect, answer well or badly, or hang up.         *)
(* Abstracted: what is in the messages, and the server once it has         *)
(* taken a client (ScreenSwitch).                                          *)
(***************************************************************************)
EXTENDS Naturals, Sequences, FiniteSets

CONSTANT Peer      \* one connection each

VARIABLES
  secure,            \* TLS
  accepting,         \* sockets whose TLS handshake the service thread does
  serverEvents,      \* the queue: <<type, peer>>
  m_clientSockets,
  m_newClients,      \* peers that have a ClientProxyUnknown
  m_stream,          \* ... that has its stream
  m_proxy,           \* ... that has a proxy
  m_ready, unknownTimer,  \* ... that is ready; that has a timer
  proxy,             \* a proxy: "none", "asks", "known", "gone", "deleted"
  m_heartbeatTimer,  \* proxies with an alarm
  m_waitingClients,
  served,            \* clients of the server
  streamHandler,     \* who handles the events of a stream
  proxyHandler,      \* who handles ClientProxyReady and -Disconnected
  inbox,             \* what a peer has said that is not read
  peerAt,            \* where it is in the handshake
  crashed            \* something that is not a socket was deleted as one

unknownVars == <<m_newClients, m_stream, m_proxy, m_ready, unknownTimer>>
proxyVars == <<proxy, m_heartbeatTimer>>
admittedVars == <<m_waitingClients, served>>
handlerVars == <<streamHandler, proxyHandler>>
socketVars == <<secure, accepting, m_clientSockets>>
admissionVars == <<socketVars, serverEvents, unknownVars, proxyVars, admittedVars,
                   handlerVars, inbox, peerAt, crashed>>

AdmissionInit ==
  /\ secure \in BOOLEAN /\ accepting = {} /\ serverEvents = << >>
  /\ m_clientSockets = {} /\ m_newClients = {} /\ m_stream = {} /\ m_proxy = {}
  /\ m_ready = {} /\ unknownTimer = {} /\ m_heartbeatTimer = {}
  /\ proxy = [c \in Peer |-> "none"]
  /\ m_waitingClients = << >> /\ served = {}
  /\ streamHandler = [c \in Peer |-> "nobody"]
  /\ proxyHandler = [c \in Peer |-> "nobody"]
  /\ inbox = [c \in Peer |-> "nothing"] /\ peerAt = [c \in Peer |-> "away"]
  /\ crashed = FALSE

Waiting == {m_waitingClients[i] : i \in 1 .. Len(m_waitingClients)}

\* The event at the head is handled, and some are posted.
Handles(type, c, posted) ==
  /\ serverEvents # << >> /\ Head(serverEvents) = <<type, c>>
  /\ serverEvents' = Tail(serverEvents) \o posted
\* A timer expires, and events are posted.
Expires(posted) == serverEvents = << >> /\ serverEvents' = posted

StreamGoesTo(c, who) == streamHandler' = [streamHandler EXCEPT ![c] = who]
ProxyGoesTo(c, who) == proxyHandler' = [proxyHandler EXCEPT ![c] = who]

-----------------------------------------------------------------------------
(* The listener, up to the ClientProxyUnknown.                             *)

\* Without TLS the socket is polled at once: that the peer has hung up may be
\* queued before the client is accepted.
handleClientConnecting(c) ==
  /\ \/ /\ secure /\ Handles("connecting", c, << >>)
        /\ accepting' = accepting \union {c} /\ UNCHANGED peerAt
     \/ /\ ~secure /\ Handles("connecting", c, << <<"accepted", c>> >>)
        /\ UNCHANGED <<accepting, peerAt>>
     \/ /\ ~secure /\ Handles("connecting", c, << <<"hangUp", c>>, <<"accepted", c>> >>)
        /\ peerAt' = [peerAt EXCEPT ![c] = "left"] /\ UNCHANGED accepting
  /\ m_clientSockets' = m_clientSockets \union {c}
  /\ UNCHANGED <<secure, unknownVars, proxyVars, admittedVars, handlerVars, inbox,
                 crashed>>

\* On the service thread.
serviceAccept(c) ==
  /\ c \in accepting
  /\ accepting' = accepting \ {c}
  /\ \E type \in {"accepted", "refused"} : serverEvents' = Append(serverEvents, <<type, c>>)
  /\ UNCHANGED <<secure, m_clientSockets, unknownVars, proxyVars, admittedVars,
                 handlerVars, inbox, peerAt, crashed>>

\* "disconnected client before accept"
handleRefused(c) ==
  /\ Handles("refused", c, << >>)
  /\ m_clientSockets' = m_clientSockets \ {c}
  /\ peerAt' = [peerAt EXCEPT ![c] = "left"]
  /\ UNCHANGED <<secure, accepting, unknownVars, proxyVars, admittedVars,
                 handlerVars, inbox, crashed>>

\* A ClientProxyUnknown listens to its stream and says hello.
handleClientAccepted(c) ==
  /\ Handles("accepted", c, << >>)
  /\ m_newClients' = m_newClients \union {c}
  /\ m_stream' = m_stream \union {c}
  /\ unknownTimer' = unknownTimer \union {c}
  /\ StreamGoesTo(c, "unknown")
  /\ peerAt' = [peerAt EXCEPT ![c] = IF @ = "silent" THEN "told" ELSE @]
  /\ UNCHANGED <<socketVars, m_proxy, m_ready, proxyVars, admittedVars,
                 proxyHandler, inbox, crashed>>

-----------------------------------------------------------------------------
(* ClientProxyUnknown.                                                     *)

Unready(c) == m_ready' = m_ready \ {c}

\* mutant: a failure while a proxy shakes hands is not told
TellsNobody(c) == IF c \in m_proxy THEN << >> ELSE << <<"failure", c>> >>
Failure(c) == << <<"failure", c>> >>

\* sendFailure, whatever posted it: deleting the proxy deletes its stream, and
\* takes their handlers with it; removeHandlers, which comes after it, leaves
\* the proxy's.
sendFailure(c) ==
  /\ proxy' = [proxy EXCEPT ![c] = IF c \in m_proxy THEN "deleted" ELSE @]
  /\ m_heartbeatTimer' = m_heartbeatTimer \ {c}
  /\ m_proxy' = m_proxy \ {c}
  /\ Unready(c)
  /\ StreamGoesTo(c, "nobody")
  /\ unknownTimer' = unknownTimer \ {c}
  /\ UNCHANGED <<socketVars, m_newClients, m_stream, admittedVars, proxyHandler,
                 crashed>>

handleTimeout(c) ==
  /\ c \in unknownTimer /\ Expires(Failure(c))
  /\ sendFailure(c) /\ UNCHANGED <<inbox, peerAt>>

\* handleDisconnect and handleWriteError
handleHangUp(c) ==
  /\ streamHandler[c] = "unknown" /\ Handles("hangUp", c, Failure(c))
  /\ sendFailure(c) /\ UNCHANGED <<inbox, peerAt>>

handleBadHello(c) ==
  /\ streamHandler[c] = "unknown" /\ inbox[c] = "bad"
  /\ Handles("input", c, Failure(c))
  /\ inbox' = [inbox EXCEPT ![c] = "nothing"]
  /\ sendFailure(c) /\ UNCHANGED peerAt

KeepsTimer(c) == UNCHANGED unknownTimer

\* The proxy, which now owns the stream, asks for the client's screen.
handleHelloBack(c) ==
  /\ streamHandler[c] = "unknown" /\ inbox[c] = "good"
  /\ Handles("input", c, << >>)
  /\ inbox' = [inbox EXCEPT ![c] = "nothing"]
  /\ m_stream' = m_stream \ {c} /\ m_proxy' = m_proxy \union {c}
  /\ KeepsTimer(c)
  /\ proxy' = [proxy EXCEPT ![c] = "asks"]
  /\ StreamGoesTo(c, "proxy") /\ ProxyGoesTo(c, "unknown")
  /\ peerAt' = [peerAt EXCEPT ![c] = IF @ = "answered" THEN "asked" ELSE @]
  /\ UNCHANGED <<socketVars, m_newClients, m_ready, m_heartbeatTimer, admittedVars,
                 crashed>>

\* sendSuccess
handleProxyReady(c) ==
  /\ proxyHandler[c] = "unknown"
  /\ Handles("ready", c, << <<"success", c>> >>)
  /\ m_ready' = m_ready \union {c}
  /\ unknownTimer' = unknownTimer \ {c}
  /\ UNCHANGED <<socketVars, m_newClients, m_stream, m_proxy, proxyVars,
                 admittedVars, handlerVars, inbox, peerAt, crashed>>

handleProxyLost(c) ==
  /\ proxyHandler[c] = "unknown" /\ c \in m_newClients
  /\ Handles("disconnected", c, Failure(c))
  /\ sendFailure(c) /\ UNCHANGED <<inbox, peerAt>>

-----------------------------------------------------------------------------
(* ClientProxy1_0.                                                         *)

\* disconnect(): the handlers and timers are removed, and the stream is closed.
disconnect(c) ==
  /\ proxy' = [proxy EXCEPT ![c] = "gone"]
  /\ m_heartbeatTimer' = m_heartbeatTimer \ {c}
  /\ StreamGoesTo(c, "nobody")
  /\ UNCHANGED <<socketVars, unknownVars, admittedVars, proxyHandler, crashed>>
Disconnected(c) == << <<"disconnected", c>> >>

\* The client's screen is known; another message comes, or a bad one.
handleInfo(c) ==
  /\ streamHandler[c] = "proxy" /\ inbox[c] = "good"
  /\ Handles("input", c, << <<"ready", c>> >>)
  /\ inbox' = [inbox EXCEPT ![c] = "nothing"]
  /\ proxy' = [proxy EXCEPT ![c] = "known"]
  /\ m_heartbeatTimer' = m_heartbeatTimer \union {c}
  /\ UNCHANGED <<socketVars, unknownVars, admittedVars, handlerVars, peerAt, crashed>>

handleBadInfo(c) ==
  /\ streamHandler[c] = "proxy" /\ inbox[c] = "bad"
  /\ Handles("input", c, Disconnected(c))
  /\ inbox' = [inbox EXCEPT ![c] = "nothing"]
  /\ disconnect(c) /\ UNCHANGED peerAt

\* handleDisconnect and handleWriteError
handleProxyHangUp(c) ==
  /\ streamHandler[c] = "proxy" /\ Handles("hangUp", c, Disconnected(c))
  /\ disconnect(c) /\ UNCHANGED <<inbox, peerAt>>

handleFlatline(c) ==
  /\ c \in m_heartbeatTimer /\ proxy[c] # "gone" /\ Expires(Disconnected(c))
  /\ disconnect(c) /\ UNCHANGED <<inbox, peerAt>>

-----------------------------------------------------------------------------
(* The listener, from the ClientProxyUnknown on.                           *)

removeUnknownClient(c) ==
  /\ m_newClients' = m_newClients \ {c} /\ m_stream' = m_stream \ {c}
  /\ m_proxy' = m_proxy \ {c} /\ m_ready' = m_ready \ {c}
  /\ unknownTimer' = unknownTimer \ {c}

\* The socket is deleted if the ClientProxyUnknown still has the stream.
handleFailure(c) ==
  /\ c \in m_newClients /\ Handles("failure", c, << >>)
  /\ m_clientSockets' = m_clientSockets \ (m_stream \intersect {c})
  /\ peerAt' = [peerAt EXCEPT ![c] = IF c \in m_stream THEN "left" ELSE @]
  /\ removeUnknownClient(c)
  /\ UNCHANGED <<secure, accepting, proxyVars, admittedVars, handlerVars, inbox,
                 crashed>>

\* mutant: the listener does not watch for the client to disconnect
KeepsHandler(c) == UNCHANGED proxyHandler
WatchesQueue(c) == ProxyGoesTo(c, "listener")

Announcement(c) == << <<"admitted", c>> >>

\* handleUnknownClient, with a proxy and without
handleSuccess(c) ==
  /\ c \in m_newClients /\ c \in m_ready
  /\ Handles("success", c, Announcement(c))
  /\ m_waitingClients' = Append(m_waitingClients, c)
  /\ WatchesQueue(c)
  /\ removeUnknownClient(c)
  /\ UNCHANGED <<socketVars, proxyVars, served, streamHandler, inbox, peerAt,
                 crashed>>

handleLateSuccess(c) ==
  /\ c \in m_newClients /\ c \notin m_ready /\ Handles("success", c, << >>)
  /\ removeUnknownClient(c)
  /\ UNCHANGED <<socketVars, proxyVars, admittedVars, handlerVars, inbox, peerAt,
                 crashed>>

\* handleClientConnected: getNextClient, and the server listens to the client.
\* It sends it the options, which sets its alarm, or else refuses it.
handleAdmitted(c) ==
  /\ Handles("admitted", c, << >>) /\ m_waitingClients # << >>
  /\ m_waitingClients' = Tail(m_waitingClients)
  /\ served' = served \union {Head(m_waitingClients)}
  /\ ProxyGoesTo(Head(m_waitingClients), "server")
  /\ \/ m_heartbeatTimer' = m_heartbeatTimer \union {Head(m_waitingClients)}
     \/ UNCHANGED m_heartbeatTimer
  /\ UNCHANGED <<socketVars, unknownVars, proxy, streamHandler, inbox, peerAt,
                 crashed>>

\* handleClientDisconnected of the listener: the filter that is the client's
\* stream is cast to a socket and, after the client, deleted as one.
handleLostInQueue(c) ==
  /\ proxyHandler[c] = "listener" /\ Handles("disconnected", c, << >>)
  /\ \E i \in 1 .. Len(m_waitingClients) :
       /\ m_waitingClients[i] = c
       /\ m_waitingClients' = [j \in 1 .. Len(m_waitingClients) - 1 |->
                                 m_waitingClients[IF j < i THEN j ELSE j + 1]]
  /\ ProxyGoesTo(c, "nobody")
  /\ proxy' = [proxy EXCEPT ![c] = "deleted"]
  /\ m_heartbeatTimer' = m_heartbeatTimer \ {c}
  /\ crashed' = TRUE
  /\ UNCHANGED <<socketVars, unknownVars, served, streamHandler,
                 inbox, peerAt>>

\* handleClientDisconnected of the server
handleLostByServer(c) ==
  /\ proxyHandler[c] = "server" /\ Handles("disconnected", c, << >>)
  /\ served' = served \ {c}
  /\ ProxyGoesTo(c, "nobody")
  /\ proxy' = [proxy EXCEPT ![c] = "deleted"]
  /\ m_heartbeatTimer' = m_heartbeatTimer \ {c}
  /\ UNCHANGED <<socketVars, unknownVars, m_waitingClients,
                 streamHandler, inbox, peerAt, crashed>>

\* No handler is found, or there is none waiting.
handleNothing(c) ==
  /\ \/ streamHandler[c] = "nobody" /\ \E t \in {"input", "hangUp"} : Handles(t, c, << >>)
     \/ proxyHandler[c] = "nobody" /\ \E t \in {"ready", "disconnected"} : Handles(t, c, << >>)
     \/ c \notin m_newClients /\ \E t \in {"success", "failure"} : Handles(t, c, << >>)
     \/ m_waitingClients = << >> /\ Handles("admitted", c, << >>)
  /\ UNCHANGED <<socketVars, unknownVars, proxyVars, admittedVars, handlerVars, inbox,
                 peerAt, crashed>>

-----------------------------------------------------------------------------
(* The peers.                                                              *)

PeerConnects(c) ==
  /\ peerAt[c] = "away"
  /\ peerAt' = [peerAt EXCEPT ![c] = "silent"]
  /\ serverEvents' = Append(serverEvents, <<"connecting", c>>)
  /\ UNCHANGED <<socketVars, unknownVars, proxyVars, admittedVars, handlerVars,
                 inbox, crashed>>

\* It answers the hello, then the question for its screen.
PeerAnswers(c) ==
  /\ peerAt[c] \in {"told", "asked"} /\ inbox[c] = "nothing"
  /\ \E message \in {"good", "bad"} : inbox' = [inbox EXCEPT ![c] = message]
  /\ peerAt' = [peerAt EXCEPT ![c] = IF @ = "told" THEN "answered" ELSE "done"]
  /\ serverEvents' = Append(serverEvents, <<"input", c>>)
  /\ UNCHANGED <<socketVars, unknownVars, proxyVars, admittedVars, handlerVars,
                 crashed>>

\* ... and that is noticed.
PeerHangsUp(c) ==
  /\ peerAt[c] \notin {"away", "left"} /\ c \in m_clientSockets \ accepting
  /\ peerAt' = [peerAt EXCEPT ![c] = "left"]
  /\ serverEvents' = Append(serverEvents, <<"hangUp", c>>)
  /\ UNCHANGED <<socketVars, unknownVars, proxyVars, admittedVars, handlerVars,
                 inbox, crashed>>

-----------------------------------------------------------------------------
Loop(c) ==
  \/ handleClientConnecting(c) \/ handleRefused(c) \/ handleClientAccepted(c)
  \/ handleHangUp(c) \/ handleBadHello(c) \/ handleHelloBack(c)
  \/ handleProxyReady(c) \/ handleProxyLost(c)
  \/ handleInfo(c) \/ handleBadInfo(c) \/ handleProxyHangUp(c)
  \/ handleFailure(c) \/ handleSuccess(c) \/ handleLateSuccess(c)
  \/ handleAdmitted(c) \/ handleLostInQueue(c) \/ handleLostByServer(c)
  \/ handleNothing(c)
Timers(c) == handleTimeout(c) \/ handleFlatline(c)
PeerStep(c) == PeerConnects(c) \/ PeerAnswers(c) \/ PeerHangsUp(c)

\* What the program does once it has crashed is anybody's guess.
AdmissionNext ==
  /\ ~crashed
  /\ \E c \in Peer : Loop(c) \/ Timers(c) \/ serviceAccept(c) \/ PeerStep(c)

AdmissionSpec == AdmissionInit /\ [][AdmissionNext]_admissionVars

\* The loop goes on, and timers expire.
AdmissionFairness ==
  /\ WF_admissionVars(~crashed /\ \E c \in Peer : Loop(c))
  /\ \A c \in Peer : WF_admissionVars(~crashed /\ Timers(c))
AdmissionFairSpec == AdmissionSpec /\ AdmissionFairness

-----------------------------------------------------------------------------
(* Properties.                                                             *)

IsQueued(type, c) == \E i \in 1 .. Len(serverEvents) : serverEvents[i] = <<type, c>>

ServerEvent ==
  {"connecting", "accepted", "refused", "hangUp", "input", "ready", "disconnected",
   "success", "failure", "admitted"} \X Peer

\* Every variable has its type.
AdmissionTypeOK ==
  /\ secure \in BOOLEAN /\ accepting \subseteq m_clientSockets
  /\ serverEvents \in Seq(ServerEvent)
  /\ m_clientSockets \subseteq Peer /\ m_newClients \subseteq Peer
  /\ m_stream \subseteq m_newClients /\ m_proxy \subseteq m_newClients
  /\ m_ready \subseteq m_proxy /\ unknownTimer \subseteq m_newClients
  /\ proxy \in [Peer -> {"none", "asks", "known", "gone", "deleted"}]
  /\ m_heartbeatTimer \subseteq {c \in Peer : proxy[c] \in {"known", "gone"}}
  /\ m_waitingClients \in Seq(Peer) /\ served \subseteq Peer
  /\ streamHandler \in [Peer -> {"nobody", "unknown", "proxy"}]
  /\ proxyHandler \in [Peer -> {"nobody", "unknown", "listener", "server"}]
  /\ inbox \in [Peer -> {"nothing", "good", "bad"}]
  /\ peerAt \in [Peer -> {"away", "silent", "told", "answered", "asked", "done",
                          "left"}]
  /\ crashed \in BOOLEAN

\* A proxy belongs to the ClientProxyUnknown, to the listener or to the server,
\* to one of them as long as it lives, and it is the owner that hears of its end.
\* The listener and the server only get proxies that know their client's screen.
\* Handlers of what has been deleted may stay in the table, but no event that is
\* queued finds one.  Nor is anyone forgotten: a client that shakes hands is under
\* a timer, or is about to be seen to; one that has is under an alarm; and the
\* server is called as often as clients wait for it.
OwnersHearOfTheEnd ==
  /\ \A c \in Peer : proxy[c] \in {"asks", "known", "gone"} =>
       \/ c \in m_proxy /\ c \notin Waiting \union served /\ proxyHandler[c] = "unknown"
       \/ c \in Waiting \ (m_proxy \union served) /\ proxyHandler[c] = "listener"
       \/ c \in served \ (m_proxy \union Waiting) /\ proxyHandler[c] = "server"
  /\ \A c \in m_proxy : proxy[c] \in {"asks", "known", "gone"}
  /\ \A c \in Waiting \union served : proxy[c] \in {"known", "gone"}
  /\ Cardinality(Waiting) = Len(m_waitingClients)
NoHandlerOfTheDead ==
  \A c \in Peer :
    /\ (IsQueued("ready", c) \/ IsQueued("disconnected", c)) /\ proxyHandler[c] = "unknown"
         => c \in m_proxy
    /\ IsQueued("input", c) \/ IsQueued("hangUp", c) =>
         /\ streamHandler[c] = "unknown" => c \in m_stream
         /\ streamHandler[c] = "proxy" => proxy[c] \in {"asks", "known"}
NobodyIsForgotten ==
  /\ \A c \in Peer :
       /\ c \in m_newClients =>
            c \in unknownTimer \/ IsQueued("success", c) \/ IsQueued("failure", c)
       /\ proxy[c] = "known" => c \in m_heartbeatTimer
       /\ proxy[c] = "gone" => IsQueued("disconnected", c)
  /\ Len(m_waitingClients) <=
       Cardinality({i \in 1 .. Len(serverEvents) : serverEvents[i][1] = "admitted"})
ProxiesHaveOneOwner ==
  AdmissionTypeOK /\ OwnersHearOfTheEnd /\ NoHandlerOfTheDead /\ NobodyIsForgotten

\* Every handshake ends, though the client may say nothing, and a proxy whose
\* client has gone is deleted.
HandshakesEnd ==
  \A c \in Peer :
    c \in m_newClients \/ proxy[c] = "gone"
      ~> (c \notin m_newClients /\ proxy[c] # "gone") \/ crashed

\* "pull out the socket before deleting the client so we know which socket we no
\* longer need" (ClientListener.cpp:220-221): what is deleted as a socket is one.
DeletesSockets == ~crashed
=============================================================================
