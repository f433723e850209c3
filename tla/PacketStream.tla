---------------------------- MODULE PacketStream ----------------------------
(***************************************************************************)
(* Packets on a stream: PacketStreamFilter (lib/deskflow) between a socket *)
(* and the object that reads messages from it (handleData of ClientProxy   *)
(* and of ServerProxy, here the listener).                                 *)
(*                                                                         *)
(* The socket announces bytes only when its input buffer has been empty,   *)
(* the filter announces a packet only when it had no whole one before, and *)
(* the listener handles a bounded number of messages in a turn: whoever    *)
(* stops early has to see to it that somebody goes on.  The end of the     *)
(* stream overtakes packets that have not been read, and is held back.     *)
(*                                                                         *)
(* With TLS, and after an error, the socket says that it is disconnected,  *)
(* for which a ServerProxy's client closes at once and a ClientProxy has   *)
(* no handler; and the bytes of the run that meets the end of a TLS        *)
(* connection, or an error, are not announced.                             *)
(*                                                                         *)
(* A step is one event, or one read by the listener.  A byte is its packet *)
(* and its place there; a header of HeaderSize bytes holds the packet's    *)
(* size.  Abstracted: what messages say (one packet is one message, read   *)
(* in any pieces); the chunks of the buffer (StreamBuffer).                *)
(***************************************************************************)
EXTENDS Naturals, Sequences

CONSTANTS
  PacketSize,      \* sizes that the peer may write
  HeaderSize,
  MaxLength,       \* PROTOCOL_MAX_MESSAGE_LENGTH
  MaxMessages,     \* kMaxMessagesPerDispatch
  MaxPackets       \* bound: packets the peer writes

ASSUME PacketAssumption ==
  /\ PacketSize \subseteq Nat \ {0} /\ HeaderSize \in Nat \ {0}
  /\ MaxLength \in Nat /\ MaxMessages \in Nat \ {0} /\ MaxPackets \in Nat

VARIABLES
  onServer,         \* the listener is a ClientProxy, which minds format errors
  overTls,          \* the socket uses TLS
  \* the peer and the network
  sizes, payload,   \* history: the packets written, and their bytes in order
  under_way,        \* bytes that have not arrived
  ended, broken,    \* the stream has ended, the connection has failed
  cut,              \* something that was under way is not delivered
  \* the socket and the event queue
  input,            \* the socket's input buffer
  events,
  \* the filter
  m_buffer, m_size, m_inputShutdown,
  \* the listener
  reading, messages, \* it is in handleData, and what it has handled there
  got,              \* history: the bytes it has read
  closed            \* it has closed the stream

peerVars == <<overTls, sizes, payload, under_way, ended, broken, cut>>
filterVars == <<m_buffer, m_size, m_inputShutdown>>
listenerVars == <<reading, messages, got, closed>>
packetVars == <<onServer, overTls, sizes, payload, under_way, ended, broken, cut,
                input, events, m_buffer, m_size, m_inputShutdown, reading, messages,
                got, closed>>

PacketInit ==
  /\ onServer \in BOOLEAN /\ overTls \in BOOLEAN
  /\ sizes = << >> /\ payload = << >> /\ under_way = << >>
  /\ ended = FALSE /\ broken = FALSE /\ cut = FALSE
  /\ input = << >> /\ events = << >>
  /\ m_buffer = << >> /\ m_size = 0 /\ m_inputShutdown = FALSE
  /\ reading = FALSE /\ messages = 0 /\ got = << >> /\ closed = FALSE

First(s, n) == SubSeq(s, 1, n)
Rest(s, n) == SubSeq(s, n + 1, Len(s))
When(condition, event) == IF condition THEN <<event>> ELSE << >>

-----------------------------------------------------------------------------
(* The peer, and the service thread.                                       *)

\* PacketStreamFilter::write: the size, then the bytes.
PeerWrites(n) ==
  LET p == Len(sizes) + 1
  IN /\ ~ended /\ ~broken /\ Len(sizes) < MaxPackets
     /\ sizes' = Append(sizes, n)
     /\ payload' = payload \o [i \in 1 .. n |-> <<p, HeaderSize + i>>]
     /\ under_way' = under_way \o [i \in 1 .. HeaderSize + n |-> <<p, i>>]
     /\ UNCHANGED <<onServer, overTls, ended, broken, cut, input, events, filterVars,
                    listenerVars>>

\* doRead
Arrive(n) ==
  /\ ~ended /\ n \in 1 .. Len(under_way) /\ ~closed
  /\ input' = input \o First(under_way, n)
  /\ under_way' = Rest(under_way, n)
  /\ events' = events \o When(input = << >>, "ready")
  /\ UNCHANGED <<onServer, overTls, sizes, payload, ended, broken, cut, filterVars,
                 listenerVars>>

\* TCPSocket::doRead, at the end of the stream
StreamEnds ==
  /\ ~ended /\ ~closed /\ ~overTls
  /\ ended' = TRUE /\ cut' = (cut \/ under_way # << >>) /\ under_way' = << >>
  /\ events' = Append(events, "end")
  /\ UNCHANGED <<onServer, overTls, sizes, payload, broken, input, filterVars, listenerVars>>

\* The last n bytes are read in a run that does not announce them.
ReadsLast(n) ==
  /\ ~ended /\ ~closed /\ n \in 0 .. Len(under_way)
  /\ input' = input \o First(under_way, n) /\ under_way' = << >>
  /\ cut' = (cut \/ n < Len(under_way) \/ (input = << >> /\ n > 0))
  /\ UNCHANGED <<onServer, overTls, sizes, payload, filterVars, listenerVars>>

\* SecureSocket::doRead and disconnect: the end of a TLS connection
SecureEnds(n) ==
  /\ overTls /\ ReadsLast(n)
  /\ ended' = TRUE /\ events' = Append(Append(events, "disconnected"), "end")
  /\ UNCHANGED broken

\* serviceConnected ignores an error in doRead.
ErrorIsIgnored(n) ==
  /\ ~overTls /\ ReadsLast(n)
  /\ broken' = TRUE /\ UNCHANGED <<ended, events>>

\* serviceConnected is told of an error, or finds the connection lost: what has
\* been received goes too (onDisconnected).
ConnectionBreaks ==
  /\ ~ended /\ ~closed
  /\ ended' = TRUE /\ broken' = TRUE
  /\ cut' = (cut \/ under_way # << >> \/ input # << >>)
  /\ under_way' = << >> /\ input' = << >>
  /\ events' = Append(events, "disconnected")
  /\ UNCHANGED <<onServer, overTls, sizes, payload, filterVars, listenerVars>>

-----------------------------------------------------------------------------
(* The filter.                                                             *)

\* isReadyNoLock
IsReady == m_size # 0 /\ Len(m_buffer) >= m_size

\* What a header says; bytes that are none may say anything.
Value(bytes) ==
  LET p == bytes[1][1]
  IN IF bytes = [i \in 1 .. HeaderSize |-> <<p, i>>] THEN sizes[p]
     ELSE MaxLength + 1

HasHeader(size, buffer) == size = 0 /\ Len(buffer) >= HeaderSize

\* readPacketSize, with m_size and m_buffer as they are then.
NextSize(size, buffer) ==
  IF HasHeader(size, buffer) THEN Value(First(buffer, HeaderSize)) ELSE size
NextBuffer(size, buffer) ==
  IF HasHeader(size, buffer) THEN Rest(buffer, HeaderSize) ELSE buffer
TooLong(size, buffer) ==
  HasHeader(size, buffer) /\ NextSize(size, buffer) > MaxLength

\* mutant: a packet is announced only if nothing was left of those before
EmptyBefore(ready, was) == ready /\ m_buffer = << >>
ReadyChanges(ready, was) == was # ready

\* StreamInputReady of the socket: readMore.  It reads all, but stops after a
\* chunk when the size in it is too large.
HandleReady ==
  /\ ~closed /\ ~reading /\ events # << >> /\ Head(events) = "ready"
  /\ \E n \in (IF input = << >> THEN {0} ELSE 1 .. Len(input)) :
       LET all == m_buffer \o First(input, n)
           bad == n > 0 /\ TooLong(m_size, all)
           was == IsReady
       IN /\ n = Len(input) \/ bad
          /\ input' = Rest(input, n)
          /\ m_size' = IF n > 0 THEN NextSize(m_size, all) ELSE m_size
          /\ m_buffer' = IF n > 0 THEN NextBuffer(m_size, all) ELSE m_buffer
          /\ events' = Tail(events) \o When(bad, "formatError")
          /\ reading' = ReadyChanges(m_size' # 0 /\ Len(m_buffer') >= m_size', was)
  /\ UNCHANGED <<onServer, peerVars, m_inputShutdown, messages, got, closed>>

\* mutant: the end is passed on although there is a packet to be read
NeverHeldBack == FALSE
HeldBack == m_size # 0 /\ Len(m_buffer) >= m_size

\* StreamInputShutdown of the socket: held back if there is a whole packet, with
\* an error if there is a part of one.
HandleEnd ==
  /\ ~closed /\ ~reading /\ events # << >> /\ Head(events) = "end"
  /\ m_inputShutdown' = TRUE
  /\ IF HeldBack
     THEN events' = Tail(events) /\ UNCHANGED <<m_size, closed>>
     ELSE /\ events' = Tail(events) \o When(m_size # 0, "formatError")
          /\ m_size' = 0
          /\ closed' = TRUE
  /\ UNCHANGED <<onServer, peerVars, input, m_buffer, reading, messages, got>>

-----------------------------------------------------------------------------
(* The listener.                                                           *)

\* SocketDisconnected, which the filter passes on: only Client has a handler.
HandleDisconnected ==
  /\ ~closed /\ ~reading /\ events # << >> /\ Head(events) = "disconnected"
  /\ events' = Tail(events) /\ closed' = ~onServer
  /\ UNCHANGED <<onServer, peerVars, input, filterVars, reading, messages, got>>

\* Events that are added with the filter as target.
HandleOwn ==
  /\ ~closed /\ ~reading /\ events # << >>
  /\ events' = Tail(events)
  /\ \/ Head(events) = "inputReady" /\ reading' = TRUE /\ UNCHANGED closed
     \/ Head(events) = "inputShutdown" /\ closed' = TRUE /\ UNCHANGED reading
     \/ /\ Head(events) = "formatError" /\ closed' = onServer /\ UNCHANGED reading
  /\ UNCHANGED <<onServer, peerVars, input, filterVars, messages, got>>

\* mutant: a read goes on into what follows the packet
TakesAnyBytes(n) == IF n <= Len(m_buffer) THEN n ELSE Len(m_buffer)
TakesAtMost(n) == IF n <= m_size THEN n ELSE m_size

\* mutant: the end that was held back is forgotten
ForgetsEnd(size) == << >>
EndAfter(size) == When(m_inputShutdown /\ size = 0, "inputShutdown")

\* read
ReadPacket(n) ==
  LET k == TakesAtMost(n)
      size == IF m_size > k THEN m_size - k ELSE 0
      buffer == Rest(m_buffer, k)
  IN /\ reading /\ messages < MaxMessages /\ IsReady
     /\ got' = got \o First(m_buffer, k)
     /\ m_size' = NextSize(size, buffer)
     /\ m_buffer' = NextBuffer(size, buffer)
     /\ events' = events \o When(TooLong(size, buffer), "formatError")
                         \o EndAfter(m_size')
     /\ messages' = messages + (IF size = 0 THEN 1 ELSE 0)
     /\ UNCHANGED <<onServer, peerVars, input, m_inputShutdown, reading, closed>>

\* mutant: the turn ends although there is more to read
EndsTurn == << >>
GoesOnLater == When(IsReady, "inputReady")

\* handleData returns, because a read returns nothing or the turn is over.
Returns ==
  /\ reading /\ (~IsReady \/ messages = MaxMessages)
  /\ reading' = FALSE /\ messages' = 0
  /\ events' = events \o GoesOnLater
  /\ UNCHANGED <<onServer, peerVars, input, filterVars, got, closed>>

MainStep ==
  \/ HandleReady \/ HandleEnd \/ HandleDisconnected \/ HandleOwn \/ Returns
  \/ \E n \in 1 .. MaxLength : ReadPacket(n)

PacketNext ==
  \/ \E n \in PacketSize : PeerWrites(n)
  \/ \E n \in 1 .. Len(under_way) : Arrive(n)
  \/ StreamEnds \/ ConnectionBreaks
  \/ \E n \in 0 .. Len(under_way) : SecureEnds(n) \/ ErrorIsIgnored(n)
  \/ MainStep

PacketSpec == PacketInit /\ [][PacketNext]_packetVars

\* The loop goes on; nothing is assumed of the peer and the network.
PacketFairness == WF_packetVars(MainStep)
PacketFairSpec == PacketSpec /\ PacketFairness

-----------------------------------------------------------------------------
(* Properties.                                                             *)

Kinds == {"ready", "end", "disconnected", "inputReady", "inputShutdown", "formatError"}
Byte == (Nat \ {0}) \X (Nat \ {0})

\* Every variable has its type.
PacketTypeOK ==
  /\ onServer \in BOOLEAN /\ overTls \in BOOLEAN
  /\ ended \in BOOLEAN /\ broken \in BOOLEAN /\ cut \in BOOLEAN
  /\ m_inputShutdown \in BOOLEAN /\ reading \in BOOLEAN /\ closed \in BOOLEAN
  /\ sizes \in Seq(PacketSize) /\ Len(sizes) <= MaxPackets
  /\ \A bytes \in {payload, under_way, input, m_buffer, got} : bytes \in Seq(Byte)
  /\ events \in Seq(Kinds)
  /\ m_size = 0 \/ \E n \in PacketSize : m_size \in 1 .. n
  /\ messages \in 0 .. MaxMessages

\* Everything the peer wrote is read.  The listener reads it in order, and never
\* a header.
BytesAreRead == Len(got) <= Len(payload) /\ got = First(payload, Len(got))

\* Bytes in the socket's buffer, and a packet in the filter's, are never left
\* there without anybody being about to look (the comments on handleData: "The
\* stream only raises its ready event when the input buffer transitions from
\* empty"), as long as no packet is too long.  Bytes that were received last on
\* a connection that failed, or ended with TLS, may be left: then the stream has
\* been cut.
Oversize == \E i \in 1 .. Len(sizes) : sizes[i] > MaxLength
IsQueued(e) == \E i \in 1 .. Len(events) : events[i] = e
NoPacketIsStuck ==
  /\ IsReady /\ ~closed => reading \/ IsQueued("inputReady")
  /\ input # << >> /\ ~closed /\ ~Oversize =>
       IsQueued("ready") \/ (cut /\ (overTls \/ broken))

\* A listener is told of the end of the stream only when it has read all whole
\* packets that came before it.  (SocketDisconnected, which with TLS comes before
\* the end, is not held back: a client then closes with packets unread.)
EndComesLast ==
  [][closed' /\ ~closed /\ Head(events) \notin {"formatError", "disconnected"} =>
       ~IsReady /\ (~cut /\ ~Oversize => got = payload)]_packetVars

\* Whole packets that have arrived are read, and the end of the stream reaches
\* the listener if nothing has been cut off; a ClientProxy is not told of a
\* connection that fails.  (The comments on filterEvent, "we should signal an
\* error and then shut down", promise it of a stream cut within a packet too.
\* Behind a whole packet that is still to be read neither is done.)
PacketsAreRead == IsReady /\ m_size <= MaxLength ~> ~IsReady \/ closed
EndIsSeen ==
  /\ ended /\ ~cut /\ ~Oversize /\ ~(broken /\ onServer) ~> closed
  /\ IsQueued("disconnected") /\ ~onServer ~> closed

\* All of it: what has been announced is read, in order, and the end is seen,
\* last.
EverythingIsRead ==
  [](BytesAreRead /\ NoPacketIsStuck) /\ EndComesLast /\ PacketsAreRead /\ EndIsSeen
=============================================================================
