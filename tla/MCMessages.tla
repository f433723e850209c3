---------------------------- MODULE MCMessages -----------------------------
(***************************************************************************)
(* What events and messages pass through, in one run: the event queue, a   *)
(* socket, the buffer of a stream, and the packets on it.  A behaviour is  *)
(* one of one part; the others are in a state in which they do nothing     *)
(* more.  Of the event queue, one part has all events and no timers, the   *)
(* other one event and all timers.                                         *)
(***************************************************************************)
EXTENDS EventQueue, DataSocket, StreamBuffer, PacketStream, TLC

CONSTANTS
  t1,              \* Thread
  e1, e2, quit,    \* Event
  tick, oneShot    \* EventTimer

Durations == (tick :> 1) @@ (oneShot :> 2)

VARIABLE part

QueueOver ==
  /\ loopPc = "quit" /\ m_ready = TRUE
  /\ added = {} /\ hand = [t \in Thread |-> NoEvent]
  /\ sawReady = [t \in Thread |-> FALSE]
  /\ m_pending = << >> /\ m_events = << >> /\ m_oldEventIDs = << >>
  /\ m_queue = << >> /\ dataID = 0 /\ event = << >>
  /\ m_timers = {} /\ m_timerQueue = {} /\ left = [t \in EventTimer |-> 0]
  /\ m_time = 0 /\ m_timerEvent = [m_timer |-> NoEvent, m_count |-> 0]
  /\ clock = 0 /\ since = [t \in EventTimer |-> 0]

\* The socket is closed.
SocketOver ==
  /\ secure = FALSE /\ mainAt = "closed" /\ newJob = NotPolled
  /\ written = 0 /\ read = 0 /\ socketEvents = {}
  /\ m_connected = FALSE /\ m_readable = FALSE /\ m_writable = FALSE
  /\ m_flushed = TRUE /\ m_inputBuffer = << >> /\ m_outputBuffer = << >>
  /\ m_writeBuffer = << >> /\ m_retrying = FALSE /\ fatal = FALSE
  /\ socketJob = NotPolled /\ serviceAt = "idle" /\ ran = "retry"
  /\ reported = Nothing /\ wire = << >> /\ arrived = << >> /\ sent = 0
  /\ line = "up" /\ room = TRUE /\ pending = << >>

\* No packet has been sent.
PacketsOver == PacketInit /\ onServer /\ ~overTls

vars == <<part, eventVars, socketVars, chunkVars, packetVars>>

Init ==
  /\ \/ part \in {"events", "timers"} /\ QueueInit /\ SocketOver /\ PacketsOver
     \/ part = "socket" /\ QueueOver /\ SocketInit /\ PacketsOver
     \/ part = "buffer" /\ QueueOver /\ SocketOver /\ PacketsOver
     \/ part = "packets" /\ QueueOver /\ SocketOver /\ PacketInit
  /\ BufferInit

Next ==
  /\ UNCHANGED part
  /\ \/ /\ \/ part = "events" /\ QueueNext /\ m_timers' = {}
           \/ part = "timers" /\ QueueNext /\ Cardinality(added') <= 1
        /\ UNCHANGED <<socketVars, chunkVars, packetVars>>
     \/ /\ part = "socket" /\ SocketNext
        /\ UNCHANGED <<eventVars, chunkVars, packetVars>>
     \/ /\ part = "buffer" /\ BufferNext
        /\ UNCHANGED <<eventVars, socketVars, packetVars>>
     \/ /\ part = "packets" /\ PacketNext
        /\ UNCHANGED <<eventVars, socketVars, chunkVars>>

\* The fairness of each part asks nothing while the part is over.
Spec ==
  /\ Init /\ [][Next]_vars
  /\ QueueFairness /\ SocketFairness /\ PacketFairness

\* Every variable has its type.
TypesOK == QueueTypeOK /\ SocketTypeOK /\ PacketTypeOK
=============================================================================
