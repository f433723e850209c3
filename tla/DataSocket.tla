----------------------------- MODULE DataSocket -----------------------------
(***************************************************************************)
(* A connected socket, plain (lib/net/TCPSocket.cpp) or with TLS           *)
(* (SecureSocket.cpp, SecureSocketWriteBuffer.cpp), between the thread     *)
(* that reads, writes and closes it and the multiplexer's thread that      *)
(* serves it.                                                              *)
(*                                                                         *)
(* A job tells the multiplexer whether to poll for reading and writing.    *)
(* The main thread makes one when it writes to an empty buffer, outside    *)
(* the socket's mutex, and installs it once it has the list of jobs        *)
(* (SocketMultiplexer); the service thread makes one at the end of a run.  *)
(* With TLS, a write that could not be done must be repeated with the same *)
(* bytes, which are copied for it.                                         *)
(*                                                                         *)
(* A step is a critical section of the socket's mutex, or of the TLS lock  *)
(* (ssl_mutex_) in it.  Bytes are numbered.  Abstracted: connecting and    *)
(* the TLS handshake; addresses and certificates; shutting down one        *)
(* direction, which nothing in the program asks for.                       *)
(***************************************************************************)
EXTENDS Naturals, Sequences, FiniteSets

CONSTANTS
  MaxWritten,   \* bound: bytes written
  MaxReceived   \* bound: bytes the peer sends

ASSUME ByteAssumption ==
  MaxWritten \in Nat /\ MaxReceived \in Nat

VARIABLES
  secure,         \* the socket uses TLS
  \* the main thread
  mainAt, newJob, \* where it is, and the job it is about to install
  written,        \* how many bytes it has written
  read,           \* how many bytes it has read
  socketEvents,   \* the kinds of the socket's events in the queue
  \* the socket
  m_connected, m_readable, m_writable, m_flushed,
  m_inputBuffer, m_outputBuffer,
  m_writeBuffer, m_retrying, fatal,
  \* the service thread
  socketJob,      \* the socket's job in the list, or NotPolled
  serviceAt, ran, \* where the thread is, and whether the run has changed things
  reported,       \* what the poll has reported
  \* the network and the TLS library
  wire,           \* bytes sent
  arrived, sent,  \* bytes that can be received, and how many the peer has sent
  line,           \* "up", "closed" by the peer, "broken", or "gone" once that is told
  room,           \* the system takes more bytes
  pending         \* bytes of a TLS write that must be repeated

NotPolled == << >>
Jobs == [reads : BOOLEAN, writes : BOOLEAN]
Nothing == [read |-> FALSE, write |-> FALSE, error |-> FALSE]

mainVars == <<mainAt, newJob, written, read>>
bufferVars == <<m_inputBuffer, m_outputBuffer>>
stateVars == <<m_connected, m_readable, m_writable, m_flushed>>
tlsVars == <<m_writeBuffer, m_retrying, fatal, pending>>
serviceVars == <<socketJob, serviceAt, ran, reported>>
networkVars == <<arrived, sent, line>>
socketVars == <<secure, mainAt, newJob, written, read, socketEvents, m_connected,
                m_readable, m_writable, m_flushed, m_inputBuffer,
                m_outputBuffer, m_writeBuffer, m_retrying, fatal, socketJob,
                serviceAt, ran, reported, wire, arrived, sent, line, room, pending>>

SocketInit ==
  /\ secure \in BOOLEAN
  /\ mainAt = "idle" /\ newJob = NotPolled /\ written = 0 /\ read = 0
  /\ socketEvents = {}
  /\ m_connected = TRUE /\ m_readable = TRUE /\ m_writable = TRUE
  /\ m_flushed = TRUE /\ m_inputBuffer = << >> /\ m_outputBuffer = << >>
  /\ m_writeBuffer = << >> /\ m_retrying = FALSE /\ fatal = FALSE
  /\ socketJob = [reads |-> TRUE, writes |-> FALSE]
  /\ serviceAt = "idle" /\ ran = "retry" /\ reported = Nothing
  /\ wire = << >> /\ arrived = << >> /\ sent = 0 /\ line = "up" /\ room = TRUE
  /\ pending = << >>

Bytes(m, n) == [i \in 1 .. n - m |-> m + i]        \* m + 1, ..., n
IsPrefixOf(s, t) == Len(s) <= Len(t) /\ s = SubSeq(t, 1, Len(s))

\* The job that the socket's state calls for (TCPSocket::newJob).
JobFor(connected, readable, writable, output) ==
  LET writes == writable /\ output # << >>
  IN IF connected /\ (readable \/ writes)
     THEN [reads |-> readable, writes |-> writes] ELSE NotPolled
CurrentJob == JobFor(m_connected, m_readable, m_writable, m_outputBuffer)

\* The service thread holds the socket's mutex while it runs the job.
MutexIsFree == serviceAt \notin {"write", "read"}
\* It has the list of jobs from before the poll until it has stored the job.
ListIsFree == serviceAt = "idle"
\* close, with TLS, keeps the TLS lock until the job is removed.
TlsIsFree == mainAt # "freeSSL"

-----------------------------------------------------------------------------
(* The main thread.                                                        *)

\* mutant: a job is made only if none polls for writing
NeedsNoJob == socketJob # NotPolled
WasEmpty == m_outputBuffer = << >>

\* write, up to the end of its critical section
Write ==
  /\ mainAt = "idle" /\ written < MaxWritten /\ MutexIsFree /\ m_writable
  /\ written' = written + 1
  /\ m_outputBuffer' = Append(m_outputBuffer, written + 1)
  /\ m_flushed' = FALSE
  /\ mainAt' = IF WasEmpty THEN "newJob" ELSE "idle"
  /\ UNCHANGED <<secure, newJob, read, socketEvents, m_connected, m_readable, m_writable,
                 m_inputBuffer, tlsVars, serviceVars, wire, networkVars, room>>

\* newJob is called without the mutex.
MakeJob ==
  /\ mainAt = "newJob"
  /\ newJob' = CurrentJob
  /\ mainAt' = "install"
  /\ UNCHANGED <<secure, written, read, socketEvents, stateVars, bufferVars, tlsVars,
                 serviceVars, wire, networkVars, room>>

\* addSocket, or removeSocket if there is no job
Install ==
  /\ mainAt = "install" /\ ListIsFree
  /\ socketJob' = newJob
  /\ mainAt' = "idle" /\ newJob' = NotPolled
  /\ UNCHANGED <<secure, written, read, socketEvents, stateVars, bufferVars, tlsVars,
                 serviceAt, ran, reported, wire, networkVars, room>>

\* flush, which ClientProxy::close calls
BeginFlush ==
  /\ mainAt = "idle" /\ ~m_flushed /\ mainAt' = "flush"
  /\ UNCHANGED <<secure, newJob, written, read, socketEvents, stateVars, bufferVars,
                 tlsVars, serviceVars, wire, networkVars, room>>
EndFlush ==
  /\ mainAt = "flush" /\ m_flushed /\ MutexIsFree /\ mainAt' = "idle"
  /\ UNCHANGED <<secure, newJob, written, read, socketEvents, stateVars, bufferVars,
                 tlsVars, serviceVars, wire, networkVars, room>>

\* mutant: read leaves the bytes in the buffer
NotPopped == m_inputBuffer
Popped == << >>

\* An event.  On StreamInputReady everything is read (TCPSocket::read).
HandleEvent ==
  /\ mainAt = "idle" /\ MutexIsFree
  /\ \E e \in socketEvents :
       IF e = "ready" /\ m_inputBuffer # << >>
       THEN LET over == ~m_readable /\ ~m_writable
            IN /\ read' = read + Len(m_inputBuffer)
               /\ m_inputBuffer' = Popped
               /\ socketEvents' = (socketEvents \ {e}) \union {d \in {"disconnected"} : over}
               /\ m_connected' = (m_connected /\ ~over)
       ELSE /\ socketEvents' = socketEvents \ {e}
            /\ UNCHANGED <<read, m_inputBuffer, m_connected>>
  /\ UNCHANGED <<secure, mainAt, newJob, written, m_readable, m_writable,
                 m_flushed, m_outputBuffer, tlsVars, serviceVars, wire,
                 networkVars, room>>

\* close: with TLS, freeSSL takes the TLS lock before it removes the job.
Close ==
  /\ mainAt = "idle"
  /\ mainAt' = IF secure THEN "freeSSL" ELSE "remove"
  /\ fatal' = (fatal \/ secure)
  /\ UNCHANGED <<secure, newJob, written, read, socketEvents, stateVars, bufferVars,
                 m_writeBuffer, m_retrying, pending, serviceVars, wire,
                 networkVars, room>>

\* mutant: the job is left to the service thread
LeavesJob == UNCHANGED socketJob
RemovesJob == socketJob' = NotPolled

Remove ==
  /\ mainAt \in {"freeSSL", "remove"} /\ ListIsFree
  /\ RemovesJob
  /\ mainAt' = IF mainAt = "freeSSL" THEN "remove" ELSE "closing"
  /\ UNCHANGED <<secure, newJob, written, read, socketEvents, stateVars, bufferVars,
                 tlsVars, serviceAt, ran, reported, wire, networkVars, room>>

\* What onDisconnected leaves behind.
Disconnected ==
  /\ m_connected' = FALSE /\ m_readable' = FALSE /\ m_writable' = FALSE
  /\ m_inputBuffer' = << >> /\ m_outputBuffer' = << >> /\ m_flushed' = TRUE

FinishClose ==
  /\ mainAt = "closing" /\ MutexIsFree
  /\ socketEvents' = {}                   \* events of a socket that is deleted
  /\ Disconnected
  /\ mainAt' = "closed"
  /\ UNCHANGED <<secure, newJob, written, read, tlsVars, serviceVars, wire,
                 networkVars, room>>

-----------------------------------------------------------------------------
(* The service thread.                                                     *)

Lock ==
  /\ serviceAt = "idle" /\ socketJob # NotPolled
  /\ serviceAt' = "poll"
  /\ UNCHANGED <<secure, mainVars, socketEvents, stateVars, bufferVars, tlsVars, socketJob,
                 ran, reported, wire, networkVars, room>>

\* mutant: the poll goes on
PollsOn == FALSE
MainWaits == mainAt \in {"install", "freeSSL", "remove"}

\* The poll ends when there is something to do, or for a thread that wants the
\* list.
PollSocket ==
  LET ready == [read |-> socketJob.reads /\ (arrived # << >> \/ line \in {"closed", "gone"}),
                write |-> socketJob.writes /\ room,
                error |-> line = "broken"]
  IN /\ serviceAt = "poll"
     /\ ready # Nothing \/ MainWaits
     /\ reported' = ready
     /\ serviceAt' = IF ready = Nothing THEN "idle" ELSE "run"
     /\ UNCHANGED <<secure, mainVars, socketEvents, stateVars, bufferVars, tlsVars, socketJob,
                    ran, wire, networkVars, room>>

\* serviceConnected takes the mutex; an error ends the connection.
serviceConnected ==
  /\ serviceAt = "run"
  /\ IF reported.error
     THEN /\ socketEvents' = socketEvents \union {"disconnected"}
          /\ Disconnected
          /\ serviceAt' = "store" /\ ran' = "new"
          /\ socketJob' = NotPolled
     ELSE /\ serviceAt' = IF reported.write THEN "write" ELSE "read"
          /\ ran' = "retry"
          /\ UNCHANGED <<socketEvents, stateVars, bufferVars, socketJob>>
  /\ UNCHANGED <<secure, mainVars, tlsVars, reported, wire, networkVars, room>>

\* mutant: what the system did not take is dropped too
DiscardsEverything(n) ==
  /\ m_outputBuffer' = << >> /\ m_flushed' = TRUE
  /\ socketEvents' = socketEvents \union {"flushed"}

\* discardWrittenData
Discards(n) ==
  LET rest == SubSeq(m_outputBuffer, n + 1, Len(m_outputBuffer))
  IN /\ m_outputBuffer' = rest
     /\ m_flushed' = (rest = << >>)
     /\ socketEvents' = socketEvents \union {e \in {"flushed"} : rest = << >>}

\* doWrite of a plain socket: the system takes some of the bytes, or none.
WritePlain ==
  /\ serviceAt = "write" /\ ~secure /\ line \notin {"broken", "gone"}
  /\ \E n \in 0 .. Len(m_outputBuffer) :
       /\ wire' = wire \o SubSeq(m_outputBuffer, 1, n)
       /\ IF n > 0 THEN Discards(n) /\ ran' = "new"
          ELSE UNCHANGED <<m_outputBuffer, m_flushed, socketEvents, ran>>
       /\ room' \in IF n < Len(m_outputBuffer) THEN {FALSE} ELSE BOOLEAN
  /\ serviceAt' = "read"
  /\ UNCHANGED <<secure, mainVars, m_connected, m_readable, m_writable,
                 m_inputBuffer, tlsVars, socketJob, reported, networkVars>>

\* ... or the peer is ready to have stopped reading, or to be gone.
WriteFails ==
  /\ serviceAt = "write" /\ ~secure /\ line \in {"broken", "gone"}
  /\ \/ LET over == ~m_readable /\ m_inputBuffer = << >>
        IN /\ m_outputBuffer' = << >> /\ m_writable' = FALSE /\ m_flushed' = TRUE
           /\ m_connected' = (m_connected /\ ~over)
           /\ socketEvents' = socketEvents \union {e \in {"disconnected"} : over}
           /\ UNCHANGED <<m_readable, m_inputBuffer>>
     \/ Disconnected /\ socketEvents' = socketEvents \union {"disconnected"}
  /\ serviceAt' = "read" /\ ran' = "new"
  /\ UNCHANGED <<secure, mainVars, tlsVars, socketJob, reported, wire, networkVars, room>>

\* mutant: what is to be written is taken from the output buffer each time
CapturesAlways == m_outputBuffer
Capture == IF m_retrying THEN m_writeBuffer ELSE m_outputBuffer

\* SSL_write reports neither an error nor the end of the connection.
TlsWrites == ~fatal /\ line # "broken" /\ (m_retrying => Capture = pending)

\* doWrite with TLS.  SSL_write takes all, or none yet, and remembers what it
\* has been given; a repeated write with other bytes is an error.  After the end
\* of the connection every write fails, whatever the library still gets rid of:
\* that is not counted as sent, the peer has closed.
WriteSecure ==
  /\ serviceAt = "write" /\ secure /\ TlsIsFree
  /\ m_writeBuffer' = Capture
  /\ \/ /\ Capture = << >>
        /\ serviceAt' = "read"
        /\ UNCHANGED <<m_outputBuffer, m_flushed, socketEvents, ran, wire, m_retrying,
                       pending, fatal, room>>
     \/ /\ Capture # << >> /\ TlsWrites
        /\ wire' = wire \o Capture /\ pending' = << >> /\ m_retrying' = FALSE
        /\ Discards(Len(Capture))
        /\ room' \in BOOLEAN /\ ran' = "new" /\ serviceAt' = "read"
        /\ UNCHANGED fatal
     \/ /\ Capture # << >> /\ TlsWrites
        /\ pending' = Capture /\ m_retrying' = TRUE /\ room' = FALSE
        /\ ran' = "new" /\ serviceAt' = "read"
        /\ UNCHANGED <<m_outputBuffer, m_flushed, socketEvents, wire, fatal>>
     \/ /\ Capture # << >> /\ ~TlsWrites
        /\ fatal' = TRUE /\ ran' = "break" /\ serviceAt' = "read"
        /\ socketEvents' = socketEvents \union {"disconnected", "inputShutdown"}
        /\ UNCHANGED <<m_outputBuffer, m_flushed, wire, m_retrying, pending, room>>
  /\ UNCHANGED <<secure, mainVars, m_connected, m_readable, m_writable,
                 m_inputBuffer, socketJob, reported, networkVars>>

\* The job that a run returns.
JobAfter(connected, readable, writable, output, result) ==
  IF result = "break" THEN NotPolled
  ELSE IF result = "new" THEN JobFor(connected, readable, writable, output)
  ELSE socketJob      \* "retry"

\* mutant: the event is sent with the next bytes
Announces == {}
Announced == IF m_inputBuffer = << >> THEN {"ready"} ELSE {}

\* doRead is called, and reads.
Reads == reported.read /\ m_readable

\* The run ends: the mutex is released, the job is yet to be stored.
EndRun(result) ==
  /\ socketJob' = JobAfter(m_connected', m_readable', m_writable, m_outputBuffer, result)
  /\ serviceAt' = "store" /\ ran' = "retry"
  /\ UNCHANGED <<secure, mainVars, m_writable, m_flushed, m_outputBuffer, m_writeBuffer,
                 m_retrying, pending, reported, wire, sent, room>>

SkipRead ==
  /\ serviceAt = "read" /\ ~Reads
  /\ UNCHANGED <<m_connected, m_readable, m_inputBuffer, fatal, socketEvents, arrived, line>>
  /\ EndRun(ran)

\* All there is, up to a read that finds nothing more for now.
ReadBytes ==
  /\ serviceAt = "read" /\ Reads /\ arrived # << >> /\ line # "broken"
  /\ secure => TlsIsFree /\ ~fatal /\ line = "up"
  /\ m_inputBuffer' = m_inputBuffer \o arrived /\ arrived' = << >>
  /\ socketEvents' = socketEvents \union Announced
  /\ UNCHANGED <<m_connected, m_readable, fatal, line>>
  /\ EndRun(ran)

\* The end of a plain stream; what has been received stays to be read.
ReadEnd ==
  /\ serviceAt = "read" /\ Reads /\ ~secure /\ arrived = << >> /\ line # "broken"
  /\ LET over == ~m_writable /\ m_inputBuffer = << >>
     IN /\ m_connected' = (m_connected /\ ~over)
        /\ socketEvents' = socketEvents \union {"inputShutdown"}
                              \union {e \in {"disconnected"} : over}
  /\ m_readable' = FALSE
  /\ UNCHANGED <<m_inputBuffer, fatal, arrived, line>>
  /\ EndRun(IF ran = "break" THEN ran ELSE "new")

\* SSL_read meets the end of the connection, or an error, at once or after some
\* bytes (n): the run is broken off before it announces these.  The socket stays
\* connected and readable.
EndSecure ==
  /\ serviceAt = "read" /\ Reads /\ secure /\ TlsIsFree /\ (fatal \/ line # "up")
  /\ \E n \in (IF fatal THEN {0} ELSE IF line = "closed" THEN {Len(arrived)}
               ELSE 0 .. Len(arrived)) :
       m_inputBuffer' = m_inputBuffer \o SubSeq(arrived, 1, n)
  /\ arrived' = << >> /\ fatal' = TRUE
  /\ socketEvents' = socketEvents \union {"disconnected", "inputShutdown"}
  /\ UNCHANGED <<m_connected, m_readable, line>>
  /\ EndRun("break")

\* The system reports an error other than a lost connection, at once or after
\* some bytes, which are not announced.  The error is ignored; after it the
\* stream may be at its end.
ReadError ==
  /\ serviceAt = "read" /\ Reads /\ ~secure /\ line = "broken"
  /\ m_inputBuffer' = m_inputBuffer \o arrived /\ arrived' = << >>
  /\ line' \in {"broken", "gone"}
  /\ UNCHANGED <<m_connected, m_readable, fatal, socketEvents>>
  /\ EndRun(ran)

DoRead == SkipRead \/ ReadBytes \/ ReadEnd \/ EndSecure \/ ReadError

\* The peer is ready to be gone.
ReadFails ==
  /\ serviceAt = "read" /\ ~secure /\ reported.read /\ m_readable
  /\ line = "broken"
  /\ Disconnected /\ socketEvents' = socketEvents \union {"disconnected"}
  /\ socketJob' = NotPolled
  /\ serviceAt' = "store" /\ ran' = "retry"
  /\ UNCHANGED <<secure, mainVars, tlsVars, reported, wire, networkVars, room>>

\* The job is stored and the list released.
Store ==
  /\ serviceAt = "store"
  /\ serviceAt' = "idle" /\ ran' = "retry" /\ reported' = Nothing
  /\ UNCHANGED <<secure, mainVars, socketEvents, stateVars, bufferVars, tlsVars, socketJob,
                 wire, networkVars, room>>

-----------------------------------------------------------------------------
(* The network.                                                            *)

PeerSends ==
  /\ line = "up" /\ sent < MaxReceived
  /\ sent' = sent + 1 /\ arrived' = Append(arrived, sent + 1)
  /\ UNCHANGED <<secure, mainVars, socketEvents, stateVars, bufferVars, tlsVars,
                 serviceVars, wire, line, room>>
LineChanges ==
  /\ line = "up" \/ line = "closed"
  /\ line' \in {"closed", "broken"} \ {line}
  /\ UNCHANGED <<secure, mainVars, socketEvents, stateVars, bufferVars, tlsVars,
                 serviceVars, wire, arrived, sent, room>>
Drains ==
  /\ ~room /\ room' = TRUE
  /\ UNCHANGED <<secure, mainVars, socketEvents, stateVars, bufferVars, tlsVars,
                 serviceVars, wire, networkVars>>

MainGoesOn ==
  MakeJob \/ Install \/ EndFlush \/ HandleEvent \/ Remove \/ FinishClose
ServiceGoesOn ==
  Lock \/ PollSocket \/ serviceConnected \/ WritePlain \/ WriteFails \/ WriteSecure
  \/ DoRead \/ ReadFails \/ Store

SocketNext ==
  \/ Write \/ BeginFlush \/ Close
  \/ MainGoesOn
  \/ ServiceGoesOn
  \/ PeerSends \/ LineChanges \/ Drains

SocketSpec == SocketInit /\ [][SocketNext]_socketVars

\* Both threads go on, and the main thread gets the list and the mutex it waits
\* for (SocketMultiplexer: the poll thread waits its turn); the system has room
\* again, and does not answer every attempt to write with "later".
Sends == (WritePlain \/ WriteSecure) /\ wire' # wire
SocketFairness ==
  /\ SF_socketVars(MainGoesOn) /\ WF_socketVars(ServiceGoesOn)
  /\ WF_socketVars(Drains) /\ SF_socketVars(Sends)
SocketFairSpec == SocketSpec /\ SocketFairness

-----------------------------------------------------------------------------
(* Properties.                                                             *)

\* Every variable has its type.
SocketTypeOK ==
  /\ secure \in BOOLEAN
  /\ mainAt \in {"idle", "newJob", "install", "flush", "freeSSL", "remove",
                 "closing", "closed"}
  /\ newJob \in Jobs \union {NotPolled} /\ socketJob \in Jobs \union {NotPolled}
  /\ written \in 0 .. MaxWritten /\ read + Len(m_inputBuffer) \in 0 .. sent
  /\ sent \in 0 .. MaxReceived
  /\ socketEvents \subseteq {"ready", "flushed", "disconnected", "inputShutdown"}
  /\ <<m_connected, m_readable, m_writable, m_flushed, m_retrying, fatal, room>>
       \in BOOLEAN \X BOOLEAN \X BOOLEAN \X BOOLEAN \X BOOLEAN \X BOOLEAN \X BOOLEAN
  /\ serviceAt \in {"idle", "poll", "run", "write", "read", "store"}
  /\ ran \in {"retry", "new", "break"}
  /\ line \in {"up", "closed", "broken", "gone"}

\* The bytes sent are the first of those written, in order and each once; as
\* long as the socket is connected the others are in the output buffer.  A TLS
\* write that is repeated is given the bytes of the first attempt, though more
\* have been written since (SecureSocketWriteBuffer).
SentInOrder ==
  /\ IsPrefixOf(wire, Bytes(0, written))
  /\ m_writable => wire \o m_outputBuffer = Bytes(0, written)
RetriesAreTheSame ==
  m_retrying =>
    /\ m_writeBuffer = pending
    /\ m_writable => IsPrefixOf(pending, m_outputBuffer)
BytesAreSent == SentInOrder /\ RetriesAreTheSame

\* Nobody is in the middle of something.
AtRest == mainAt = "idle" /\ serviceAt = "idle"

\* Bytes are not left in a buffer without anybody being about to look: those
\* that wait to be sent are polled for, though the job is made outside the mutex,
\* those that have been received are announced, even ahead of the end of a plain
\* stream; and once close has removed the job, the service thread does not touch
\* the socket.  Bytes received in the run that meets the end of a TLS connection,
\* or an error, are not announced ("send input ready if input buffer was empty",
\* SecureSocket.cpp:154, is not reached), so nothing is said of them.
OutputIsPolled ==
  AtRest /\ m_outputBuffer # << >> /\ ~fatal => socketJob # NotPolled /\ socketJob.writes
InputIsAnnounced ==
  m_inputBuffer # << >> => "ready" \in socketEvents \/ fatal \/ line \in {"broken", "gone"}
ClosedIsNotServed ==
  mainAt \in {"closing", "closed"} => socketJob = NotPolled /\ serviceAt = "idle"
WorkIsNoticed == OutputIsPolled /\ InputIsAnnounced /\ ClosedIsNotServed

\* freeSSL takes the TLS lock and removes the job, which disconnect did before:
\* "TCPSocket will do this, too, but the double-call is harmless"
\* (SecureSocket.cpp:390).  It is unless the service thread has the list of jobs
\* and waits for the TLS lock.
Deadlock ==
  /\ mainAt = "freeSSL"
  /\ secure /\ (serviceAt = "write" \/ (serviceAt = "read" /\ reported.read /\ m_readable))
NoDeadlock == ~Deadlock

\* Calls return.  Closing a socket ends, unless the threads deadlock; flush
\* ends when what was written is sent or the connection is lost, unless the TLS
\* library fails.
CloseReturns == mainAt \in {"freeSSL", "remove", "closing"} ~> mainAt = "closed" \/ Deadlock
FlushReturns == mainAt = "flush" ~> mainAt # "flush" \/ fatal
SocketCallsReturn == CloseReturns /\ FlushReturns
=============================================================================
