------------------------------ MODULE ServerLife ------------------------------
(***************************************************************************)
(* When the server application has a server (lib/deskflow/ServerApp.cpp):  *)
(* it stops the server when the machine goes to sleep or another user's    *)
(* session comes to the front, starts another one afterwards, and stops it *)
(* when it is to quit.                                                     *)
(*                                                                         *)
(* To stop, closeServer tells the clients to go and runs the event loop    *)
(* once more, inside the handler, until the last one is gone or three      *)
(* seconds are over.  Both end that loop with the event that also ends the *)
(* application, so what counts is which loop each of those events ends.    *)
(* A loop takes timers only while no event waits (EventQueue::             *)
(* processEvent); other threads add events at any time.                    *)
(*                                                                         *)
(* Abstracted: handshakes, refused clients and their close timers          *)
(* (ClientAdmission, ScreenSwitch), why a start fails, and the address of  *)
(* a server: a new one may get that of the last, as here it always does.   *)
(***************************************************************************)
EXTENDS Naturals, Sequences, FiniteSets

CONSTANTS
  Guest,         \* clients
  MaxVisits,     \* bound: connections made to one server
  MaxOrders      \* bound: power events and requests to quit

ASSUME LifeBoundAssumption == MaxVisits \in Nat /\ MaxOrders \in Nat

VARIABLES
  asleep,                \* the machine sleeps, or the user's session is not the active one
  m_serverState,
  m_server, m_listener, m_fileTransferService,  \* not null
  m_suspended,
  guests, leavers,       \* the server's clients, and those it has told to close
  visits, orders,
  lifeQueue,             \* the event queue
  frames,                \* the calls of closeServer under way, the innermost last
  hears,                 \* a handler waits for ServerDisconnected
  timerDue,              \* the handler of a close timer runs
  failed,                \* the last start has failed
  asked, upset,          \* history: a quit was asked for; events came while it was busy
  phase

lifeVars ==
  <<asleep, m_serverState, m_server, m_listener, m_fileTransferService, m_suspended, guests,
    leavers, visits, orders, lifeQueue, frames, hears, timerDue, failed, asked, upset, phase>>
appVars == <<m_serverState, m_server, m_listener, m_fileTransferService, m_suspended>>
restVars == <<asleep, orders, failed, asked, upset>>

Plain(type) == <<type>>
Orders == {Plain("suspend"), Plain("resume"), Plain("askedQuit")}
LifeEvent ==
  Orders \union {Plain("quit"), Plain("disconnected")} \union ({"accepted", "gone"} \X Guest)

LifeInit ==
  /\ asleep = FALSE /\ m_suspended = FALSE
  /\ m_serverState = "Started" /\ m_server = TRUE /\ m_listener = TRUE
  /\ m_fileTransferService \in BOOLEAN
  /\ guests = {} /\ leavers = {} /\ visits = 0 /\ orders = 0
  /\ lifeQueue = << >> /\ frames = << >> /\ hears = FALSE /\ timerDue = FALSE
  /\ failed = FALSE /\ asked = FALSE /\ upset = FALSE /\ phase = "running"

Queued == {lifeQueue[i] : i \in 1 .. Len(lifeQueue)}
Closing == frames # << >>
AtRest == ~Closing /\ Queued \intersect Orders = {}

-----------------------------------------------------------------------------
(* What others do. *)

Posts(e) == lifeQueue' = Append(lifeQueue, e)

\* Signals, IPC and the screen ask to quit; the platform reports its power.
\* Each waits until the last one was handled in the calm case.
Arrives(e) ==
  /\ e \notin Queued /\ orders < MaxOrders /\ orders' = orders + 1
  /\ \/ e = Plain("suspend") /\ ~asleep /\ asleep' = TRUE /\ UNCHANGED asked
     \/ e = Plain("resume") /\ asleep /\ asleep' = FALSE /\ UNCHANGED asked
     \/ e = Plain("askedQuit") /\ ~asked /\ asked' = TRUE /\ UNCHANGED asleep
  /\ Posts(e) /\ upset' = (upset \/ ~AtRest)
  /\ UNCHANGED <<appVars, guests, leavers, visits, frames, hears, timerDue, failed, phase>>

\* A client's handshake is over: ClientListenerAccepted.
Visits(g) ==
  /\ m_listener /\ visits < MaxVisits /\ visits' = visits + 1
  /\ g \notin guests \union leavers /\ Queued \intersect {<<"accepted", g>>, <<"gone", g>>} = {}
  /\ Posts(<<"accepted", g>>)
  /\ UNCHANGED <<appVars, guests, leavers, frames, hears, timerDue, restVars, phase>>

\* A client goes, told to or not: ClientProxyDisconnected.
Goes(g) ==
  /\ g \in guests \union leavers /\ <<"gone", g>> \notin Queued
  /\ Posts(<<"gone", g>>)
  /\ UNCHANGED <<appVars, guests, leavers, visits, frames, hears, timerDue, restVars, phase>>

-----------------------------------------------------------------------------
(* The handlers. *)

Takes(e) == ~timerDue /\ lifeQueue # << >> /\ Head(lifeQueue) = e
Rest == Tail(lifeQueue)

\* mutant: clients alone decide when the server is closed
HasNoTimer == FALSE
HasTimer == TRUE

\* stopServer and closeServer, up to the inner loop; Server::disconnect
Closes(then) ==
  /\ m_fileTransferService' = FALSE
  /\ guests' = {} /\ leavers' = leavers \union guests
  /\ lifeQueue' = IF leavers' = {} THEN Append(Rest, Plain("disconnected")) ELSE Rest
  /\ frames' = Append(frames, [then |-> then, timer |-> HasTimer, stale |-> FALSE])
  /\ hears' = TRUE
  /\ upset' = (upset \/ Plain("disconnected") \in Queued)
  /\ UNCHANGED <<m_serverState, m_server, m_listener, m_suspended, visits, phase>>

\* handleSuspend, when there is something to close; a second one may arrive
\* before m_suspended is set.
SuspendCloses ==
  /\ Takes(Plain("suspend")) /\ ~m_suspended /\ m_serverState = "Started"
  /\ Len(frames) < 2
  /\ Closes("suspend")
  /\ UNCHANGED <<timerDue, asleep, orders, failed, asked>>

\* handleSuspend, without a server or a second time
SuspendNotes ==
  /\ Takes(Plain("suspend")) /\ (m_suspended \/ m_serverState # "Started")
  /\ m_suspended' = TRUE /\ lifeQueue' = Rest
  /\ UNCHANGED <<m_serverState, m_server, m_listener, m_fileTransferService, guests, leavers,
                 visits, frames, hears, timerDue, restVars, phase>>

\* handleResume, startServer
Resumes(starts) ==
  /\ Takes(Plain("resume")) /\ m_suspended
  /\ m_suspended' = FALSE /\ lifeQueue' = Rest /\ failed' = ~starts
  /\ m_serverState' = IF starts THEN "Started" ELSE m_serverState
  /\ m_server' = starts /\ m_listener' = starts
  /\ m_fileTransferService' \in {FALSE, starts}
  /\ visits' = 0
  /\ UNCHANGED <<asleep, orders, asked, upset, guests, leavers, frames, hears, timerDue, phase>>
ResumeIgnored ==
  /\ Takes(Plain("resume")) /\ ~m_suspended /\ lifeQueue' = Rest
  /\ UNCHANGED <<appVars, guests, leavers, visits, frames, hears, timerDue, restVars, phase>>

\* handleClientConnected, Server::adoptClient
Adopts(g) ==
  /\ Takes(<<"accepted", g>>) /\ lifeQueue' = Rest
  /\ guests' = IF m_listener THEN guests \union {g} ELSE guests
  /\ UNCHANGED <<appVars, leavers, visits, frames, hears, timerDue, restVars, phase>>

\* Server::removeActiveClient, removeOldClient
Removes(g) ==
  /\ Takes(<<"gone", g>>)
  /\ guests' = guests \ {g} /\ leavers' = leavers \ {g}
  /\ lifeQueue' = IF g \in guests \union leavers /\ guests' \union leavers' = {}
                  THEN Append(Rest, Plain("disconnected")) ELSE Rest
  /\ UNCHANGED <<appVars, visits, frames, hears, timerDue, restVars, phase>>

\* closeServer's handler for ServerDisconnected
LastHasGone ==
  /\ Takes(Plain("disconnected"))
  /\ lifeQueue' = IF hears THEN Append(Rest, Plain("quit")) ELSE Rest
  /\ UNCHANGED <<appVars, guests, leavers, visits, frames, hears, timerDue, restVars, phase>>

NothingWaits == ~timerDue /\ lifeQueue = << >>

\* closeServer's timer, in two steps: other threads add events meanwhile.
TimerExpires ==
  /\ phase = "running" /\ NothingWaits
  /\ \E i \in 1 .. Len(frames) :
       frames[i].timer /\ frames' = [frames EXCEPT ![i].timer = FALSE]
  /\ timerDue' = TRUE
  /\ UNCHANGED <<appVars, guests, leavers, visits, lifeQueue, hears, restVars, phase>>
TimerQuits ==
  /\ timerDue /\ timerDue' = FALSE /\ Posts(Plain("quit"))
  /\ UNCHANGED <<appVars, guests, leavers, visits, frames, hears, restVars, phase>>

TakesQuit == \E e \in {Plain("quit"), Plain("askedQuit")} : Takes(e)

\* The main loop ends: cleanupServer, which closes a server first.
MainLoopEnds ==
  /\ TakesQuit /\ ~Closing
  /\ \/ m_serverState = "Started" /\ Closes("end")
     \/ /\ m_serverState # "Started" /\ phase' = "ended" /\ lifeQueue' = Rest
        /\ UNCHANGED <<appVars, guests, leavers, visits, frames, hears, upset>>
  /\ UNCHANGED <<timerDue, asleep, orders, failed, asked>>

\* mutant: the handler for ServerDisconnected stays
HearsOn == UNCHANGED hears
HearsNoMore == hears' = FALSE

\* An inner loop ends: the rest of closeServer, Server::~Server, stopServer and
\* handleSuspend or cleanupServer.  A call of closeServer within this one has
\* deleted the server already: what happens then is undefined.
InnerLoopEnds ==
  /\ TakesQuit /\ Closing
  /\ LET last == frames[Len(frames)] IN
     /\ frames' = [i \in 1 .. Len(frames) - 1 |-> [frames[i] EXCEPT !.stale = TRUE]]
     /\ HearsNoMore
     /\ lifeQueue' = IF guests \union leavers = {}
                     THEN Append(Rest, Plain("disconnected")) ELSE Rest
     /\ guests' = {} /\ leavers' = {} /\ visits' = 0
     /\ m_server' = FALSE /\ m_listener' = FALSE /\ m_serverState' = "Initialized"
     /\ m_suspended' = (m_suspended \/ last.then = "suspend")
     /\ phase' = IF last.stale THEN "undefined"
                 ELSE IF last.then = "end" THEN "ended" ELSE phase
  /\ UNCHANGED <<m_fileTransferService, timerDue, restVars>>

LoopSteps ==
  \/ SuspendCloses \/ SuspendNotes
  \/ \E starts \in BOOLEAN : Resumes(starts)
  \/ ResumeIgnored
  \/ \E g \in Guest : Adopts(g) \/ Removes(g)
  \/ LastHasGone \/ MainLoopEnds \/ InnerLoopEnds

LifeNext ==
  /\ phase = "running"
  /\ \/ LoopSteps \/ TimerExpires \/ TimerQuits
     \/ \E e \in Orders : Arrives(e)
     \/ \E g \in Guest : Visits(g) \/ Goes(g)

\* The loop goes on while events wait, and its timers expire.
LifeFairness ==
  /\ WF_lifeVars(phase = "running" /\ LoopSteps)
  /\ WF_lifeVars(TimerExpires) /\ WF_lifeVars(phase = "running" /\ TimerQuits)

LifeSpec == LifeInit /\ [][LifeNext]_lifeVars /\ LifeFairness

-----------------------------------------------------------------------------
LifeTypeOK ==
  /\ m_serverState \in {"Initialized", "Started"} /\ phase \in {"running", "ended", "undefined"}
  /\ {asleep, m_server, m_listener, m_fileTransferService, m_suspended, hears, timerDue,
      failed, asked, upset} \subseteq BOOLEAN
  /\ guests \subseteq Guest /\ leavers \subseteq Guest
  /\ visits \in 0 .. MaxVisits /\ orders \in 0 .. MaxOrders
  /\ Queued \subseteq LifeEvent
  /\ frames \in Seq([then : {"suspend", "end"}, timer : BOOLEAN, stale : BOOLEAN])

\* The listener goes with the server, also while it closes.
PartsFollowServer ==
  /\ m_server <=> m_serverState = "Started"
  /\ m_listener <=> m_server

\* Unless something is asked of it while it is busy, the application has a
\* server exactly while the machine is awake (or the start has failed), and ends
\* only when it is asked to: each close uses up the event that ends its loop
\* (closeServer, handleSuspend, handleResume).
ServerFollowsPower ==
  /\ LifeTypeOK /\ PartsFollowServer
  /\ ~upset =>
       /\ phase # "undefined"
       /\ phase = "ended" => asked
       /\ m_fileTransferService => m_server /\ ~Closing
       /\ AtRest => m_suspended = asleep
       /\ AtRest /\ phase = "running" =>
            /\ Plain("quit") \notin Queued
            /\ m_server <=> ~asleep /\ ~failed

\* A server that closes is closed in the end, whether or not its clients go, and
\* an application that is asked to quit at rest ends (closeServer's timer).
ClosesEnd ==
  /\ (Closing /\ ~upset) ~> (~Closing \/ upset)
  /\ (asked /\ ~upset) ~> (phase = "ended" \/ upset)
=============================================================================
