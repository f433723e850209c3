----------------------------- MODULE MCConnections ---------------------------
(***************************************************************************)
(* What connects clients to the server, in one run: the poll thread of the *)
(* sockets, the admission of clients by the server, and a client's search  *)
(* for a server.  A behaviour is one of one part; the others stay in a     *)
(* state in which nothing has to happen.                                   *)
(***************************************************************************)
EXTENDS SocketMultiplexer, ClientAdmission, ClientConnection, TLC

CONSTANTS
  u1, u2,          \* User
  s1, s2,          \* Socket
  j1,              \* Job
  p1, p2           \* Peer

TheAddresses == <<1, 2>>

VARIABLE part

vars == <<part, muxVars, admissionVars, connectionVars>>

\* The service thread waits for jobs.
MuxOver ==
  /\ pc = [t \in Runner |-> IF t = Service THEN "jobs" ELSE "idle"]
  /\ call = [u \in User |-> << >>] /\ calls = 0
  /\ asleep = [t \in Runner |-> IF t = Service THEN "jobs" ELSE "no"]
  /\ m_jobsReady = FALSE /\ m_jobListLock = FALSE /\ m_jobListLockLocked = FALSE
  /\ m_jobListLocker = NoThread /\ m_jobListLockLocker = NoThread
  /\ m_update = FALSE /\ m_socketJobs = << >>
  /\ job = [s \in Socket |-> NoJob]
  /\ pfds = << >> /\ unblockPipe = FALSE /\ hot = {} /\ polled = {}
  /\ cursor = 1 /\ index = 1

\* The client's computer is suspended.
ConnectionOver ==
  /\ reachable = {} /\ troubles = 1 /\ clientEvents = << >>
  /\ m_suspended = TRUE /\ m_connectOnResume = TRUE
  /\ conn = "none" /\ target = <<0, 0>> /\ m_timer = FALSE
  /\ m_keepAliveAlarmTimer = FALSE
  /\ m_serverAddress = 0 /\ m_resolvedAddressesCount = CountOf(0)
  /\ m_currentServerIndex = 0 /\ m_lastServerAddressIndex = 0
  /\ m_restartTimer = FALSE

Init ==
  /\ \/ part = "poll" /\ MuxInit /\ ConnectionOver
     \/ part = "connection" /\ MuxOver /\ ConnectionInit
     \/ part = "admission" /\ MuxOver /\ ConnectionOver
  /\ AdmissionInit /\ (part # "admission" => ~secure)

Next ==
  /\ UNCHANGED part
  /\ \/ part = "poll" /\ MuxNext /\ UNCHANGED <<admissionVars, connectionVars>>
     \/ part = "admission" /\ AdmissionNext /\ UNCHANGED <<muxVars, connectionVars>>
     \/ part = "connection" /\ ConnectionNext /\ UNCHANGED <<muxVars, admissionVars>>

\* The fairness of each part asks nothing while the part is at rest.
Spec ==
  /\ Init /\ [][Next]_vars
  /\ MuxFairness /\ AdmissionFairness /\ ConnectionFairness

=============================================================================
