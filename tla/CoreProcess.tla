------------------------------ MODULE CoreProcess -----------------------------
(***************************************************************************)
(* The GUI's control of the core: a process of its own in desktop mode,    *)
(* the daemon's in service mode (CoreProcess, ServiceStartCoordinator,     *)
(* IpcClient).                                                             *)
(***************************************************************************)
EXTENDS ServiceLink, FiniteSets

CONSTANTS
  Desktop, Service, NoMode,  \* ProcessMode
  MaxRecoveries,             \* attempts to contact an existing core, 5 in the code
  MaxGenerations             \* bound on the starts and stops before a retry

ASSUME ModeAssumption == Desktop # Service /\ NoMode \notin {Desktop, Service}
ASSUME RecoveryAssumption == MaxRecoveries \in Nat /\ MaxGenerations \in Nat

VARIABLES
  processState,              \* CoreProcess::m_processState
  processMode,               \* the setting
  m_lastProcessMode,
  m_restartRequested, m_retryTimer,
  m_coreStartGeneration, m_daemonCommandGeneration,
  m_duplicateRecoveryAttempts,
  m_stage, m_generation,     \* of the ServiceStartCoordinator
  m_daemonConfigRequestId, m_daemonStartRequestId,
  m_coreIpcClient,           \* in service mode
  reconnects,                \* generations of the single-shot timers of connectCoreIpc
  recoveries,                \* clients of checkExistingProcess
  waitingStops, postedStops, \* stops that wait for the connection, and that it released
  dialogs,                   \* nested dialogs that the daemon is offline
  wish                       \* what the user was left with: the last order, or a failure

orderVars == <<processMode, wish>>
stateVars == <<processState, m_restartRequested, m_retryTimer>>
coordinatorVars == <<m_stage, m_generation, m_daemonConfigRequestId, m_daemonStartRequestId>>
stopVars == <<m_daemonCommandGeneration, waitingStops, postedStops>>
clientVars == <<m_coreIpcClient, reconnects>>
recoveryVars == <<recoveries, m_duplicateRecoveryAttempts>>
startVars == <<m_coreStartGeneration, m_lastProcessMode>>

coreVars == <<orderVars, stateVars, coordinatorVars, stopVars, clientVars, recoveryVars,
              startVars, dialogs>>

CoreState == {"Stopped", "Starting", "Started", "Stopping", "RetryPending"}
Stage == {"Idle", "WaitingForDaemon", "WaitingForConfig", "WaitingForStart", "WaitingForCore"}
DelayedStop == [generation : Nat, ends : BOOLEAN]
Recovery == [generation : Nat, asked : BOOLEAN]

CoreTypeOK ==
  /\ processState \in CoreState /\ processMode \in {Desktop, Service}
  /\ m_lastProcessMode \in {Desktop, Service, NoMode}
  /\ m_restartRequested \in BOOLEAN /\ m_retryTimer \in BOOLEAN
  /\ m_coreStartGeneration \in Nat /\ m_daemonCommandGeneration \in Nat
  /\ m_duplicateRecoveryAttempts \in 0..(MaxRecoveries + 1)
  /\ m_stage \in Stage /\ m_generation \in Nat
  /\ m_daemonConfigRequestId \in Request \union {NoRequest}
  /\ m_daemonStartRequestId \in Request \union {NoRequest}
  /\ m_coreIpcClient \in {"none", "connecting", "connected"}
  /\ reconnects \subseteq Nat /\ recoveries \subseteq Recovery
  /\ waitingStops \subseteq DelayedStop /\ postedStops \subseteq DelayedStop
  /\ dialogs \in Nat /\ wish \in {"none", "run", "stop", "failed", "recovered"}
  /\ m_state \in {"Unconnected", "Connecting", "Connected", "Lost"}
  /\ foreground \in {"none", "starting", "running", "success", "failed", "duplicate"}

CoreInit ==
  /\ processState = "Stopped" /\ processMode \in {Desktop, Service} /\ m_lastProcessMode = NoMode
  /\ m_restartRequested = FALSE /\ m_retryTimer = FALSE
  /\ m_coreStartGeneration = 0 /\ m_daemonCommandGeneration = 0
  /\ m_duplicateRecoveryAttempts = 0
  /\ m_stage = "Idle" /\ m_generation = 0
  /\ m_daemonConfigRequestId = NoRequest /\ m_daemonStartRequestId = NoRequest
  /\ m_coreIpcClient = "none" /\ reconnects = {} /\ recoveries = {}
  /\ waitingStops = {} /\ postedStops = {} /\ dialogs = 0
  /\ wish = "none"
  /\ m_state = "Unconnected" /\ foreground = "none"

-----------------------------------------------------------------------------
(* Operators the handlers share. *)

Current(g) == g = m_coreStartGeneration
IsActive == m_stage # "Idle"

\* connectToServer, called without a connection: an attempt under way goes on.
Connects == m_state' = "Connecting"

\* scheduleRestart, setProcessState
ScheduleRestart == processState' = "RetryPending" /\ m_retryTimer' = TRUE
Becomes(s) == processState' = s /\ UNCHANGED m_retryTimer

\* mutant: a retry that is due is not called off
LeavesTimer(restart) ==
  /\ processState' = IF restart THEN "RetryPending" ELSE "Stopped"
  /\ m_retryTimer' = (m_retryTimer \/ restart)
  /\ m_restartRequested' = FALSE

\* What follows a core that has been told to stop.
RestartsOrStops(restart) ==
  /\ processState' = IF restart THEN "RetryPending" ELSE "Stopped"
  /\ m_retryTimer' = restart
  /\ m_restartRequested' = FALSE

\* requestDaemonStop, stopProcessFromDaemon and checkExistingProcess tell the
\* daemon to stop, now or when it can be reached; "ends" is whether the process
\* state depends on it.
DaemonStop(connected, ends) ==
  LET g == m_daemonCommandGeneration + 1 IN
  /\ m_daemonCommandGeneration' = g
  /\ waitingStops' = IF connected THEN waitingStops
                     ELSE waitingStops \union {[generation |-> g, ends |-> ends]}
  /\ UNCHANGED postedStops
StopOnLink ==
  /\ \/ IsConnected /\ Sends(Stop) /\ UNCHANGED m_state
     \/ ~IsConnected /\ Connects /\ UNCHANGED toDaemon
  /\ UNCHANGED <<toGui, m_pendingCommands>>

ClearRequests == m_daemonConfigRequestId' = NoRequest /\ m_daemonStartRequestId' = NoRequest

\* ServiceStartCoordinator::finishFailure, then handleServiceStartFailure
Heeded == Current(m_generation) /\ processState = "Starting"
ServiceStartFails(connected) ==
  /\ m_stage' = "Idle" /\ UNCHANGED <<m_generation, m_retryTimer, m_restartRequested, reconnects>>
  /\ IF Heeded
     THEN /\ ClearRequests /\ m_coreIpcClient' = "none"
          /\ DaemonStop(connected, FALSE)
          /\ processState' = "Stopped" /\ wish' = "failed"
     ELSE UNCHANGED <<m_daemonConfigRequestId, m_daemonStartRequestId, m_coreIpcClient, stopVars,
                      processState, wish>>

\* start(), from Stopped or RetryPending.
StartsCore ==
  LET g == m_coreStartGeneration + 1 IN
  /\ processState' = "Starting" /\ m_restartRequested' = FALSE
  /\ m_coreStartGeneration' = g /\ m_lastProcessMode' = processMode
  /\ m_duplicateRecoveryAttempts' =
       IF processState = "Stopped" THEN 0 ELSE m_duplicateRecoveryAttempts
  /\ \/ /\ processMode = Desktop
        /\ foreground' = "starting"
        /\ UNCHANGED <<coordinatorVars, stopVars, linkVars>>
     \/ /\ processMode = Service
        /\ m_daemonCommandGeneration' = m_daemonCommandGeneration + 1
        /\ m_generation' = g
        /\ m_daemonStartRequestId' = NoRequest
        /\ \/ /\ IsConnected
              /\ m_stage' = "WaitingForConfig"
              /\ m_daemonConfigRequestId' = <<"configFile", g>>
              /\ Sends(<<"configFile", g>>)
              /\ UNCHANGED m_state
           \/ /\ ~IsConnected
              /\ m_stage' = "WaitingForDaemon"
              /\ m_daemonConfigRequestId' = NoRequest
              /\ Connects
              /\ UNCHANGED toDaemon
        /\ UNCHANGED <<foreground, waitingStops, postedStops, toGui, m_pendingCommands>>
  /\ UNCHANGED <<clientVars, recoveries, dialogs, processMode>>

\* stop(): an operator, since the GUI stops in order to restart, too.
StopsCore(restart) ==
  /\ m_coreStartGeneration' = m_coreStartGeneration + 1
  /\ m_coreIpcClient' = "none"
  /\ \/ /\ processState = "RetryPending"
        /\ RestartsOrStops(restart)
        /\ UNCHANGED <<coordinatorVars, stopVars, linkVars>>
     \/ /\ processState = "Stopping"
        /\ m_restartRequested' = restart /\ m_retryTimer' = FALSE
        /\ UNCHANGED <<processState, coordinatorVars, stopVars, linkVars>>
     \/ /\ processState = "Starting"
        /\ m_stage' = IF Current(m_generation) THEN "Idle" ELSE m_stage
        /\ ClearRequests /\ UNCHANGED m_generation
        /\ \/ /\ m_lastProcessMode = Desktop /\ foreground # "none"
              /\ processState' = "Stopping" /\ m_retryTimer' = FALSE
              /\ m_restartRequested' = restart
              /\ UNCHANGED <<stopVars, linkVars>>
           \/ /\ m_lastProcessMode = Service
              /\ DaemonStop(IsConnected, FALSE) /\ StopOnLink
              /\ RestartsOrStops(restart)
     \/ /\ processState = "Started" /\ m_lastProcessMode = Service
        /\ DaemonStop(IsConnected, TRUE) /\ StopOnLink
        /\ \/ /\ IsConnected /\ RestartsOrStops(restart)
           \/ /\ ~IsConnected /\ processState' = "Stopping" /\ m_retryTimer' = FALSE
              /\ m_restartRequested' = restart
        /\ UNCHANGED coordinatorVars
     \/ /\ processState = "Started" /\ m_lastProcessMode = Desktop
        /\ processState' = "Stopping" /\ m_retryTimer' = FALSE
        /\ m_restartRequested' = restart
        /\ UNCHANGED <<coordinatorVars, stopVars, linkVars>>
  /\ UNCHANGED <<m_lastProcessMode, reconnects, recoveryVars, dialogs, processMode, foreground>>

\* checkExistingProcess
ChecksExistingProcess ==
  /\ recoveries' = recoveries \union
       {[generation |-> m_coreStartGeneration, asked |-> FALSE]}
  /\ \/ processMode = Desktop /\ DaemonStop(IsConnected, FALSE) /\ StopOnLink
     \/ processMode # Desktop /\ UNCHANGED <<stopVars, linkVars>>

-----------------------------------------------------------------------------
(* The user. *)

WorldSame == UNCHANGED <<settings, m_process, strays>>

UserStarts ==
  /\ wish' = "run"
  /\ \/ /\ processState \in {"Stopped", "RetryPending"}
        /\ StartsCore /\ UNCHANGED m_retryTimer
     \/ /\ processState = "Stopping" /\ m_restartRequested' = TRUE
        /\ UNCHANGED <<processMode, processState, m_retryTimer, coordinatorVars, stopVars,
                       clientVars, recoveryVars, startVars, dialogs, linkVars, foreground>>
  /\ WorldSame

UserStops ==
  /\ wish' = "stop"
  /\ processState # "Stopped" /\ StopsCore(FALSE)
  /\ WorldSame

\* restart(): the edited settings have been saved.
UserRestarts ==
  /\ wish' = "run"
  /\ \/ processState = "Stopped" /\ StartsCore /\ UNCHANGED m_retryTimer
     \/ processState # "Stopped" /\ StopsCore(TRUE)
  /\ settings' \in Command \union {NoCommand}
  /\ UNCHANGED <<m_process, strays>>

\* The setting of the process mode is changed.
ModeChanges ==
  /\ processMode' = IF processMode = Desktop THEN Service ELSE Desktop
  /\ UNCHANGED <<wish, stateVars, coordinatorVars, stopVars, clientVars, recoveryVars,
                 startVars, dialogs, linkVars, foreground>>
  /\ WorldSame

-----------------------------------------------------------------------------
(* Timers and the connection to the daemon. *)

RetryTimer ==
  /\ m_retryTimer /\ m_retryTimer' = FALSE
  /\ \/ processState = "RetryPending" /\ m_coreStartGeneration < MaxGenerations /\ StartsCore
     \/ /\ processState # "RetryPending"
        /\ UNCHANGED <<processMode, processState, m_restartRequested, coordinatorVars, stopVars,
                       clientVars, recoveryVars, startVars, dialogs, linkVars, foreground>>
  /\ UNCHANGED wish /\ WorldSame

\* The hello is answered: the coordinator goes on, waiting stops are queued.
DaemonConnected ==
  /\ m_state = "Connecting" /\ daemonUp
  /\ m_state' = "Connected" /\ toGui' = << >> /\ UNCHANGED m_pendingCommands
  /\ postedStops' = postedStops \union waitingStops /\ waitingStops' = {}
  /\ \/ /\ m_stage = "WaitingForDaemon" /\ Current(m_generation)
        /\ m_stage' = "WaitingForConfig"
        /\ m_daemonConfigRequestId' = <<"configFile", m_generation>>
        /\ toDaemon' = Append(toDaemon, <<"configFile", m_generation>>)
     \/ /\ ~(m_stage = "WaitingForDaemon" /\ Current(m_generation))
        /\ UNCHANGED <<m_stage, m_daemonConfigRequestId, toDaemon>>
  /\ UNCHANGED <<m_generation, m_daemonStartRequestId, m_daemonCommandGeneration, orderVars,
                 stateVars, clientVars, recoveryVars, startVars, dialogs, foreground>>
  /\ WorldSame

\* The last attempt has failed, or the connection has been lost.  The handler
\* opens a dialog first; the coordinator hears of it when that is closed.
DaemonConnectionFailed ==
  /\ (m_state = "Connecting" /\ ~daemonUp) \/ m_state = "Lost"
  /\ m_state' = "Unconnected" /\ toGui' = << >>
  /\ dialogs' = dialogs + 1
  /\ UNCHANGED <<toDaemon, m_pendingCommands, orderVars, stateVars, coordinatorVars, stopVars,
                 clientVars, recoveryVars, startVars, foreground>>
  /\ WorldSame

\* retryDaemon: a connection made meanwhile is given up.
Reconnects ==
  /\ m_state' = "Connecting" /\ toGui' = << >>
  /\ IF IsConnected THEN CutLink ELSE UNCHANGED <<toDaemon, m_pendingCommands>>

\* showDaemonOffline returns: "retry", "ignore" or "disable"; then transportFailed.
DialogCloses(choice) ==
  /\ dialogs > 0 /\ dialogs' = dialogs - 1
  /\ processMode' = IF choice = "disable" THEN Desktop ELSE processMode
  /\ \/ /\ Current(m_generation) /\ IsActive
        /\ ServiceStartFails(IsConnected /\ choice # "retry")
        /\ IF choice = "retry" THEN Reconnects
           ELSE IF Heeded THEN StopOnLink ELSE UNCHANGED linkVars
     \/ /\ ~(Current(m_generation) /\ IsActive)
        /\ IF choice = "retry" THEN Reconnects ELSE UNCHANGED linkVars
        /\ UNCHANGED <<wish, stateVars, coordinatorVars, stopVars, clientVars>>
  /\ UNCHANGED <<recoveryVars, startVars, foreground>>
  /\ WorldSame

\* mutant: a later command does not call off a stop
AnyStop(s) == TRUE
IsLatest(s) == s.generation = m_daemonCommandGeneration

\* A stop queued when the connection was made.  One that a later command has
\* overtaken is discarded; one sent without a connection is lost.
PostedStop(s) ==
  /\ s \in postedStops /\ postedStops' = postedStops \ {s}
  /\ \/ /\ IsLatest(s)
        /\ Sends(Stop)
        /\ \/ s.ends /\ RestartsOrStops(m_restartRequested)
           \/ ~s.ends /\ UNCHANGED stateVars
     \/ /\ ~IsLatest(s)
        /\ UNCHANGED <<toDaemon, stateVars>>
  /\ UNCHANGED <<m_state, toGui, m_pendingCommands, m_daemonCommandGeneration, waitingStops,
                 orderVars, coordinatorVars, clientVars, recoveryVars, startVars, dialogs,
                 foreground>>
  /\ WorldSame

\* handleDaemonCommandResult, ServiceStartCoordinator::configResult, startResult
DaemonCommandResult ==
  /\ IsConnected /\ toGui # << >> /\ toGui' = Tail(toGui)
  /\ LET r == Head(toGui)[1]
         ok == Head(toGui)[2]
         isConfig == r = m_daemonConfigRequestId
         isStart == r = m_daemonStartRequestId
         awaited == /\ Current(m_generation)
                    /\ \/ isConfig /\ m_stage = "WaitingForConfig"
                       \/ isStart /\ m_stage = "WaitingForStart"
     IN \/ /\ awaited /\ ~ok
           /\ ServiceStartFails(TRUE)
           /\ IF Heeded THEN Sends(Stop) ELSE UNCHANGED toDaemon
        \/ /\ ~(awaited /\ ~ok)
           /\ m_daemonConfigRequestId' = IF isConfig THEN NoRequest ELSE m_daemonConfigRequestId
           /\ \/ /\ awaited /\ isConfig
                 /\ m_stage' = "WaitingForStart"
                 /\ m_daemonStartRequestId' = <<"start", m_generation>>
                 /\ Sends(<<"start", m_generation>>)
                 /\ UNCHANGED m_coreIpcClient
              \/ /\ awaited /\ isStart
                 /\ m_stage' = "WaitingForCore"
                 /\ m_daemonStartRequestId' = NoRequest
                 /\ m_coreIpcClient' = "connecting"
                 /\ UNCHANGED toDaemon
              \/ /\ ~awaited
                 /\ m_daemonStartRequestId' =
                      IF isStart THEN NoRequest ELSE m_daemonStartRequestId
                 /\ UNCHANGED <<m_stage, m_coreIpcClient, toDaemon>>
           /\ UNCHANGED <<m_generation, stateVars, stopVars, reconnects, wish>>
  /\ UNCHANGED <<m_state, m_pendingCommands, processMode, recoveryVars, startVars, dialogs,
                 foreground>>
  /\ WorldSame

\* mutant: the timer is stopped once the daemon has answered
StopsEarly == m_stage = "WaitingForDaemon"
TimerRuns == IsActive

\* The fifteen seconds of a start are over.
StartTimesOut ==
  /\ TimerRuns
  /\ ServiceStartFails(IsConnected)
  /\ IF Heeded THEN StopOnLink ELSE UNCHANGED linkVars
  /\ UNCHANGED <<processMode, recoveryVars, startVars, dialogs, foreground>>
  /\ WorldSame

-----------------------------------------------------------------------------
(* The connection to the core, in service mode. *)

\* connected; ServiceStartCoordinator::coreConnected
CoreConnected ==
  /\ m_coreIpcClient = "connecting" /\ SomeCore
  /\ m_coreIpcClient' = "connected" /\ m_duplicateRecoveryAttempts' = 0
  /\ \/ /\ Heeded /\ m_stage = "WaitingForCore"
        /\ m_stage' = "Idle" /\ ClearRequests
        /\ processState' = "Started"
     \/ /\ ~(Heeded /\ m_stage = "WaitingForCore")
        /\ UNCHANGED <<m_stage, m_daemonConfigRequestId, m_daemonStartRequestId, processState>>
  /\ UNCHANGED <<m_generation, m_restartRequested, m_retryTimer, reconnects, recoveries,
                 orderVars, stopVars, startVars, dialogs, linkVars, foreground>>
  /\ WorldSame

\* connectionFailed, serverShutdown
CoreConnectionLost ==
  /\ m_coreIpcClient = "connected" \/ (m_coreIpcClient = "connecting" /\ ~SomeCore)
  /\ \/ /\ processState = "Starting" /\ m_stage = "WaitingForCore"
        /\ ServiceStartFails(IsConnected)
        /\ IF Heeded THEN StopOnLink ELSE UNCHANGED linkVars
     \/ /\ ~(processState = "Starting" /\ m_stage = "WaitingForCore")
        /\ m_coreIpcClient' = "none"
        /\ reconnects' = IF processState = "Started"
                         THEN reconnects \union {m_coreStartGeneration} ELSE reconnects
        /\ UNCHANGED <<wish, stateVars, coordinatorVars, stopVars, linkVars>>
  /\ UNCHANGED <<processMode, recoveryVars, startVars, dialogs, foreground>>
  /\ WorldSame

\* connectCoreIpc, from its single-shot timer
ReconnectTimer(g) ==
  /\ g \in reconnects /\ reconnects' = reconnects \ {g}
  /\ m_coreIpcClient' = IF Current(g) /\ processState \in {"Starting", "Started"}
                        THEN "connecting" ELSE m_coreIpcClient
  /\ UNCHANGED <<orderVars, stateVars, coordinatorVars, stopVars, recoveryVars, startVars, dialogs,
                 linkVars, foreground>>
  /\ WorldSame

-----------------------------------------------------------------------------
(* The GUI's own process, in desktop mode. *)

QuietRest == <<coordinatorVars, clientVars, startVars, dialogs, processMode>>

\* QProcess::started
ProcessStarted ==
  /\ foreground = "starting" /\ foreground' = "running"
  /\ processState' = IF processState = "Starting" THEN "Started" ELSE processState
  /\ UNCHANGED <<m_restartRequested, m_retryTimer, wish, stopVars, recoveryVars, linkVars, QuietRest>>
  /\ WorldSame

\* QProcess::errorOccurred(FailedToStart)
ProcessFailedToStart ==
  /\ foreground = "starting" /\ foreground' = "none"
  /\ processState' = IF m_restartRequested THEN "RetryPending" ELSE "Stopped"
  /\ m_retryTimer' = (m_retryTimer \/ m_restartRequested) /\ m_restartRequested' = FALSE
  /\ wish' = IF wish = "run" /\ ~m_restartRequested THEN "failed" ELSE wish
  /\ UNCHANGED <<stopVars, recoveryVars, linkVars, QuietRest>>
  /\ WorldSame

\* The process ends: because it is asked to, because another core listens
\* already, or of itself.
ProcessEnds(code) ==
  /\ foreground = "running" /\ foreground' = code
  /\ UNCHANGED <<coreVars, linkVars>> /\ WorldSame

\* onProcessFinished
ProcessFinished ==
  /\ foreground \in {"success", "failed", "duplicate"} /\ foreground' = "none"
  /\ \/ /\ m_restartRequested
        /\ RestartsOrStops(TRUE)
        /\ UNCHANGED <<wish, stopVars, recoveryVars, linkVars>>
     \/ /\ ~m_restartRequested /\ foreground = "duplicate"
        /\ processState' = "Stopped" /\ m_retryTimer' = FALSE
        /\ wish' = IF wish = "stop" THEN "recovered" ELSE wish
        /\ ChecksExistingProcess
        /\ UNCHANGED <<m_restartRequested, m_duplicateRecoveryAttempts>>
     \/ /\ ~m_restartRequested /\ foreground # "duplicate"
        /\ RestartsOrStops(foreground = "success" /\ processState = "Started")
        /\ wish' = IF wish = "run" /\ processState' = "Stopped" THEN "failed" ELSE wish
        /\ UNCHANGED <<stopVars, recoveryVars, linkVars>>
  /\ UNCHANGED QuietRest
  /\ WorldSame

-----------------------------------------------------------------------------
(* The clients of checkExistingProcess. *)

\* connected, versionMismatch: the existing core is asked to stop, and does.
RecoveryAsks(r) ==
  /\ r \in recoveries /\ ~r.asked /\ OtherCore
  /\ \/ /\ Current(r.generation)
        /\ recoveries' = (recoveries \ {r}) \union {[r EXCEPT !.asked = TRUE]}
        /\ m_process' = NoCommand /\ strays' = FALSE
     \/ /\ ~Current(r.generation)
        /\ recoveries' = recoveries \ {r}
        /\ UNCHANGED <<m_process, strays>>
  /\ UNCHANGED <<settings, foreground, orderVars, stateVars, coordinatorVars, stopVars, clientVars,
                 m_duplicateRecoveryAttempts, startVars, dialogs, linkVars>>

\* serverShutdown
RecoveryEnds(r) ==
  /\ r \in recoveries /\ r.asked
  /\ recoveries' = recoveries \ {r}
  /\ \/ /\ Current(r.generation)
        /\ m_duplicateRecoveryAttempts' = 0 /\ ScheduleRestart
     \/ /\ ~Current(r.generation)
        /\ UNCHANGED <<m_duplicateRecoveryAttempts, processState, m_retryTimer>>
  /\ UNCHANGED <<m_restartRequested, orderVars, coordinatorVars, stopVars, clientVars, startVars,
                 dialogs, linkVars, foreground>>
  /\ WorldSame

\* connectionFailed: nobody answers, or the core is lost after it was asked.
RecoveryFails(r) ==
  /\ r \in recoveries /\ (r.asked \/ ~OtherCore)
  /\ recoveries' = recoveries \ {r}
  /\ \/ /\ Current(r.generation)
        /\ m_duplicateRecoveryAttempts' = m_duplicateRecoveryAttempts + 1
        /\ \/ m_duplicateRecoveryAttempts < MaxRecoveries /\ ScheduleRestart /\ UNCHANGED wish
           \/ /\ m_duplicateRecoveryAttempts >= MaxRecoveries
              /\ Becomes("Stopped")
              /\ wish' = IF wish = "run" THEN "failed" ELSE wish
     \/ /\ ~Current(r.generation)
        /\ UNCHANGED <<m_duplicateRecoveryAttempts, processState, m_retryTimer, wish>>
  /\ UNCHANGED <<m_restartRequested, processMode, coordinatorVars, stopVars, clientVars,
                 startVars, dialogs, linkVars, foreground>>
  /\ WorldSame
=============================================================================
