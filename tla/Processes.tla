------------------------------- MODULE Processes ------------------------------
(***************************************************************************)
(* The control of the core on Windows: the GUI and the daemon with the     *)
(* socket between them, the user, and what may go wrong.                   *)
(***************************************************************************)
EXTENDS Watchdog, CoreProcess

CONSTANT MaxActs      \* bound: what the user does, failures and ends of the daemon

ASSUME MaxActsAssumption == MaxActs \in Nat

VARIABLES acts, daemonEnded

vars == <<watchdogVars, coreVars, linkVars, daemonUp, settings, m_process, strays, foreground,
          acts, daemonEnded>>

\* A config file that an earlier session of the GUI has left counts as an act.
Init ==
  /\ settings \in Command /\ CoreInit /\ WatchdogInit
  /\ toDaemon = << >> /\ toGui = << >> /\ m_pendingCommands = {}
  /\ m_process = NoCommand /\ strays = FALSE
  /\ acts = (IF m_configFile THEN 1 ELSE 0) /\ daemonEnded = FALSE

Acts == acts < MaxActs /\ acts' = acts + 1
Quietly == UNCHANGED acts

-----------------------------------------------------------------------------
(* The daemon. *)

\* Nothing to run, or another core has the name of the local socket.
CannotStart == strays \/ foreground = "running" \/ m_command = NoCommand

\* The thread of the IPC server, and that of the watchdog.
Ipc ==
  \/ setConfigFile \/ applyWatchdogCommand \/ clearWatchdogCommand
  \/ \E a \in posted : Delivers(a[1], a[2])
Loop ==
  \/ LoopBegins \/ StartTimeReached \/ Starts \/ ProcessIsMissed
  \/ CannotStart /\ StartFails
  \/ Loops("StopPending") /\ Stops

\* A start that fails, a core that ends, a session that changes.
DaemonFault == StartFails \/ ServiceCoreEnds \/ (Loops("Running") /\ Stops)

\* The GUI's own variables are its own.
OfDaemon == UNCHANGED <<daemonUp, settings, daemonEnded, coreVars>>
Daemon ==
  \/ Quietly /\ (Ipc \/ Loop) /\ OfDaemon
  \/ Acts /\ DaemonFault /\ OfDaemon
  \/ Acts /\ (Crashes \/ ServiceStops) /\ daemonEnded' = TRUE /\ UNCHANGED <<settings, coreVars>>
  \/ Quietly /\ Boots /\ UNCHANGED <<settings, daemonEnded, coreVars>>

-----------------------------------------------------------------------------
(* The GUI and the user. *)

GuiStep ==
  \/ RetryTimer \/ DaemonConnected \/ DaemonConnectionFailed
  \/ \E s \in postedStops : PostedStop(s)
  \/ DaemonCommandResult \/ StartTimesOut
  \/ CoreConnected \/ CoreConnectionLost
  \/ \E g \in reconnects : ReconnectTimer(g)
  \/ ProcessStarted \/ ProcessFinished
  \/ \E r \in recoveries : RecoveryAsks(r) \/ RecoveryEnds(r) \/ RecoveryFails(r)
  \/ processState = "Stopping" /\ ProcessEnds("success")
  \/ OtherCore /\ ProcessEnds("duplicate")
  \/ \E choice \in {"retry", "ignore", "disable"} : DialogCloses(choice)

User == UserStarts \/ UserStops \/ UserRestarts \/ ModeChanges
GuiFault == ProcessFailedToStart \/ ProcessEnds("success") \/ ProcessEnds("failed")

OfGui == UNCHANGED <<watchdogVars, daemonUp, daemonEnded>>
Gui ==
  \/ Quietly /\ GuiStep /\ OfGui
  \/ Acts /\ (User \/ GuiFault) /\ OfGui

Next == Daemon \/ Gui

Spec == Init /\ [][Next]_vars

\* The watchdog's loop runs every 100 ms while the daemon is up; the timer of a
\* start and the start of a process always end.  The user owes nothing.
Fairness ==
  /\ WF_vars(Quietly /\ Loop /\ OfDaemon)
  /\ WF_vars(Quietly /\ StartTimesOut /\ OfGui)
  /\ WF_vars(Quietly /\ ProcessStarted /\ OfGui)
FairSpec == Spec /\ Fairness

-----------------------------------------------------------------------------
(* Safety. *)

\* The watchdog's state fits its command: idle without one, never waiting to
\* start, or running, without one, and whatever runs is what was asked for,
\* except for a core about to be stopped.
StateFitsCommand ==
  /\ m_processState = "Idle" => m_command = NoCommand /\ m_process = NoCommand
  /\ m_processState \in {"StartPending", "StartScheduled", "Running"} => m_command # NoCommand
  /\ m_processState = "StartScheduled" => m_nextStartTime
  /\ m_processState # "StopPending" => m_process \in {m_command, NoCommand}

\* No start that the GUI waits for is forgotten: it is the one the watchdog will
\* answer, and a start is on its way, or its answer is posted.
StartsAreAnswered ==
  /\ \A r \in m_pendingCommands :
       r = m_startResultCallback \/ \E ok \in BOOLEAN : <<r, ok>> \in posted
  /\ m_startResultCallback # NoRequest =>
       /\ m_processState \in {"StartPending", "StartScheduled", "StopPending"}
       /\ m_command # NoCommand

\* The two hold together in whatever order requests, answers, failures of
\* processes and ends of the daemon come (MSWindowsWatchdog::setProcessConfig,
\* mainLoop, handleStartError).
DaemonIsConsistent == WatchdogTypeOK /\ StateFitsCommand /\ StartsAreAnswered

\* In service mode the GUI is starting exactly while the coordinator watches
\* the current start, so that its timer ends every start.
StartsAreWatched ==
  (processState = "Starting" /\ m_lastProcessMode = Service)
    <=> (IsActive /\ Current(m_generation))

\* The GUI has a process exactly when its desktop core starts, runs or stops.
ForegroundIsKnown ==
  foreground # "none" <=>
    m_lastProcessMode = Desktop /\ processState \in {"Starting", "Started", "Stopping"}

\* After a stop nothing is left that would start the core again; after a start
\* the core runs, starts, or a timer, a stop or a recovery will start it; after
\* a failure the GUI is stopped.  A stop that a duplicate core turned into a
\* recovery is left out: DuplicatesStayStopped is about it.
OrderIsKept ==
  /\ wish = "stop" => /\ processState \in {"Stopped", "Stopping"}
                      /\ ~m_restartRequested /\ ~m_retryTimer
  /\ wish = "run" => \/ processState \in {"Starting", "Started"}
                     \/ processState = "RetryPending" /\ m_retryTimer
                     \/ processState = "Stopping" /\ m_restartRequested
                     \/ \E r \in recoveries : Current(r.generation)
  /\ wish = "failed" => processState = "Stopped"

\* What the user ordered last is what the GUI is at, whatever order the timers,
\* answers, lost connections and ends of processes come in (CoreProcess::start,
\* stop, restart, onProcessFinished, handleServiceStartFailure).
UserIsObeyed == CoreTypeOK /\ StartsAreWatched /\ ForegroundIsKnown /\ OrderIsKept

\* The daemon agrees with the GUI in service mode.  The config file of a core
\* that the GUI shows as started is persisted, and a daemon that has not ended
\* has its command; once a stop is through there is no command
\* (stopProcessFromDaemon, setConfigFile, clearWatchdogCommand).
DaemonAgrees ==
  m_lastProcessMode = Service =>
    /\ processState = "Started" => m_configFile /\ (daemonEnded \/ m_command # NoCommand)
    /\ (/\ toDaemon = << >> /\ waitingStops = {} /\ postedStops = {} /\ daemonUp
        /\ wish \in {"stop", "failed"} /\ ~daemonEnded)
       => m_command = NoCommand

\* A core that ends as a duplicate when the user has already stopped it is not
\* started again (unittests/gui/CoreProcessTests.cpp,
\* stopCancelsLateDuplicateRecovery).
DuplicatesStayStopped ==
  wish \in {"stop", "recovered"} => processState \in {"Stopped", "Stopping"}

-----------------------------------------------------------------------------
(* Liveness. *)

\* A start ends: with a core, or with a failure the user is told of
\* (ServiceStartCoordinator's timer).
StartsEnd == processState = "Starting" ~> processState # "Starting"

\* A daemon that has a command, given to it or found when it boots, ends up
\* running it, after failed starts and with what an earlier daemon left behind,
\* unless the user's own core is in the way (mainLoop, handleStartError).
CommandIsRun ==
  (daemonUp /\ m_command # NoCommand) ~>
    (m_processState = "Running" \/ m_command = NoCommand \/ ~daemonUp \/ foreground = "running")
=============================================================================
