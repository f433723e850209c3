------------------------------- MODULE Watchdog -------------------------------
(***************************************************************************)
(* The daemon: it keeps a core process running with the command it was     *)
(* given, starts it again when it ends or the session changes, and answers *)
(* who asked (MSWindowsWatchdog, DaemonApp, DaemonIpcServer).              *)
(***************************************************************************)
EXTENDS ServiceLink

VARIABLES
  m_configFile,          \* a config file is set; persisted
  m_processState,
  m_command,
  m_nextStartTime,       \* has a value
  m_failing,             \* m_startFailures > 0
  m_startResultCallback, \* the request to be answered by the next start
  posted,                \* results posted to the thread of the IPC server
  looping                \* the main loop has begun

watchdogVars == <<m_configFile, m_processState, m_command, m_nextStartTime,
                  m_failing, m_startResultCallback, posted, looping>>

ProcessState == {"Idle", "StartScheduled", "StartPending", "StopPending", "Running"}

WatchdogTypeOK ==
  /\ m_configFile \in BOOLEAN /\ m_processState \in ProcessState
  /\ m_command \in Command \union {NoCommand}
  /\ m_process \in Command \union {NoCommand}
  /\ m_nextStartTime \in BOOLEAN /\ m_failing \in BOOLEAN
  /\ m_startResultCallback \in Request \union {NoRequest}
  /\ posted \subseteq Request \X BOOLEAN
  /\ m_pendingCommands \subseteq Request
  /\ looping \in BOOLEAN /\ daemonUp \in BOOLEAN /\ strays \in BOOLEAN
  /\ settings \in Command \union {NoCommand}

WatchdogInit ==
  /\ m_configFile \in BOOLEAN
  /\ m_command = IF m_configFile THEN settings ELSE NoCommand
  /\ m_processState = IF m_command = NoCommand THEN "Idle" ELSE "StartPending"
  /\ m_nextStartTime = FALSE /\ m_failing = FALSE
  /\ m_startResultCallback = NoRequest /\ posted = {} /\ looping = FALSE
  /\ daemonUp = TRUE

\* A callback posts its result to the IPC server's thread.
Answer(r, ok) == IF r = NoRequest THEN {} ELSE {<<r, ok>>}

\* The state a new command leads to, and whether a start is due at once.
StateAfter(c) ==
  IF c = NoCommand \/ m_processState \in {"Running", "StopPending"}
  THEN "StopPending" ELSE "StartPending"

\* mutant: a start that another command replaces is never answered
ForgetsSuperseded == {}
Superseded == Answer(m_startResultCallback, FALSE)

\* setProcessConfig
setProcessConfig(c, r) ==
  LET same == m_command = c
      runs == same /\ c # NoCommand /\ m_processState = "Running"
      idle == same /\ c # NoCommand /\ m_processState = "Idle"
  IN /\ m_command' = c
     /\ posted' = posted \union Superseded \union (IF runs THEN Answer(r, TRUE) ELSE {})
     /\ m_startResultCallback' = IF runs \/ c = NoCommand THEN NoRequest ELSE r
     /\ m_processState' = IF ~same THEN StateAfter(c)
                          ELSE IF idle THEN "StartPending" ELSE m_processState
     /\ m_nextStartTime' = IF c # NoCommand /\ (~same \/ idle) THEN FALSE ELSE m_nextStartTime

\* IpcServer::handleReadyRead, processCommand: the next request is of a kind.
Receives(kind) ==
  daemonUp /\ toDaemon # << >> /\ Head(toDaemon)[1] = kind /\ toDaemon' = Tail(toDaemon)

\* processConfigFile, setConfigFile: a file that is not there is refused, and
\* the one set before stays.
setConfigFile ==
  /\ Receives("configFile")
  /\ \E ok \in BOOLEAN :
       /\ m_configFile' = (m_configFile \/ ok)
       /\ toGui' = Append(toGui, <<Head(toDaemon), ok>>)
  /\ UNCHANGED <<m_state, m_pendingCommands, m_processState, m_command, m_nextStartTime, m_failing,
                 m_startResultCallback, posted, looping, m_process, strays, foreground>>

\* applyWatchdogCommand for a request
applyWatchdogCommand ==
  LET r == Head(toDaemon) IN
  /\ Receives("start")
  /\ \/ /\ m_configFile /\ settings # NoCommand
        /\ setProcessConfig(settings, r)
        /\ m_pendingCommands' = m_pendingCommands \union {r}
        /\ UNCHANGED toGui
     \/ /\ ~m_configFile \/ settings = NoCommand
        /\ toGui' = Append(toGui, <<r, FALSE>>)
        /\ UNCHANGED <<m_pendingCommands, m_processState, m_command, m_nextStartTime,
                       m_startResultCallback, posted>>
  /\ UNCHANGED <<m_state, m_configFile, m_failing, looping, m_process, strays, foreground>>

\* clearWatchdogCommand.  Nobody reads the result of a stop.
clearWatchdogCommand ==
  /\ Receives("stop")
  /\ m_configFile' = FALSE
  /\ setProcessConfig(NoCommand, NoRequest)
  /\ UNCHANGED <<m_state, toGui, m_pendingCommands, m_failing, looping, m_process, strays, foreground>>

\* The posted half of a callback.
Delivers(r, ok) ==
  /\ daemonUp /\ <<r, ok>> \in posted
  /\ posted' = posted \ {<<r, ok>>}
  /\ Completes(r, ok)
  /\ UNCHANGED <<m_state, toDaemon, m_configFile, m_processState, m_command, m_nextStartTime,
                 m_failing, m_startResultCallback, looping, m_process, strays, foreground>>

\* mutant: the cores of an earlier daemon are left alone
LeavesThem == UNCHANGED <<strays, foreground>>
EndsOldCores == KillsOthers

\* mainLoop begins by ending the cores of an earlier daemon.
LoopBegins ==
  /\ daemonUp /\ ~looping /\ looping' = TRUE
  /\ EndsOldCores
  /\ UNCHANGED <<linkVars, m_configFile, m_processState, m_command, m_nextStartTime, m_failing,
                 m_startResultCallback, posted, m_process>>

Loops(s) == daemonUp /\ looping /\ m_processState = s

\* The loop, in StartScheduled when it is time.
StartTimeReached ==
  /\ Loops("StartScheduled") /\ m_nextStartTime
  /\ m_processState' = "StartPending"
  /\ UNCHANGED <<linkVars, m_configFile, m_command, m_nextStartTime, m_failing,
                 m_startResultCallback, posted, looping, m_process, strays, foreground>>

\* startProcess: the core is alive after a second.
Starts ==
  /\ Loops("StartPending") /\ m_command # NoCommand
  /\ ~strays /\ foreground # "running"
  /\ m_process' = m_command /\ m_failing' = FALSE /\ m_processState' = "Running"
  /\ posted' = posted \union Answer(m_startResultCallback, TRUE)
  /\ m_startResultCallback' = NoRequest
  /\ UNCHANGED <<linkVars, m_configFile, m_command, m_nextStartTime, looping, strays, foreground>>

\* startProcess fails (no token, another core, a fault), then handleStartError:
\* the first failure is tried again at once, each later one after a delay.
StartFails ==
  /\ Loops("StartPending")
  /\ m_process' = NoCommand /\ m_failing' = TRUE
  /\ m_processState' = IF m_failing THEN "StartScheduled" ELSE "StartPending"
  /\ m_nextStartTime' = m_failing
  /\ posted' = posted \union Answer(m_startResultCallback, FALSE)
  /\ m_startResultCallback' = NoRequest
  /\ UNCHANGED <<linkVars, m_configFile, m_command, looping, strays, foreground>>

\* The loop, in Running without a process.
ProcessIsMissed ==
  /\ Loops("Running") /\ m_process = NoCommand
  /\ m_processState' = "StartPending"
  /\ UNCHANGED <<linkVars, m_configFile, m_command, m_nextStartTime, m_failing,
                 m_startResultCallback, posted, looping, m_process, strays, foreground>>

\* The loop, in StopPending, or in Running when the session has changed.
Stops ==
  /\ Loops("StopPending") \/ (Loops("Running") /\ m_command # NoCommand)
  /\ m_process' = NoCommand /\ KillsOthers
  /\ m_processState' = IF m_command = NoCommand THEN "Idle" ELSE "StartPending"
  /\ m_nextStartTime' = (m_nextStartTime /\ m_processState # "Running")
  /\ UNCHANGED <<linkVars, m_configFile, m_command, m_failing, m_startResultCallback,
                 posted, looping>>

\* The core ends of itself.
ServiceCoreEnds ==
  /\ ServiceCore /\ m_process' = NoCommand
  /\ UNCHANGED <<linkVars, watchdogVars, strays, foreground>>

\* Everything but the persisted config file is as in a daemon not yet begun.
Forgets ==
  /\ m_processState' = "Idle" /\ m_command' = NoCommand /\ m_nextStartTime' = FALSE
  /\ m_failing' = FALSE /\ m_startResultCallback' = NoRequest /\ posted' = {}
  /\ looping' = FALSE /\ m_process' = NoCommand
  /\ CutLink /\ m_state' = IF m_state = "Connected" THEN "Lost" ELSE m_state

\* The daemon crashes: its core stays.
Crashes ==
  /\ daemonUp /\ daemonUp' = FALSE
  /\ Forgets
  /\ strays' = (strays \/ ServiceCore)
  /\ UNCHANGED <<toGui, m_configFile, foreground>>

\* The service is stopped: mainLoop ends and takes every core with it.
ServiceStops ==
  /\ daemonUp /\ looping /\ daemonUp' = FALSE
  /\ Forgets
  /\ KillsOthers
  /\ UNCHANGED <<toGui, m_configFile>>

\* DaemonApp::run applies the persisted config file.
Boots ==
  /\ ~daemonUp /\ daemonUp' = TRUE
  /\ m_command' = IF m_configFile THEN settings ELSE NoCommand
  /\ m_processState' = IF m_command' = NoCommand THEN "Idle" ELSE "StartPending"
  /\ UNCHANGED <<linkVars, m_configFile, m_nextStartTime, m_failing, m_startResultCallback,
                 posted, looping, m_process, strays, foreground>>

=============================================================================
