--------------------------- MODULE Processes_proofs ---------------------------
(***************************************************************************)
(* Theorems about the GUI's core and the daemon, for any commands and      *)
(* bounds: the user is obeyed, the daemon is consistent, and the two       *)
(* agree.  The first two have an inductive invariant of their own, and the *)
(* third needs both.                                                       *)
(***************************************************************************)
EXTENDS Processes, TLAPS

(***************************************************************************)
(* Every recovery and every delayed stop carries the number of the command *)
(* that it is for.  A recovery that is still current belongs to a GUI that *)
(* waits for it: nothing runs, and the user has not stopped meanwhile.  At *)
(* most one is current, and none after the last attempt.                   *)
(***************************************************************************)
RecoveriesAreWaitedFor ==
  /\ m_generation <= m_coreStartGeneration
  /\ \A r \in recoveries : r.generation <= m_coreStartGeneration
  /\ \A r \in recoveries : Current(r.generation) =>
       /\ processState \in {"Stopped", "RetryPending"} /\ wish \notin {"stop", "failed"}
       /\ m_duplicateRecoveryAttempts # MaxRecoveries + 1
  /\ \A r \in recoveries, q \in recoveries :
       Current(r.generation) /\ Current(q.generation) => r = q
  /\ m_duplicateRecoveryAttempts = MaxRecoveries + 1 => processState = "Stopped"

\* A stop that no later command has overtaken is the only one, it either waits
\* or is posted, and one that ends the process state finds the GUI stopping.
StopsAreNumbered ==
  /\ \A d \in waitingStops \union postedStops : d.generation <= m_daemonCommandGeneration
  /\ \A d \in waitingStops \union postedStops, e \in waitingStops \union postedStops :
       IsLatest(d) /\ IsLatest(e) => d = e
  /\ \A d \in waitingStops : IsLatest(d) => d \notin postedStops
  /\ \A d \in waitingStops \union postedStops :
       IsLatest(d) /\ d.ends => processState = "Stopping" /\ m_lastProcessMode = Service

CoreInv ==
  /\ CoreTypeOK /\ StartsAreWatched /\ ForegroundIsKnown /\ OrderIsKept
  /\ RecoveriesAreWaitedFor /\ StopsAreNumbered

\* A daemon that is down is idle, and one that is about to start has no core.
DownIsIdle == ~daemonUp => m_processState = "Idle"
PendingHasNoCore ==
  m_processState \in {"StartPending", "StartScheduled"} => m_process = NoCommand
RequestsType == toDaemon \in Seq(Request \union {Stop})

DaemonInv == DaemonIsConsistent /\ DownIsIdle /\ PendingHasNoCore /\ RequestsType

USE DEF orderVars, stateVars, coordinatorVars, stopVars, clientVars, recoveryVars, startVars,
        linkVars, QuietRest, Current, IsActive, IsLatest, Heeded

(***************************************************************************)
(* The types of the GUI's variables, in groups that the actions change     *)
(* together.                                                               *)
(***************************************************************************)
StateType ==
  /\ processState \in CoreState /\ m_restartRequested \in BOOLEAN /\ m_retryTimer \in BOOLEAN
  /\ processMode \in {Desktop, Service} /\ m_lastProcessMode \in {Desktop, Service, NoMode}
  /\ wish \in {"none", "run", "stop", "failed", "recovered"}
CountType ==
  /\ m_coreStartGeneration \in Nat /\ m_daemonCommandGeneration \in Nat /\ dialogs \in Nat
  /\ m_duplicateRecoveryAttempts \in 0..(MaxRecoveries + 1)
CoordinatorType ==
  /\ m_stage \in Stage /\ m_generation \in Nat
  /\ m_daemonConfigRequestId \in Request \union {NoRequest}
  /\ m_daemonStartRequestId \in Request \union {NoRequest}
WaitingType ==
  /\ reconnects \subseteq Nat /\ recoveries \subseteq Recovery
  /\ waitingStops \subseteq DelayedStop /\ postedStops \subseteq DelayedStop
LinkType ==
  /\ m_coreIpcClient \in {"none", "connecting", "connected"}
  /\ m_state \in {"Unconnected", "Connecting", "Connected", "Lost"}
  /\ foreground \in {"none", "starting", "running", "success", "failed", "duplicate"}

LEMMA CoreTypeGroups ==
  CoreTypeOK <=> StateType /\ CountType /\ CoordinatorType /\ WaitingType /\ LinkType
BY DEF CoreTypeOK, StateType, CountType, CoordinatorType, WaitingType, LinkType

LEMMA RequestsAreRequests ==
  ASSUME NEW g \in Nat
  PROVE  <<"configFile", g>> \in Request /\ <<"start", g>> \in Request
BY DEF Request

(***************************************************************************)
(* The operators that the handlers share keep the invariant's parts.       *)
(***************************************************************************)
LEMMA DaemonStopType ==
  ASSUME CountType, WaitingType, NEW connected, NEW ends \in BOOLEAN, DaemonStop(connected, ends)
  PROVE  /\ m_daemonCommandGeneration' = m_daemonCommandGeneration + 1
         /\ m_daemonCommandGeneration' \in Nat
         /\ waitingStops' \subseteq DelayedStop /\ postedStops' \subseteq DelayedStop
BY DEF CountType, WaitingType, DaemonStop, DelayedStop

\* A new stop is the latest, and the only one of its number.
LEMMA DaemonStopIsNumbered ==
  ASSUME CoreInv, NEW connected, NEW ends \in BOOLEAN, DaemonStop(connected, ends),
         ends => connected \/ (processState' = "Stopping" /\ m_lastProcessMode' = Service)
  PROVE  StopsAreNumbered'
BY DEF CoreInv, CoreTypeOK, StopsAreNumbered, DaemonStop, DelayedStop

LEMMA StartsCoreKeeps ==
  ASSUME CoreInv, processState \in {"Stopped", "RetryPending"}, StartsCore,
         m_retryTimer' \in BOOLEAN, wish' \in {wish, "run"}, wish' \notin {"stop", "failed"}
  PROVE  CoreInv'
<1> USE ModeAssumption, RecoveryAssumption
<1>a. StateType /\ CountType /\ CoordinatorType /\ WaitingType /\ LinkType
  BY CoreTypeGroups DEF CoreInv
<1>1. StateType'
  BY <1>a DEF StateType, StartsCore, CoreState
<1>2. CountType'
  BY <1>a DEF CountType, StartsCore
<1>3. CoordinatorType'
  <2>0. m_coreStartGeneration + 1 \in Nat
    BY <1>a DEF CountType
  <2>1. <<"configFile", m_coreStartGeneration + 1>> \in Request
    BY <2>0, RequestsAreRequests
  <2>2. CASE UNCHANGED coordinatorVars
    BY <1>a, <2>2 DEF CoordinatorType
  <2>3. CASE /\ m_generation' = m_coreStartGeneration + 1 /\ m_daemonStartRequestId' = NoRequest
             /\ m_stage' \in Stage
             /\ m_daemonConfigRequestId' \in
                   {NoRequest, <<"configFile", m_coreStartGeneration + 1>>}
    BY <1>a, <2>1, <2>3 DEF CountType, CoordinatorType
  <2>4. QED  BY <2>2, <2>3 DEF StartsCore, Stage
<1>4. WaitingType' /\ LinkType'
  BY <1>a DEF WaitingType, LinkType, StartsCore, Connects
<1>5. StartsAreWatched'
  BY <1>a DEF CoreInv, CountType, StartsCore, StartsAreWatched, RecoveriesAreWaitedFor
<1>6. ForegroundIsKnown'
  BY DEF CoreInv, StartsCore, ForegroundIsKnown
<1>7. OrderIsKept'
  BY DEF CoreInv, StartsCore, OrderIsKept
<1>8. RecoveriesAreWaitedFor'
  <2>1. m_duplicateRecoveryAttempts' # MaxRecoveries + 1
    <3>1. CASE processState = "Stopped"
      BY <3>1 DEF StartsCore
    <3>2. CASE processState # "Stopped"
      BY <3>2 DEF CoreInv, StartsCore, RecoveriesAreWaitedFor
    <3>3. QED  BY <3>1, <3>2
  <2>2. /\ m_coreStartGeneration' = m_coreStartGeneration + 1 /\ m_coreStartGeneration \in Nat
        /\ m_generation \in Nat /\ m_generation <= m_coreStartGeneration
        /\ m_generation' \in {m_generation, m_coreStartGeneration'}
    BY <1>a DEF CoreInv, RecoveriesAreWaitedFor, CountType, CoordinatorType, StartsCore
  <2>3. /\ recoveries' = recoveries /\ recoveries \subseteq Recovery
        /\ \A r \in recoveries : r.generation <= m_coreStartGeneration
    BY <1>a DEF CoreInv, RecoveriesAreWaitedFor, WaitingType, StartsCore
  <2>4. QED  BY <2>1, <2>2, <2>3 DEF RecoveriesAreWaitedFor, Recovery
<1>9. StopsAreNumbered'
  BY <1>a DEF CoreInv, StartsCore, StopsAreNumbered, CountType, WaitingType, DelayedStop
<1>10. QED
  BY <1>1, <1>2, <1>3, <1>4, <1>5, <1>6, <1>7, <1>8, <1>9
  DEF CoreInv, CoreTypeOK, StateType, CountType, CoordinatorType, WaitingType, LinkType

\* stop() in each state.
LEMMA StopsCoreKeeps ==
  ASSUME CoreInv, NEW restart \in BOOLEAN, processState # "Stopped", StopsCore(restart),
         wish' = IF restart THEN "run" ELSE "stop"
  PROVE  CoreInv'
<1> USE ModeAssumption, RecoveryAssumption
<1>a. StateType /\ CountType /\ CoordinatorType /\ WaitingType /\ LinkType
  BY CoreTypeGroups DEF CoreInv
<1>b. /\ m_coreStartGeneration' = m_coreStartGeneration + 1
      /\ UNCHANGED <<m_lastProcessMode, reconnects, recoveryVars, dialogs, processMode, foreground,
                     m_generation>>
      /\ m_coreIpcClient' = "none"
  BY DEF StopsCore
<1>c. \/ UNCHANGED stopVars
      \/ DaemonStop(IsConnected, FALSE)
      \/ /\ DaemonStop(IsConnected, TRUE) /\ m_lastProcessMode = Service
         /\ IsConnected \/ processState' = "Stopping"
  BY DEF StopsCore
<1>d. \/ /\ processState \in {"RetryPending", "Starting", "Started"}
         /\ m_lastProcessMode = Desktop => processState = "RetryPending"
         /\ RestartsOrStops(restart)
      \/ /\ processState \in {"Starting", "Started", "Stopping"} /\ processState' = "Stopping"
         /\ m_restartRequested' = restart /\ m_retryTimer' = FALSE
  BY <1>a DEF StopsCore, StateType, CoreState
<1>1. StateType'
  BY <1>a, <1>b, <1>d DEF StateType, CoreState, RestartsOrStops
<1>2. CountType' /\ WaitingType'
  <2>1. \/ UNCHANGED stopVars
        \/ /\ m_daemonCommandGeneration' \in Nat
           /\ waitingStops' \subseteq DelayedStop /\ postedStops' \subseteq DelayedStop
    BY <1>a, <1>c, DaemonStopType
  <2>2. QED  BY <1>a, <1>b, <2>1 DEF CountType, WaitingType
<1>3. CoordinatorType'
  BY <1>a DEF CoordinatorType, StopsCore, Stage, ClearRequests
<1>4. LinkType'
  BY <1>a, <1>b DEF LinkType, StopsCore, StopOnLink, Connects
<1>5. StartsAreWatched'
  <2>1. processState' # "Starting"
    BY <1>d DEF RestartsOrStops
  <2>2. m_coreStartGeneration \in Nat /\ m_generation \in Nat
        /\ m_generation <= m_coreStartGeneration
    BY <1>a DEF CoreInv, CountType, CoordinatorType, RecoveriesAreWaitedFor
  <2>3. QED  BY <1>b, <2>1, <2>2 DEF StartsAreWatched
<1>6. ForegroundIsKnown'
  BY <1>b, <1>d DEF CoreInv, ForegroundIsKnown, RestartsOrStops
<1>7. OrderIsKept'
  <2>1. CASE restart = TRUE
    BY <1>d, <2>1 DEF OrderIsKept, RestartsOrStops
  <2>2. CASE restart = FALSE
    BY <1>d, <2>2 DEF OrderIsKept, RestartsOrStops
  <2>3. QED  BY <2>1, <2>2
<1>8. RecoveriesAreWaitedFor'
  BY <1>a, <1>b DEF CoreInv, RecoveriesAreWaitedFor, CountType, CoordinatorType, WaitingType,
     Recovery
<1>9. StopsAreNumbered'
  BY <1>a, <1>b, <1>c, <1>d, DaemonStopIsNumbered DEF CoreInv, StopsAreNumbered, RestartsOrStops
<1>10. QED
  BY <1>1, <1>2, <1>3, <1>4, <1>5, <1>6, <1>7, <1>8, <1>9
  DEF CoreInv, CoreTypeOK, StateType, CountType, CoordinatorType, WaitingType, LinkType

(***************************************************************************)
(* The user's orders and the timers.                                       *)
(***************************************************************************)
LEMMA UserKeeps == CoreInv /\ User => CoreInv'
<1> SUFFICES ASSUME CoreInv, User PROVE CoreInv'
  OBVIOUS
<1>a. StateType /\ CountType /\ CoordinatorType /\ WaitingType /\ LinkType
  BY CoreTypeGroups DEF CoreInv
<1>1. CASE /\ wish' = "run" /\ processState \in {"Stopped", "RetryPending"}
           /\ StartsCore /\ UNCHANGED m_retryTimer
  BY <1>a, <1>1, StartsCoreKeeps DEF StateType
<1>2. CASE /\ wish' = "run" /\ processState = "Stopping" /\ m_restartRequested' = TRUE
           /\ UNCHANGED <<processMode, processState, m_retryTimer, coordinatorVars, stopVars,
                          clientVars, recoveryVars, startVars, dialogs, linkVars, foreground>>
  <2>1. CoreTypeOK'
    BY <1>a, <1>2 DEF CoreTypeOK, StateType, CountType, CoordinatorType, WaitingType, LinkType
  <2>2. StartsAreWatched' /\ ForegroundIsKnown' /\ OrderIsKept'
    BY <1>2 DEF CoreInv, StartsAreWatched, ForegroundIsKnown, OrderIsKept
  <2>3. RecoveriesAreWaitedFor' /\ StopsAreNumbered'
    BY <1>2 DEF CoreInv, RecoveriesAreWaitedFor, StopsAreNumbered
  <2>4. QED  BY <2>1, <2>2, <2>3 DEF CoreInv
<1>3. CASE wish' = "stop" /\ processState # "Stopped" /\ StopsCore(FALSE)
  BY <1>3, StopsCoreKeeps
<1>4. CASE wish' = "run" /\ processState # "Stopped" /\ StopsCore(TRUE)
  BY <1>4, StopsCoreKeeps
<1>5. CASE ModeChanges
  <2>1. CoreTypeOK'
    BY <1>a, <1>5
    DEF ModeChanges, CoreTypeOK, StateType, CountType, CoordinatorType, WaitingType, LinkType
  <2>2. StartsAreWatched' /\ ForegroundIsKnown' /\ OrderIsKept'
    BY <1>5 DEF ModeChanges, CoreInv, StartsAreWatched, ForegroundIsKnown, OrderIsKept
  <2>3. RecoveriesAreWaitedFor' /\ StopsAreNumbered'
    BY <1>5 DEF ModeChanges, CoreInv, RecoveriesAreWaitedFor, StopsAreNumbered
  <2>4. QED  BY <2>1, <2>2, <2>3 DEF CoreInv
<1>6. QED
  BY <1>1, <1>2, <1>3, <1>4, <1>5 DEF User, UserStarts, UserStops, UserRestarts

LEMMA RetryTimerKeeps == CoreInv /\ RetryTimer => CoreInv'
<1> SUFFICES ASSUME CoreInv, RetryTimer PROVE CoreInv'
  OBVIOUS
<1>a. StateType /\ CountType /\ CoordinatorType /\ WaitingType /\ LinkType
  BY CoreTypeGroups DEF CoreInv
<1>1. CASE processState = "RetryPending"
  <2>1. wish \notin {"stop", "failed"}
    BY <1>1 DEF CoreInv, OrderIsKept
  <2>2. QED  BY <1>1, <2>1, StartsCoreKeeps DEF RetryTimer
<1>2. CASE processState # "RetryPending"
  <2>a. /\ m_retryTimer' = FALSE
        /\ UNCHANGED <<wish, processMode, processState, m_restartRequested, coordinatorVars,
                       stopVars, clientVars, recoveryVars, startVars, dialogs, linkVars,
                       foreground>>
    BY <1>2 DEF RetryTimer
  <2>1. CoreTypeOK'
    <3>1. StateType'
      BY <1>a, <2>a DEF StateType
    <3>2. CountType' /\ CoordinatorType' /\ WaitingType' /\ LinkType'
      BY <1>a, <2>a DEF CountType, CoordinatorType, WaitingType, LinkType
    <3>3. QED
      BY <3>1, <3>2
      DEF CoreTypeOK, StateType, CountType, CoordinatorType, WaitingType, LinkType
  <2>2. StartsAreWatched' /\ ForegroundIsKnown' /\ OrderIsKept'
    BY <1>2, <2>a DEF CoreInv, StartsAreWatched, ForegroundIsKnown, OrderIsKept
  <2>3. RecoveriesAreWaitedFor' /\ StopsAreNumbered'
    BY <2>a DEF CoreInv, RecoveriesAreWaitedFor, StopsAreNumbered
  <2>4. QED  BY <2>1, <2>2, <2>3 DEF CoreInv
<1>3. QED  BY <1>1, <1>2

(***************************************************************************)
(* A service start that fails: the timer, an answer, a lost connection.    *)
(***************************************************************************)
LEMMA ServiceStartFailsKeeps ==
  ASSUME CoreInv, NEW connected, Current(m_generation), IsActive,
         ServiceStartFails(connected),
         m_state' \in {"Unconnected", "Connecting", "Connected", "Lost"},
         processMode' \in {Desktop, Service}, dialogs' \in Nat,
         UNCHANGED <<recoveryVars, startVars, foreground>>
  PROVE  CoreInv'
<1> USE ModeAssumption, RecoveryAssumption
<1>a. StateType /\ CountType /\ CoordinatorType /\ WaitingType /\ LinkType
  BY CoreTypeGroups DEF CoreInv
<1>b. processState = "Starting" /\ m_lastProcessMode = Service /\ Heeded
  BY DEF CoreInv, StartsAreWatched
<1>c. /\ m_stage' = "Idle"
      /\ UNCHANGED <<m_generation, m_retryTimer, m_restartRequested, reconnects>>
      /\ m_daemonConfigRequestId' = NoRequest /\ m_daemonStartRequestId' = NoRequest
      /\ m_coreIpcClient' = "none" /\ DaemonStop(connected, FALSE)
      /\ processState' = "Stopped" /\ wish' = "failed"
  BY <1>b DEF ServiceStartFails, ClearRequests
<1>1. StateType' /\ LinkType'
  BY <1>a, <1>c DEF StateType, CoreState, LinkType
<1>2. CountType' /\ WaitingType'
  BY <1>a, <1>c, DaemonStopType DEF CountType, WaitingType
<1>3. CoordinatorType'
  BY <1>a, <1>c DEF CoordinatorType, Stage
<1>4. StartsAreWatched' /\ ForegroundIsKnown' /\ OrderIsKept'
  BY <1>b, <1>c DEF CoreInv, StartsAreWatched, ForegroundIsKnown, OrderIsKept
<1>5. RecoveriesAreWaitedFor'
  BY <1>b, <1>c DEF CoreInv, RecoveriesAreWaitedFor
<1>6. StopsAreNumbered'
  BY <1>c, DaemonStopIsNumbered
<1>7. QED
  BY <1>1, <1>2, <1>3, <1>4, <1>5, <1>6
  DEF CoreInv, CoreTypeOK, StateType, CountType, CoordinatorType, WaitingType, LinkType


\* A failure of another start than the current one, and of the same, changes
\* the coordinator's stage only.
LEMMA OldStartFailsKeeps ==
  ASSUME CoreInv, NEW connected, ~(Current(m_generation) /\ processState = "Starting"),
         ServiceStartFails(connected),
         m_state' \in {"Unconnected", "Connecting", "Connected", "Lost"},
         processMode' \in {Desktop, Service}, dialogs' \in Nat,
         UNCHANGED <<recoveryVars, startVars, foreground>>
  PROVE  CoreInv'
<1>a. StateType /\ CountType /\ CoordinatorType /\ WaitingType /\ LinkType
  BY CoreTypeGroups DEF CoreInv
<1>b. /\ m_stage' = "Idle"
      /\ UNCHANGED <<m_generation, m_retryTimer, m_restartRequested, reconnects,
                     m_daemonConfigRequestId, m_daemonStartRequestId, m_coreIpcClient, stopVars,
                     processState, wish>>
  BY DEF ServiceStartFails
<1>1. StateType' /\ LinkType'
  BY <1>a, <1>b DEF StateType, LinkType
<1>2. CountType' /\ WaitingType'
  BY <1>a, <1>b DEF CountType, WaitingType
<1>3. CoordinatorType'
  BY <1>a, <1>b DEF CoordinatorType, Stage
<1>4. StartsAreWatched' /\ ForegroundIsKnown' /\ OrderIsKept'
  BY <1>b DEF CoreInv, StartsAreWatched, ForegroundIsKnown, OrderIsKept
<1>5. RecoveriesAreWaitedFor' /\ StopsAreNumbered'
  BY <1>b DEF CoreInv, RecoveriesAreWaitedFor, StopsAreNumbered
<1>6. QED
  BY <1>1, <1>2, <1>3, <1>4, <1>5
  DEF CoreInv, CoreTypeOK, StateType, CountType, CoordinatorType, WaitingType, LinkType

LEMMA StartTimesOutKeeps == CoreInv /\ StartTimesOut => CoreInv'
<1> SUFFICES ASSUME CoreInv, StartTimesOut PROVE CoreInv'
  OBVIOUS
<1>a. StateType /\ CountType /\ CoordinatorType /\ WaitingType /\ LinkType
  BY CoreTypeGroups DEF CoreInv
<1>1. /\ m_state' \in {"Unconnected", "Connecting", "Connected", "Lost"}
      /\ processMode' \in {Desktop, Service} /\ dialogs' \in Nat
      /\ UNCHANGED <<recoveryVars, startVars, foreground>>
      /\ ServiceStartFails(IsConnected) /\ IsActive
  BY <1>a DEF StartTimesOut, StateType, CountType, LinkType, StopOnLink, Connects, TimerRuns
<1>2. CASE Current(m_generation)
  BY <1>1, <1>2, ServiceStartFailsKeeps
<1>3. CASE ~Current(m_generation)
  BY <1>1, <1>3, OldStartFailsKeeps
<1>4. QED  BY <1>2, <1>3

LEMMA DialogClosesKeeps ==
  ASSUME CoreInv, NEW choice, DialogCloses(choice)
  PROVE  CoreInv'
<1>a. StateType /\ CountType /\ CoordinatorType /\ WaitingType /\ LinkType
  BY CoreTypeGroups DEF CoreInv
<1>1. /\ processMode' \in {Desktop, Service}
      /\ UNCHANGED <<recoveryVars, startVars, foreground>>
  BY <1>a DEF DialogCloses, StateType
<1>2. dialogs' \in Nat
  BY <1>a DEF DialogCloses, CountType
<1>3. m_state' \in {"Unconnected", "Connecting", "Connected", "Lost"}
  BY <1>a DEF DialogCloses, LinkType, StopOnLink, Connects, Reconnects
<1>4. CASE Current(m_generation) /\ IsActive
  BY <1>1, <1>2, <1>3, <1>4, ServiceStartFailsKeeps DEF DialogCloses
<1>5. CASE ~(Current(m_generation) /\ IsActive)
  <2>a. UNCHANGED <<wish, stateVars, coordinatorVars, stopVars, clientVars>>
    BY <1>5 DEF DialogCloses
  <2>1. StateType' /\ LinkType'
    BY <1>a, <1>1, <1>3, <2>a DEF StateType, LinkType
  <2>2. CountType' /\ CoordinatorType' /\ WaitingType'
    BY <1>a, <1>1, <1>2, <2>a DEF CountType, CoordinatorType, WaitingType
  <2>3. StartsAreWatched' /\ ForegroundIsKnown' /\ OrderIsKept'
    BY <1>1, <2>a DEF CoreInv, StartsAreWatched, ForegroundIsKnown, OrderIsKept
  <2>4. RecoveriesAreWaitedFor' /\ StopsAreNumbered'
    BY <1>1, <2>a DEF CoreInv, RecoveriesAreWaitedFor, StopsAreNumbered
  <2>5. QED
    BY <2>1, <2>2, <2>3, <2>4
    DEF CoreInv, CoreTypeOK, StateType, CountType, CoordinatorType, WaitingType, LinkType
<1>6. QED  BY <1>4, <1>5

LEMMA CoreConnectionLostKeeps == CoreInv /\ CoreConnectionLost => CoreInv'
<1> SUFFICES ASSUME CoreInv, CoreConnectionLost PROVE CoreInv'
  OBVIOUS
<1>a. StateType /\ CountType /\ CoordinatorType /\ WaitingType /\ LinkType
  BY CoreTypeGroups DEF CoreInv
<1>1. /\ processMode' \in {Desktop, Service} /\ dialogs' \in Nat
      /\ UNCHANGED <<recoveryVars, startVars, foreground, dialogs>>
  BY <1>a DEF CoreConnectionLost, StateType, CountType
<1>2. m_state' \in {"Unconnected", "Connecting", "Connected", "Lost"}
  BY <1>a DEF CoreConnectionLost, LinkType, StopOnLink, Connects
<1>3. CASE processState = "Starting" /\ m_stage = "WaitingForCore"
  <2>1. ServiceStartFails(IsConnected) /\ IsActive
    BY <1>3 DEF CoreConnectionLost
  <2>2. CASE Current(m_generation)
    BY <1>1, <1>2, <2>1, <2>2, ServiceStartFailsKeeps
  <2>3. CASE ~Current(m_generation)
    BY <1>1, <1>2, <2>1, <2>3, OldStartFailsKeeps
  <2>4. QED  BY <2>2, <2>3
<1>4. CASE ~(processState = "Starting" /\ m_stage = "WaitingForCore")
  <2>a. /\ m_coreIpcClient' = "none"
        /\ reconnects' \in {reconnects, reconnects \union {m_coreStartGeneration}}
        /\ UNCHANGED <<wish, stateVars, coordinatorVars, stopVars, linkVars, processMode>>
    BY <1>4 DEF CoreConnectionLost
  <2>1. StateType' /\ LinkType'
    BY <1>a, <1>1, <2>a DEF StateType, LinkType
  <2>2. CountType' /\ CoordinatorType' /\ WaitingType'
    BY <1>a, <1>1, <2>a DEF CountType, CoordinatorType, WaitingType
  <2>3. StartsAreWatched' /\ ForegroundIsKnown' /\ OrderIsKept'
    BY <1>1, <2>a DEF CoreInv, StartsAreWatched, ForegroundIsKnown, OrderIsKept
  <2>4. RecoveriesAreWaitedFor' /\ StopsAreNumbered'
    BY <1>1, <2>a DEF CoreInv, RecoveriesAreWaitedFor, StopsAreNumbered
  <2>5. QED
    BY <2>1, <2>2, <2>3, <2>4
    DEF CoreInv, CoreTypeOK, StateType, CountType, CoordinatorType, WaitingType, LinkType
<1>5. QED  BY <1>3, <1>4

(***************************************************************************)
(* The connection to the daemon, and what was waiting for it.              *)
(***************************************************************************)
LEMMA DaemonConnectedKeeps == CoreInv /\ DaemonConnected => CoreInv'
<1> SUFFICES ASSUME CoreInv, DaemonConnected PROVE CoreInv'
  OBVIOUS
<1>a. StateType /\ CountType /\ CoordinatorType /\ WaitingType /\ LinkType
  BY CoreTypeGroups DEF CoreInv
<1>b. /\ m_state' = "Connected"
      /\ postedStops' = postedStops \union waitingStops /\ waitingStops' = {}
      /\ UNCHANGED <<m_generation, m_daemonStartRequestId, m_daemonCommandGeneration, orderVars,
                     stateVars, clientVars, recoveryVars, startVars, dialogs, foreground>>
  BY DEF DaemonConnected
<1>c. \/ /\ m_stage = "WaitingForDaemon" /\ Current(m_generation)
         /\ m_stage' = "WaitingForConfig"
         /\ m_daemonConfigRequestId' = <<"configFile", m_generation>>
      \/ UNCHANGED <<m_stage, m_daemonConfigRequestId>>
  BY DEF DaemonConnected
<1>1. StateType' /\ LinkType'
  BY <1>a, <1>b DEF StateType, LinkType
<1>2. CountType' /\ WaitingType'
  BY <1>a, <1>b DEF CountType, WaitingType
<1>3. CoordinatorType'
  <2>1. <<"configFile", m_generation>> \in Request
    BY <1>a, RequestsAreRequests DEF CoordinatorType
  <2>2. QED  BY <1>a, <1>b, <1>c, <2>1 DEF CoordinatorType, Stage
<1>4. StartsAreWatched' /\ ForegroundIsKnown' /\ OrderIsKept'
  BY <1>b, <1>c DEF CoreInv, StartsAreWatched, ForegroundIsKnown, OrderIsKept
<1>5. RecoveriesAreWaitedFor' /\ StopsAreNumbered'
  BY <1>b DEF CoreInv, RecoveriesAreWaitedFor, StopsAreNumbered
<1>6. QED
  BY <1>1, <1>2, <1>3, <1>4, <1>5
  DEF CoreInv, CoreTypeOK, StateType, CountType, CoordinatorType, WaitingType, LinkType

\* A handler that leaves everything but the links, the dialogs and the timers
\* of the core's connection as it was.
LEMMA LinkStepKeeps ==
  ASSUME CoreInv, LinkType', dialogs' \in Nat, reconnects' \subseteq Nat,
         UNCHANGED <<orderVars, stateVars, coordinatorVars, stopVars, recoveryVars, startVars>>,
         (foreground = "none") = (foreground' = "none")
  PROVE  CoreInv'
<1>a. StateType /\ CountType /\ CoordinatorType /\ WaitingType /\ LinkType
  BY CoreTypeGroups DEF CoreInv
<1>1. StateType' /\ CountType' /\ CoordinatorType' /\ WaitingType'
  BY <1>a DEF StateType, CountType, CoordinatorType, WaitingType
<1>2. StartsAreWatched' /\ ForegroundIsKnown' /\ OrderIsKept'
  BY DEF CoreInv, StartsAreWatched, ForegroundIsKnown, OrderIsKept
<1>3. RecoveriesAreWaitedFor' /\ StopsAreNumbered'
  BY DEF CoreInv, RecoveriesAreWaitedFor, StopsAreNumbered
<1>4. QED
  BY <1>1, <1>2, <1>3
  DEF CoreInv, CoreTypeOK, StateType, CountType, CoordinatorType, WaitingType, LinkType

LEMMA LinkStepsKeep ==
  ASSUME CoreInv,
         \/ DaemonConnectionFailed
         \/ \E g \in reconnects : ReconnectTimer(g)
         \/ \E code \in {"success", "failed", "duplicate"} : ProcessEnds(code)
  PROVE  CoreInv'
<1>a. StateType /\ CountType /\ CoordinatorType /\ WaitingType /\ LinkType
  BY CoreTypeGroups DEF CoreInv
<1>1. CASE DaemonConnectionFailed
  <2>1. LinkType' /\ dialogs' \in Nat /\ reconnects' \subseteq Nat
    BY <1>a, <1>1 DEF DaemonConnectionFailed, LinkType, CountType, WaitingType
  <2>2. QED  BY <1>1, <2>1, LinkStepKeeps DEF DaemonConnectionFailed
<1>2. ASSUME NEW g \in reconnects, ReconnectTimer(g)
      PROVE  CoreInv'
  <2>1. LinkType' /\ dialogs' \in Nat /\ reconnects' \subseteq Nat
    BY <1>a, <1>2 DEF ReconnectTimer, LinkType, CountType, WaitingType
  <2>2. QED  BY <1>2, <2>1, LinkStepKeeps DEF ReconnectTimer
<1>3. ASSUME NEW code \in {"success", "failed", "duplicate"}, ProcessEnds(code)
      PROVE  CoreInv'
  <2>1. LinkType' /\ dialogs' \in Nat /\ reconnects' \subseteq Nat
    BY <1>a, <1>3 DEF ProcessEnds, LinkType, CountType, WaitingType, coreVars
  <2>2. QED  BY <1>3, <2>1, LinkStepKeeps DEF ProcessEnds, coreVars
<1>4. QED  BY <1>1, <1>2, <1>3

\* A stop that was posted: the latest one may end the process state.
LEMMA PostedStopKeeps ==
  ASSUME CoreInv, NEW s, PostedStop(s)
  PROVE  CoreInv'
<1>a. StateType /\ CountType /\ CoordinatorType /\ WaitingType /\ LinkType
  BY CoreTypeGroups DEF CoreInv
<1>b. /\ s \in postedStops /\ postedStops' = postedStops \ {s}
      /\ UNCHANGED <<m_state, m_daemonCommandGeneration, waitingStops, orderVars, coordinatorVars,
                     clientVars, recoveryVars, startVars, dialogs, foreground>>
  BY DEF PostedStop
<1>1. CASE IsLatest(s) /\ s.ends /\ RestartsOrStops(m_restartRequested)
  <2>a. /\ processState = "Stopping" /\ m_lastProcessMode = Service /\ foreground = "none"
    BY <1>b, <1>1, ModeAssumption DEF CoreInv, StopsAreNumbered, ForegroundIsKnown
  <2>b. \A r \in recoveries : ~Current(r.generation)
    BY <2>a DEF CoreInv, RecoveriesAreWaitedFor
  <2>c. /\ processState' \in {"RetryPending", "Stopped"} /\ m_retryTimer' = m_restartRequested
        /\ m_restartRequested' = FALSE /\ (m_restartRequested <=> processState' = "RetryPending")
    BY <1>1 DEF RestartsOrStops
  <2>1. StateType' /\ LinkType'
    <3>1. processState' \in CoreState /\ m_restartRequested' \in BOOLEAN /\ m_retryTimer' \in BOOLEAN
      BY ONLY <1>a, <2>c DEF StateType, CoreState
    <3>2. StateType'
      BY <1>a, <1>b, <3>1 DEF StateType
    <3>3. LinkType'
      BY <1>a, <1>b DEF LinkType
    <3> QED BY ONLY <3>2, <3>3
  <2>2. CountType' /\ CoordinatorType' /\ WaitingType'
    BY <1>a, <1>b DEF CountType, CoordinatorType, WaitingType
  <2>3. StartsAreWatched' /\ ForegroundIsKnown'
    BY <1>b, <2>a, <2>c DEF CoreInv, StartsAreWatched, ForegroundIsKnown
  <2>4. OrderIsKept'
    BY <1>b, <2>a, <2>b, <2>c DEF CoreInv, OrderIsKept
  <2>5. RecoveriesAreWaitedFor'
    BY <1>b, <2>a, <2>b DEF CoreInv, RecoveriesAreWaitedFor
  <2>6. StopsAreNumbered'
    BY <1>b, <1>1 DEF CoreInv, StopsAreNumbered
  <2>7. QED
    BY <2>1, <2>2, <2>3, <2>4, <2>5, <2>6
    DEF CoreInv, CoreTypeOK, StateType, CountType, CoordinatorType, WaitingType, LinkType
<1>2. CASE UNCHANGED stateVars
  <2>1. StateType' /\ LinkType'
    BY <1>a, <1>b, <1>2 DEF StateType, LinkType
  <2>2. CountType' /\ CoordinatorType' /\ WaitingType'
    BY <1>a, <1>b DEF CountType, CoordinatorType, WaitingType
  <2>3. StartsAreWatched' /\ ForegroundIsKnown' /\ OrderIsKept'
    BY <1>b, <1>2 DEF CoreInv, StartsAreWatched, ForegroundIsKnown, OrderIsKept
  <2>4. RecoveriesAreWaitedFor' /\ StopsAreNumbered'
    BY <1>b, <1>2 DEF CoreInv, RecoveriesAreWaitedFor, StopsAreNumbered
  <2>5. QED
    BY <2>1, <2>2, <2>3, <2>4
    DEF CoreInv, CoreTypeOK, StateType, CountType, CoordinatorType, WaitingType, LinkType
<1>3. QED  BY <1>1, <1>2 DEF PostedStop

LEMMA DaemonCommandResultKeeps == CoreInv /\ DaemonCommandResult => CoreInv'
<1> SUFFICES ASSUME CoreInv, DaemonCommandResult PROVE CoreInv'
  OBVIOUS
<1>a. StateType /\ CountType /\ CoordinatorType /\ WaitingType /\ LinkType
  BY CoreTypeGroups DEF CoreInv
<1>b. UNCHANGED <<m_state, processMode, recoveryVars, startVars, dialogs, foreground>>
  BY DEF DaemonCommandResult
<1>1. CASE ServiceStartFails(TRUE) /\ Current(m_generation) /\ IsActive
  <2>1. /\ m_state' \in {"Unconnected", "Connecting", "Connected", "Lost"}
        /\ processMode' \in {Desktop, Service} /\ dialogs' \in Nat
    BY <1>a, <1>b DEF StateType, CountType, LinkType
  <2>2. QED  BY <1>b, <1>1, <2>1, ServiceStartFailsKeeps
<1>2. CASE /\ UNCHANGED <<m_generation, stateVars, stopVars, reconnects, wish>>
           /\ m_daemonConfigRequestId' \in {NoRequest, m_daemonConfigRequestId}
           /\ \/ /\ IsActive /\ m_stage' = "WaitingForStart"
                 /\ m_daemonStartRequestId' = <<"start", m_generation>>
                 /\ UNCHANGED m_coreIpcClient
              \/ /\ IsActive /\ m_stage' = "WaitingForCore"
                 /\ m_daemonStartRequestId' = NoRequest
                 /\ m_coreIpcClient' = "connecting"
              \/ /\ m_daemonStartRequestId' \in {NoRequest, m_daemonStartRequestId}
                 /\ UNCHANGED <<m_stage, m_coreIpcClient>>
  <2>1. StateType' /\ LinkType'
    BY <1>a, <1>b, <1>2 DEF StateType, LinkType
  <2>2. CountType' /\ WaitingType'
    BY <1>a, <1>b, <1>2 DEF CountType, WaitingType
  <2>3. CoordinatorType'
    <3>1. <<"start", m_generation>> \in Request
      BY <1>a, RequestsAreRequests DEF CoordinatorType
    <3>2. QED  BY <1>a, <1>2, <3>1 DEF CoordinatorType, Stage
  <2>4. StartsAreWatched' /\ ForegroundIsKnown' /\ OrderIsKept'
    BY <1>b, <1>2 DEF CoreInv, StartsAreWatched, ForegroundIsKnown, OrderIsKept
  <2>5. RecoveriesAreWaitedFor' /\ StopsAreNumbered'
    BY <1>b, <1>2 DEF CoreInv, RecoveriesAreWaitedFor, StopsAreNumbered
  <2>6. QED
    BY <2>1, <2>2, <2>3, <2>4, <2>5
    DEF CoreInv, CoreTypeOK, StateType, CountType, CoordinatorType, WaitingType, LinkType
<1> DEFINE r == Head(toGui)[1]
           ok == Head(toGui)[2]
           isConfig == r = m_daemonConfigRequestId
           isStart == r = m_daemonStartRequestId
           awaited == /\ Current(m_generation)
                      /\ \/ isConfig /\ m_stage = "WaitingForConfig"
                         \/ isStart /\ m_stage = "WaitingForStart"
<1>3. CASE awaited /\ ~ok
  <2>1. Current(m_generation) /\ IsActive
    BY <1>3
  <2>2. ServiceStartFails(TRUE)
    BY <1>3 DEF DaemonCommandResult
  <2>3. QED  BY <1>1, <2>1, <2>2
<1>4. CASE ~(awaited /\ ~ok)
  <2>1. /\ UNCHANGED <<m_generation, stateVars, stopVars, reconnects, wish>>
        /\ m_daemonConfigRequestId' = IF isConfig THEN NoRequest ELSE m_daemonConfigRequestId
    BY <1>4 DEF DaemonCommandResult
  <2>2. \/ /\ awaited /\ isConfig
           /\ m_stage' = "WaitingForStart"
           /\ m_daemonStartRequestId' = <<"start", m_generation>>
           /\ UNCHANGED m_coreIpcClient
        \/ /\ awaited /\ isStart
           /\ m_stage' = "WaitingForCore"
           /\ m_daemonStartRequestId' = NoRequest
           /\ m_coreIpcClient' = "connecting"
        \/ /\ m_daemonStartRequestId' = IF isStart THEN NoRequest ELSE m_daemonStartRequestId
           /\ UNCHANGED <<m_stage, m_coreIpcClient>>
    BY <1>4 DEF DaemonCommandResult
  <2>3. QED  BY <1>2, <2>1, <2>2
<1>5. QED  BY <1>3, <1>4

LEMMA CoreConnectedKeeps == CoreInv /\ CoreConnected => CoreInv'
<1> SUFFICES ASSUME CoreInv, CoreConnected PROVE CoreInv'
  OBVIOUS
<1> USE RecoveryAssumption
<1>a. StateType /\ CountType /\ CoordinatorType /\ WaitingType /\ LinkType
  BY CoreTypeGroups DEF CoreInv
<1>b. /\ m_coreIpcClient' = "connected" /\ m_duplicateRecoveryAttempts' = 0
      /\ UNCHANGED <<m_generation, m_restartRequested, m_retryTimer, reconnects, recoveries,
                     orderVars, stopVars, startVars, dialogs, linkVars, foreground>>
  BY DEF CoreConnected
<1>c. \/ /\ Heeded /\ m_stage = "WaitingForCore" /\ m_stage' = "Idle"
         /\ m_daemonConfigRequestId' = NoRequest /\ m_daemonStartRequestId' = NoRequest
         /\ processState' = "Started"
      \/ UNCHANGED <<m_stage, m_daemonConfigRequestId, m_daemonStartRequestId, processState>>
  BY DEF CoreConnected, ClearRequests
<1>1. StateType' /\ LinkType'
  BY <1>a, <1>b, <1>c DEF StateType, LinkType, CoreState
<1>2. CountType' /\ WaitingType'
  BY <1>a, <1>b DEF CountType, WaitingType
<1>3. CoordinatorType'
  BY <1>a, <1>b, <1>c DEF CoordinatorType, Stage
<1>4. StartsAreWatched' /\ ForegroundIsKnown' /\ OrderIsKept'
  BY <1>b, <1>c DEF CoreInv, StartsAreWatched, ForegroundIsKnown, OrderIsKept
<1>5. RecoveriesAreWaitedFor' /\ StopsAreNumbered'
  BY <1>b, <1>c DEF CoreInv, RecoveriesAreWaitedFor, StopsAreNumbered
<1>6. QED
  BY <1>1, <1>2, <1>3, <1>4, <1>5
  DEF CoreInv, CoreTypeOK, StateType, CountType, CoordinatorType, WaitingType, LinkType

(***************************************************************************)
(* The GUI's own process.                                                  *)
(***************************************************************************)
LEMMA ProcessStartedKeeps == CoreInv /\ ProcessStarted => CoreInv'
<1> SUFFICES ASSUME CoreInv, ProcessStarted PROVE CoreInv'
  OBVIOUS
<1>a. StateType /\ CountType /\ CoordinatorType /\ WaitingType /\ LinkType
  BY CoreTypeGroups DEF CoreInv
<1>b. /\ foreground = "starting" /\ foreground' = "running"
      /\ processState' = IF processState = "Starting" THEN "Started" ELSE processState
      /\ UNCHANGED <<m_restartRequested, m_retryTimer, wish, stopVars, recoveryVars, linkVars,
                     QuietRest>>
  BY DEF ProcessStarted
<1>c. m_lastProcessMode = Desktop /\ processState \in {"Starting", "Started", "Stopping"}
  BY <1>b DEF CoreInv, ForegroundIsKnown
<1>1. StateType' /\ LinkType'
  BY <1>a, <1>b DEF StateType, LinkType, CoreState
<1>2. CountType' /\ CoordinatorType' /\ WaitingType'
  BY <1>a, <1>b DEF CountType, CoordinatorType, WaitingType
<1>3. StartsAreWatched' /\ ForegroundIsKnown'
  BY <1>b, <1>c, ModeAssumption DEF CoreInv, StartsAreWatched, ForegroundIsKnown
<1>4. OrderIsKept'
  BY <1>b, <1>c DEF CoreInv, OrderIsKept
<1>5. RecoveriesAreWaitedFor' /\ StopsAreNumbered'
  BY <1>b, <1>c DEF CoreInv, RecoveriesAreWaitedFor, StopsAreNumbered
<1>6. QED
  BY <1>1, <1>2, <1>3, <1>4, <1>5
  DEF CoreInv, CoreTypeOK, StateType, CountType, CoordinatorType, WaitingType, LinkType

LEMMA ProcessFailedToStartKeeps == CoreInv /\ ProcessFailedToStart => CoreInv'
<1> SUFFICES ASSUME CoreInv, ProcessFailedToStart PROVE CoreInv'
  OBVIOUS
<1>a. StateType /\ CountType /\ CoordinatorType /\ WaitingType /\ LinkType
  BY CoreTypeGroups DEF CoreInv
<1>b. /\ foreground = "starting" /\ foreground' = "none"
      /\ UNCHANGED <<stopVars, recoveryVars, linkVars, QuietRest>>
  BY DEF ProcessFailedToStart
<1>c. m_lastProcessMode = Desktop /\ processState \in {"Starting", "Started", "Stopping"}
  BY <1>b DEF CoreInv, ForegroundIsKnown
<1>d. \/ /\ m_restartRequested /\ processState' = "RetryPending" /\ m_retryTimer' = TRUE
         /\ m_restartRequested' = FALSE /\ wish' = wish
      \/ /\ ~m_restartRequested /\ processState' = "Stopped" /\ m_retryTimer' = m_retryTimer
         /\ m_restartRequested' = FALSE /\ wish' = IF wish = "run" THEN "failed" ELSE wish
  BY <1>a DEF ProcessFailedToStart, StateType
<1>e. \A r \in recoveries : ~Current(r.generation)
  BY <1>c DEF CoreInv, RecoveriesAreWaitedFor
<1>f. m_duplicateRecoveryAttempts # MaxRecoveries + 1
  BY <1>c DEF CoreInv, RecoveriesAreWaitedFor
<1>1. StateType' /\ LinkType'
  BY <1>a, <1>b, <1>d DEF StateType, LinkType, CoreState
<1>2. CountType' /\ CoordinatorType' /\ WaitingType'
  BY <1>a, <1>b DEF CountType, CoordinatorType, WaitingType
<1>3. StartsAreWatched' /\ ForegroundIsKnown'
  BY <1>b, <1>c, <1>d, ModeAssumption DEF CoreInv, StartsAreWatched, ForegroundIsKnown
<1>4. OrderIsKept'
  BY <1>b, <1>c, <1>d, <1>e DEF CoreInv, OrderIsKept
<1>5. RecoveriesAreWaitedFor'
  BY <1>b, <1>e, <1>f DEF CoreInv, RecoveriesAreWaitedFor
<1>6. StopsAreNumbered'
  BY <1>b, <1>c, ModeAssumption DEF CoreInv, StopsAreNumbered
<1>7. QED
  BY <1>1, <1>2, <1>3, <1>4, <1>5, <1>6
  DEF CoreInv, CoreTypeOK, StateType, CountType, CoordinatorType, WaitingType, LinkType

\* Every end of the process leaves the GUI stopped or about to try again; a
\* duplicate adds the only current recovery.
LEMMA ProcessFinishedKeeps == CoreInv /\ ProcessFinished => CoreInv'
<1> SUFFICES ASSUME CoreInv, ProcessFinished PROVE CoreInv'
  OBVIOUS
<1> USE ModeAssumption, RecoveryAssumption
<1>a. StateType /\ CountType /\ CoordinatorType /\ WaitingType /\ LinkType
  BY CoreTypeGroups DEF CoreInv
<1>b. /\ foreground # "none" /\ foreground' = "none"
      /\ UNCHANGED QuietRest
  BY DEF ProcessFinished
<1>c. m_lastProcessMode = Desktop /\ processState \in {"Starting", "Started", "Stopping"}
  BY <1>b DEF CoreInv, ForegroundIsKnown
<1>e. \A r \in recoveries : ~Current(r.generation)
  BY <1>c DEF CoreInv, RecoveriesAreWaitedFor
<1>f. m_duplicateRecoveryAttempts # MaxRecoveries + 1
  BY <1>c DEF CoreInv, RecoveriesAreWaitedFor
<1>1. ASSUME processState' \in {"RetryPending", "Stopped"},
             m_retryTimer' = (processState' = "RetryPending"), m_restartRequested' = FALSE
      PROVE  StateType' <=> wish' \in {"none", "run", "stop", "failed", "recovered"}
  BY <1>a, <1>b, <1>1 DEF StateType, CoreState
<1>2. CountType' /\ CoordinatorType' /\ LinkType'
  <2>1. m_state' \in {"Unconnected", "Connecting", "Connected", "Lost"}
    BY <1>a DEF ProcessFinished, ChecksExistingProcess, StopOnLink, Connects, LinkType
  <2>2. m_daemonCommandGeneration' \in Nat
    <3>1. m_daemonCommandGeneration' \in
            {m_daemonCommandGeneration, m_daemonCommandGeneration + 1}
      BY DEF ProcessFinished, ChecksExistingProcess, DaemonStop
    <3>2. QED  BY <1>a, <3>1 DEF CountType
  <2>3. m_duplicateRecoveryAttempts' = m_duplicateRecoveryAttempts
    BY DEF ProcessFinished
  <2>4. QED  BY <1>a, <1>b, <2>1, <2>2, <2>3 DEF CountType, CoordinatorType, LinkType
<1>3. CASE /\ UNCHANGED <<stopVars, recoveryVars, linkVars>>
           /\ processState' \in {"RetryPending", "Stopped"}
           /\ m_retryTimer' = (processState' = "RetryPending") /\ m_restartRequested' = FALSE
           /\ \/ m_restartRequested /\ processState' = "RetryPending" /\ wish' = wish
              \/ /\ ~m_restartRequested
                 /\ processState' = "RetryPending" => processState = "Started"
                 /\ wish' = IF wish = "run" /\ processState' = "Stopped" THEN "failed" ELSE wish
  <2>1. StateType'
    BY <1>a, <1>1, <1>3 DEF StateType
  <2>2. WaitingType'
    BY <1>a, <1>b, <1>3 DEF WaitingType
  <2>3. StartsAreWatched' /\ ForegroundIsKnown'
    BY <1>b, <1>c, <1>3 DEF CoreInv, StartsAreWatched, ForegroundIsKnown
  <2>4. OrderIsKept'
    BY <1>b, <1>c, <1>e, <1>3 DEF CoreInv, OrderIsKept
  <2>5. RecoveriesAreWaitedFor'
    BY <1>b, <1>e, <1>f, <1>3 DEF CoreInv, RecoveriesAreWaitedFor
  <2>6. StopsAreNumbered'
    BY <1>b, <1>c, <1>3 DEF CoreInv, StopsAreNumbered
  <2>7. QED
    BY <1>2, <2>1, <2>2, <2>3, <2>4, <2>5, <2>6
    DEF CoreInv, CoreTypeOK, StateType, CountType, CoordinatorType, WaitingType, LinkType
<1>4. CASE /\ ~m_restartRequested /\ UNCHANGED m_restartRequested
           /\ processState' = "Stopped" /\ m_retryTimer' = FALSE
           /\ wish' = IF wish = "stop" THEN "recovered" ELSE wish
           /\ UNCHANGED m_duplicateRecoveryAttempts
           /\ recoveries' = recoveries \union
                {[generation |-> m_coreStartGeneration, asked |-> FALSE]}
           /\ DaemonStop(IsConnected, FALSE) \/ UNCHANGED stopVars
  <2>0. PICK q : q = [generation |-> m_coreStartGeneration, asked |-> FALSE]
    OBVIOUS
  <2>b. q \in Recovery /\ q.generation = m_coreStartGeneration
    BY <1>a, <2>0 DEF CountType, Recovery
  <2>a. recoveries' = recoveries \union {q} /\ UNCHANGED m_coreStartGeneration
    BY <1>b, <1>4, <2>0
  <2>1. StateType'
    BY <1>a, <1>b, <1>4 DEF StateType, CoreState
  <2>2. WaitingType'
    BY <1>a, <1>b, <1>4, <2>a, <2>b, DaemonStopType DEF WaitingType
  <2>3. StartsAreWatched' /\ ForegroundIsKnown'
    BY <1>b, <1>c, <1>4 DEF CoreInv, StartsAreWatched, ForegroundIsKnown
  <2>4. OrderIsKept'
    <3>1. \E r \in recoveries' : r.generation = m_coreStartGeneration'
      BY <2>a, <2>b
    <3>2. QED  BY <1>c, <1>4, <3>1 DEF CoreInv, OrderIsKept
  <2>5. RecoveriesAreWaitedFor'
    <3>1. wish' \notin {"stop", "failed"}
      BY <1>c, <1>4 DEF CoreInv, OrderIsKept
    <3>2. m_coreStartGeneration \in Nat
      BY <1>a DEF CountType
    <3>3. /\ m_generation' = m_generation /\ m_generation <= m_coreStartGeneration
          /\ \A r \in recoveries : r.generation <= m_coreStartGeneration
      BY <1>b DEF CoreInv, RecoveriesAreWaitedFor
    <3>4. /\ \A r \in recoveries' : r.generation <= m_coreStartGeneration'
          /\ \A r \in recoveries' : r.generation = m_coreStartGeneration' => r = q
      BY <1>e, <2>a, <2>b, <3>2, <3>3
    <3>5. m_duplicateRecoveryAttempts' # MaxRecoveries + 1
      BY <1>f, <1>4
    <3>6. QED  BY <1>4, <2>a, <3>1, <3>3, <3>4, <3>5 DEF RecoveriesAreWaitedFor
  <2>6. StopsAreNumbered'
    <3>1. CASE DaemonStop(IsConnected, FALSE)
      BY <3>1, DaemonStopIsNumbered
    <3>2. CASE UNCHANGED stopVars
      BY <1>b, <1>c, <3>2 DEF CoreInv, StopsAreNumbered
    <3>3. QED  BY <1>4, <3>1, <3>2
  <2>7. QED
    BY <1>2, <2>1, <2>2, <2>3, <2>4, <2>5, <2>6
    DEF CoreInv, CoreTypeOK, StateType, CountType, CoordinatorType, WaitingType, LinkType
<1>5. QED
  <2>1. CASE m_restartRequested
    BY <1>3, <2>1 DEF ProcessFinished, RestartsOrStops
  <2>2. CASE ~m_restartRequested /\ foreground = "duplicate"
    BY <1>4, <2>2 DEF ProcessFinished, ChecksExistingProcess
  <2>3. CASE ~m_restartRequested /\ foreground # "duplicate"
    <3>1. CASE foreground = "success" /\ processState = "Started"
      BY <1>3, <2>3, <3>1 DEF ProcessFinished, RestartsOrStops
    <3>2. CASE ~(foreground = "success" /\ processState = "Started")
      BY <1>3, <2>3, <3>2 DEF ProcessFinished, RestartsOrStops
    <3>3. QED  BY <3>1, <3>2
  <2>4. QED  BY <2>1, <2>2, <2>3

(***************************************************************************)
(* The clients of checkExistingProcess.                                    *)
(***************************************************************************)
LEMMA RecoveryAsksKeeps ==
  ASSUME CoreInv, NEW r \in recoveries, RecoveryAsks(r)
  PROVE  CoreInv'
<1>a. StateType /\ CountType /\ CoordinatorType /\ WaitingType /\ LinkType
  BY CoreTypeGroups DEF CoreInv
<1>b. /\ UNCHANGED <<foreground, orderVars, stateVars, coordinatorVars, stopVars, clientVars,
                     m_duplicateRecoveryAttempts, startVars, dialogs, linkVars>>
  BY DEF RecoveryAsks
<1>0. r \in Recovery /\ r.generation \in Nat
  BY <1>a DEF WaitingType, Recovery
<1>1. PICK q \in Recovery : q.generation = r.generation /\ q.asked = TRUE
                            /\ [r EXCEPT !.asked = TRUE] = q
  BY <1>0 DEF Recovery
<1>2. recoveries' \in {recoveries \ {r}, (recoveries \ {r}) \union {q}}
  BY <1>1 DEF RecoveryAsks
<1>c. Current(r.generation) => recoveries' = (recoveries \ {r}) \union {q}
  BY <1>1 DEF RecoveryAsks
<1>3. StateType' /\ CountType' /\ CoordinatorType' /\ LinkType'
  BY <1>a, <1>b DEF StateType, CountType, CoordinatorType, LinkType
<1>4. WaitingType'
  BY <1>a, <1>b, <1>1, <1>2 DEF WaitingType
<1>5. StartsAreWatched' /\ ForegroundIsKnown' /\ StopsAreNumbered'
  BY <1>b DEF CoreInv, StartsAreWatched, ForegroundIsKnown, StopsAreNumbered
<1>6. OrderIsKept'
  BY <1>b, <1>c, <1>1, <1>2 DEF CoreInv, OrderIsKept
<1>7. RecoveriesAreWaitedFor'
  BY <1>b, <1>1, <1>2 DEF CoreInv, RecoveriesAreWaitedFor
<1>8. QED
  BY <1>3, <1>4, <1>5, <1>6, <1>7
  DEF CoreInv, CoreTypeOK, StateType, CountType, CoordinatorType, WaitingType, LinkType

\* A recovery that ends or fails takes the only current one away.
LEMMA RecoveryIsOver ==
  ASSUME CoreInv, NEW r \in recoveries, RecoveryEnds(r) \/ RecoveryFails(r)
  PROVE  CoreInv'
<1> USE RecoveryAssumption
<1>a. StateType /\ CountType /\ CoordinatorType /\ WaitingType /\ LinkType
  BY CoreTypeGroups DEF CoreInv
<1>b. /\ recoveries' = recoveries \ {r}
      /\ UNCHANGED <<m_restartRequested, processMode, coordinatorVars, stopVars, clientVars,
                     startVars, dialogs, linkVars, foreground>>
  BY DEF RecoveryEnds, RecoveryFails
<1>c. CoordinatorType' /\ WaitingType' /\ LinkType'
  BY <1>a, <1>b DEF CoordinatorType, WaitingType, LinkType
<1>d. /\ Current(r.generation) =>
            /\ processState \in {"Stopped", "RetryPending"} /\ wish \notin {"stop", "failed"}
            /\ \A q \in recoveries' : ~Current(q.generation)
            /\ m_duplicateRecoveryAttempts \in 0..MaxRecoveries
  BY <1>a, <1>b DEF CoreInv, RecoveriesAreWaitedFor, CountType
<1>1. CASE ~Current(r.generation)
  <2>a. UNCHANGED <<m_duplicateRecoveryAttempts, processState, m_retryTimer, wish>>
    BY <1>1 DEF RecoveryEnds, RecoveryFails
  <2>1. StateType' /\ CountType'
    BY <1>a, <1>b, <2>a DEF StateType, CountType
  <2>2. StartsAreWatched' /\ ForegroundIsKnown' /\ OrderIsKept'
    BY <1>1, <1>b, <2>a DEF CoreInv, StartsAreWatched, ForegroundIsKnown, OrderIsKept
  <2>3. RecoveriesAreWaitedFor' /\ StopsAreNumbered'
    BY <1>b, <2>a DEF CoreInv, RecoveriesAreWaitedFor, StopsAreNumbered
  <2>4. QED
    BY <1>c, <2>1, <2>2, <2>3
    DEF CoreInv, CoreTypeOK, StateType, CountType, CoordinatorType, WaitingType, LinkType
<1>2. CASE /\ Current(r.generation)
           /\ m_duplicateRecoveryAttempts' \in 0..MaxRecoveries
           /\ processState' = "RetryPending" /\ m_retryTimer' = TRUE /\ wish' = wish
  <2>1. StateType' /\ CountType'
    BY <1>a, <1>b, <1>2 DEF StateType, CountType, CoreState
  <2>2. StartsAreWatched' /\ ForegroundIsKnown' /\ OrderIsKept'
    BY <1>2, <1>b, <1>d DEF CoreInv, StartsAreWatched, ForegroundIsKnown, OrderIsKept
  <2>3. RecoveriesAreWaitedFor' /\ StopsAreNumbered'
    BY <1>b, <1>d, <1>2 DEF CoreInv, RecoveriesAreWaitedFor, StopsAreNumbered
  <2>4. QED
    BY <1>c, <2>1, <2>2, <2>3
    DEF CoreInv, CoreTypeOK, StateType, CountType, CoordinatorType, WaitingType, LinkType
<1>3. CASE /\ Current(r.generation)
           /\ m_duplicateRecoveryAttempts' \in 0..(MaxRecoveries + 1)
           /\ processState' = "Stopped" /\ UNCHANGED m_retryTimer
           /\ wish' = IF wish = "run" THEN "failed" ELSE wish
  <2>1. StateType' /\ CountType'
    BY <1>a, <1>b, <1>3 DEF StateType, CountType, CoreState
  <2>2. StartsAreWatched' /\ ForegroundIsKnown' /\ OrderIsKept'
    BY <1>3, <1>b, <1>d DEF CoreInv, StartsAreWatched, ForegroundIsKnown, OrderIsKept
  <2>3. RecoveriesAreWaitedFor' /\ StopsAreNumbered'
    BY <1>b, <1>d, <1>3 DEF CoreInv, RecoveriesAreWaitedFor, StopsAreNumbered
  <2>4. QED
    BY <1>c, <2>1, <2>2, <2>3
    DEF CoreInv, CoreTypeOK, StateType, CountType, CoordinatorType, WaitingType, LinkType
<1>4. CASE RecoveryEnds(r)
  <2>1. CASE Current(r.generation)
    BY <1>2, <1>4, <2>1 DEF RecoveryEnds, ScheduleRestart
  <2>2. QED  BY <1>1, <2>1
<1>5. CASE RecoveryFails(r)
  <2>1. CASE Current(r.generation)
    <3>1. /\ m_duplicateRecoveryAttempts \in 0..MaxRecoveries
          /\ m_duplicateRecoveryAttempts' = m_duplicateRecoveryAttempts + 1
      BY <1>5, <1>d, <2>1 DEF RecoveryFails
    <3>2. m_duplicateRecoveryAttempts' \in 0..(MaxRecoveries + 1)
      BY <3>1
    <3>3. CASE m_duplicateRecoveryAttempts < MaxRecoveries
      <4>1. m_duplicateRecoveryAttempts' \in 0..MaxRecoveries
        BY <3>1, <3>3
      <4>2. ~(m_duplicateRecoveryAttempts >= MaxRecoveries)
        BY <3>1, <3>3
      <4>3. QED  BY <1>2, <1>5, <2>1, <4>1, <4>2 DEF RecoveryFails, ScheduleRestart
    <3>4. CASE m_duplicateRecoveryAttempts >= MaxRecoveries
      BY <1>3, <1>5, <2>1, <3>1, <3>2, <3>4 DEF RecoveryFails, Becomes
    <3>5. QED  BY <3>1, <3>3, <3>4
  <2>2. QED  BY <1>1, <2>1
<1>6. QED  BY <1>4, <1>5

(***************************************************************************)
(* The daemon leaves the GUI's variables alone, but for the connection it  *)
(* may cut and the foreground core it may end.                             *)
(***************************************************************************)
LEMMA DaemonKeeps == CoreInv /\ Daemon => CoreInv'
<1> SUFFICES ASSUME CoreInv, Daemon PROVE CoreInv'
  OBVIOUS
<1>a. StateType /\ CountType /\ CoordinatorType /\ WaitingType /\ LinkType
  BY CoreTypeGroups DEF CoreInv
<1>1. UNCHANGED coreVars
  BY DEF Daemon, OfDaemon
<1>2. /\ m_state' \in {m_state, "Lost"}
      /\ foreground' = foreground \/ (foreground = "running" /\ foreground' = "success")
  BY DEF Daemon, Ipc, Loop, DaemonFault, setConfigFile, applyWatchdogCommand,
         clearWatchdogCommand, Delivers, LoopBegins, StartTimeReached, Starts, ProcessIsMissed,
         StartFails, Stops, ServiceCoreEnds, Crashes, ServiceStops, Boots, Forgets, KillsOthers,
         EndsOldCores
<1>3. LinkType' /\ dialogs' \in Nat /\ reconnects' \subseteq Nat
  BY <1>a, <1>1, <1>2 DEF LinkType, CountType, WaitingType, coreVars
<1>4. QED  BY <1>1, <1>2, <1>3, LinkStepKeeps DEF coreVars

LEMMA GuiKeeps == CoreInv /\ Gui => CoreInv'
<1> SUFFICES ASSUME CoreInv, Gui PROVE CoreInv'
  OBVIOUS
<1>1. CASE GuiStep
  BY <1>1, RetryTimerKeeps, DaemonConnectedKeeps, LinkStepsKeep, PostedStopKeeps,
     DaemonCommandResultKeeps, StartTimesOutKeeps, CoreConnectedKeeps, CoreConnectionLostKeeps,
     ProcessStartedKeeps, ProcessFinishedKeeps, RecoveryAsksKeeps, RecoveryIsOver,
     DialogClosesKeeps
  DEF GuiStep
<1>2. CASE User
  BY <1>2, UserKeeps
<1>3. CASE GuiFault
  BY <1>3, ProcessFailedToStartKeeps, LinkStepsKeep DEF GuiFault
<1>4. QED  BY <1>1, <1>2, <1>3 DEF Gui

LEMMA CoreInvHolds == Spec => []CoreInv
<1>1. Init => CoreInv
  <2> SUFFICES ASSUME Init PROVE CoreInv
    OBVIOUS
  <2>1. CoreTypeOK
    <3>1. StateType /\ LinkType
      BY DEF Init, CoreInit, StateType, LinkType, CoreState
    <3>2. CountType /\ CoordinatorType
      BY RecoveryAssumption DEF Init, CoreInit, CountType, CoordinatorType, Stage
    <3>3. WaitingType
      BY DEF Init, CoreInit, WaitingType
    <3>4. QED  BY <3>1, <3>2, <3>3, CoreTypeGroups
  <2>2. StartsAreWatched /\ ForegroundIsKnown /\ OrderIsKept
    BY DEF Init, CoreInit, StartsAreWatched, ForegroundIsKnown, OrderIsKept
  <2>3. RecoveriesAreWaitedFor /\ StopsAreNumbered
    BY RecoveryAssumption DEF Init, CoreInit, RecoveriesAreWaitedFor, StopsAreNumbered
  <2>4. QED  BY <2>1, <2>2, <2>3 DEF CoreInv
<1>2. CoreInv /\ [Next]_vars => CoreInv'
  <2> SUFFICES ASSUME CoreInv, [Next]_vars PROVE CoreInv'
    OBVIOUS
  <2>1. CASE Next
    BY <2>1, DaemonKeeps, GuiKeeps DEF Next
  <2>2. CASE UNCHANGED vars
    <3>1. UNCHANGED <<coreVars, linkVars, foreground>>
      BY <2>2 DEF vars
    <3>a. StateType /\ CountType /\ CoordinatorType /\ WaitingType /\ LinkType
      BY CoreTypeGroups DEF CoreInv
    <3>2. LinkType' /\ dialogs' \in Nat /\ reconnects' \subseteq Nat
      BY <3>1, <3>a DEF LinkType, CountType, WaitingType, coreVars
    <3>3. QED  BY <3>1, <3>2, LinkStepKeeps DEF coreVars
  <2>3. QED  BY <2>1, <2>2
<1>3. QED  BY <1>1, <1>2, PTL DEF Spec

\* What the user ordered last is what the GUI is at, in every behaviour and for
\* any commands and bounds (CoreProcess::start, stop, restart,
\* onProcessFinished, handleServiceStartFailure).
THEOREM UserIsAlwaysObeyed == Spec => []UserIsObeyed
<1>1. CoreInv => UserIsObeyed
  BY DEF CoreInv, UserIsObeyed
<1>2. QED  BY <1>1, CoreInvHolds, PTL

(***************************************************************************)
(* The daemon.  The GUI touches what the daemon's invariant is about only  *)
(* by what it sends, by cutting the connection, and by ending a core.      *)
(***************************************************************************)
LEMMA ToDaemonTypes ==
  /\ \A m \in Request \union {Stop} :
       RequestsType /\ toDaemon' = Append(toDaemon, m) => RequestsType'
  /\ toDaemon' = << >> => RequestsType'
<1>1. PICK S : S = Request \union {Stop}
  OBVIOUS
<1>2. ASSUME NEW m \in S, toDaemon \in Seq(S), toDaemon' = Append(toDaemon, m)
      PROVE  toDaemon' \in Seq(S)
  BY <1>2
<1>3. toDaemon' = << >> => toDaemon' \in Seq(S)
  OBVIOUS
<1>4. QED  BY <1>1, <1>2, <1>3 DEF RequestsType

LEMMA SendsType ==
  ASSUME RequestsType, NEW m \in Request \union {Stop}, Sends(m)
  PROVE  RequestsType'
BY DEF RequestsType, Sends

LEMMA StopOnLinkType == RequestsType /\ StopOnLink => RequestsType'
BY SendsType DEF StopOnLink, RequestsType

LEMMA GuiSendsRequests ==
  ASSUME CoreTypeOK, RequestsType, Gui
  PROVE  RequestsType'
<1>0. /\ m_coreStartGeneration \in Nat /\ m_generation \in Nat
      /\ m_coreStartGeneration + 1 \in Nat
  BY DEF CoreTypeOK
<1>a. /\ <<"configFile", m_coreStartGeneration + 1>> \in Request
      /\ <<"configFile", m_generation>> \in Request /\ <<"start", m_generation>> \in Request
  BY <1>0, RequestsAreRequests
<1>b. Stop \in Request \union {Stop}
  OBVIOUS
<1>1. CASE UNCHANGED toDaemon
  BY <1>1 DEF RequestsType
<1>2. ASSUME StartsCore PROVE RequestsType'
  <2>1. UNCHANGED toDaemon \/ Sends(<<"configFile", m_coreStartGeneration + 1>>)
    BY <1>2 DEF StartsCore
  <2>2. QED  BY <1>a, <1>1, <2>1, SendsType
<1>3. ASSUME NEW restart, StopsCore(restart) PROVE RequestsType'
  BY <1>1, <1>3, StopOnLinkType DEF StopsCore
<1>4. CASE User
  BY <1>1, <1>2, <1>3, <1>4 DEF User, UserStarts, UserStops, UserRestarts, ModeChanges
<1>5. CASE RetryTimer
  BY <1>1, <1>2, <1>5 DEF RetryTimer
<1>6. CASE DaemonConnected
  <2>1. UNCHANGED toDaemon \/ toDaemon' = Append(toDaemon, <<"configFile", m_generation>>)
    BY <1>6 DEF DaemonConnected
  <2>2. QED  BY <1>a, <1>1, <2>1, ToDaemonTypes
<1>7. ASSUME NEW s, PostedStop(s) PROVE RequestsType'
  BY <1>1, <1>7, <1>b, SendsType DEF PostedStop
<1>8. CASE DaemonCommandResult
  <2>1. UNCHANGED toDaemon \/ Sends(Stop) \/ Sends(<<"start", m_generation>>)
    BY <1>8 DEF DaemonCommandResult
  <2>2. QED  BY <1>a, <1>b, <1>1, <2>1, SendsType
<1>9. CASE StartTimesOut \/ CoreConnectionLost
  BY <1>1, <1>9, StopOnLinkType DEF StartTimesOut, CoreConnectionLost
<1>10. ASSUME NEW choice, DialogCloses(choice) PROVE RequestsType'
  <2>1. UNCHANGED toDaemon \/ StopOnLink \/ toDaemon' = << >>
    BY <1>10 DEF DialogCloses, Reconnects, CutLink
  <2>2. QED  BY <1>1, <2>1, StopOnLinkType, ToDaemonTypes
<1>11. CASE ProcessFinished
  BY <1>1, <1>11, StopOnLinkType DEF ProcessFinished, ChecksExistingProcess
<1>12. CASE \/ DaemonConnectionFailed \/ CoreConnected \/ ProcessStarted \/ GuiFault
            \/ \E g \in reconnects : ReconnectTimer(g)
            \/ \E r \in recoveries : RecoveryAsks(r) \/ RecoveryEnds(r) \/ RecoveryFails(r)
            \/ \E code : ProcessEnds(code)
  BY <1>1, <1>12
  DEF DaemonConnectionFailed, CoreConnected, ProcessStarted, GuiFault, ProcessFailedToStart,
      ReconnectTimer, RecoveryAsks, RecoveryEnds, RecoveryFails, ProcessEnds
<1>13. CASE GuiStep
  BY <1>5, <1>6, <1>7, <1>8, <1>9, <1>10, <1>11, <1>12, <1>13 DEF GuiStep
<1>14. QED  BY <1>4, <1>12, <1>13 DEF Gui

LEMMA GuiTouchesLittle ==
  ASSUME CoreTypeOK, WatchdogTypeOK, Gui
  PROVE  /\ UNCHANGED <<watchdogVars, daemonUp>>
         /\ m_process' \in {m_process, NoCommand} /\ strays' \in {strays, FALSE}
         /\ settings' \in Command \union {NoCommand}
         /\ m_pendingCommands' \in {m_pendingCommands, {}}
<1>1. UNCHANGED <<watchdogVars, daemonUp>>
  BY DEF Gui, OfGui
<1>2. /\ m_process' \in {m_process, NoCommand} /\ strays' \in {strays, FALSE}
      /\ settings' \in Command \union {NoCommand}
  BY DEF WatchdogTypeOK, Gui, GuiStep, User, GuiFault, WorldSame,
     UserStarts, UserStops, UserRestarts,
     ModeChanges, RetryTimer, DaemonConnected, DaemonConnectionFailed, PostedStop,
     DaemonCommandResult, StartTimesOut, CoreConnected, CoreConnectionLost, ReconnectTimer,
     ProcessStarted, ProcessFinished, RecoveryAsks, RecoveryEnds, RecoveryFails, ProcessEnds,
     DialogCloses, ProcessFailedToStart
<1>3. m_pendingCommands' \in {m_pendingCommands, {}}
  <2>a. ASSUME StartsCore \/ StopsCore(TRUE) \/ StopsCore(FALSE)
        PROVE  UNCHANGED m_pendingCommands
    BY <2>a DEF StartsCore, StopsCore, StopOnLink
  <2>1. CASE User \/ RetryTimer
    BY <2>a, <2>1 DEF User, UserStarts, UserStops, UserRestarts, ModeChanges, RetryTimer
  <2>2. ASSUME NEW choice, DialogCloses(choice)
        PROVE  m_pendingCommands' \in {m_pendingCommands, {}}
    BY <2>2 DEF DialogCloses, Reconnects, CutLink, StopOnLink
  <2>3. ASSUME Gui, ~(User \/ RetryTimer), ~(\E choice : DialogCloses(choice))
        PROVE  m_pendingCommands' = m_pendingCommands
    BY <2>3 DEF Gui, GuiStep, GuiFault,
       DaemonConnected, DaemonConnectionFailed, PostedStop,
       DaemonCommandResult, StartTimesOut, CoreConnected, CoreConnectionLost, ReconnectTimer,
       ProcessStarted, ProcessFinished, RecoveryAsks, RecoveryEnds, RecoveryFails, ProcessEnds,
       ProcessFailedToStart, StopOnLink, ChecksExistingProcess
  <2>4. QED  BY <2>1, <2>2, <2>3
<1>4. QED  BY <1>1, <1>2, <1>3

LEMMA GuiKeepsDaemon ==
  ASSUME CoreTypeOK, DaemonInv, Gui
  PROVE  DaemonInv'
<1> USE DEF DaemonInv, DaemonIsConsistent
<1>1. WatchdogTypeOK
  OBVIOUS
<1>2. /\ UNCHANGED <<watchdogVars, daemonUp>>
      /\ m_process' \in {m_process, NoCommand} /\ strays' \in {strays, FALSE}
      /\ settings' \in Command \union {NoCommand}
      /\ m_pendingCommands' \in {m_pendingCommands, {}}
  BY <1>1, GuiTouchesLittle
<1>3. RequestsType'
  BY GuiSendsRequests
<1>4. WatchdogTypeOK'
  BY <1>1, <1>2 DEF WatchdogTypeOK, watchdogVars
<1>5. StateFitsCommand' /\ PendingHasNoCore' /\ DownIsIdle'
  BY <1>2 DEF StateFitsCommand, PendingHasNoCore, DownIsIdle, watchdogVars
<1>6. StartsAreAnswered'
  BY <1>2 DEF StartsAreAnswered, watchdogVars
<1>7. QED  BY <1>3, <1>4, <1>5, <1>6

(***************************************************************************)
(* The daemon's own steps.                                                 *)
(***************************************************************************)
LEMMA HeadOfRequests ==
  ASSUME RequestsType, toDaemon # << >>
  PROVE  /\ Head(toDaemon) \in Request \union {Stop}
         /\ Tail(toDaemon) \in Seq(Request \union {Stop})
BY DEF RequestsType

LEMMA RequestKinds ==
  /\ NoRequest \notin Request
  /\ \A r \in Request \union {Stop} : r[1] = "start" => r \in Request
BY DEF Request, NoRequest, Stop

LEMMA AnswerType ==
  ASSUME NEW r \in Request \union {NoRequest}, NEW ok \in BOOLEAN
  PROVE  /\ Answer(r, ok) \subseteq Request \X BOOLEAN
         /\ r # NoRequest => <<r, ok>> \in Answer(r, ok)
BY DEF Answer

\* A command that is set, for a request or for none.
LEMMA SetProcessConfigKeeps ==
  ASSUME WatchdogTypeOK, StateFitsCommand, StartsAreAnswered, PendingHasNoCore,
         NEW c \in Command \union {NoCommand}, NEW r \in Request \union {NoRequest},
         r = NoRequest <=> c = NoCommand,
         setProcessConfig(c, r), m_process' = m_process,
         m_pendingCommands' = m_pendingCommands \union (IF c = NoCommand THEN {} ELSE {r})
  PROVE  /\ m_processState' \in ProcessState /\ m_command' \in Command \union {NoCommand}
         /\ m_nextStartTime' \in BOOLEAN /\ m_startResultCallback' \in Request \union {NoRequest}
         /\ posted' \subseteq Request \X BOOLEAN
         /\ StateFitsCommand' /\ StartsAreAnswered' /\ PendingHasNoCore'
<1>1. /\ m_processState' \in ProcessState /\ m_command' \in Command \union {NoCommand}
      /\ m_nextStartTime' \in BOOLEAN
  BY DEF WatchdogTypeOK, setProcessConfig, ProcessState, StateAfter
<1>2. m_startResultCallback' \in Request \union {NoRequest}
  BY DEF setProcessConfig
<1>3. posted' \subseteq Request \X BOOLEAN
  <2>1. Superseded \subseteq Request \X BOOLEAN /\ Answer(r, TRUE) \subseteq Request \X BOOLEAN
    BY AnswerType DEF WatchdogTypeOK, Superseded
  <2>2. QED  BY <2>1 DEF WatchdogTypeOK, setProcessConfig
<1>4. StateFitsCommand' /\ PendingHasNoCore'
  BY LinkAssumption
  DEF WatchdogTypeOK, setProcessConfig, StateFitsCommand, PendingHasNoCore, StateAfter, ProcessState
<1>5. StartsAreAnswered'
  <2>1. m_startResultCallback # NoRequest => <<m_startResultCallback, FALSE>> \in posted'
    BY AnswerType DEF WatchdogTypeOK, Superseded, setProcessConfig
  <2>2. posted \subseteq posted'
    BY DEF setProcessConfig
  <2>3. \A q \in m_pendingCommands : \E ok \in BOOLEAN : <<q, ok>> \in posted'
    BY <2>1, <2>2, RequestKinds DEF WatchdogTypeOK, StartsAreAnswered
  <2>4. c # NoCommand => r = m_startResultCallback' \/ <<r, TRUE>> \in posted'
    BY AnswerType DEF setProcessConfig
  <2>5. m_startResultCallback' # NoRequest =>
          /\ m_processState' \in {"StartPending", "StartScheduled", "StopPending"}
          /\ m_command' # NoCommand
    BY DEF WatchdogTypeOK, setProcessConfig, StateAfter, ProcessState
  <2>6. QED  BY <2>3, <2>4, <2>5 DEF StartsAreAnswered
<1>6. QED  BY <1>1, <1>2, <1>3, <1>4, <1>5

\* The thread of the IPC server: the request at the head is served, or an
\* answer is delivered.
LEMMA IpcKeeps ==
  ASSUME DaemonInv, Ipc, UNCHANGED <<daemonUp, settings>>
  PROVE  DaemonInv'
<1> USE DEF DaemonInv, DaemonIsConsistent
<1>1. CASE setConfigFile
  <2>1. RequestsType'
    BY <1>1, HeadOfRequests DEF setConfigFile, Receives, RequestsType
  <2>2. WatchdogTypeOK'
    BY <1>1 DEF setConfigFile, WatchdogTypeOK
  <2>3. StateFitsCommand' /\ StartsAreAnswered' /\ PendingHasNoCore' /\ DownIsIdle'
    BY <1>1 DEF setConfigFile, StateFitsCommand, StartsAreAnswered, PendingHasNoCore, DownIsIdle
  <2>4. QED  BY <2>1, <2>2, <2>3
<1>2. CASE applyWatchdogCommand
  <2>1. PICK r : r = Head(toDaemon)
    OBVIOUS
  <2>2. /\ r \in Request /\ r # NoRequest /\ RequestsType' /\ daemonUp
        /\ UNCHANGED <<m_configFile, m_failing, looping, m_process, strays, foreground>>
    BY <1>2, <2>1, HeadOfRequests, RequestKinds DEF applyWatchdogCommand, Receives, RequestsType
  <2>3. CASE /\ settings # NoCommand /\ setProcessConfig(settings, r)
             /\ m_pendingCommands' = m_pendingCommands \union {r}
    <3>1. /\ m_processState' \in ProcessState /\ m_command' \in Command \union {NoCommand}
          /\ m_nextStartTime' \in BOOLEAN
          /\ m_startResultCallback' \in Request \union {NoRequest}
          /\ posted' \subseteq Request \X BOOLEAN
          /\ StateFitsCommand' /\ StartsAreAnswered' /\ PendingHasNoCore'
      BY <2>2, <2>3, SetProcessConfigKeeps DEF WatchdogTypeOK
    <3>2. WatchdogTypeOK'
      BY <2>2, <2>3, <3>1 DEF WatchdogTypeOK
    <3>3. QED  BY <2>2, <3>1, <3>2 DEF DownIsIdle
  <2>4. CASE UNCHANGED <<m_pendingCommands, m_processState, m_command, m_nextStartTime,
                         m_startResultCallback, posted>>
    <3>1. WatchdogTypeOK'
      BY <2>2, <2>4 DEF WatchdogTypeOK
    <3>2. StateFitsCommand' /\ StartsAreAnswered' /\ PendingHasNoCore' /\ DownIsIdle'
      BY <2>2, <2>4 DEF StateFitsCommand, StartsAreAnswered, PendingHasNoCore, DownIsIdle
    <3>3. QED  BY <2>2, <3>1, <3>2
  <2>5. QED  BY <1>2, <2>1, <2>3, <2>4 DEF applyWatchdogCommand
<1>3. CASE clearWatchdogCommand
  <2>1. /\ RequestsType' /\ daemonUp /\ setProcessConfig(NoCommand, NoRequest)
        /\ m_configFile' = FALSE
        /\ UNCHANGED <<m_pendingCommands, m_failing, looping, m_process, strays, foreground>>
    BY <1>3, HeadOfRequests DEF clearWatchdogCommand, Receives, RequestsType
  <2>2. /\ m_processState' \in ProcessState /\ m_command' \in Command \union {NoCommand}
        /\ m_nextStartTime' \in BOOLEAN
        /\ m_startResultCallback' \in Request \union {NoRequest}
        /\ posted' \subseteq Request \X BOOLEAN
        /\ StateFitsCommand' /\ StartsAreAnswered' /\ PendingHasNoCore'
    BY <2>1, SetProcessConfigKeeps
  <2>3. WatchdogTypeOK'
    BY <2>1, <2>2 DEF WatchdogTypeOK
  <2>4. QED  BY <2>1, <2>2, <2>3 DEF DownIsIdle
<1>4. ASSUME NEW a \in posted, Delivers(a[1], a[2])
      PROVE  DaemonInv'
  <2>1. PICK r, ok : r = a[1] /\ ok = a[2]
    OBVIOUS
  <2>2. /\ posted' = posted \ {<<r, ok>>} /\ m_pendingCommands' = m_pendingCommands \ {r}
        /\ UNCHANGED <<toDaemon, m_configFile, m_processState, m_command, m_nextStartTime,
                       m_failing, m_startResultCallback, looping, m_process, strays>>
    BY <1>4, <2>1 DEF Delivers, Completes
  <2>3. RequestsType' /\ WatchdogTypeOK'
    BY <2>2 DEF RequestsType, WatchdogTypeOK
  <2>4. StateFitsCommand' /\ PendingHasNoCore' /\ DownIsIdle'
    BY <2>2 DEF StateFitsCommand, PendingHasNoCore, DownIsIdle
  <2>5. StartsAreAnswered'
    <3>1. ASSUME NEW q \in m_pendingCommands', NEW b \in BOOLEAN, <<q, b>> \in posted
          PROVE  <<q, b>> \in posted'
      BY <2>2, <3>1
    <3>2. QED  BY <2>2, <3>1 DEF StartsAreAnswered
  <2>6. QED  BY <2>3, <2>4, <2>5
<1>5. QED  BY <1>1, <1>2, <1>3, <1>4 DEF Ipc

\* A start that is over answers who waits for it.
LEMMA StartIsAnswered ==
  ASSUME WatchdogTypeOK, StartsAreAnswered, NEW ok \in BOOLEAN,
         posted' = posted \union Answer(m_startResultCallback, ok),
         m_startResultCallback' = NoRequest, UNCHANGED m_pendingCommands
  PROVE  posted' \subseteq Request \X BOOLEAN /\ StartsAreAnswered'
<1>1. posted' \subseteq Request \X BOOLEAN
  BY AnswerType DEF WatchdogTypeOK
<1>2. m_startResultCallback # NoRequest => <<m_startResultCallback, ok>> \in posted'
  BY AnswerType DEF WatchdogTypeOK
<1>3. posted \subseteq posted'
  OBVIOUS
<1>4. QED  BY <1>1, <1>2, <1>3, RequestKinds DEF WatchdogTypeOK, StartsAreAnswered

\* The loop, what fails under it, and the ends of cores.
LEMMA LoopKeeps ==
  ASSUME DaemonInv, UNCHANGED <<daemonUp, settings>>,
         \/ LoopBegins \/ StartTimeReached \/ Starts \/ ProcessIsMissed \/ StartFails \/ Stops
         \/ ServiceCoreEnds
  PROVE  DaemonInv'
<1> USE DEF DaemonInv, DaemonIsConsistent
<1>1. RequestsType' /\ UNCHANGED <<m_pendingCommands, m_configFile, m_command>>
  BY DEF RequestsType, LoopBegins, StartTimeReached, Starts, ProcessIsMissed, StartFails, Stops,
     ServiceCoreEnds, watchdogVars
<1>2. DownIsIdle'
  BY DEF DownIsIdle, LoopBegins, StartTimeReached, Starts, ProcessIsMissed, StartFails, Stops,
     ServiceCoreEnds, watchdogVars, Loops
<1>3. StateFitsCommand' /\ PendingHasNoCore'
  BY LinkAssumption
  DEF WatchdogTypeOK, ProcessState, StateFitsCommand, PendingHasNoCore, LoopBegins,
      StartTimeReached, Starts, ProcessIsMissed, StartFails, Stops, ServiceCoreEnds, watchdogVars,
      Loops
<1>4. CASE LoopBegins \/ StartTimeReached \/ ProcessIsMissed \/ Stops \/ ServiceCoreEnds
  <2>1. WatchdogTypeOK'
    <3>1. /\ m_processState' \in ProcessState /\ m_process' \in {m_process, NoCommand}
          /\ UNCHANGED <<m_failing, m_startResultCallback, posted>>
      BY <1>4
      DEF WatchdogTypeOK, ProcessState, LoopBegins, StartTimeReached, ProcessIsMissed, Stops,
         ServiceCoreEnds, watchdogVars
    <3>2. m_nextStartTime' \in BOOLEAN /\ looping' \in BOOLEAN
      BY <1>4 DEF WatchdogTypeOK, LoopBegins, StartTimeReached, ProcessIsMissed, Stops,
         ServiceCoreEnds, watchdogVars
    <3>3. strays' \in BOOLEAN
      BY <1>4 DEF WatchdogTypeOK, LoopBegins, StartTimeReached, ProcessIsMissed, Stops,
         ServiceCoreEnds, EndsOldCores, KillsOthers
    <3>4. QED  BY <1>1, <3>1, <3>2, <3>3 DEF WatchdogTypeOK
  <2>2. StartsAreAnswered'
    BY <1>1, <1>4
    DEF StartsAreAnswered, LoopBegins, StartTimeReached, ProcessIsMissed, Stops,
        ServiceCoreEnds, watchdogVars, Loops
  <2>3. QED  BY <1>1, <1>2, <1>3, <2>1, <2>2
<1>5. CASE Starts \/ StartFails
  <2>1. PICK ok \in BOOLEAN : posted' = posted \union Answer(m_startResultCallback, ok)
    BY <1>5 DEF Starts, StartFails
  <2>2. m_startResultCallback' = NoRequest
    BY <1>5 DEF Starts, StartFails
  <2>3. posted' \subseteq Request \X BOOLEAN /\ StartsAreAnswered'
    BY <1>1, <2>1, <2>2, StartIsAnswered
  <2>4. WatchdogTypeOK'
    BY <1>1, <1>5, <2>2, <2>3 DEF WatchdogTypeOK, ProcessState, Starts, StartFails
  <2>5. QED  BY <1>1, <1>2, <1>3, <2>3, <2>4
<1>6. QED  BY <1>4, <1>5

\* The daemon ends, and boots again.
LEMMA EndsAndBootsKeep ==
  ASSUME DaemonInv, Crashes \/ ServiceStops \/ Boots, UNCHANGED settings
  PROVE  DaemonInv'
<1> USE DEF DaemonInv, DaemonIsConsistent
<1>1. CASE Crashes \/ ServiceStops
  <2>1. /\ Forgets /\ UNCHANGED m_configFile /\ daemonUp' = FALSE /\ strays' \in BOOLEAN
    BY <1>1 DEF Crashes, ServiceStops, KillsOthers, WatchdogTypeOK
  <2>2. RequestsType'
    BY <2>1, ToDaemonTypes DEF Forgets, CutLink
  <2>3. WatchdogTypeOK'
    BY <2>1 DEF WatchdogTypeOK, ProcessState, Forgets, CutLink
  <2>4. StateFitsCommand' /\ PendingHasNoCore' /\ DownIsIdle' /\ StartsAreAnswered'
    BY <2>1 DEF Forgets, CutLink, StateFitsCommand, PendingHasNoCore, DownIsIdle, StartsAreAnswered
  <2>5. QED  BY <2>2, <2>3, <2>4
<1>2. CASE Boots
  <2>1. RequestsType' /\ WatchdogTypeOK'
    BY <1>2 DEF RequestsType, WatchdogTypeOK, Boots, ProcessState
  <2>2. /\ m_processState = "Idle" /\ m_process = NoCommand /\ m_startResultCallback = NoRequest
    BY <1>2 DEF Boots, DownIsIdle, StateFitsCommand, StartsAreAnswered
  <2>3. StateFitsCommand' /\ PendingHasNoCore' /\ DownIsIdle'
    BY <1>2, <2>2 DEF Boots, StateFitsCommand, PendingHasNoCore, DownIsIdle
  <2>4. StartsAreAnswered'
    BY <1>2, <2>2 DEF Boots, StartsAreAnswered
  <2>5. QED  BY <2>1, <2>3, <2>4
<1>3. QED  BY <1>1, <1>2

LEMMA DaemonInvHolds == Spec => []DaemonInv
<1>1. Init => DaemonInv
  <2> SUFFICES ASSUME Init PROVE DaemonInv
    OBVIOUS
  <2>1. WatchdogTypeOK /\ RequestsType
    <3>1. /\ m_configFile \in BOOLEAN /\ m_command \in Command \union {NoCommand}
          /\ m_processState \in ProcessState /\ settings \in Command \union {NoCommand}
      BY DEF Init, WatchdogInit, ProcessState
    <3>2. /\ m_startResultCallback \in Request \union {NoRequest}
          /\ posted \subseteq Request \X BOOLEAN /\ m_pendingCommands \subseteq Request
          /\ m_process \in Command \union {NoCommand}
      BY DEF Init, WatchdogInit
    <3>3. /\ m_nextStartTime \in BOOLEAN /\ m_failing \in BOOLEAN /\ looping \in BOOLEAN
          /\ daemonUp \in BOOLEAN /\ strays \in BOOLEAN
      BY DEF Init, WatchdogInit
    <3>4. RequestsType
      BY DEF Init, RequestsType
    <3>5. QED  BY <3>1, <3>2, <3>3, <3>4 DEF WatchdogTypeOK
  <2>2. StateFitsCommand /\ StartsAreAnswered /\ DownIsIdle /\ PendingHasNoCore
    BY DEF Init, WatchdogInit, StateFitsCommand, StartsAreAnswered, DownIsIdle, PendingHasNoCore
  <2>3. QED  BY <2>1, <2>2 DEF DaemonInv, DaemonIsConsistent
<1>2. CoreTypeOK /\ DaemonInv /\ [Next]_vars => DaemonInv'
  <2> SUFFICES ASSUME CoreTypeOK, DaemonInv, [Next]_vars PROVE DaemonInv'
    OBVIOUS
  <2>1. CASE Gui
    BY <2>1, GuiKeepsDaemon
  <2>2. CASE Daemon
    BY <2>2, IpcKeeps, LoopKeeps, EndsAndBootsKeep DEF Daemon, Loop, DaemonFault, OfDaemon
  <2>3. CASE UNCHANGED vars
    <3>1. RequestsType' /\ WatchdogTypeOK'
      BY <2>3 DEF vars, watchdogVars, DaemonInv, DaemonIsConsistent, RequestsType, WatchdogTypeOK
    <3>2. StateFitsCommand' /\ StartsAreAnswered' /\ DownIsIdle' /\ PendingHasNoCore'
      BY <2>3 DEF vars, watchdogVars, DaemonInv, DaemonIsConsistent, StateFitsCommand,
         StartsAreAnswered, DownIsIdle, PendingHasNoCore
    <3>3. QED  BY <3>1, <3>2 DEF DaemonInv, DaemonIsConsistent
  <2>4. QED  BY <2>1, <2>2, <2>3 DEF Next
<1>3. CoreInv => CoreTypeOK
  BY DEF CoreInv
<1>4. QED  BY <1>1, <1>2, <1>3, CoreInvHolds, PTL DEF Spec

\* The watchdog's state fits its command, and no start that the GUI waits for
\* is forgotten, in whatever order requests, answers, failures of processes and
\* ends of the daemon come (MSWindowsWatchdog::setProcessConfig, mainLoop,
\* handleStartError).
THEOREM DaemonIsAlwaysConsistent == Spec => []DaemonIsConsistent
<1>1. DaemonInv => DaemonIsConsistent
  BY DEF DaemonInv
<1>2. QED  BY <1>1, DaemonInvHolds, PTL

(***************************************************************************)
(* The agreement of the daemon with the GUI.  Requests and answers carry   *)
(* the generation of their start, and none is of a later one.              *)
(***************************************************************************)
StartRequest == {"start"} \X Nat
Result == Request \X BOOLEAN
ResultsType ==
  /\ toGui \in Seq(Result)
  /\ m_pendingCommands \subseteq StartRequest
  /\ posted \subseteq StartRequest \X BOOLEAN
  /\ m_startResultCallback \in StartRequest \union {NoRequest}

\* A queue has a message, a start, or the result of a request.
Has(q, m) == \E i \in DOMAIN q : q[i] = m
HasStart(q) == \E i \in DOMAIN q : q[i][1] = "start"
HasResultOf(q, r) == \E i \in DOMAIN q : q[i][1] = r
\* No stop follows m; a stop follows every start.
NoStopAfter(q, m) ==
  \A i \in DOMAIN q, j \in DOMAIN q : i < j /\ q[i] = m => q[j] # Stop
StopIsLast(q) ==
  \E i \in DOMAIN q : q[i] = Stop /\ \A j \in DOMAIN q : i < j => q[j][1] # "start"

RequestsAreKnown ==
  /\ \A i \in DOMAIN toDaemon : toDaemon[i][2] <= m_coreStartGeneration
  /\ \A i \in DOMAIN toGui : toGui[i][1][2] <= m_coreStartGeneration
  /\ \A r \in m_pendingCommands : r[2] <= m_coreStartGeneration
  /\ \A a \in posted : a[1][2] <= m_coreStartGeneration
  /\ m_startResultCallback[2] <= m_coreStartGeneration

\* Nothing happens to the connection of a daemon that has not ended.
LinkFollowsDaemon ==
  /\ ~daemonUp \/ m_state = "Lost" \/ dialogs > 0 => daemonEnded
  /\ postedStops # {} => m_state = "Connected" \/ daemonEnded
  /\ toDaemon # << >> => m_state = "Connected"

\* The GUI starts or has started the daemon's core; it has asked for it; the
\* daemon's config file is there to stay; the daemon has a command.
Serving == m_lastProcessMode = Service /\ processState \in {"Starting", "Started"}
Asked ==
  Serving /\ (processState = "Started" \/ m_stage \in {"WaitingForStart", "WaitingForCore"})
Served == m_configFile /\ ~Has(toDaemon, Stop)
Commanded == daemonEnded \/ m_command # NoCommand

ConfigFileOf(g) == <<"configFile", g>>
StartOf(g) == <<"start", g>>

\* What the coordinator waits for is the answer to the current start's request.
AwaitsItsOwn ==
  Serving /\ processState = "Starting" =>
    /\ m_stage = "WaitingForConfig" =>
         m_daemonConfigRequestId = ConfigFileOf(m_coreStartGeneration)
    /\ m_stage \in {"WaitingForDaemon", "WaitingForConfig"} => m_daemonStartRequestId = NoRequest
    /\ m_stage = "WaitingForStart" => m_daemonStartRequestId = StartOf(m_coreStartGeneration)

\* While the GUI starts or runs a core of the daemon nothing follows its config
\* file that would take it away.
ConfigFileStays ==
  Serving =>
    /\ \A d \in waitingStops \union postedStops : ~IsLatest(d)
    /\ NoStopAfter(toDaemon, ConfigFileOf(m_coreStartGeneration))
    /\ Has(toGui, <<ConfigFileOf(m_coreStartGeneration), TRUE>>) => Served
    /\ Asked => Served

\* A start that was not asked for is nowhere on its way.
StartsAreAskedFor ==
  Serving /\ ~Asked =>
    /\ ~Has(toDaemon, StartOf(m_coreStartGeneration))
    /\ ~HasResultOf(toGui, StartOf(m_coreStartGeneration))
    /\ StartOf(m_coreStartGeneration) \notin m_pendingCommands
    /\ m_startResultCallback # StartOf(m_coreStartGeneration)
    /\ \A a \in posted : a[1] # StartOf(m_coreStartGeneration)

CommandStays ==
  Serving =>
    /\ processState = "Started" \/ m_stage = "WaitingForCore" => Commanded
    /\ <<StartOf(m_coreStartGeneration), TRUE>> \in posted => Commanded
    /\ Has(toGui, <<StartOf(m_coreStartGeneration), TRUE>>) => Commanded

\* Once the GUI has stopped the daemon's core, the daemon has no command, or a
\* stop that nothing overtakes is on its way.
Off ==
  \/ \E d \in waitingStops \union postedStops : IsLatest(d)
  \/ StopIsLast(toDaemon)
  \/ m_command = NoCommand /\ ~HasStart(toDaemon)
Resting == m_lastProcessMode = Service /\ processState \in {"Stopped", "RetryPending", "Stopping"}
StopsArrive == Resting => daemonEnded \/ Off

AgreementInv ==
  /\ ResultsType /\ RequestsAreKnown /\ LinkFollowsDaemon /\ AwaitsItsOwn
  /\ ConfigFileStays /\ StartsAreAskedFor /\ CommandStays /\ StopsArrive

(***************************************************************************)
(* Sequences: what an element added at the end, or taken from the head,    *)
(* does to the order of requests.                                          *)
(***************************************************************************)
LEMMA AppendElements ==
  ASSUME NEW S, NEW q \in Seq(S), NEW m, NEW p, p = Append(q, m)
  PROVE  /\ Len(q) \in Nat /\ DOMAIN q = 1..Len(q) /\ DOMAIN p = 1..(Len(q) + 1)
         /\ \A i \in DOMAIN q : p[i] = q[i]
         /\ p[Len(q) + 1] = m
OBVIOUS

LEMMA TailElements ==
  ASSUME NEW S, NEW q \in Seq(S), q # << >>, NEW p, p = Tail(q)
  PROVE  /\ Len(q) \in Nat \ {0} /\ DOMAIN q = 1..Len(q) /\ DOMAIN p = 1..(Len(q) - 1)
         /\ \A i \in DOMAIN p : i + 1 \in DOMAIN q /\ p[i] = q[i + 1]
         /\ q[1] = Head(q) /\ 1 \in DOMAIN q
OBVIOUS

LEMMA AppendHas ==
  ASSUME NEW S, NEW q \in Seq(S), NEW m, NEW p, p = Append(q, m), NEW r
  PROVE  /\ Has(p, r) <=> Has(q, r) \/ m = r
         /\ HasStart(p) <=> HasStart(q) \/ m[1] = "start"
         /\ HasResultOf(p, r) <=> HasResultOf(q, r) \/ m[1] = r
<1>1. /\ Len(q) \in Nat /\ DOMAIN q = 1..Len(q) /\ DOMAIN p = 1..(Len(q) + 1)
      /\ \A i \in DOMAIN q : p[i] = q[i]
      /\ p[Len(q) + 1] = m
  BY AppendElements
<1>2. DOMAIN p = DOMAIN q \union {Len(q) + 1}
  BY <1>1
<1>3. QED  BY <1>1, <1>2 DEF Has, HasStart, HasResultOf

LEMMA TailHas ==
  ASSUME NEW S, NEW q \in Seq(S), q # << >>, NEW p, p = Tail(q), NEW r
  PROVE  /\ Has(p, r) => Has(q, r)
         /\ HasStart(p) => HasStart(q)
         /\ HasResultOf(p, r) => HasResultOf(q, r)
         /\ Has(q, Head(q)) /\ HasResultOf(q, Head(q)[1])
         /\ Head(q)[1] = "start" => HasStart(q)
<1>1. /\ \A i \in DOMAIN p : i + 1 \in DOMAIN q /\ p[i] = q[i + 1]
      /\ q[1] = Head(q) /\ 1 \in DOMAIN q
  BY TailElements
<1>2. QED  BY <1>1 DEF Has, HasStart, HasResultOf

LEMMA AppendKeepsOrder ==
  ASSUME NEW S, NEW q \in Seq(S), NEW m, NEW p, p = Append(q, m), NEW r,
         NoStopAfter(q, r), m # Stop
  PROVE  NoStopAfter(p, r)
<1>1. /\ Len(q) \in Nat /\ DOMAIN q = 1..Len(q) /\ DOMAIN p = 1..(Len(q) + 1)
      /\ \A i \in DOMAIN q : p[i] = q[i]
      /\ p[Len(q) + 1] = m
  BY AppendElements
<1>2. SUFFICES ASSUME NEW i \in DOMAIN p, NEW j \in DOMAIN p, i < j, p[i] = r
               PROVE  p[j] # Stop
  BY DEF NoStopAfter
<1>3. i \in DOMAIN q /\ q[i] = r
  BY <1>1, <1>2
<1>4. CASE j = Len(q) + 1
  BY <1>1, <1>4
<1>5. CASE j # Len(q) + 1
  <2>1. j \in DOMAIN q /\ p[j] = q[j]
    BY <1>1, <1>5
  <2>2. QED  BY <1>2, <1>3, <2>1 DEF NoStopAfter
<1>6. QED  BY <1>4, <1>5

LEMMA AppendOrder ==
  ASSUME NEW S, NEW q \in Seq(S), NEW m, NEW p, p = Append(q, m)
  PROVE  /\ m = Stop => StopIsLast(p)
         /\ StopIsLast(q) /\ m[1] # "start" => StopIsLast(p)
<1>1. /\ Len(q) \in Nat /\ DOMAIN q = 1..Len(q) /\ DOMAIN p = 1..(Len(q) + 1)
      /\ \A i \in DOMAIN q : p[i] = q[i]
      /\ p[Len(q) + 1] = m
  BY AppendElements
<1>2. DOMAIN p = DOMAIN q \union {Len(q) + 1}
  BY <1>1
<1>3. \A j \in DOMAIN p : ~(Len(q) + 1 < j)
  BY <1>1
<1>4. QED  BY <1>1, <1>2, <1>3 DEF StopIsLast

LEMMA TailOrder ==
  ASSUME NEW S, NEW q \in Seq(S), q # << >>, NEW p, p = Tail(q), NEW r
  PROVE  /\ NoStopAfter(q, r) => NoStopAfter(p, r)
         /\ NoStopAfter(q, r) /\ Head(q) = r => ~Has(p, Stop)
         /\ StopIsLast(q) /\ Head(q) # Stop => StopIsLast(p)
         /\ StopIsLast(q) => StopIsLast(p) \/ ~HasStart(p)
<1>1. /\ Len(q) \in Nat \ {0} /\ DOMAIN q = 1..Len(q) /\ DOMAIN p = 1..(Len(q) - 1)
      /\ \A i \in DOMAIN p : i + 1 \in DOMAIN q /\ p[i] = q[i + 1]
      /\ q[1] = Head(q) /\ 1 \in DOMAIN q
  BY TailElements
<1>2. \A i \in DOMAIN p, j \in DOMAIN p : i < j => i + 1 < j + 1
  BY <1>1
<1>3. \A j \in DOMAIN p : 1 < j + 1
  BY <1>1
<1>4. NoStopAfter(q, r) => NoStopAfter(p, r)
  BY <1>1, <1>2 DEF NoStopAfter
<1>5. NoStopAfter(q, r) /\ Head(q) = r => ~Has(p, Stop)
  BY <1>1, <1>3 DEF NoStopAfter, Has
<1>6. ASSUME StopIsLast(q), ~(Head(q) = Stop /\ ~HasStart(p)) PROVE StopIsLast(p)
  <2>1. PICK i \in DOMAIN q : q[i] = Stop /\ \A j \in DOMAIN q : i < j => q[j][1] # "start"
    BY <1>6 DEF StopIsLast
  <2>2. CASE i = 1
    <3>1. \A j \in DOMAIN p : p[j][1] # "start"
      BY <1>1, <1>3, <2>1, <2>2
    <3>2. QED  BY <1>1, <1>6, <2>1, <2>2, <3>1 DEF HasStart
  <2>3. CASE i # 1
    <3>1. i - 1 \in DOMAIN p /\ p[i - 1] = Stop
      BY <1>1, <2>1, <2>3
    <3>2. \A j \in DOMAIN p : i - 1 < j => p[j][1] # "start"
      BY <1>1, <2>1
    <3>3. QED  BY <3>1, <3>2 DEF StopIsLast
  <2>4. QED  BY <2>2, <2>3
<1>7. QED  BY <1>4, <1>5, <1>6

(***************************************************************************)
(* What the GUI sends, and what becomes of the connection.                 *)
(***************************************************************************)
SendsOne ==
  \E m \in Request \union {Stop} : m[2] <= m_coreStartGeneration' /\ Sends(m)
GuiSends ==
  /\ m_coreStartGeneration <= m_coreStartGeneration'
  /\ \/ UNCHANGED toDaemon
     \/ toDaemon' = << >>
     \/ SendsOne
     \/ m_state' = "Connected" /\ toDaemon' = Append(toDaemon, <<"configFile", m_generation>>)

LEMMA KnownGenerations ==
  ASSUME CoreInv
  PROVE  /\ m_coreStartGeneration \in Nat /\ m_generation \in Nat
         /\ m_coreStartGeneration + 1 \in Nat /\ m_generation <= m_coreStartGeneration
         /\ m_coreStartGeneration <= m_coreStartGeneration + 1
BY DEF CoreInv, CoreTypeOK, RecoveriesAreWaitedFor

LEMMA StopIsKnown ==
  ASSUME CoreInv, m_coreStartGeneration <= m_coreStartGeneration', m_coreStartGeneration' \in Nat
  PROVE  Sends(Stop) \/ StopOnLink => UNCHANGED toDaemon \/ SendsOne
<1>1. Stop \in Request \union {Stop} /\ Stop[2] <= m_coreStartGeneration'
  BY DEF Stop
<1>2. QED  BY <1>1 DEF StopOnLink, SendsOne

LEMMA GuiSendsKnown ==
  ASSUME CoreInv, CoreInv', Gui
  PROVE  GuiSends
<1> USE KnownGenerations
<1>a. /\ m_coreStartGeneration' \in Nat /\ m_coreStartGeneration \in Nat
      /\ m_coreStartGeneration <= m_coreStartGeneration
  BY DEF CoreInv, CoreTypeOK
<1>b. ASSUME UNCHANGED m_coreStartGeneration, UNCHANGED toDaemon \/ toDaemon' = << >>
      PROVE  GuiSends
  BY <1>a, <1>b DEF GuiSends
<1>c. ASSUME UNCHANGED m_coreStartGeneration, Sends(Stop) \/ StopOnLink
      PROVE  GuiSends
  BY <1>a, <1>c, StopIsKnown DEF GuiSends
<1>1. ASSUME StartsCore PROVE GuiSends
  <2>1. m_coreStartGeneration' = m_coreStartGeneration + 1
    BY <1>1 DEF StartsCore
  <2>2. UNCHANGED toDaemon \/ Sends(<<"configFile", m_coreStartGeneration'>>)
    BY <1>1, <2>1 DEF StartsCore
  <2>3. <<"configFile", m_coreStartGeneration'>> \in Request
    BY <1>a, RequestsAreRequests
  <2>4. m_coreStartGeneration' <= m_coreStartGeneration'
    BY <1>a
  <2>5. QED  BY <1>a, <2>1, <2>2, <2>3, <2>4 DEF GuiSends, SendsOne
<1>2. ASSUME NEW restart, StopsCore(restart) PROVE GuiSends
  <2>1. m_coreStartGeneration' = m_coreStartGeneration + 1
    BY <1>2 DEF StopsCore
  <2>2. UNCHANGED toDaemon \/ StopOnLink
    BY <1>2 DEF StopsCore
  <2>3. QED  BY <1>a, <2>1, <2>2, StopIsKnown DEF GuiSends
<1>3. CASE User
  BY <1>1, <1>2, <1>b, <1>3 DEF User, UserStarts, UserStops, UserRestarts, ModeChanges
<1>4. CASE RetryTimer
  BY <1>1, <1>b, <1>4 DEF RetryTimer
<1>5. CASE DaemonConnected
  BY <1>a, <1>5 DEF DaemonConnected, GuiSends
<1>6. ASSUME NEW s, PostedStop(s) PROVE GuiSends
  BY <1>b, <1>c, <1>6 DEF PostedStop
<1>7. CASE DaemonCommandResult
  <2>1. UNCHANGED m_coreStartGeneration
    BY <1>7 DEF DaemonCommandResult
  <2>2. UNCHANGED toDaemon \/ Sends(Stop) \/ Sends(<<"start", m_generation>>)
    BY <1>7 DEF DaemonCommandResult
  <2>3. CASE Sends(<<"start", m_generation>>)
    <3>1. <<"start", m_generation>> \in Request
      BY RequestsAreRequests
    <3>2. QED  BY <1>a, <2>1, <2>3, <3>1 DEF GuiSends, SendsOne
  <2>4. QED  BY <1>b, <1>c, <2>1, <2>2, <2>3
<1>8. CASE StartTimesOut \/ CoreConnectionLost
  BY <1>b, <1>c, <1>8 DEF StartTimesOut, CoreConnectionLost
<1>9. ASSUME NEW choice, DialogCloses(choice) PROVE GuiSends
  <2>1. UNCHANGED toDaemon \/ StopOnLink \/ toDaemon' = << >>
    BY <1>9 DEF DialogCloses, Reconnects, CutLink
  <2>2. QED  BY <1>b, <1>c, <1>9, <2>1 DEF DialogCloses
<1>10. CASE ProcessFinished
  BY <1>b, <1>c, <1>10 DEF ProcessFinished, ChecksExistingProcess
<1>11. CASE \/ DaemonConnectionFailed \/ CoreConnected \/ ProcessStarted \/ GuiFault
            \/ \E g \in reconnects : ReconnectTimer(g)
            \/ \E r \in recoveries : RecoveryAsks(r) \/ RecoveryEnds(r) \/ RecoveryFails(r)
            \/ \E code : ProcessEnds(code)
  BY <1>b, <1>11
  DEF DaemonConnectionFailed, CoreConnected, ProcessStarted, GuiFault, ProcessFailedToStart,
      ReconnectTimer, RecoveryAsks, RecoveryEnds, RecoveryFails, ProcessEnds, coreVars
<1>12. CASE GuiStep
  BY <1>4, <1>5, <1>6, <1>7, <1>8, <1>9, <1>10, <1>11, <1>12 DEF GuiStep
<1>13. QED  BY <1>3, <1>11, <1>12 DEF Gui

\* The GUI takes results from the head, or forgets them.
LEMMA GuiTakesResults ==
  ASSUME CoreInv, WatchdogTypeOK, Gui
  PROVE  /\ \/ toGui' \in {toGui, << >>}
            \/ toGui # << >> /\ toGui' = Tail(toGui)
         /\ m_pendingCommands' \subseteq m_pendingCommands
         /\ UNCHANGED <<posted, m_startResultCallback, m_command, m_configFile, daemonUp,
                        daemonEnded>>
<1>1. m_pendingCommands' \subseteq m_pendingCommands
  BY GuiTouchesLittle DEF CoreInv
<1>2. UNCHANGED <<posted, m_startResultCallback, m_command, m_configFile, daemonUp, daemonEnded>>
  BY DEF Gui, OfGui, watchdogVars
<1>3. \/ toGui' \in {toGui, << >>}
      \/ toGui # << >> /\ toGui' = Tail(toGui)
  <2>a. ASSUME StartsCore \/ StopsCore(TRUE) \/ StopsCore(FALSE)
        PROVE  UNCHANGED toGui
    BY <2>a DEF StartsCore, StopsCore, StopOnLink
  <2>1. CASE User \/ RetryTimer
    BY <2>a, <2>1 DEF User, UserStarts, UserStops, UserRestarts, ModeChanges, RetryTimer
  <2>2. ASSUME NEW choice, DialogCloses(choice)
        PROVE  toGui' \in {toGui, << >>}
    BY <2>2 DEF DialogCloses, Reconnects, StopOnLink
  <2>3. CASE DaemonCommandResult
    BY <2>3 DEF DaemonCommandResult
  <2>4. ASSUME Gui, ~(User \/ RetryTimer), ~(\E choice : DialogCloses(choice)), ~DaemonCommandResult
        PROVE  toGui' \in {toGui, << >>}
    BY <2>4 DEF Gui, GuiStep, GuiFault,
       DaemonConnected, DaemonConnectionFailed, PostedStop,
       StartTimesOut, CoreConnected, CoreConnectionLost, ReconnectTimer,
       ProcessStarted, ProcessFinished, RecoveryAsks, RecoveryEnds, RecoveryFails, ProcessEnds,
       ProcessFailedToStart, StopOnLink, ChecksExistingProcess, coreVars
  <2>5. QED  BY <2>1, <2>2, <2>3, <2>4
<1>4. QED  BY <1>1, <1>2, <1>3

LEMMA GuiKeepsKnown ==
  ASSUME CoreInv, CoreInv', DaemonInv, ResultsType, RequestsAreKnown, Gui
  PROVE  ResultsType' /\ RequestsAreKnown'
<1>a. WatchdogTypeOK /\ RequestsType
  BY DEF DaemonInv, DaemonIsConsistent
<1>b. /\ m_coreStartGeneration \in Nat /\ m_coreStartGeneration' \in Nat
      /\ m_coreStartGeneration <= m_coreStartGeneration' /\ m_generation \in Nat
      /\ m_generation <= m_coreStartGeneration
  BY GuiSendsKnown DEF GuiSends, CoreInv, CoreTypeOK, RecoveriesAreWaitedFor
<1>1. \/ toGui' \in {toGui, << >>}
      \/ toGui # << >> /\ toGui' = Tail(toGui)
  BY <1>a, GuiTakesResults
<1>2. /\ m_pendingCommands' \subseteq m_pendingCommands
      /\ UNCHANGED <<posted, m_startResultCallback>>
  BY <1>a, GuiTakesResults
<1>3. toGui' \in Seq(Result)
  <2>1. PICK S : S = Result
    OBVIOUS
  <2>2. toGui \in Seq(S) => toGui' \in Seq(S)
    <3>1. CASE toGui' = toGui
      BY <3>1
    <3>2. CASE toGui' = << >>
      BY <3>2
    <3>3. CASE toGui # << >> /\ toGui' = Tail(toGui)
      BY <3>3
    <3>4. QED  BY <1>1, <3>1, <3>2, <3>3
  <2>3. QED  BY <2>1, <2>2 DEF ResultsType
<1>4. \A i \in DOMAIN toGui' : toGui'[i][1][2] <= m_coreStartGeneration'
  <2>1. \A i \in DOMAIN toGui' : \E j \in DOMAIN toGui : toGui'[i] = toGui[j]
    <3>1. CASE toGui' = toGui
      BY <3>1
    <3>2. CASE toGui' = << >>
      BY <3>2
    <3>3. CASE toGui # << >> /\ toGui' = Tail(toGui)
      BY <3>3, TailElements DEF ResultsType
    <3>4. QED  BY <1>1, <3>1, <3>2, <3>3
  <2>2. \A j \in DOMAIN toGui : toGui[j][1][2] \in Nat
    BY DEF ResultsType, Result, Request
  <2>3. QED  BY <1>b, <2>1, <2>2 DEF RequestsAreKnown
<1>5. \A i \in DOMAIN toDaemon' : toDaemon'[i][2] <= m_coreStartGeneration'
  <2>0. \A j \in DOMAIN toDaemon : toDaemon[j][2] \in Nat
    BY <1>a DEF RequestsType, Request, Stop
  <2>1. \A j \in DOMAIN toDaemon : toDaemon[j][2] <= m_coreStartGeneration'
    BY <1>b, <2>0 DEF RequestsAreKnown
  <2>2. ASSUME NEW m, m[2] <= m_coreStartGeneration', toDaemon' = Append(toDaemon, m)
        PROVE  \A i \in DOMAIN toDaemon' : toDaemon'[i][2] <= m_coreStartGeneration'
    <3>1. /\ Len(toDaemon) \in Nat /\ DOMAIN toDaemon = 1..Len(toDaemon)
          /\ DOMAIN toDaemon' = 1..(Len(toDaemon) + 1)
          /\ \A i \in DOMAIN toDaemon : toDaemon'[i] = toDaemon[i]
          /\ toDaemon'[Len(toDaemon) + 1] = m
      BY <1>a, <2>2, AppendElements DEF RequestsType
    <3>2. DOMAIN toDaemon' = DOMAIN toDaemon \union {Len(toDaemon) + 1}
      BY <3>1
    <3>3. QED  BY <2>1, <2>2, <3>1, <3>2
  <2>3. CASE toDaemon' \in {toDaemon, << >>}
    BY <2>1, <2>3
  <2>4. CASE SendsOne
    BY <2>2, <2>3, <2>4 DEF SendsOne, Sends
  <2>5. CASE toDaemon' = Append(toDaemon, <<"configFile", m_generation>>)
    <3>1. <<"configFile", m_generation>>[2] <= m_coreStartGeneration'
      BY <1>b
    <3>2. QED  BY <2>2, <2>5, <3>1
  <2>6. QED  BY <2>3, <2>4, <2>5, GuiSendsKnown DEF GuiSends
<1>6. /\ \A r \in m_pendingCommands' : r[2] <= m_coreStartGeneration'
      /\ \A a \in posted' : a[1][2] <= m_coreStartGeneration'
      /\ m_startResultCallback'[2] <= m_coreStartGeneration'
  <2>1. /\ \A r \in m_pendingCommands : r[2] \in Nat
        /\ \A a \in posted : a[1][2] \in Nat
        /\ m_startResultCallback[2] \in Nat
    BY DEF ResultsType, StartRequest, NoRequest
  <2>2. QED  BY <1>2, <1>b, <2>1 DEF RequestsAreKnown
<1>7. QED  BY <1>2, <1>3, <1>4, <1>5, <1>6 DEF ResultsType, RequestsAreKnown

\* The connection, as the GUI's handlers change it.
GuiLink ==
  \/ /\ UNCHANGED m_state /\ (m_state = "Connected" \/ toDaemon' = toDaemon)
     /\ postedStops' \subseteq postedStops /\ dialogs' <= dialogs
  \/ /\ ~IsConnected /\ m_state' = "Connecting" /\ UNCHANGED toDaemon
     /\ postedStops' \subseteq postedStops /\ dialogs' <= dialogs
  \/ m_state # "Lost" /\ m_state' = "Connected" /\ UNCHANGED dialogs
  \/ DaemonConnectionFailed
  \/ /\ dialogs > 0 /\ dialogs' <= dialogs /\ m_state' = "Connecting"
     /\ toDaemon' = << >> \/ (~IsConnected /\ UNCHANGED toDaemon)

LEMMA SendsOnLink ==
  ASSUME NEW m, Sends(m) PROVE m_state = "Connected" \/ toDaemon' = toDaemon
BY DEF Sends

LEMMA GuiLinks ==
  ASSUME CoreInv, Gui
  PROVE  GuiLink
<1>0. dialogs \in Nat /\ dialogs <= dialogs
  BY DEF CoreInv, CoreTypeOK
<1>a. ASSUME UNCHANGED linkVars, postedStops' \subseteq postedStops, dialogs' <= dialogs
      PROVE  GuiLink
  BY <1>a DEF GuiLink
<1>b. ASSUME StopOnLink, postedStops' = postedStops, dialogs' <= dialogs
      PROVE  GuiLink
  BY <1>b, SendsOnLink DEF GuiLink, StopOnLink, Connects
<1>1. ASSUME StartsCore PROVE GuiLink
  BY <1>0, <1>1, SendsOnLink DEF GuiLink, StartsCore, Connects
<1>2. ASSUME NEW restart, StopsCore(restart) PROVE GuiLink
  BY <1>0, <1>a, <1>b, <1>2 DEF StopsCore, DaemonStop
<1>3. CASE User
  BY <1>0, <1>a, <1>1, <1>2, <1>3 DEF User, UserStarts, UserStops, UserRestarts, ModeChanges
<1>4. CASE RetryTimer
  BY <1>0, <1>a, <1>1, <1>4 DEF RetryTimer
<1>5. CASE DaemonConnected
  BY <1>5 DEF DaemonConnected, GuiLink
<1>6. ASSUME NEW s, PostedStop(s) PROVE GuiLink
  BY <1>0, <1>6, SendsOnLink DEF PostedStop, GuiLink
<1>7. CASE DaemonCommandResult
  BY <1>0, <1>7, SendsOnLink DEF DaemonCommandResult, GuiLink, ServiceStartFails, DaemonStop
<1>8. CASE StartTimesOut \/ CoreConnectionLost
  BY <1>0, <1>a, <1>b, <1>8 DEF StartTimesOut, CoreConnectionLost, ServiceStartFails, DaemonStop
<1>9. ASSUME NEW choice, DialogCloses(choice) PROVE GuiLink
  <2>1. dialogs > 0 /\ dialogs' = dialogs - 1 /\ dialogs' <= dialogs
    BY <1>0, <1>9 DEF DialogCloses
  <2>2. postedStops' = postedStops
    BY <1>9 DEF DialogCloses, ServiceStartFails, DaemonStop
  <2>3. CASE Reconnects
    BY <2>1, <2>2, <2>3 DEF Reconnects, CutLink, GuiLink
  <2>4. CASE ~Reconnects
    BY <1>9, <1>a, <1>b, <2>1, <2>2, <2>4 DEF DialogCloses
  <2>5. QED  BY <2>3, <2>4
<1>10. CASE ProcessFinished
  BY <1>0, <1>a, <1>b, <1>10 DEF ProcessFinished, ChecksExistingProcess, DaemonStop
<1>11. CASE \/ CoreConnected \/ ProcessStarted \/ GuiFault
            \/ \E g \in reconnects : ReconnectTimer(g)
            \/ \E r \in recoveries : RecoveryAsks(r) \/ RecoveryEnds(r) \/ RecoveryFails(r)
            \/ \E code : ProcessEnds(code)
  BY <1>0, <1>a, <1>11
  DEF CoreConnected, ProcessStarted, GuiFault, ProcessFailedToStart,
      ReconnectTimer, RecoveryAsks, RecoveryEnds, RecoveryFails, ProcessEnds, coreVars
<1>12. CASE DaemonConnectionFailed
  BY <1>12 DEF GuiLink
<1>13. CASE GuiStep
  BY <1>4, <1>5, <1>6, <1>7, <1>8, <1>9, <1>10, <1>11, <1>12, <1>13 DEF GuiStep
<1>14. QED  BY <1>3, <1>11, <1>13 DEF Gui

LEMMA GuiKeepsLink ==
  ASSUME CoreInv, CoreInv', LinkFollowsDaemon, Gui
  PROVE  LinkFollowsDaemon'
<1>0. dialogs \in Nat /\ dialogs' \in Nat /\ UNCHANGED <<daemonUp, daemonEnded>>
  BY DEF CoreInv, CoreTypeOK, Gui, OfGui
<1>1. CASE /\ UNCHANGED m_state /\ (m_state = "Connected" \/ toDaemon' = toDaemon)
           /\ postedStops' \subseteq postedStops /\ dialogs' <= dialogs
  <2>1. dialogs' > 0 => dialogs > 0
    BY <1>0, <1>1
  <2>2. QED  BY <1>0, <1>1, <2>1 DEF LinkFollowsDaemon
<1>2. CASE /\ ~IsConnected /\ m_state' = "Connecting" /\ UNCHANGED toDaemon
           /\ postedStops' \subseteq postedStops /\ dialogs' <= dialogs
  <2>1. dialogs' > 0 => dialogs > 0
    BY <1>0, <1>2
  <2>2. QED  BY <1>0, <1>2, <2>1 DEF LinkFollowsDaemon, IsConnected
<1>3. CASE m_state # "Lost" /\ m_state' = "Connected" /\ UNCHANGED dialogs
  BY <1>0, <1>3 DEF LinkFollowsDaemon
<1>4. CASE DaemonConnectionFailed
  BY <1>0, <1>4 DEF LinkFollowsDaemon, DaemonConnectionFailed
<1>5. CASE /\ dialogs > 0 /\ dialogs' <= dialogs /\ m_state' = "Connecting"
           /\ toDaemon' = << >> \/ (~IsConnected /\ UNCHANGED toDaemon)
  BY <1>0, <1>5 DEF LinkFollowsDaemon, IsConnected
<1>6. QED  BY <1>1, <1>2, <1>3, <1>4, <1>5, GuiLinks DEF GuiLink

(***************************************************************************)
(* What the daemon takes and answers.                                      *)
(***************************************************************************)
LEMMA ToGuiAppend ==
  ASSUME toGui \in Seq(Result), NEW r \in Request, NEW ok \in BOOLEAN,
         toGui' = Append(toGui, <<r, ok>>), r[2] <= m_coreStartGeneration,
         \A i \in DOMAIN toGui : toGui[i][1][2] <= m_coreStartGeneration
  PROVE  /\ toGui' \in Seq(Result)
         /\ \A i \in DOMAIN toGui' : toGui'[i][1][2] <= m_coreStartGeneration
<1>1. PICK S : S = Result
  OBVIOUS
<1>2. PICK m : m = <<r, ok>>
  OBVIOUS
<1>3. m \in S /\ m[1] = r
  BY <1>1, <1>2 DEF Result
<1>4. toGui' \in Seq(S)
  BY <1>1, <1>2, <1>3
<1>5. /\ Len(toGui) \in Nat /\ DOMAIN toGui = 1..Len(toGui)
      /\ DOMAIN toGui' = 1..(Len(toGui) + 1)
      /\ \A i \in DOMAIN toGui : toGui'[i] = toGui[i]
      /\ toGui'[Len(toGui) + 1] = m
  BY <1>1, <1>2, AppendElements
<1>6. DOMAIN toGui' = DOMAIN toGui \union {Len(toGui) + 1}
  BY <1>5
<1>7. QED  BY <1>1, <1>3, <1>4, <1>5, <1>6

\* The head of the requests is known, and so are the others.
LEMMA ReceivedIsKnown ==
  ASSUME DaemonInv, RequestsAreKnown, NEW kind, Receives(kind)
  PROVE  /\ Head(toDaemon) \in Request \union {Stop}
         /\ Head(toDaemon)[2] <= m_coreStartGeneration
         /\ \A i \in DOMAIN toDaemon' : toDaemon'[i][2] <= m_coreStartGeneration
<1>1. RequestsType /\ toDaemon # << >> /\ toDaemon' = Tail(toDaemon)
  BY DEF DaemonInv, Receives
<1>2. /\ \A i \in DOMAIN toDaemon' : i + 1 \in DOMAIN toDaemon /\ toDaemon'[i] = toDaemon[i + 1]
      /\ toDaemon[1] = Head(toDaemon) /\ 1 \in DOMAIN toDaemon
  BY <1>1, TailElements DEF RequestsType
<1>3. QED  BY <1>1, <1>2, HeadOfRequests DEF RequestsAreKnown

LEMMA KnownKinds ==
  /\ \A r \in Request \union {Stop} : r[1] = "start" => r \in StartRequest
  /\ \A r \in Request \union {Stop} : r[1] = "configFile" => r \in Request
  /\ StartRequest \subseteq Request
BY DEF Request, Stop, StartRequest

LEMMA AnswersAreKnown ==
  ASSUME NEW r \in StartRequest \union {NoRequest}, r[2] <= m_coreStartGeneration,
         NEW ok \in BOOLEAN
  PROVE  /\ Answer(r, ok) \subseteq StartRequest \X BOOLEAN
         /\ \A a \in Answer(r, ok) : a[1][2] <= m_coreStartGeneration
BY DEF Answer

LEMMA DaemonKeepsKnown ==
  ASSUME CoreInv, DaemonInv, ResultsType, RequestsAreKnown, Daemon
  PROVE  ResultsType' /\ RequestsAreKnown'
<1>a. /\ m_coreStartGeneration \in Nat /\ m_coreStartGeneration' = m_coreStartGeneration
      /\ 0 <= m_coreStartGeneration
  BY DEF CoreInv, CoreTypeOK, Daemon, OfDaemon, coreVars
<1>b. NoRequest[2] = 0
  BY DEF NoRequest
<1>1. CASE setConfigFile
  <2>1. PICK r : r = Head(toDaemon)
    OBVIOUS
  <2>2. /\ r \in Request /\ r[2] <= m_coreStartGeneration
        /\ \A i \in DOMAIN toDaemon' : toDaemon'[i][2] <= m_coreStartGeneration
    BY <1>1, <2>1, ReceivedIsKnown, KnownKinds DEF setConfigFile, Receives
  <2>3. PICK ok \in BOOLEAN :
          /\ toGui' = Append(toGui, <<r, ok>>)
          /\ UNCHANGED <<m_pendingCommands, posted, m_startResultCallback>>
    BY <1>1, <2>1 DEF setConfigFile
  <2>4. /\ toGui' \in Seq(Result)
        /\ \A i \in DOMAIN toGui' : toGui'[i][1][2] <= m_coreStartGeneration
    BY <2>2, <2>3, ToGuiAppend DEF ResultsType, RequestsAreKnown
  <2>5. QED  BY <1>a, <2>2, <2>3, <2>4 DEF ResultsType, RequestsAreKnown
<1>2. CASE applyWatchdogCommand
  <2>1. PICK r : r = Head(toDaemon)
    OBVIOUS
  <2>2. /\ r \in StartRequest /\ r \in Request /\ r[2] <= m_coreStartGeneration
        /\ \A i \in DOMAIN toDaemon' : toDaemon'[i][2] <= m_coreStartGeneration
    BY <1>2, <2>1, ReceivedIsKnown, KnownKinds DEF applyWatchdogCommand, Receives
  <2>3. CASE /\ settings # NoCommand /\ setProcessConfig(settings, r)
             /\ m_pendingCommands' = m_pendingCommands \union {r} /\ UNCHANGED toGui
    <3>1. /\ m_startResultCallback' \in {NoRequest, r}
          /\ posted' \subseteq posted \union Answer(m_startResultCallback, FALSE)
                                \union Answer(r, TRUE)
      BY <2>3 DEF setProcessConfig, Superseded
    <3>a. /\ Answer(m_startResultCallback, FALSE) \subseteq StartRequest \X BOOLEAN
          /\ \A a \in Answer(m_startResultCallback, FALSE) : a[1][2] <= m_coreStartGeneration
      BY AnswersAreKnown DEF ResultsType, RequestsAreKnown
    <3>b. /\ Answer(r, TRUE) \subseteq StartRequest \X BOOLEAN
          /\ \A a \in Answer(r, TRUE) : a[1][2] <= m_coreStartGeneration
      BY <2>2, AnswersAreKnown
    <3>2. posted' \subseteq StartRequest \X BOOLEAN
      BY <3>1, <3>a, <3>b DEF ResultsType
    <3>3. \A a \in posted' : a[1][2] <= m_coreStartGeneration
      BY <3>1, <3>a, <3>b DEF RequestsAreKnown
    <3>4. QED  BY <1>a, <1>b, <2>2, <2>3, <3>1, <3>2, <3>3 DEF ResultsType, RequestsAreKnown
  <2>4. CASE /\ toGui' = Append(toGui, <<r, FALSE>>)
             /\ UNCHANGED <<m_pendingCommands, m_startResultCallback, posted>>
    <3>1. /\ toGui' \in Seq(Result)
          /\ \A i \in DOMAIN toGui' : toGui'[i][1][2] <= m_coreStartGeneration
      BY <2>2, <2>4, ToGuiAppend DEF ResultsType, RequestsAreKnown
    <3>2. QED  BY <1>a, <2>2, <2>4, <3>1 DEF ResultsType, RequestsAreKnown
  <2>5. QED  BY <1>2, <2>1, <2>3, <2>4 DEF applyWatchdogCommand
<1>3. CASE clearWatchdogCommand
  <2>1. /\ \A i \in DOMAIN toDaemon' : toDaemon'[i][2] <= m_coreStartGeneration
        /\ UNCHANGED <<toGui, m_pendingCommands>>
    BY <1>3, ReceivedIsKnown DEF clearWatchdogCommand
  <2>2. /\ m_startResultCallback' = NoRequest
        /\ posted' \subseteq posted \union Answer(m_startResultCallback, FALSE)
    BY <1>3 DEF clearWatchdogCommand, setProcessConfig, Superseded
  <2>a. /\ Answer(m_startResultCallback, FALSE) \subseteq StartRequest \X BOOLEAN
        /\ \A a \in Answer(m_startResultCallback, FALSE) : a[1][2] <= m_coreStartGeneration
    BY AnswersAreKnown DEF ResultsType, RequestsAreKnown
  <2>3. posted' \subseteq StartRequest \X BOOLEAN
    BY <2>2, <2>a DEF ResultsType
  <2>4. \A a \in posted' : a[1][2] <= m_coreStartGeneration
    BY <2>2, <2>a DEF RequestsAreKnown
  <2>5. QED  BY <1>a, <1>b, <2>1, <2>2, <2>3, <2>4 DEF ResultsType, RequestsAreKnown
<1>4. ASSUME NEW a \in posted, Delivers(a[1], a[2])
      PROVE  ResultsType' /\ RequestsAreKnown'
  <2>1. PICK r, ok : r = a[1] /\ ok = a[2]
    OBVIOUS
  <2>2. /\ r \in Request /\ r \in StartRequest /\ ok \in BOOLEAN /\ r[2] <= m_coreStartGeneration
    BY <2>1, KnownKinds DEF ResultsType, RequestsAreKnown
  <2>3. /\ posted' \subseteq posted /\ m_pendingCommands' \subseteq m_pendingCommands
        /\ UNCHANGED <<toDaemon, m_startResultCallback>>
        /\ toGui' = toGui \/ toGui' = Append(toGui, <<r, ok>>)
    BY <1>4, <2>1 DEF Delivers, Completes
  <2>4. /\ toGui' \in Seq(Result)
        /\ \A i \in DOMAIN toGui' : toGui'[i][1][2] <= m_coreStartGeneration
    BY <2>2, <2>3, ToGuiAppend DEF ResultsType, RequestsAreKnown
  <2>5. QED  BY <1>a, <2>3, <2>4 DEF ResultsType, RequestsAreKnown
<1>5. CASE LoopBegins \/ StartTimeReached \/ Starts \/ ProcessIsMissed \/ StartFails \/ Stops
           \/ ServiceCoreEnds \/ Boots
  <2>1. /\ UNCHANGED linkVars
        /\ m_startResultCallback' \in {m_startResultCallback, NoRequest}
        /\ \E ok \in BOOLEAN : posted' \subseteq posted \union Answer(m_startResultCallback, ok)
    BY <1>5 DEF LoopBegins, StartTimeReached, Starts, ProcessIsMissed, StartFails, Stops,
       ServiceCoreEnds, Boots, watchdogVars
  <2>a. \A ok \in BOOLEAN :
          /\ Answer(m_startResultCallback, ok) \subseteq StartRequest \X BOOLEAN
          /\ \A a \in Answer(m_startResultCallback, ok) : a[1][2] <= m_coreStartGeneration
    BY AnswersAreKnown DEF ResultsType, RequestsAreKnown
  <2>2. posted' \subseteq StartRequest \X BOOLEAN
    BY <2>1, <2>a DEF ResultsType
  <2>3. \A a \in posted' : a[1][2] <= m_coreStartGeneration
    BY <2>1, <2>a DEF RequestsAreKnown
  <2>4. QED  BY <1>a, <1>b, <2>1, <2>2, <2>3 DEF ResultsType, RequestsAreKnown
<1>6. CASE Crashes \/ ServiceStops
  BY <1>a, <1>b, <1>6 DEF Crashes, ServiceStops, Forgets, CutLink, ResultsType, RequestsAreKnown
<1>7. QED  BY <1>1, <1>2, <1>3, <1>4, <1>5, <1>6 DEF Daemon, Ipc, Loop, DaemonFault

LEMMA DaemonKeepsLink ==
  ASSUME DaemonInv, LinkFollowsDaemon, Daemon
  PROVE  LinkFollowsDaemon'
<1>1. UNCHANGED <<postedStops, dialogs>>
  BY DEF Daemon, OfDaemon, coreVars
<1>2. CASE Crashes \/ ServiceStops
  <2>1. daemonEnded' = TRUE
    BY <1>2 DEF Daemon, OfDaemon, Crashes, ServiceStops, Boots
  <2>2. toDaemon' = << >>
    BY <1>2 DEF Crashes, ServiceStops, Forgets, CutLink
  <2>3. QED  BY <2>1, <2>2 DEF LinkFollowsDaemon
<1>3. CASE Boots
  BY <1>1, <1>3 DEF Daemon, OfDaemon, Boots, LinkFollowsDaemon
<1>4. CASE Ipc \/ Loop \/ DaemonFault
  <2>1. UNCHANGED m_state
    BY <1>4 DEF Ipc, Loop, DaemonFault, setConfigFile, applyWatchdogCommand, clearWatchdogCommand,
       Delivers, LoopBegins, StartTimeReached, Starts, ProcessIsMissed, StartFails, Stops,
       ServiceCoreEnds
  <2>2. toDaemon' = toDaemon \/ toDaemon # << >>
    BY <1>4 DEF Ipc, Loop, DaemonFault, setConfigFile, applyWatchdogCommand, clearWatchdogCommand,
       Delivers, LoopBegins, StartTimeReached, Starts, ProcessIsMissed, StartFails, Stops,
       ServiceCoreEnds, Receives
  <2>3. CASE OfDaemon
    BY <1>1, <2>1, <2>2, <2>3 DEF OfDaemon, LinkFollowsDaemon
  <2>4. QED  BY <1>2, <1>3, <2>3 DEF Daemon
<1>5. QED  BY <1>2, <1>3, <1>4 DEF Daemon

(***************************************************************************)
(* The GUI's steps keep the agreement.  Most of them send nothing and only *)
(* leave the state in which the core is served, or go on in it.            *)
(***************************************************************************)
Agree == AwaitsItsOwn /\ ConfigFileStays /\ StartsAreAskedFor /\ CommandStays /\ StopsArrive
DaemonSide == <<posted, m_startResultCallback, m_command, m_configFile, daemonUp, daemonEnded>>

LEMMA QuietKeepsAgreement ==
  ASSUME Agree, UNCHANGED <<linkVars, stopVars, DaemonSide, m_lastProcessMode>>,
         \/ ~Serving' /\ (Resting' => Resting)
         \/ /\ Serving /\ Serving' /\ UNCHANGED m_coreStartGeneration
            /\ \/ UNCHANGED <<processState, m_stage, m_daemonConfigRequestId,
                              m_daemonStartRequestId>>
               \/ /\ processState' = "Started"
                  /\ processState = "Started" \/ m_stage = "WaitingForCore"
  PROVE  Agree'
<1> USE DEF Agree, DaemonSide
<1>1. CASE ~Serving' /\ (Resting' => Resting)
  <2>1. AwaitsItsOwn' /\ ConfigFileStays' /\ StartsAreAskedFor' /\ CommandStays'
    BY <1>1 DEF AwaitsItsOwn, ConfigFileStays, StartsAreAskedFor, CommandStays
  <2>2. StopsArrive'
    BY <1>1 DEF StopsArrive, Off
  <2>3. QED  BY <2>1, <2>2
<1>2. CASE Serving /\ Serving' /\ UNCHANGED m_coreStartGeneration
  <2>1. StopsArrive'
    BY <1>2 DEF StopsArrive, Serving, Resting
  <2>2. Served' = Served /\ Commanded' = Commanded
    BY DEF Served, Commanded
  <2>3. CASE UNCHANGED <<processState, m_stage, m_daemonConfigRequestId, m_daemonStartRequestId>>
    <3>1. Asked' = Asked
      BY <2>3 DEF Asked, Serving
    <3>2. AwaitsItsOwn' /\ StartsAreAskedFor'
      BY <1>2, <2>3, <3>1 DEF AwaitsItsOwn, StartsAreAskedFor
    <3>3. ConfigFileStays' /\ CommandStays'
      BY <1>2, <2>2, <2>3, <3>1 DEF ConfigFileStays, CommandStays
    <3>4. QED  BY <2>1, <3>2, <3>3
  <2>4. CASE processState' = "Started" /\ (processState = "Started" \/ m_stage = "WaitingForCore")
    <3>1. Asked /\ Asked'
      BY <1>2, <2>4 DEF Asked
    <3>2. AwaitsItsOwn' /\ StartsAreAskedFor'
      BY <2>4, <3>1 DEF AwaitsItsOwn, StartsAreAskedFor
    <3>3. ConfigFileStays' /\ CommandStays'
      BY <1>2, <2>2, <2>4, <3>1 DEF ConfigFileStays, CommandStays
    <3>4. QED  BY <2>1, <3>2, <3>3
  <2>5. QED  BY <1>1, <2>3, <2>4
<1>3. QED  BY <1>1, <1>2

\* The GUI leaves that state with a stop: sent, or waiting for the connection.
StopIsOnItsWay ==
  \/ m_state = "Connected" /\ toDaemon' = Append(toDaemon, Stop)
  \/ daemonEnded
  \/ \E d \in waitingStops' : d.generation = m_daemonCommandGeneration'
LEMMA LeavingKeepsAgreement ==
  ASSUME RequestsType, ~Serving', UNCHANGED daemonEnded, StopIsOnItsWay
  PROVE  Agree'
<1>1. AwaitsItsOwn' /\ ConfigFileStays' /\ StartsAreAskedFor' /\ CommandStays'
  BY DEF AwaitsItsOwn, ConfigFileStays, StartsAreAskedFor, CommandStays
<1>2. StopsArrive'
  <2>1. CASE toDaemon' = Append(toDaemon, Stop)
    <3>1. StopIsLast(toDaemon')
      BY <2>1, AppendOrder DEF RequestsType
    <3>2. QED  BY <3>1 DEF StopsArrive, Off
  <2>2. QED  BY <2>1 DEF StopsArrive, Off, StopIsOnItsWay
<1>3. QED  BY <1>1, <1>2 DEF Agree

LEMMA DaemonStopIsOnItsWay ==
  ASSUME LinkFollowsDaemon, NEW ends, DaemonStop(IsConnected, ends), StopOnLink
  PROVE  StopIsOnItsWay
<1>1. CASE m_state = "Connected"
  BY <1>1 DEF StopIsOnItsWay, StopOnLink, Sends, IsConnected
<1>2. CASE m_state = "Lost"
  BY <1>2 DEF StopIsOnItsWay, LinkFollowsDaemon
<1>3. CASE ~IsConnected
  <2>1. PICK d : d = [generation |-> m_daemonCommandGeneration + 1, ends |-> ends]
    OBVIOUS
  <2>2. d \in waitingStops' /\ d.generation = m_daemonCommandGeneration'
    BY <1>3, <2>1 DEF DaemonStop
  <2>3. QED  BY <2>2 DEF StopIsOnItsWay
<1>4. QED  BY <1>1, <1>2, <1>3 DEF IsConnected

\* A new start: nothing of it is on its way yet.
LEMMA StartingKeepsAgreement ==
  ASSUME CoreInv, DaemonInv, ResultsType, RequestsAreKnown, Agree, StartsCore,
         UNCHANGED DaemonSide
  PROVE  Agree'
<1> USE DEF DaemonSide
<1>a. /\ m_coreStartGeneration \in Nat /\ m_coreStartGeneration' = m_coreStartGeneration + 1
      /\ processState' = "Starting" /\ m_lastProcessMode' = processMode
  BY DEF CoreInv, CoreTypeOK, StartsCore
<1>1. CASE processMode = Desktop
  <2>1. ~Serving' /\ ~Resting'
    BY <1>1, <1>a, ModeAssumption DEF Serving, Resting
  <2>2. QED
    BY <2>1 DEF Agree, AwaitsItsOwn, ConfigFileStays, StartsAreAskedFor, CommandStays, StopsArrive
<1>2. CASE processMode = Service
  <2>a. /\ m_daemonCommandGeneration' = m_daemonCommandGeneration + 1
        /\ UNCHANGED <<waitingStops, postedStops, toGui, m_pendingCommands>>
        /\ m_stage' \in {"WaitingForConfig", "WaitingForDaemon"}
        /\ m_daemonStartRequestId' = NoRequest
        /\ m_stage' = "WaitingForConfig" =>
             m_daemonConfigRequestId' = ConfigFileOf(m_coreStartGeneration')
        /\ UNCHANGED toDaemon \/ toDaemon' = Append(toDaemon, ConfigFileOf(m_coreStartGeneration'))
    BY <1>2, <1>a, ModeAssumption DEF StartsCore, ConfigFileOf, Sends
  <2>b. ~Asked' /\ ~Resting'
    BY <1>a, <2>a DEF Asked, Resting
  <2>1. AwaitsItsOwn'
    BY <2>a DEF AwaitsItsOwn
  <2>2. /\ ~Has(toDaemon, ConfigFileOf(m_coreStartGeneration'))
        /\ ~Has(toDaemon, StartOf(m_coreStartGeneration'))
    <3>1. \A i \in DOMAIN toDaemon : toDaemon[i][2] <= m_coreStartGeneration
      BY DEF RequestsAreKnown
    <3>2. QED  BY <1>a, <3>1 DEF Has, ConfigFileOf, StartOf
  <2>3. /\ ~Has(toGui, <<ConfigFileOf(m_coreStartGeneration'), TRUE>>)
        /\ ~HasResultOf(toGui, StartOf(m_coreStartGeneration'))
        /\ ~Has(toGui, <<StartOf(m_coreStartGeneration'), TRUE>>)
    <3>1. \A i \in DOMAIN toGui : toGui[i][1][2] <= m_coreStartGeneration
      BY DEF RequestsAreKnown
    <3>2. PICK g : g = m_coreStartGeneration' /\ ~(g <= m_coreStartGeneration)
      BY <1>a
    <3>3. /\ \A i \in DOMAIN toGui : toGui[i][1] # ConfigFileOf(g)
          /\ \A i \in DOMAIN toGui : toGui[i][1] # StartOf(g)
      BY <3>1, <3>2 DEF ConfigFileOf, StartOf
    <3>4. \A i \in DOMAIN toGui :
            toGui[i] # <<StartOf(g), TRUE>> /\ toGui[i] # <<ConfigFileOf(g), TRUE>>
      <4>1. <<StartOf(g), TRUE>>[1] = StartOf(g) /\ <<ConfigFileOf(g), TRUE>>[1] = ConfigFileOf(g)
        OBVIOUS
      <4>2. QED  BY <3>3, <4>1
    <3>5. QED  BY <3>2, <3>3, <3>4 DEF Has, HasResultOf
  <2>4. /\ StartOf(m_coreStartGeneration') \notin m_pendingCommands
        /\ m_startResultCallback # StartOf(m_coreStartGeneration')
        /\ \A a \in posted : a[1] # StartOf(m_coreStartGeneration')
    BY <1>a DEF RequestsAreKnown, StartOf
  <2>5. /\ NoStopAfter(toDaemon', ConfigFileOf(m_coreStartGeneration'))
        /\ ~Has(toDaemon', StartOf(m_coreStartGeneration'))
    <3>1. NoStopAfter(toDaemon, ConfigFileOf(m_coreStartGeneration'))
      BY <2>2 DEF NoStopAfter, Has
    <3>2. /\ ConfigFileOf(m_coreStartGeneration') # Stop
          /\ ConfigFileOf(m_coreStartGeneration') # StartOf(m_coreStartGeneration')
      BY DEF ConfigFileOf, StartOf, Stop
    <3>3. CASE UNCHANGED toDaemon
      BY <2>2, <3>1, <3>3
    <3>4. CASE toDaemon' = Append(toDaemon, ConfigFileOf(m_coreStartGeneration'))
      <4>1. PICK g : g = m_coreStartGeneration'
        OBVIOUS
      <4>2. toDaemon \in Seq(Request \union {Stop})
        BY DEF DaemonInv, RequestsType
      <4>3. toDaemon' = Append(toDaemon, ConfigFileOf(g))
        BY <3>4, <4>1
      <4>4. NoStopAfter(toDaemon, ConfigFileOf(g)) /\ ~Has(toDaemon, StartOf(g))
        BY <2>2, <3>1, <4>1
      <4>5. NoStopAfter(toDaemon', ConfigFileOf(g))
        <5>1. PICK m : m = ConfigFileOf(g)
          OBVIOUS
        <5>2. PICK S : S = Request \union {Stop}
          OBVIOUS
        <5>3. PICK p : p = toDaemon'
          OBVIOUS
        <5>4. m # Stop
          <6>1. m[1] # Stop[1]
            BY <5>1 DEF ConfigFileOf, Stop
          <6>2. QED  BY <6>1
        <5>5. toDaemon \in Seq(S) /\ p = Append(toDaemon, m) /\ NoStopAfter(toDaemon, m)
          BY <4>2, <4>3, <4>4, <5>1, <5>2, <5>3
        <5>6. NoStopAfter(p, m)
          BY <5>4, <5>5, AppendKeepsOrder DEF NoStopAfter
        <5>7. QED  BY <5>1, <5>3, <5>6
      <4>6. ~Has(toDaemon', StartOf(g))
        <5>1. ConfigFileOf(g) # StartOf(g)
          BY DEF ConfigFileOf, StartOf
        <5>2. QED  BY <4>2, <4>3, <4>4, <5>1, AppendHas
      <4>7. QED  BY <4>1, <4>5, <4>6
    <3>5. QED  BY <2>a, <3>3, <3>4
  <2>6. \A d \in waitingStops' \union postedStops' : ~IsLatest(d)'
    <3>1. \A d \in waitingStops \union postedStops :
            d.generation \in Nat /\ d.generation <= m_daemonCommandGeneration
      BY DEF CoreInv, CoreTypeOK, StopsAreNumbered, DelayedStop
    <3>2. m_daemonCommandGeneration \in Nat
      BY DEF CoreInv, CoreTypeOK
    <3>3. QED  BY <2>a, <3>1, <3>2
  <2>7. ConfigFileStays'
    BY <2>a, <2>b, <2>3, <2>5, <2>6 DEF ConfigFileStays
  <2>8. StartsAreAskedFor'
    BY <2>a, <2>3, <2>4, <2>5 DEF StartsAreAskedFor
  <2>9. CommandStays'
    BY <1>a, <2>a, <2>3, <2>4 DEF CommandStays
  <2>10. QED  BY <2>b, <2>1, <2>7, <2>8, <2>9 DEF Agree, StopsArrive
<1>3. QED  BY <1>1, <1>2 DEF CoreInv, CoreTypeOK

LEMMA DesktopAgrees ==
  ASSUME m_lastProcessMode' = Desktop PROVE Agree'
BY ModeAssumption
DEF Agree, AwaitsItsOwn, ConfigFileStays, StartsAreAskedFor, CommandStays, StopsArrive,
    Serving, Resting

\* Results that are taken or forgotten, and requests that are lost with the daemon.
LEMMA FewerResultsKeepAgreement ==
  ASSUME Agree, AwaitsItsOwn', toGui \in Seq(Result),
         toGui' = << >> \/ (toGui # << >> /\ toGui' = Tail(toGui)),
         toDaemon' = toDaemon \/ (daemonEnded /\ toDaemon' = << >>),
         waitingStops' \union postedStops' = waitingStops \union postedStops,
         m_pendingCommands' \subseteq m_pendingCommands,
         UNCHANGED <<DaemonSide, processState, m_stage, startVars,
                     m_daemonCommandGeneration>>
  PROVE  Agree'
<1> USE DEF DaemonSide
<1>1. ASSUME NEW r
      PROVE  /\ HasResultOf(toGui', r) => HasResultOf(toGui, r)
             /\ Has(toGui', r) => Has(toGui, r)
  <2>1. CASE toGui' = << >>
    BY <2>1 DEF HasResultOf, Has
  <2>2. CASE toGui # << >> /\ toGui' = Tail(toGui)
    BY <2>2, TailHas
  <2>3. QED  BY <2>1, <2>2
<1>2. ASSUME NEW r
      PROVE  /\ Has(toDaemon', r) => Has(toDaemon, r)
             /\ NoStopAfter(toDaemon, r) => NoStopAfter(toDaemon', r)
  BY DEF Has, NoStopAfter
<1>3. Serving' = Serving /\ Asked' = Asked /\ Resting' = Resting /\ Commanded' = Commanded
  BY DEF Serving, Asked, Resting, Commanded
<1>4. Served => Served'
  BY <1>2 DEF Served
<1>5. PICK g : g = m_coreStartGeneration /\ g = m_coreStartGeneration'
  OBVIOUS
<1>6. PICK c, s : c = ConfigFileOf(g) /\ s = StartOf(g)
  OBVIOUS
<1>7. ConfigFileStays'
  <2>1. Serving => /\ \A d \in waitingStops \union postedStops : ~IsLatest(d)
                   /\ NoStopAfter(toDaemon, c)
                   /\ Has(toGui, <<c, TRUE>>) => Served
                   /\ Asked => Served
    BY <1>5, <1>6 DEF Agree, ConfigFileStays
  <2>2. Serving => NoStopAfter(toDaemon', c) /\ (Has(toGui', <<c, TRUE>>) => Served')
    BY <1>1, <1>2, <1>4, <2>1
  <2>3. QED  BY <1>3, <1>4, <1>5, <1>6, <2>1, <2>2 DEF ConfigFileStays
<1>8. StartsAreAskedFor'
  <2>1. Serving /\ ~Asked => ~Has(toDaemon, s) /\ ~HasResultOf(toGui, s)
    BY <1>5, <1>6 DEF Agree, StartsAreAskedFor
  <2>2. Serving /\ ~Asked => ~Has(toDaemon', s) /\ ~HasResultOf(toGui', s)
    BY <1>1, <1>2, <2>1
  <2>3. QED  BY <1>3, <1>5, <1>6, <2>2 DEF Agree, StartsAreAskedFor
<1>9. CommandStays'
  <2>1. Serving => (Has(toGui', <<s, TRUE>>) => Commanded)
    BY <1>1, <1>5, <1>6 DEF Agree, CommandStays
  <2>2. QED  BY <1>3, <1>5, <1>6, <2>1 DEF Agree, CommandStays
<1>10. StopsArrive'
  BY <1>3 DEF Agree, StopsArrive, Off
<1>11. QED  BY <1>7, <1>8, <1>9, <1>10 DEF Agree

LEMMA StopsCoreAgrees ==
  ASSUME CoreInv, DaemonInv, LinkFollowsDaemon, Agree, NEW restart, StopsCore(restart),
         UNCHANGED DaemonSide
  PROVE  Agree'
<1>a. UNCHANGED m_lastProcessMode /\ RequestsType /\ UNCHANGED daemonEnded
  BY DEF StopsCore, DaemonInv, DaemonSide
<1>1. CASE processState = "RetryPending" \/ processState = "Stopping"
  <2>1. /\ UNCHANGED <<linkVars, stopVars>>
        /\ processState' \in {"RetryPending", "Stopping", "Stopped"}
    BY <1>1 DEF StopsCore, RestartsOrStops
  <2>2. ~Serving' /\ (Resting' => Resting)
    BY <1>1, <1>a, <2>1 DEF Serving, Resting
  <2>3. QED  BY <1>a, <2>1, <2>2, QuietKeepsAgreement
<1>2. CASE m_lastProcessMode = Desktop
  BY <1>2, <1>a, DesktopAgrees
<1>3. CASE processState \in {"Starting", "Started"} /\ m_lastProcessMode = Service
  <2>1. /\ StopOnLink /\ processState' \in {"RetryPending", "Stopping", "Stopped"}
        /\ DaemonStop(IsConnected, FALSE) \/ DaemonStop(IsConnected, TRUE)
    BY <1>3, ModeAssumption DEF StopsCore, RestartsOrStops
  <2>2. ~Serving'
    BY <2>1 DEF Serving
  <2>3. StopIsOnItsWay
    BY <2>1, DaemonStopIsOnItsWay
  <2>4. QED  BY <1>a, <2>2, <2>3, LeavingKeepsAgreement
<1>4. processState \in {"RetryPending", "Stopping"} \/ m_lastProcessMode \in {Desktop, Service}
  BY ModeAssumption DEF StopsCore
<1>5. QED  BY <1>1, <1>2, <1>3, <1>4 DEF StopsCore

\* A start that fails is stopped; an old start's end changes nothing.
LEMMA StartFailsAgrees ==
  ASSUME CoreInv, DaemonInv, LinkFollowsDaemon, Agree, IsActive, ServiceStartFails(IsConnected),
         IF Heeded THEN StopOnLink ELSE UNCHANGED linkVars,
         UNCHANGED <<startVars, DaemonSide>>
  PROVE  Agree'
<1>a. RequestsType /\ UNCHANGED daemonEnded /\ UNCHANGED m_lastProcessMode
      /\ UNCHANGED m_coreStartGeneration
  BY DEF DaemonInv, DaemonSide
<1>1. CASE Heeded
  <2>1. DaemonStop(IsConnected, FALSE) /\ processState' = "Stopped"
    BY <1>1 DEF ServiceStartFails
  <2>2. ~Serving'
    BY <2>1 DEF Serving
  <2>3. StopIsOnItsWay
    BY <1>1, <2>1, DaemonStopIsOnItsWay
  <2>4. QED  BY <1>a, <2>2, <2>3, LeavingKeepsAgreement
<1>2. CASE ~Heeded
  <2>1. UNCHANGED <<stopVars, linkVars, processState>>
    BY <1>2 DEF ServiceStartFails
  <2>2. ~(processState = "Starting" /\ m_lastProcessMode = Service)
    BY <1>2 DEF CoreInv, StartsAreWatched
  <2>3. \/ ~Serving' /\ (Resting' => Resting)
        \/ Serving /\ Serving' /\ processState = "Started" /\ processState' = "Started"
    BY <1>a, <2>1, <2>2 DEF Serving, Resting
  <2>4. QED  BY <1>a, <2>1, <2>3, QuietKeepsAgreement
<1>3. QED  BY <1>1, <1>2

\* The handlers that neither send nor take anything.
LEMMA QuietHandlersAgree ==
  ASSUME CoreInv, Agree, UNCHANGED DaemonSide,
         \/ ModeChanges \/ CoreConnected
         \/ ProcessStarted \/ ProcessFailedToStart \/ ProcessFinished
         \/ \E g \in reconnects : ReconnectTimer(g)
         \/ \E r \in recoveries : RecoveryAsks(r) \/ RecoveryEnds(r) \/ RecoveryFails(r)
         \/ \E code : ProcessEnds(code)
  PROVE  Agree'
<1>a. ASSUME UNCHANGED <<linkVars, stopVars, processState, coordinatorVars, startVars>>
      PROVE  Agree'
  <2>1. Serving' = Serving /\ Resting' = Resting
    BY <1>a DEF Serving, Resting
  <2>2. QED  BY <1>a, <2>1, QuietKeepsAgreement
<1>1. CASE \/ ModeChanges \/ \E g \in reconnects : ReconnectTimer(g)
           \/ \E code : ProcessEnds(code)
           \/ \E r \in recoveries : RecoveryAsks(r)
  BY <1>1, <1>a DEF ModeChanges, ReconnectTimer, ProcessEnds, coreVars, RecoveryAsks
<1>2. CASE CoreConnected
  <2>1. CASE Heeded /\ m_stage = "WaitingForCore"
    <3>1. /\ processState' = "Started" /\ UNCHANGED <<linkVars, stopVars, startVars>>
      BY <1>2, <2>1 DEF CoreConnected
    <3>2. Serving
      BY <2>1 DEF CoreInv, StartsAreWatched, Serving
    <3>3. Serving'
      BY <3>1, <3>2 DEF Serving
    <3>4. QED  BY <2>1, <3>1, <3>2, <3>3, QuietKeepsAgreement
  <2>2. CASE ~(Heeded /\ m_stage = "WaitingForCore")
    BY <1>2, <1>a, <2>2 DEF CoreConnected
  <2>3. QED  BY <2>1, <2>2
<1>3. CASE ProcessStarted \/ ProcessFailedToStart \/ ProcessFinished
  <2>1. m_lastProcessMode = Desktop /\ UNCHANGED m_lastProcessMode
    BY <1>3 DEF ProcessStarted, ProcessFailedToStart, ProcessFinished, CoreInv, ForegroundIsKnown
  <2>2. QED  BY <2>1, DesktopAgrees
<1>4. ASSUME NEW r \in recoveries, RecoveryEnds(r) \/ RecoveryFails(r)
      PROVE  Agree'
  <2>1. UNCHANGED <<linkVars, stopVars, coordinatorVars, startVars>>
    BY <1>4 DEF RecoveryEnds, RecoveryFails
  <2>2. CASE Current(r.generation)
    <3>1. processState \in {"Stopped", "RetryPending"}
      BY <2>2 DEF CoreInv, RecoveriesAreWaitedFor
    <3>2. processState' \in {"Stopped", "RetryPending"}
      BY <1>4, <2>2 DEF RecoveryEnds, RecoveryFails, ScheduleRestart, Becomes
    <3>3. ~Serving' /\ (Resting' => Resting)
      BY <2>1, <3>1, <3>2 DEF Serving, Resting
    <3>4. QED  BY <2>1, <3>3, QuietKeepsAgreement
  <2>3. CASE ~Current(r.generation)
    <3>1. UNCHANGED processState
      BY <1>4, <2>3 DEF RecoveryEnds, RecoveryFails
    <3>2. QED  BY <1>a, <2>1, <3>1
  <2>4. QED  BY <2>2, <2>3
<1>5. QED  BY <1>1, <1>2, <1>3, <1>4

LEMMA DialogClosesAgrees ==
  ASSUME CoreInv, DaemonInv, ResultsType, LinkFollowsDaemon, Agree,
         NEW choice, DialogCloses(choice), UNCHANGED DaemonSide
  PROVE  Agree'
<1>0. daemonEnded
  BY DEF DialogCloses, LinkFollowsDaemon
<1>1. CASE Current(m_generation) /\ IsActive
  <2>1. Heeded
    BY <1>1 DEF CoreInv, StartsAreWatched
  <2>2. processState' = "Stopped"
    BY <1>1, <2>1 DEF DialogCloses, ServiceStartFails
  <2>3. ~Serving' /\ StopIsOnItsWay
    BY <1>0, <2>2 DEF Serving, StopIsOnItsWay
  <2>4. QED  BY <2>3, LeavingKeepsAgreement DEF DaemonInv, DaemonSide
<1>2. CASE ~(Current(m_generation) /\ IsActive)
  <2>1. UNCHANGED <<processState, coordinatorVars, stopVars, startVars>>
    BY <1>2 DEF DialogCloses
  <2>2. CASE Reconnects
    <3>1. /\ toGui' = << >> /\ toDaemon' \in {toDaemon, << >>}
          /\ m_pendingCommands' \in {m_pendingCommands, {}}
      BY <2>2 DEF Reconnects, CutLink
    <3>2. AwaitsItsOwn'
      BY <2>1 DEF Agree, AwaitsItsOwn, Serving
    <3>3. QED  BY <1>0, <2>1, <3>1, <3>2, FewerResultsKeepAgreement DEF ResultsType
  <2>3. CASE UNCHANGED linkVars
    <3>1. Serving' = Serving /\ Resting' = Resting
      BY <2>1 DEF Serving, Resting
    <3>2. QED  BY <2>1, <2>3, <3>1, QuietKeepsAgreement
  <2>4. QED  BY <1>2, <2>2, <2>3 DEF DialogCloses
<1>3. QED  BY <1>1, <1>2

LEMMA DaemonConnectionFailedAgrees ==
  ASSUME CoreInv, ResultsType, LinkFollowsDaemon, Agree, DaemonConnectionFailed,
         UNCHANGED DaemonSide
  PROVE  Agree'
<1>1. daemonEnded
  BY DEF DaemonConnectionFailed, LinkFollowsDaemon
<1>2. AwaitsItsOwn'
  BY DEF DaemonConnectionFailed, Agree, AwaitsItsOwn, Serving
<1>3. QED  BY <1>1, <1>2, FewerResultsKeepAgreement DEF DaemonConnectionFailed, ResultsType

LEMMA DaemonConnectedAgrees ==
  ASSUME CoreInv, DaemonInv, ResultsType, Agree, DaemonConnected, UNCHANGED DaemonSide
  PROVE  Agree'
<1> USE DEF DaemonSide
<1>1. /\ toGui' = << >> /\ waitingStops' \union postedStops' = waitingStops \union postedStops
      /\ UNCHANGED <<processState, m_daemonStartRequestId, m_pendingCommands, startVars,
                     m_daemonCommandGeneration>>
  BY DEF DaemonConnected
<1>2. CASE ~(m_stage = "WaitingForDaemon" /\ Current(m_generation))
  <2>1. UNCHANGED <<m_stage, m_daemonConfigRequestId, toDaemon>>
    BY <1>2 DEF DaemonConnected
  <2>2. AwaitsItsOwn'
    BY <1>1, <2>1 DEF Agree, AwaitsItsOwn, Serving
  <2>3. QED  BY <1>1, <2>1, <2>2, FewerResultsKeepAgreement DEF ResultsType
<1>3. CASE m_stage = "WaitingForDaemon" /\ Current(m_generation)
  <2>1. Serving /\ processState = "Starting" /\ ~Asked
    BY <1>3 DEF CoreInv, StartsAreWatched, Serving, Asked
  <2>2. PICK g : g = m_coreStartGeneration /\ g = m_coreStartGeneration'
    BY <1>1
  <2>3. PICK c, s : c = ConfigFileOf(g) /\ s = StartOf(g)
    OBVIOUS
  <2>4. /\ m_stage' = "WaitingForConfig" /\ m_daemonConfigRequestId' = c
        /\ toDaemon' = Append(toDaemon, c)
    BY <1>3, <2>2, <2>3 DEF DaemonConnected, ConfigFileOf
  <2>5. Serving' /\ ~Asked' /\ ~Resting'
    BY <1>1, <2>1, <2>4 DEF Serving, Asked, Resting
  <2>6. AwaitsItsOwn'
    BY <1>1, <1>3, <2>1, <2>2, <2>3, <2>4 DEF Agree, AwaitsItsOwn
  <2>7. c # Stop /\ c # s
    BY <2>3 DEF ConfigFileOf, StartOf, Stop
  <2>8. /\ NoStopAfter(toDaemon, c) /\ \A d \in waitingStops \union postedStops : ~IsLatest(d)
    BY <2>1, <2>2, <2>3 DEF Agree, ConfigFileStays
  <2>9. NoStopAfter(toDaemon', c)
    BY <2>4, <2>7, <2>8, AppendKeepsOrder DEF NoStopAfter, DaemonInv, RequestsType
  <2>10. /\ ~Has(toDaemon, s) /\ s \notin m_pendingCommands /\ m_startResultCallback # s
         /\ \A a \in posted : a[1] # s
    BY <2>1, <2>2, <2>3 DEF Agree, StartsAreAskedFor
  <2>11. ~Has(toDaemon', s)
    BY <2>4, <2>7, <2>10, AppendHas DEF DaemonInv, RequestsType
  <2>12. \A r : ~Has(toGui', r) /\ ~HasResultOf(toGui', r)
    BY <1>1 DEF Has, HasResultOf
  <2>13. ConfigFileStays'
    BY <1>1, <2>2, <2>3, <2>5, <2>8, <2>9, <2>12 DEF ConfigFileStays
  <2>14. StartsAreAskedFor'
    BY <1>1, <2>2, <2>3, <2>10, <2>11, <2>12 DEF StartsAreAskedFor
  <2>15. CommandStays'
    <3>1. Serving => (<<s, TRUE>> \in posted => Commanded)
      BY <2>2, <2>3 DEF Agree, CommandStays
    <3>2. Commanded' = Commanded
      BY DEF Commanded
    <3>3. QED  BY <1>1, <2>1, <2>2, <2>3, <2>4, <2>12, <3>1, <3>2 DEF CommandStays
  <2>16. QED  BY <2>5, <2>6, <2>13, <2>14, <2>15 DEF Agree, StopsArrive
<1>4. QED  BY <1>2, <1>3

LEMMA PostedStopAgrees ==
  ASSUME CoreInv, DaemonInv, LinkFollowsDaemon, Agree, NEW s, PostedStop(s), UNCHANGED DaemonSide
  PROVE  Agree'
<1> USE DEF DaemonSide
<1>a. /\ s \in postedStops /\ postedStops' = postedStops \ {s}
      /\ UNCHANGED <<m_state, toGui, m_pendingCommands, m_daemonCommandGeneration, waitingStops,
                     coordinatorVars, startVars>>
  BY DEF PostedStop
<1>1. CASE IsLatest(s)
  <2>1. ~Serving
    BY <1>1, <1>a DEF Agree, ConfigFileStays
  <2>2. processState' \in {processState, "RetryPending", "Stopped"}
    BY <1>1 DEF PostedStop, RestartsOrStops
  <2>3. ~Serving'
    BY <1>a, <2>1, <2>2 DEF Serving
  <2>4. m_state = "Connected" \/ daemonEnded
    BY <1>a DEF LinkFollowsDaemon
  <2>5. StopIsOnItsWay
    BY <1>1, <2>4 DEF PostedStop, Sends, StopIsOnItsWay
  <2>6. QED  BY <2>3, <2>5, LeavingKeepsAgreement DEF DaemonInv
<1>2. CASE ~IsLatest(s)
  <2>1. UNCHANGED <<toDaemon, processState>>
    BY <1>2 DEF PostedStop
  <2>2. /\ Serving' = Serving /\ Asked' = Asked /\ Resting' = Resting
        /\ Served' = Served /\ Commanded' = Commanded
    BY <1>a, <2>1 DEF Serving, Asked, Resting, Served, Commanded
  <2>3. AwaitsItsOwn' /\ StartsAreAskedFor'
    BY <1>a, <2>1, <2>2 DEF Agree, AwaitsItsOwn, StartsAreAskedFor
  <2>4. CommandStays'
    BY <1>a, <2>1, <2>2 DEF Agree, CommandStays
  <2>5. ConfigFileStays'
    BY <1>a, <2>1, <2>2 DEF Agree, ConfigFileStays
  <2>6. Off => Off'
    BY <1>2, <1>a, <2>1 DEF Off
  <2>7. QED  BY <2>2, <2>3, <2>4, <2>5, <2>6 DEF Agree, StopsArrive
<1>3. QED  BY <1>1, <1>2

\* A result ends a wait, fails the start or is not awaited.
LEMMA DaemonCommandResultAgrees ==
  ASSUME CoreInv, DaemonInv, ResultsType, LinkFollowsDaemon, Agree, DaemonCommandResult,
         UNCHANGED DaemonSide
  PROVE  Agree'
<1> USE DEF DaemonSide
<1>1. PICK r, ok : r = Head(toGui)[1] /\ ok = Head(toGui)[2]
  OBVIOUS
<1>2. PICK isConfig, isStart : isConfig = (r = m_daemonConfigRequestId)
                               /\ isStart = (r = m_daemonStartRequestId)
  OBVIOUS
<1>3. PICK awaited : awaited = (/\ Current(m_generation)
                                /\ \/ isConfig /\ m_stage = "WaitingForConfig"
                                   \/ isStart /\ m_stage = "WaitingForStart")
  OBVIOUS
<1>a. /\ IsConnected /\ toGui # << >> /\ toGui' = Tail(toGui)
      /\ UNCHANGED <<m_state, m_pendingCommands, startVars>>
  BY DEF DaemonCommandResult
<1>b. /\ toGui \in Seq(Result) /\ toDaemon \in Seq(Request \union {Stop})
  BY DEF ResultsType, DaemonInv, RequestsType
<1>c. /\ r \in Request /\ ok \in BOOLEAN /\ Head(toGui) = <<r, ok>> /\ r # NoRequest
  <2>1. Head(toGui) \in Result
    <3>1. PICK S : S = Result
      OBVIOUS
    <3>2. Head(toGui) \in S
      BY <1>a, <1>b, <3>1
    <3>3. QED  BY <3>1, <3>2
  <2>2. QED  BY <1>1, <2>1 DEF Result, Request, NoRequest
<1>d. HasResultOf(toGui, r) /\ Has(toGui, <<r, ok>>)
  BY <1>a, <1>b, <1>c, <1>1, TailHas
<1>e. m_state = "Connected" \/ daemonEnded
  BY <1>a DEF IsConnected, LinkFollowsDaemon
<1>f. awaited => Serving /\ processState = "Starting" /\ Heeded
  BY <1>3 DEF CoreInv, StartsAreWatched, Serving
<1>g. PICK g : g = m_coreStartGeneration /\ g = m_coreStartGeneration'
  BY <1>a
<1>h. PICK c, s : c = ConfigFileOf(g) /\ s = StartOf(g)
  OBVIOUS
<1>i. c # s /\ s # Stop /\ c # NoRequest /\ s # NoRequest
  BY <1>h DEF ConfigFileOf, StartOf, Stop, NoRequest
<1>4. CASE awaited /\ ~ok
  <2>1. ServiceStartFails(TRUE) /\ Sends(Stop)
    BY <1>1, <1>2, <1>3, <1>4, <1>f DEF DaemonCommandResult
  <2>2. processState' = "Stopped"
    BY <1>4, <1>f, <2>1 DEF ServiceStartFails
  <2>3. ~Serving' /\ StopIsOnItsWay
    BY <1>e, <2>1, <2>2 DEF Serving, StopIsOnItsWay, Sends
  <2>4. QED  BY <1>b, <2>3, LeavingKeepsAgreement DEF RequestsType
<1>5. CASE ~awaited
  <2>1. /\ m_daemonConfigRequestId' = IF isConfig THEN NoRequest ELSE m_daemonConfigRequestId
        /\ m_daemonStartRequestId' = IF isStart THEN NoRequest ELSE m_daemonStartRequestId
        /\ UNCHANGED <<m_stage, toDaemon, processState, stopVars>>
    BY <1>1, <1>2, <1>3, <1>5 DEF DaemonCommandResult
  <2>2. AwaitsItsOwn'
    <3>1. CASE Serving /\ processState = "Starting"
      <4>1. Current(m_generation)
        BY <3>1 DEF CoreInv, StartsAreWatched, Serving
      <4>2. /\ m_stage = "WaitingForConfig" => UNCHANGED m_daemonConfigRequestId
            /\ m_stage = "WaitingForStart" => UNCHANGED m_daemonStartRequestId
        BY <1>3, <1>5, <2>1, <4>1
      <4>3. m_daemonStartRequestId = NoRequest => m_daemonStartRequestId' = NoRequest
        BY <2>1
      <4>4. QED  BY <1>a, <2>1, <4>2, <4>3 DEF Agree, AwaitsItsOwn, Serving
    <3>2. CASE ~(Serving /\ processState = "Starting")
      BY <1>a, <2>1, <3>2 DEF AwaitsItsOwn, Serving
    <3>3. QED  BY <3>1, <3>2
  <2>3. QED  BY <1>a, <1>b, <2>1, <2>2, FewerResultsKeepAgreement
<1>6. CASE awaited /\ ok /\ isStart /\ m_stage' = "WaitingForCore"
  <2>1. UNCHANGED <<toDaemon, processState, stopVars>>
    BY <1>1, <1>2, <1>3, <1>6 DEF DaemonCommandResult
  <2>2. m_stage = "WaitingForStart" /\ r = s
    <3>1. m_stage # "WaitingForConfig"
      BY <1>2, <1>6, <1>c, <1>f DEF Agree, AwaitsItsOwn
    <3>2. m_stage = "WaitingForStart"
      BY <1>3, <1>6, <3>1
    <3>3. QED  BY <1>2, <1>6, <1>f, <1>g, <1>h, <3>2 DEF Agree, AwaitsItsOwn
  <2>3. Commanded /\ Served /\ Asked
    <3>1. Asked
      BY <1>6, <1>f, <2>2 DEF Asked
    <3>2. Has(toGui, <<s, TRUE>>)
      BY <1>6, <1>c, <1>d, <2>2
    <3>3. QED  BY <1>6, <1>f, <1>g, <1>h, <3>1, <3>2 DEF Agree, CommandStays, ConfigFileStays
  <2>4. Serving' /\ Asked' /\ Commanded' /\ Served' /\ ~Resting'
    BY <1>6, <1>a, <1>f, <2>1, <2>3 DEF Serving, Asked, Commanded, Served, Resting
  <2>5. AwaitsItsOwn' /\ StartsAreAskedFor' /\ CommandStays'
    BY <1>6, <2>4 DEF AwaitsItsOwn, StartsAreAskedFor, CommandStays
  <2>6. ConfigFileStays'
    <3>1. NoStopAfter(toDaemon, c) /\ \A d \in waitingStops \union postedStops : ~IsLatest(d)
      BY <1>6, <1>f, <1>g, <1>h DEF Agree, ConfigFileStays
    <3>2. QED  BY <1>g, <1>h, <2>1, <2>4, <3>1 DEF ConfigFileStays
  <2>7. QED  BY <2>4, <2>5, <2>6 DEF Agree, StopsArrive
<1>7. CASE awaited /\ ok /\ isConfig /\ m_stage' = "WaitingForStart"
           /\ m_daemonStartRequestId' = <<"start", m_generation>>
           /\ Sends(<<"start", m_generation>>)
  <2>1. UNCHANGED <<processState, stopVars>>
    BY <1>1, <1>2, <1>3, <1>7 DEF DaemonCommandResult
  <2>2. m_daemonStartRequestId' = s /\ (toDaemon' = toDaemon \/ toDaemon' = Append(toDaemon, s))
    BY <1>3, <1>7, <1>g, <1>h DEF StartOf, Sends
  <2>3. Served
    <3>1. CASE m_stage = "WaitingForStart"
      BY <1>7, <1>f, <3>1 DEF Agree, ConfigFileStays, Asked
    <3>2. CASE m_stage = "WaitingForConfig"
      <4>1. r = c
        BY <1>2, <1>7, <1>f, <1>g, <1>h, <3>2 DEF Agree, AwaitsItsOwn
      <4>2. QED  BY <1>7, <1>d, <1>f, <1>g, <1>h, <4>1 DEF Agree, ConfigFileStays
    <3>3. QED  BY <1>3, <1>7, <3>1, <3>2
  <2>4. Serving' /\ Asked' /\ ~Resting' /\ Commanded' = Commanded
    BY <1>7, <1>a, <1>f, <2>1 DEF Serving, Asked, Resting, Commanded
  <2>5. AwaitsItsOwn' /\ StartsAreAskedFor'
    BY <1>7, <1>g, <1>h, <2>2, <2>4 DEF AwaitsItsOwn, StartsAreAskedFor
  <2>6. Served'
    <3>1. ~Has(toDaemon', Stop)
      BY <1>b, <1>i, <2>2, <2>3, AppendHas DEF Served
    <3>2. QED  BY <2>3, <3>1 DEF Served
  <2>7. ConfigFileStays'
    <3>1. NoStopAfter(toDaemon, c) /\ \A d \in waitingStops \union postedStops : ~IsLatest(d)
      BY <1>7, <1>f, <1>g, <1>h DEF Agree, ConfigFileStays
    <3>2. NoStopAfter(toDaemon', c)
      BY <1>b, <1>i, <2>2, <3>1, AppendKeepsOrder DEF NoStopAfter
    <3>3. QED  BY <1>g, <1>h, <2>1, <2>4, <2>6, <3>1, <3>2 DEF ConfigFileStays
  <2>8. CommandStays'
    <3>1. Has(toGui', <<s, TRUE>>) => Has(toGui, <<s, TRUE>>)
      <4>1. PICK m : m = <<s, TRUE>>
        OBVIOUS
      <4>2. Has(toGui', m) => Has(toGui, m)
        BY <1>a, <1>b, TailHas
      <4>3. QED  BY <4>1, <4>2
    <3>2. processState' = "Starting" /\ m_stage' # "WaitingForCore"
      BY <1>7, <1>f, <2>1
    <3>3. QED  BY <1>7, <1>f, <1>g, <1>h, <2>4, <3>1, <3>2 DEF Agree, CommandStays
  <2>9. QED  BY <2>4, <2>5, <2>7, <2>8 DEF Agree, StopsArrive
<1>8. QED
  BY <1>1, <1>2, <1>3, <1>4, <1>5, <1>6, <1>7 DEF DaemonCommandResult

LEMMA GuiKeepsAgreement ==
  ASSUME CoreInv, DaemonInv, ResultsType, RequestsAreKnown, LinkFollowsDaemon, Agree, Gui
  PROVE  Agree'
<1>a. UNCHANGED DaemonSide
  BY DEF Gui, OfGui, watchdogVars, DaemonSide
<1>b. ASSUME UNCHANGED <<processState, linkVars, stopVars, coordinatorVars, startVars>>
      PROVE  Agree'
  <2>1. Serving' = Serving /\ Resting' = Resting
    BY <1>b DEF Serving, Resting
  <2>2. QED  BY <1>a, <1>b, <2>1, QuietKeepsAgreement
<1>1. CASE User
  <2>1. CASE UserStarts
    BY <1>a, <1>b, <2>1, StartingKeepsAgreement DEF UserStarts
  <2>2. CASE UserStops
    BY <1>a, <2>2, StopsCoreAgrees DEF UserStops
  <2>3. CASE UserRestarts
    BY <1>a, <2>3, StartingKeepsAgreement, StopsCoreAgrees DEF UserRestarts
  <2>4. CASE ModeChanges
    BY <1>a, <2>4, QuietHandlersAgree
  <2>5. QED  BY <1>1, <2>1, <2>2, <2>3, <2>4 DEF User
<1>2. CASE RetryTimer
  BY <1>a, <1>b, <1>2, StartingKeepsAgreement DEF RetryTimer
<1>3. CASE StartTimesOut
  BY <1>a, <1>3, StartFailsAgrees DEF StartTimesOut, TimerRuns
<1>4. CASE CoreConnectionLost
  <2>1. CASE processState = "Starting" /\ m_stage = "WaitingForCore"
    BY <1>a, <1>4, <2>1, StartFailsAgrees DEF CoreConnectionLost
  <2>2. CASE ~(processState = "Starting" /\ m_stage = "WaitingForCore")
    BY <1>a, <1>b, <1>4, <2>2 DEF CoreConnectionLost
  <2>3. QED  BY <2>1, <2>2
<1>5. CASE GuiFault
  BY <1>a, <1>5, QuietHandlersAgree DEF GuiFault
<1>6. CASE GuiStep
  BY <1>a, <1>2, <1>3, <1>4, <1>6, QuietHandlersAgree, DialogClosesAgrees,
     DaemonConnectionFailedAgrees, DaemonConnectedAgrees, PostedStopAgrees,
     DaemonCommandResultAgrees
  DEF GuiStep
<1>7. QED  BY <1>1, <1>5, <1>6 DEF Gui

(***************************************************************************)
(* The daemon's steps keep the agreement.                                  *)
(***************************************************************************)
LEMMA GuiIsTheSame ==
  ASSUME UNCHANGED coreVars
  PROVE  /\ Serving' = Serving /\ Asked' = Asked /\ Resting' = Resting
         /\ Agree => AwaitsItsOwn'
BY DEF coreVars, Serving, Asked, Resting, Agree, AwaitsItsOwn

\* The loop answers the start that it made or failed to make.
LEMMA LoopAgrees ==
  ASSUME Agree, UNCHANGED coreVars, UNCHANGED <<linkVars, m_configFile, m_command, daemonEnded>>,
         m_startResultCallback' \in {m_startResultCallback, NoRequest},
         NEW ok \in BOOLEAN, posted' \subseteq posted \union Answer(m_startResultCallback, ok),
         ok => m_command # NoCommand
  PROVE  Agree'
<1> USE DEF coreVars
<1>1. PICK g : g = m_coreStartGeneration /\ g = m_coreStartGeneration'
  OBVIOUS
<1>2. PICK c, s : c = ConfigFileOf(g) /\ s = StartOf(g)
  OBVIOUS
<1>a. s # NoRequest
  BY <1>2 DEF StartOf, NoRequest
<1>3. /\ Serving' = Serving /\ Asked' = Asked /\ Resting' = Resting /\ AwaitsItsOwn'
      /\ Served' = Served /\ Commanded' = Commanded
  BY GuiIsTheSame DEF Served, Commanded
<1>4. ConfigFileStays'
  BY <1>3 DEF Agree, ConfigFileStays
<1>5. \A a \in posted' : a \in posted \/ a = <<m_startResultCallback, ok>>
  BY DEF Answer
<1>6. StartsAreAskedFor'
  BY <1>a, <1>1, <1>2, <1>3, <1>5 DEF Agree, StartsAreAskedFor
<1>7. CommandStays'
  <2>1. <<s, TRUE>> \in posted' => <<s, TRUE>> \in posted \/ Commanded
    <3>1. <<s, TRUE>>[2] = TRUE /\ <<m_startResultCallback, ok>>[2] = ok
      OBVIOUS
    <3>2. QED  BY <1>5, <3>1 DEF Commanded
  <2>2. QED  BY <1>1, <1>2, <1>3, <2>1 DEF Agree, CommandStays
<1>8. StopsArrive'
  BY <1>3 DEF Agree, StopsArrive, Off
<1>9. QED  BY <1>3, <1>4, <1>6, <1>7, <1>8 DEF Agree

LEMMA LoopStepsAgree ==
  ASSUME Agree, UNCHANGED coreVars, UNCHANGED daemonEnded,
         LoopBegins \/ StartTimeReached \/ Starts \/ ProcessIsMissed \/ StartFails \/ Stops
           \/ ServiceCoreEnds
  PROVE  Agree'
<1>1. /\ UNCHANGED <<linkVars, m_configFile, m_command>>
      /\ m_startResultCallback' \in {m_startResultCallback, NoRequest}
  BY DEF LoopBegins, StartTimeReached, Starts, ProcessIsMissed, StartFails, Stops,
         ServiceCoreEnds, watchdogVars
<1>2. CASE Starts
  <2>1. posted' \subseteq posted \union Answer(m_startResultCallback, TRUE) /\ m_command # NoCommand
    BY <1>2 DEF Starts
  <2>2. QED  BY <1>1, <2>1, LoopAgrees
<1>3. CASE ~Starts
  <2>1. posted' \subseteq posted \union Answer(m_startResultCallback, FALSE)
    BY <1>3 DEF LoopBegins, StartTimeReached, ProcessIsMissed, StartFails, Stops,
         ServiceCoreEnds, watchdogVars
  <2>2. QED  BY <1>1, <2>1, LoopAgrees
<1>4. QED  BY <1>2, <1>3

\* A daemon that ends owes nothing but the config file, which stays.
LEMMA EndAgrees ==
  ASSUME Agree, UNCHANGED coreVars, daemonEnded' = TRUE, Crashes \/ ServiceStops
  PROVE  Agree'
<1> USE DEF coreVars
<1>1. PICK g : g = m_coreStartGeneration /\ g = m_coreStartGeneration'
  OBVIOUS
<1>2. PICK c, s : c = ConfigFileOf(g) /\ s = StartOf(g)
  OBVIOUS
<1>a. s # NoRequest
  BY <1>2 DEF StartOf, NoRequest
<1>3. /\ UNCHANGED <<toGui, m_configFile>> /\ toDaemon' = << >> /\ posted' = {}
      /\ m_pendingCommands' = {} /\ m_startResultCallback' = NoRequest
  BY DEF Crashes, ServiceStops, Forgets, CutLink
<1>4. \A r : ~Has(toDaemon', r) /\ NoStopAfter(toDaemon', r)
  BY <1>3 DEF Has, NoStopAfter
<1>5. /\ Serving' = Serving /\ Asked' = Asked /\ Resting' = Resting /\ AwaitsItsOwn'
      /\ (Served => Served') /\ Commanded'
  BY <1>3, <1>4, GuiIsTheSame DEF Served, Commanded
<1>6. ConfigFileStays'
  BY <1>3, <1>4, <1>5 DEF Agree, ConfigFileStays
<1>7. StartsAreAskedFor'
  BY <1>a, <1>1, <1>2, <1>3, <1>4, <1>5 DEF Agree, StartsAreAskedFor
<1>8. QED  BY <1>5, <1>6, <1>7 DEF Agree, CommandStays, StopsArrive

LEMMA BootsAgree ==
  ASSUME Agree, LinkFollowsDaemon, UNCHANGED coreVars, UNCHANGED daemonEnded, Boots
  PROVE  Agree'
<1> USE DEF coreVars
<1>1. daemonEnded /\ UNCHANGED <<linkVars, m_configFile, m_startResultCallback, posted>>
  BY DEF Boots, LinkFollowsDaemon
<1>2. /\ Serving' = Serving /\ Asked' = Asked /\ Resting' = Resting /\ AwaitsItsOwn'
      /\ Served' = Served /\ Commanded'
  BY <1>1, GuiIsTheSame DEF Served, Commanded
<1>3. ConfigFileStays' /\ StartsAreAskedFor'
  BY <1>1, <1>2 DEF Agree, ConfigFileStays, StartsAreAskedFor
<1>4. QED  BY <1>1, <1>2, <1>3 DEF Agree, CommandStays, StopsArrive

LEMMA DeliversAgrees ==
  ASSUME Agree, ResultsType, UNCHANGED coreVars, UNCHANGED daemonEnded,
         NEW a \in posted, Delivers(a[1], a[2])
  PROVE  Agree'
<1> USE DEF coreVars
<1>1. PICK g : g = m_coreStartGeneration /\ g = m_coreStartGeneration'
  OBVIOUS
<1>2. PICK c, s : c = ConfigFileOf(g) /\ s = StartOf(g)
  OBVIOUS
<1>3. PICK r, ok : r = a[1] /\ ok = a[2]
  OBVIOUS
<1>4. r \in StartRequest /\ r # c /\ <<r, ok>> \in posted /\ <<r, ok>> # <<c, TRUE>>
  <2>1. r \in StartRequest /\ r # c /\ <<r, ok>> \in posted
    BY <1>2, <1>3 DEF ResultsType, StartRequest, ConfigFileOf, Delivers
  <2>2. QED  BY <2>1
<1>5. /\ posted' \subseteq posted /\ m_pendingCommands' \subseteq m_pendingCommands
      /\ UNCHANGED <<toDaemon, m_startResultCallback, m_configFile, m_command>>
      /\ toGui' = toGui \/ toGui' = Append(toGui, <<r, ok>>)
  BY <1>3 DEF Delivers, Completes
<1>6. /\ Serving' = Serving /\ Asked' = Asked /\ Resting' = Resting /\ AwaitsItsOwn'
      /\ Served' = Served /\ Commanded' = Commanded
  BY <1>5, GuiIsTheSame DEF Served, Commanded
<1>7. ASSUME NEW q
      PROVE  /\ HasResultOf(toGui', q) => HasResultOf(toGui, q) \/ q = r
             /\ Has(toGui', q) => Has(toGui, q) \/ q = <<r, ok>>
  <2>1. PICK m : m = <<r, ok>>
    OBVIOUS
  <2>2. m[1] = r /\ (toGui' = toGui \/ toGui' = Append(toGui, m))
    BY <1>5, <2>1
  <2>3. QED  BY <2>1, <2>2, AppendHas DEF ResultsType
<1>8. ConfigFileStays'
  <2>1. Serving => (Has(toGui', <<c, TRUE>>) => Served)
    BY <1>1, <1>2, <1>4, <1>7 DEF Agree, ConfigFileStays
  <2>2. QED  BY <1>1, <1>2, <1>5, <1>6, <2>1 DEF Agree, ConfigFileStays
<1>9. StartsAreAskedFor'
  <2>1. Serving /\ ~Asked => r # s
    BY <1>1, <1>2, <1>3 DEF Agree, StartsAreAskedFor
  <2>2. Serving /\ ~Asked => ~HasResultOf(toGui', s)
    BY <1>1, <1>2, <1>7, <2>1 DEF Agree, StartsAreAskedFor
  <2>3. QED  BY <1>1, <1>2, <1>5, <1>6, <2>2 DEF Agree, StartsAreAskedFor
<1>10. CommandStays'
  <2>1. Has(toGui', <<s, TRUE>>) => Has(toGui, <<s, TRUE>>) \/ <<s, TRUE>> \in posted
    BY <1>4, <1>7
  <2>2. Serving => (Has(toGui', <<s, TRUE>>) => Commanded)
    BY <1>1, <1>2, <2>1 DEF Agree, CommandStays
  <2>3. QED  BY <1>1, <1>2, <1>5, <1>6, <2>2 DEF Agree, CommandStays
<1>11. StopsArrive'
  BY <1>5, <1>6 DEF Agree, StopsArrive, Off
<1>12. QED  BY <1>6, <1>8, <1>9, <1>10, <1>11 DEF Agree

\* The daemon takes the first request; the others keep their order.
LEMMA ReceivedInOrder ==
  ASSUME RequestsType, NEW kind, Receives(kind), NEW r, r = Head(toDaemon)
  PROVE  /\ r \in Request \union {Stop} /\ r[1] = kind
         /\ Has(toDaemon, r) /\ (kind = "start" => HasStart(toDaemon))
         /\ HasStart(toDaemon') => HasStart(toDaemon)
         /\ \A q : Has(toDaemon', q) => Has(toDaemon, q)
         /\ \A q : NoStopAfter(toDaemon, q) => NoStopAfter(toDaemon', q)
         /\ NoStopAfter(toDaemon, r) => ~Has(toDaemon', Stop)
         /\ StopIsLast(toDaemon) /\ r # Stop => StopIsLast(toDaemon')
         /\ StopIsLast(toDaemon) => StopIsLast(toDaemon') \/ ~HasStart(toDaemon')
<1>1. /\ toDaemon \in Seq(Request \union {Stop}) /\ toDaemon # << >> /\ toDaemon' = Tail(toDaemon)
      /\ r[1] = kind
  BY DEF RequestsType, Receives
<1>2. r \in Request \union {Stop}
  BY <1>1, HeadOfRequests
<1>3. /\ Has(toDaemon, r) /\ (kind = "start" => HasStart(toDaemon))
      /\ HasStart(toDaemon') => HasStart(toDaemon)
      /\ \A q : Has(toDaemon', q) => Has(toDaemon, q)
  BY <1>1, TailHas
<1>4. /\ \A q : NoStopAfter(toDaemon, q) => NoStopAfter(toDaemon', q)
      /\ NoStopAfter(toDaemon, r) => ~Has(toDaemon', Stop)
      /\ StopIsLast(toDaemon) /\ r # Stop => StopIsLast(toDaemon')
      /\ StopIsLast(toDaemon) => StopIsLast(toDaemon') \/ ~HasStart(toDaemon')
  BY <1>1, TailOrder
<1>5. QED  BY <1>1, <1>2, <1>3, <1>4

\* A result of the daemon at the end of those on their way.
LEMMA ResultIsAdded ==
  ASSUME toGui \in Seq(Result), NEW r, NEW ok, toGui' = Append(toGui, <<r, ok>>), NEW q
  PROVE  /\ HasResultOf(toGui', q) => HasResultOf(toGui, q) \/ q = r
         /\ Has(toGui', q) => Has(toGui, q) \/ q = <<r, ok>>
<1>1. PICK m : m = <<r, ok>>
  OBVIOUS
<1>2. m[1] = r /\ toGui' = Append(toGui, m)
  BY <1>1
<1>3. QED  BY <1>1, <1>2, AppendHas

LEMMA SetConfigFileAgrees ==
  ASSUME Agree, RequestsType, ResultsType, UNCHANGED coreVars, UNCHANGED daemonEnded, setConfigFile
  PROVE  Agree'
<1> USE DEF coreVars
<1>1. PICK g : g = m_coreStartGeneration /\ g = m_coreStartGeneration'
  OBVIOUS
<1>2. PICK c, s : c = ConfigFileOf(g) /\ s = StartOf(g)
  OBVIOUS
<1>3. PICK r : r = Head(toDaemon)
  OBVIOUS
<1>4. PICK ok \in BOOLEAN :
        /\ Receives("configFile") /\ m_configFile' = (m_configFile \/ ok)
        /\ toGui' = Append(toGui, <<r, ok>>)
        /\ UNCHANGED <<m_pendingCommands, m_startResultCallback, posted, m_command>>
  BY <1>3 DEF setConfigFile
<1>5. /\ \A q : HasResultOf(toGui', q) => HasResultOf(toGui, q) \/ q = r
      /\ \A q : Has(toGui', q) => Has(toGui, q) \/ q = <<r, ok>>
  BY <1>4, ResultIsAdded DEF ResultsType
<1>6. r[1] = "configFile" /\ r # s /\ r # Stop /\ <<r, ok>> # <<s, TRUE>>
  <2>1. r[1] = "configFile"
    BY <1>3, <1>4, ReceivedInOrder
  <2>2. r # s /\ r # Stop
    BY <1>2, <2>1 DEF StartOf, Stop
  <2>3. QED  BY <2>1, <2>2
<1>7. /\ \A q : Has(toDaemon', q) => Has(toDaemon, q)
      /\ \A q : NoStopAfter(toDaemon, q) => NoStopAfter(toDaemon', q)
      /\ NoStopAfter(toDaemon, r) => ~Has(toDaemon', Stop)
      /\ StopIsLast(toDaemon) => StopIsLast(toDaemon')
      /\ HasStart(toDaemon') => HasStart(toDaemon)
  BY <1>3, <1>4, <1>6, ReceivedInOrder
<1>8. /\ Serving' = Serving /\ Asked' = Asked /\ Resting' = Resting /\ AwaitsItsOwn'
      /\ (Served => Served') /\ Commanded' = Commanded
  BY <1>4, <1>7, GuiIsTheSame DEF Served, Commanded
<1>9. ConfigFileStays'
  <2>1. Serving => /\ \A d \in waitingStops \union postedStops : ~IsLatest(d)
                   /\ NoStopAfter(toDaemon, c)
                   /\ Has(toGui, <<c, TRUE>>) => Served
                   /\ Asked => Served
    BY <1>1, <1>2 DEF Agree, ConfigFileStays
  <2>2. Serving /\ r = c /\ ok = TRUE => Served'
    BY <1>4, <1>7, <2>1 DEF Served
  <2>3. Serving => NoStopAfter(toDaemon', c) /\ (Has(toGui', <<c, TRUE>>) => Served')
    BY <1>5, <1>7, <1>8, <2>1, <2>2
  <2>4. QED  BY <1>1, <1>2, <1>8, <2>1, <2>3 DEF ConfigFileStays
<1>10. StartsAreAskedFor'
  <2>1. Serving /\ ~Asked => ~Has(toDaemon', s) /\ ~HasResultOf(toGui', s)
    BY <1>1, <1>2, <1>5, <1>6, <1>7 DEF Agree, StartsAreAskedFor
  <2>2. QED  BY <1>1, <1>2, <1>4, <1>8, <2>1 DEF Agree, StartsAreAskedFor
<1>11. CommandStays'
  <2>1. Serving => (Has(toGui', <<s, TRUE>>) => Commanded)
    BY <1>1, <1>2, <1>5, <1>6 DEF Agree, CommandStays
  <2>2. QED  BY <1>1, <1>2, <1>4, <1>8, <2>1 DEF Agree, CommandStays
<1>12. StopsArrive'
  <2>1. Off => Off'
    BY <1>4, <1>7 DEF Off
  <2>2. QED  BY <1>8, <2>1 DEF Agree, StopsArrive
<1>13. QED  BY <1>8, <1>9, <1>10, <1>11, <1>12 DEF Agree

LEMMA AnswersWho ==
  ASSUME NEW r, NEW ok, NEW a \in Answer(r, ok) PROVE a[1] = r
BY DEF Answer

LEMMA ApplyWatchdogCommandAgrees ==
  ASSUME Agree, RequestsType, ResultsType, UNCHANGED <<coreVars, settings>>, UNCHANGED daemonEnded,
         applyWatchdogCommand
  PROVE  Agree'
<1> USE DEF coreVars
<1>1. PICK g : g = m_coreStartGeneration /\ g = m_coreStartGeneration'
  OBVIOUS
<1>2. PICK c, s : c = ConfigFileOf(g) /\ s = StartOf(g)
  OBVIOUS
<1>a. s # NoRequest
  BY <1>2 DEF StartOf, NoRequest
<1>3. PICK r : r = Head(toDaemon)
  OBVIOUS
<1>4. Receives("start") /\ UNCHANGED m_configFile
  BY DEF applyWatchdogCommand
<1>5. r[1] = "start" /\ r # c /\ r # Stop
  <2>1. r[1] = "start"
    BY <1>3, <1>4, ReceivedInOrder
  <2>2. r # c /\ r # Stop
    BY <1>2, <2>1 DEF ConfigFileOf, Stop
  <2>3. QED  BY <2>1, <2>2
<1>6. /\ \A q : Has(toDaemon', q) => Has(toDaemon, q)
      /\ \A q : NoStopAfter(toDaemon, q) => NoStopAfter(toDaemon', q)
      /\ StopIsLast(toDaemon) => StopIsLast(toDaemon')
      /\ Has(toDaemon, r) /\ HasStart(toDaemon)
  BY <1>3, <1>4, <1>5, ReceivedInOrder
<1>7. /\ Serving' = Serving /\ Asked' = Asked /\ Resting' = Resting /\ AwaitsItsOwn'
      /\ (Served => Served')
  BY <1>4, <1>6, GuiIsTheSame DEF Served
<1>8. Serving /\ ~Asked => r # s
  BY <1>1, <1>2, <1>6 DEF Agree, StartsAreAskedFor
<1>9. StopsArrive'
  <2>1. Off => Off'
    BY <1>6 DEF Off
  <2>2. QED  BY <1>7, <2>1 DEF Agree, StopsArrive
<1>10. CASE settings # NoCommand /\ setProcessConfig(settings, r)
            /\ m_pendingCommands' = m_pendingCommands \union {r} /\ UNCHANGED toGui
  <2>1. /\ m_command' # NoCommand /\ m_startResultCallback' \in {NoRequest, r}
        /\ posted' \subseteq posted \union Answer(m_startResultCallback, FALSE)
                              \union Answer(r, TRUE)
    BY <1>10 DEF setProcessConfig, Superseded
  <2>2. Commanded'
    BY <2>1 DEF Commanded
  <2>3. ConfigFileStays'
    BY <1>1, <1>6, <1>7, <1>10 DEF Agree, ConfigFileStays
  <2>4. \A a \in posted' : a \in posted \/ a[1] = m_startResultCallback \/ a[1] = r
    BY <2>1, AnswersWho
  <2>5. StartsAreAskedFor'
    BY <1>1, <1>2, <1>a, <1>6, <1>7, <1>8, <1>10, <2>1, <2>4 DEF Agree, StartsAreAskedFor
  <2>6. QED  BY <1>7, <1>9, <2>2, <2>3, <2>5 DEF Agree, CommandStays
<1>11. CASE toGui' = Append(toGui, <<r, FALSE>>)
            /\ UNCHANGED <<m_pendingCommands, m_command, m_startResultCallback, posted>>
  <2>1. /\ \A q : HasResultOf(toGui', q) => HasResultOf(toGui, q) \/ q = r
        /\ \A q : Has(toGui', q) => Has(toGui, q) \/ q = <<r, FALSE>>
    BY <1>11, ResultIsAdded DEF ResultsType
  <2>2. Commanded' = Commanded /\ <<r, FALSE>> # <<s, TRUE>> /\ <<r, FALSE>> # <<c, TRUE>>
    BY <1>11 DEF Commanded
  <2>3. ConfigFileStays'
    <3>1. Serving => (Has(toGui', <<c, TRUE>>) => Served)
      BY <1>1, <1>2, <1>5, <2>1 DEF Agree, ConfigFileStays
    <3>2. QED  BY <1>1, <1>2, <1>6, <1>7, <3>1 DEF Agree, ConfigFileStays
  <2>4. StartsAreAskedFor'
    <3>1. Serving /\ ~Asked => ~HasResultOf(toGui', s)
      BY <1>1, <1>2, <1>8, <2>1 DEF Agree, StartsAreAskedFor
    <3>2. QED  BY <1>1, <1>2, <1>6, <1>7, <1>11, <3>1 DEF Agree, StartsAreAskedFor
  <2>5. CommandStays'
    <3>1. Serving => (Has(toGui', <<s, TRUE>>) => Commanded)
      BY <1>1, <1>2, <2>1, <2>2 DEF Agree, CommandStays
    <3>2. QED  BY <1>1, <1>2, <1>7, <1>11, <2>2, <3>1 DEF Agree, CommandStays
  <2>6. QED  BY <1>7, <1>9, <2>3, <2>4, <2>5 DEF Agree
<1>12. QED  BY <1>3, <1>10, <1>11 DEF applyWatchdogCommand

LEMMA ClearWatchdogCommandAgrees ==
  ASSUME Agree, RequestsType, UNCHANGED coreVars, UNCHANGED daemonEnded, clearWatchdogCommand
  PROVE  Agree'
<1> USE DEF coreVars
<1>1. PICK g : g = m_coreStartGeneration /\ g = m_coreStartGeneration'
  OBVIOUS
<1>2. PICK c, s : c = ConfigFileOf(g) /\ s = StartOf(g)
  OBVIOUS
<1>a. s # NoRequest
  BY <1>2 DEF StartOf, NoRequest
<1>3. /\ Receives("stop") /\ m_command' = NoCommand /\ m_startResultCallback' = NoRequest
      /\ posted' \subseteq posted \union Answer(m_startResultCallback, FALSE)
      /\ UNCHANGED <<toGui, m_pendingCommands>>
  BY DEF clearWatchdogCommand, setProcessConfig, Superseded
<1>4. PICK r : r = Head(toDaemon)
  OBVIOUS
<1>5. r = Stop
  BY <1>3, <1>4, ReceivedInOrder DEF Request
<1>6. /\ Has(toDaemon, Stop)
      /\ \A q : Has(toDaemon', q) => Has(toDaemon, q)
      /\ \A q : NoStopAfter(toDaemon, q) => NoStopAfter(toDaemon', q)
      /\ StopIsLast(toDaemon) => StopIsLast(toDaemon') \/ ~HasStart(toDaemon')
      /\ HasStart(toDaemon') => HasStart(toDaemon)
  BY <1>3, <1>4, <1>5, ReceivedInOrder
<1>7. Serving' = Serving /\ Asked' = Asked /\ Resting' = Resting /\ AwaitsItsOwn'
  BY GuiIsTheSame
<1>8. Serving => ~Asked /\ ~Has(toGui, <<c, TRUE>>)
  BY <1>1, <1>2, <1>6 DEF Agree, ConfigFileStays, Served
<1>9. ConfigFileStays'
  BY <1>1, <1>2, <1>3, <1>6, <1>7, <1>8 DEF Agree, ConfigFileStays
<1>10. \A a \in posted' : a \in posted \/ a[1] = m_startResultCallback
  BY <1>3, AnswersWho
<1>11. StartsAreAskedFor'
  BY <1>1, <1>2, <1>a, <1>3, <1>6, <1>7, <1>10 DEF Agree, StartsAreAskedFor
<1>12. CommandStays'
  <2>1. Serving' => /\ processState' # "Started"
                    /\ processState' = "Starting" => m_stage' # "WaitingForCore"
    BY <1>7, <1>8 DEF Asked, Serving
  <2>2. Serving => \A a \in posted' : a[1] # s
    BY <1>1, <1>2, <1>8, <1>10 DEF Agree, StartsAreAskedFor
  <2>3. Serving => <<s, TRUE>> \notin posted'
    <3>1. <<s, TRUE>>[1] = s
      OBVIOUS
    <3>2. QED  BY <2>2, <3>1
  <2>4. Serving => ~Has(toGui', <<s, TRUE>>)
    <3>1. Serving => ~HasResultOf(toGui', s)
      BY <1>1, <1>2, <1>3, <1>8 DEF Agree, StartsAreAskedFor
    <3>2. <<s, TRUE>>[1] = s
      OBVIOUS
    <3>3. QED  BY <3>1, <3>2 DEF Has, HasResultOf
  <2>5. QED  BY <1>1, <1>2, <1>7, <2>1, <2>3, <2>4 DEF CommandStays, Serving
<1>13. StopsArrive'
  <2>1. Off => Off'
    BY <1>3, <1>6 DEF Off
  <2>2. QED  BY <1>7, <2>1 DEF Agree, StopsArrive
<1>14. QED  BY <1>7, <1>9, <1>11, <1>12, <1>13 DEF Agree

LEMMA DaemonKeepsAgreement ==
  ASSUME DaemonInv, ResultsType, LinkFollowsDaemon, Agree, Daemon
  PROVE  Agree'
<1>1. UNCHANGED <<coreVars, settings>>
  BY DEF Daemon, OfDaemon
<1>2. RequestsType
  BY DEF DaemonInv
<1>3. CASE Crashes \/ ServiceStops
  <2>1. daemonEnded' = TRUE
    BY <1>3 DEF Daemon, OfDaemon, Crashes, ServiceStops, Boots
  <2>2. QED  BY <1>1, <1>3, <2>1, EndAgrees
<1>4. CASE Boots /\ UNCHANGED daemonEnded
  BY <1>1, <1>4, BootsAgree
<1>5. CASE (Ipc \/ Loop \/ DaemonFault) /\ OfDaemon
  <2>1. UNCHANGED daemonEnded
    BY <1>5 DEF OfDaemon
  <2>2. QED
    BY <1>1, <1>2, <1>5, <2>1, SetConfigFileAgrees, ApplyWatchdogCommandAgrees,
       ClearWatchdogCommandAgrees, DeliversAgrees, LoopStepsAgree
    DEF Ipc, Loop, DaemonFault
<1>6. QED  BY <1>3, <1>4, <1>5 DEF Daemon

LEMMA AgreementHolds == Spec => []AgreementInv
<1>1. Init => AgreementInv
  <2> SUFFICES ASSUME Init PROVE AgreementInv
    OBVIOUS
  <2>1. ~Serving /\ ~Resting
    BY ModeAssumption DEF Init, CoreInit, Serving, Resting
  <2>2. ResultsType
    BY DEF Init, CoreInit, WatchdogInit, ResultsType
  <2>3. RequestsAreKnown
    BY DEF Init, CoreInit, WatchdogInit, RequestsAreKnown, NoRequest
  <2>4. LinkFollowsDaemon
    BY DEF Init, CoreInit, WatchdogInit, LinkFollowsDaemon
  <2>5. QED
    BY <2>1, <2>2, <2>3, <2>4
    DEF AgreementInv, AwaitsItsOwn, ConfigFileStays, StartsAreAskedFor, CommandStays, StopsArrive
<1>2. CoreInv /\ CoreInv' /\ DaemonInv /\ AgreementInv /\ [Next]_vars => AgreementInv'
  <2> SUFFICES ASSUME CoreInv, CoreInv', DaemonInv, AgreementInv, [Next]_vars PROVE AgreementInv'
    OBVIOUS
  <2>a. ResultsType /\ RequestsAreKnown /\ LinkFollowsDaemon /\ Agree
    BY DEF AgreementInv, Agree
  <2>1. CASE Gui
    <3>1. ResultsType' /\ RequestsAreKnown' /\ LinkFollowsDaemon'
      BY <2>1, <2>a, GuiKeepsKnown, GuiKeepsLink
    <3>2. Agree'
      BY <2>1, <2>a, GuiKeepsAgreement
    <3>3. QED  BY <3>1, <3>2 DEF AgreementInv, Agree
  <2>2. CASE Daemon
    <3>1. ResultsType' /\ RequestsAreKnown' /\ LinkFollowsDaemon'
      BY <2>2, <2>a, DaemonKeepsKnown, DaemonKeepsLink
    <3>2. Agree'
      BY <2>2, <2>a, DaemonKeepsAgreement
    <3>3. QED  BY <3>1, <3>2 DEF AgreementInv, Agree
  <2>3. CASE UNCHANGED vars
    <3>1. ResultsType' /\ RequestsAreKnown' /\ LinkFollowsDaemon'
      BY <2>3, <2>a
      DEF vars, coreVars, watchdogVars, ResultsType, RequestsAreKnown, LinkFollowsDaemon
    <3>2. /\ UNCHANGED <<linkVars, stopVars, DaemonSide, coordinatorVars, startVars, processState>>
      BY <2>3 DEF vars, coreVars, watchdogVars, DaemonSide
    <3>3. Serving' = Serving /\ Resting' = Resting
      BY <3>2 DEF Serving, Resting
    <3>4. Agree'
      BY <2>a, <3>2, <3>3, QuietKeepsAgreement
    <3>5. QED  BY <3>1, <3>4 DEF AgreementInv, Agree
  <2>4. QED  BY <2>1, <2>2, <2>3 DEF Next
<1>3. QED  BY <1>1, <1>2, CoreInvHolds, DaemonInvHolds, PTL DEF Spec

\* While the GUI shows the daemon's core as started, the daemon keeps its config
\* file and its command; once it has stopped the core and nothing is on its way,
\* the daemon has no command, in whatever order requests, answers, lost
\* connections and ends of the daemon come (stopProcessFromDaemon,
\* setConfigFile, clearWatchdogCommand).
THEOREM DaemonAlwaysAgrees == Spec => []DaemonAgrees
<1>1. CoreInv /\ AgreementInv => DaemonAgrees
  <2> SUFFICES ASSUME CoreInv, AgreementInv, m_lastProcessMode = Service PROVE DaemonAgrees
    BY DEF DaemonAgrees
  <2>1. processState = "Started" => m_configFile /\ (daemonEnded \/ m_command # NoCommand)
    BY DEF AgreementInv, ConfigFileStays, CommandStays, Serving, Asked, Served, Commanded
  <2>2. ASSUME toDaemon = << >>, waitingStops = {}, postedStops = {},
               wish \in {"stop", "failed"}, ~daemonEnded
        PROVE  m_command = NoCommand
    <3>1. processState \in {"Stopped", "Stopping"}
      BY <2>2 DEF CoreInv, OrderIsKept
    <3>2. Off
      BY <2>2, <3>1 DEF AgreementInv, StopsArrive, Resting
    <3>3. QED  BY <2>2, <3>2 DEF Off, StopIsLast
  <2>3. QED  BY <2>1, <2>2 DEF DaemonAgrees
<1>2. QED  BY <1>1, CoreInvHolds, AgreementHolds, PTL
==============================================================================
