------------------------------ MODULE ServiceLink -----------------------------
(***************************************************************************)
(* What the GUI and the daemon of a Windows computer share: the local      *)
(* socket between them (lib/gui/ipc, lib/deskflow/ipc), the settings file  *)
(* the core will read, and the core processes of the computer.             *)
(***************************************************************************)
EXTENDS Naturals, Sequences

CONSTANTS
  Command,         \* command lines of the core: a mode, its settings, elevation
  NoCommand        \* the empty command line

ASSUME LinkAssumption == NoCommand \notin Command

VARIABLES
  m_state,             \* of the GUI's IpcClient; "Lost" is Connected to a socket that is gone
  toDaemon,            \* requests on their way
  toGui,               \* results on their way: <<request, ok>>
  m_pendingCommands,   \* the start requests of this connection that have no result yet
  daemonUp,            \* the daemon runs and listens
  settings,            \* what the settings file makes of a start
  m_process,           \* the command of the watchdog's core process, if one runs
  strays,              \* a core runs that an earlier daemon started
  foreground           \* the GUI's own core process

linkVars == <<m_state, toDaemon, toGui, m_pendingCommands>>

\* A request and its number, or generation.
NoRequest == <<"none", 0>>
Stop == <<"stop", 0>>
Request == {"configFile", "start"} \X Nat

\* IpcClient::sendMessage.  Without a connection the message is dropped.
IsConnected == m_state \in {"Connected", "Lost"}
Sends(m) == toDaemon' = IF m_state = "Connected" THEN Append(toDaemon, m) ELSE toDaemon

\* completeCommand, for a request whose connection is still there.
Completes(r, ok) ==
  /\ toGui' = IF r \in m_pendingCommands THEN Append(toGui, <<r, ok>>) ELSE toGui
  /\ m_pendingCommands' = m_pendingCommands \ {r}

\* What is left of a connection that one side has ended.
CutLink == toDaemon' = << >> /\ m_pendingCommands' = {}

\* The core that listens for its GUI.  A second core ends with s_exitDuplicate.
ServiceCore == m_process # NoCommand
OtherCore == ServiceCore \/ strays
SomeCore == OtherCore \/ foreground = "running"

\* shutdownExistingProcesses ends every core but the caller's own, if it is one.
KillsOthers ==
  /\ strays' = FALSE
  /\ foreground' = IF foreground = "running" THEN "success" ELSE foreground
=============================================================================
