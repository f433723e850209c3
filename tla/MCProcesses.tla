------------------------------ MODULE MCProcesses -----------------------------
(* Two commands; any three acts of the user, failures or ends of the daemon. *)
EXTENDS Processes, TLC

CONSTANTS k1, k2
TwoCommands == {k1, k2}
=============================================================================
