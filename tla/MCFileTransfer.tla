--------------------------- MODULE MCFileTransfer ---------------------------
(***************************************************************************)
(* File transfer twice: one client that sends two files, twice, where      *)
(* files and directories fail; and the server and a client that both send, *)
(* where connections are lost and made again and licences end.  A          *)
(* behaviour is one of one of the two.                                     *)
(***************************************************************************)
EXTENDS FileTransfer, TLC

CONSTANTS a, b
Clients == {a, b}
JustA == {a}
PrimaryAndA == {a, Primary}
All == {a, b, Primary}

VARIABLE part       \* "faults" or "losses"

Lossy == INSTANCE FileTransfer
  WITH Senders <- PrimaryAndA, Items <- 1, Faults <- FALSE, Expiry <- TRUE, Drops <- TRUE,
       MaxRequests <- 1, MaxConnects <- 2

BothInit == \/ part = "faults" /\ Init
            \/ part = "losses" /\ Lossy!Init

BothNext == /\ UNCHANGED part
            /\ \/ part = "faults" /\ Next
               \/ part = "losses" /\ Lossy!Next

\* The fairness of FileTransfer, where no connection is lost.
Faulty(A) == part = "faults" /\ A
BothSpec ==
  /\ BothInit /\ [][BothNext]_<<part, vars>>
  /\ \A n \in Node : WF_vars(Faulty(Handles(n))) /\ WF_vars(Faulty(SendsOn(n)))
  /\ \A c \in Conn :
       WF_vars(Faulty(Routes(c))) /\ WF_vars(Faulty(expirePendingEdgeRequest(c)))

\* Where files and directories fail, but no connection, every transfer ends
\* (FileTransferService::failSession, handleResult).
TransfersEndDespiteFaults == part = "faults" => TransfersEnd
=============================================================================
