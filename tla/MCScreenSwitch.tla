--------------------------- MODULE MCScreenSwitch ---------------------------
(***************************************************************************)
(* The server's screens under calm options, with two machines that have a  *)
(* name each; and the life of the server in its application, with two      *)
(* clients.  A behaviour is one of one part; the other stays as it begins. *)
(***************************************************************************)
EXTENDS ScreenSwitch, ServerLife, TLC

CONSTANTS c1, c2, left, right
TwoConns == {c1, c2}
TwoNames == (c1 :> left) @@ (c2 :> right)

VARIABLE part        \* "screens" or "life"

CalmInit ==
  /\ Init /\ LifeInit
  /\ \/ part = "screens" /\ m_fileTransferService
     \/ part = "life" /\ ~m_lockedToScreen
CalmNext ==
  /\ UNCHANGED part
  /\ \/ part = "screens" /\ Calm /\ Next /\ UNCHANGED lifeVars
     \/ part = "life" /\ LifeNext /\ UNCHANGED vars
     \/ part = "life" /\ UNCHANGED <<vars, lifeVars>>   \* nobody need do anything more

\* Neither part's fairness asks anything while the part is at rest.
CalmSpec ==
  CalmInit /\ [][CalmNext]_<<part, vars, lifeVars>> /\ Fairness /\ LifeFairness
=============================================================================
