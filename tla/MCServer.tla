------------------------------- MODULE MCServer -------------------------------
(***************************************************************************)
(* The server's screens under every option, with two connections that have *)
(* one name: a machine that connects again while the server still holds    *)
(* its old proxy, or a second machine that claims a name in use.  And its  *)
(* clipboards, with two clients.  A behaviour is one of one part; the      *)
(* other stays as it begins.                                               *)
(***************************************************************************)
EXTENDS ScreenSwitch, ClipboardShare, TLC

CONSTANTS c1, c2, left
TwoConns == {c1, c2}
OneName == [c \in TwoConns |-> left]
JustLeft == {left}

Setting(p, b, h, d, n) ==
  [platform |-> p, background |-> b, hurried |-> h, drops |-> d, switches |-> n]
\* One copy at a time where the cursor is; copies on any screen; copies where
\* the cursor is while connections are lost.
CalmBackgroundAndDrops ==
  {Setting("macOS", FALSE, FALSE, FALSE, 4),
   Setting("macOS", TRUE, FALSE, FALSE, 3),
   Setting("X11", FALSE, FALSE, TRUE, 4)}
Swaps == Permutations(TwoConns)   \* the clients are alike

VARIABLE part

ServerInit ==
  /\ Init /\ ClipboardInit
  /\ \/ part = "clipboards" /\ ~m_lockedToScreen
     \/ part = "screens" /\ setting = Setting("macOS", FALSE, FALSE, FALSE, 4)

ServerNext ==
  /\ UNCHANGED part
  /\ \/ part = "clipboards" /\ ClipboardNext /\ UNCHANGED vars
     \/ part = "screens" /\ Next /\ UNCHANGED clipboardVars

ServerSpec == ServerInit /\ [][ServerNext]_<<part, vars, clipboardVars>>
=============================================================================
