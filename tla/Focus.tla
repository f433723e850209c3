------------------------------- MODULE Focus -------------------------------
(***************************************************************************)
(* What the server promises its user about the keyboard and mouse: there   *)
(* is always exactly one screen that has them, it is a screen that is      *)
(* there, and it is the server's own screen again once the screen that had *)
(* them is gone.  How the server decides to move them (screen edges,       *)
(* delays, double taps, hot keys, screen savers, input leases) is none of  *)
(* this module's business; ScreenSwitch implements it.                     *)
(***************************************************************************)
CONSTANTS Conn,      \* connections of secondary screens
          Primary    \* the server's own screen, never absent

VARIABLES present,   \* the connections the server serves
          focus      \* the screen that has the keyboard and mouse

vars == <<present, focus>>

Init == present = {} /\ focus = Primary

Join(c) ==
  /\ c \notin present
  /\ present' = present \union {c}
  /\ UNCHANGED focus

\* Some connections end together (one configuration change can drop many).
Part(S) ==
  /\ S \subseteq present
  /\ present' = present \ S
  /\ focus' = IF focus \in S THEN Primary ELSE focus

Move(s) ==
  /\ s \in present \union {Primary}
  /\ focus' = s
  /\ UNCHANGED present

Next ==
  \/ \E c \in Conn : Join(c)
  \/ \E S \in SUBSET Conn : Part(S)
  \/ \E s \in Conn \union {Primary} : Move(s)

Spec == Init /\ [][Next]_vars
=============================================================================
