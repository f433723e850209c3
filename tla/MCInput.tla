------------------------------- MODULE MCInput ------------------------------
(***************************************************************************)
(* Input that goes to other computers, in one run: the relay of keys, and  *)
(* sessions in which one computer controls another.  A behaviour is one of *)
(* one part; the other stays in its first state.                           *)
(***************************************************************************)
EXTENDS KeyRelay, InputSessions, TLC

CONSTANTS
  a, b,            \* Name
  k,               \* Button
  host, guest,     \* Computer
  x, y             \* Session

AllSettings == [pauses : BOOLEAN, losses : BOOLEAN, controls : BOOLEAN]
OnlyPauses == {[pauses |-> TRUE, losses |-> FALSE, controls |-> FALSE]}
Control == {"bidirectional-control"}
BothKinds == {"bidirectional-control", "simultaneous-input"}

VARIABLE part

vars == <<part, keyRelayVars, sessionVars>>

Init ==
  /\ part \in {"keys", "sessions"} /\ RelayInit /\ SessionInit
  /\ part = "sessions" => setting \in OnlyPauses /\ ~licensed

Next ==
  /\ UNCHANGED part
  /\ \/ part = "keys" /\ RelayNext /\ UNCHANGED sessionVars
     \/ part = "sessions" /\ SessionNext /\ UNCHANGED keyRelayVars

\* The fairness of the sessions asks nothing while nobody has requested one.
Spec == Init /\ [][Next]_vars /\ SessionFairness
=============================================================================
