----------------------------- MODULE EventFifo -----------------------------
(***************************************************************************)
(* What the event queue promises (lib/base/IEventQueue.h): events are      *)
(* taken in the order they were put in, each once, and all that are        *)
(* waiting are discarded when the buffer is replaced.                      *)
(***************************************************************************)
EXTENDS Naturals, Sequences

CONSTANT Event

VARIABLES
  queue,    \* the events that wait
  taken     \* the last event that was taken, in a sequence; empty at first

fifoVars == <<queue, taken>>

FifoInit == queue = << >> /\ taken = << >>

Put(e) == queue' = Append(queue, e) /\ UNCHANGED taken

Take ==
  /\ queue # << >>
  /\ taken' = <<Head(queue)>>
  /\ queue' = Tail(queue)

Discard == queue' = << >> /\ UNCHANGED taken

FifoNext == (\E e \in Event : Put(e)) \/ Take \/ Discard

FifoSpec == FifoInit /\ [][FifoNext]_fifoVars
=============================================================================
