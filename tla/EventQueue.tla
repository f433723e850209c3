----------------------------- MODULE EventQueue -----------------------------
(***************************************************************************)
(* The event queue (lib/base/EventQueue.cpp) with its own buffer           *)
(* (SimpleEventQueueBuffer.cpp): one thread loops, taking events and       *)
(* timers and running their handlers; others add events.                   *)
(*                                                                         *)
(* The buffer holds numbers; the events they stand for are in a table, and *)
(* a number is used again once its event was taken.  Events added before   *)
(* the loop is ready wait in m_pending, which no lock protects.  Timers    *)
(* count down by what a stopwatch shows each time they are looked at.      *)
(*                                                                         *)
(* A step is a critical section of m_mutex, m_readyMutex or the buffer's   *)
(* mutex, or the accesses between two of them.  Abstracted: the table of   *)
(* handlers, events that are dispatched at once by the thread that adds    *)
(* them, and the buffers of the platforms (which may hold system events).  *)
(***************************************************************************)
EXTENDS Integers, Sequences, FiniteSets

CONSTANTS
  Thread,        \* threads, other than the loop's, that add events
  Event,         \* events, each added once at most
  Quit,          \* the event of type EventTypes::Quit
  NoEvent,
  EventTimer,    \* timers
  Duration,      \* of each timer, in units of the clock
  OneShot,       \* timers made by newOneShotTimer
  MaxClock       \* bound: the clock

ASSUME EventAssumption == Quit \in Event /\ NoEvent \notin Event
ASSUME TimerAssumption ==
  /\ Duration \in [EventTimer -> Nat \ {0}] /\ OneShot \subseteq EventTimer
  /\ NoEvent \notin EventTimer
ASSUME ClockAssumption == MaxClock \in Nat

VARIABLES
  added,         \* events that some thread has passed to addEvent
  hand,          \* the event each thread is adding
  sawReady,      \* what that thread has read from m_readyCondVar
  m_ready,       \* m_readyCondVar
  m_pending,
  m_events,      \* the table: events by number
  m_oldEventIDs,
  m_queue,       \* the buffer, oldest number first
  loopPc,        \* where loop() is
  dataID,        \* the number it has taken from the buffer
  event,         \* the last event it has taken from the table
  m_timers, m_timerQueue,
  left,          \* Timer::m_time of the timers in the queue
  m_time,        \* what the queue's stopwatch shows
  m_timerEvent,  \* the last timer event
  clock, since   \* history: the time, and when each timer last started

addVars == <<added, hand, sawReady>>
tableVars == <<m_events, m_oldEventIDs, m_queue>>
timerVars == <<m_timers, m_timerQueue, left, m_time, m_timerEvent, clock, since>>
eventVars == <<added, hand, sawReady, m_ready, m_pending, m_events,
               m_oldEventIDs, m_queue, loopPc, dataID, event, m_timers,
               m_timerQueue, left, m_time, m_timerEvent, clock, since>>

QueueInit ==
  /\ added = {} /\ hand = [t \in Thread |-> NoEvent]
  /\ sawReady = [t \in Thread |-> FALSE]
  /\ m_ready = FALSE /\ m_pending = << >>
  /\ m_events = << >> /\ m_oldEventIDs = << >> /\ m_queue = << >>
  /\ loopPc = "before" /\ dataID = 0 /\ event = << >>
  /\ m_timers = {} /\ m_timerQueue = {}
  /\ left = [t \in EventTimer |-> 0] /\ m_time = 0
  /\ m_timerEvent = [m_timer |-> NoEvent, m_count |-> 0]
  /\ clock = 0 /\ since = [t \in EventTimer |-> 0]

-----------------------------------------------------------------------------
(* The table and the buffer.                                               *)

Last(s) == s[Len(s)]
Front(s) == SubSeq(s, 1, Len(s) - 1)

\* mutant: the number is always the size of the table
SizeOfTable == Cardinality(DOMAIN m_events)

\* saveEvent: a number is used again if there is one.
NewID ==
  IF m_oldEventIDs # << >> THEN Last(m_oldEventIDs)
  ELSE Cardinality(DOMAIN m_events)

\* addEventToBuffer: saveEvent and the buffer's addEvent, under m_mutex.
addEventToBuffer(e) ==
  /\ m_oldEventIDs' = IF m_oldEventIDs # << >> THEN Front(m_oldEventIDs)
                      ELSE m_oldEventIDs
  /\ m_events' = [i \in DOMAIN m_events \union {NewID} |->
                    IF i = NewID THEN e ELSE m_events[i]]
  /\ m_queue' = Append(m_queue, NewID)

removeEvent(id) ==
  /\ m_events' = [i \in DOMAIN m_events \ {id} |-> m_events[i]]
  /\ m_oldEventIDs' = Append(m_oldEventIDs, id)

-----------------------------------------------------------------------------
(* Other threads.                                                          *)

\* addEvent reads m_readyCondVar, without its lock ...
BeginAdd(t, e) ==
  /\ hand[t] = NoEvent /\ e \notin added
  /\ added' = added \union {e}
  /\ hand' = [hand EXCEPT ![t] = e]
  /\ sawReady' = [sawReady EXCEPT ![t] = m_ready]
  /\ UNCHANGED <<m_ready, m_pending, tableVars, loopPc, dataID, event, timerVars>>

\* ... and goes by what it has read.  While loop() empties m_pending, pushing
\* onto it is a race, and the event may be lost.
EndAdd(t) ==
  /\ hand[t] # NoEvent
  /\ hand' = [hand EXCEPT ![t] = NoEvent]
  /\ IF sawReady[t]
     THEN addEventToBuffer(hand[t]) /\ UNCHANGED m_pending
     ELSE /\ \/ m_pending' = Append(m_pending, hand[t])
             \/ loopPc = "moving" /\ UNCHANGED m_pending
          /\ UNCHANGED tableVars
  /\ UNCHANGED <<added, sawReady, m_ready, loopPc, dataID, event, timerVars>>

-----------------------------------------------------------------------------
(* The loop's thread.                                                      *)

\* Code that runs before loop(), or a handler, adds an event.
LoopAdds(e) ==
  /\ loopPc \in {"before", "dispatch"} /\ e \notin added
  /\ added' = added \union {e}
  /\ IF m_ready
     THEN addEventToBuffer(e) /\ UNCHANGED m_pending
     ELSE m_pending' = Append(m_pending, e) /\ UNCHANGED tableVars
  /\ UNCHANGED <<hand, sawReady, m_ready, loopPc, dataID, event, timerVars>>

\* loop() begins.
Ready ==
  /\ loopPc = "before"
  /\ m_ready' = TRUE /\ loopPc' = "moving"
  /\ UNCHANGED <<addVars, m_pending, tableVars, dataID, event, timerVars>>

MovePending ==
  /\ loopPc = "moving"
  /\ IF m_pending = << >>
     THEN loopPc' = "get" /\ UNCHANGED <<m_pending, tableVars>>
     ELSE /\ addEventToBuffer(Head(m_pending))
          /\ m_pending' = Tail(m_pending) /\ UNCHANGED loopPc
  /\ UNCHANGED <<addVars, m_ready, dataID, event, timerVars>>

\* SimpleEventQueueBuffer::getEvent
TakeID ==
  /\ loopPc = "get" /\ m_queue # << >>
  /\ dataID' = Head(m_queue) /\ m_queue' = Tail(m_queue)
  /\ loopPc' = "remove"
  /\ UNCHANGED <<addVars, m_ready, m_pending, m_events, m_oldEventIDs, event,
                 timerVars>>

TakeEvent ==
  /\ loopPc = "remove"
  /\ event' = <<m_events[dataID]>>
  /\ removeEvent(dataID)
  /\ loopPc' = IF m_events[dataID] = Quit THEN "quit" ELSE "dispatch"
  /\ UNCHANGED <<addVars, m_ready, m_pending, m_queue, dataID, timerVars>>

\* The buffer is empty: wait for an event or a timer.
Wait ==
  /\ loopPc = "get" /\ m_queue = << >> /\ m_timerQueue = {}
  /\ loopPc' = "wait"
  /\ UNCHANGED <<addVars, m_ready, m_pending, tableVars, dataID, event, timerVars>>

\* mutant: only a timer ends the wait
OnlyTimers == \E t \in m_timerQueue : left[t] <= m_time
HasWork == m_queue # << >> \/ \E t \in m_timerQueue : left[t] <= m_time

WaitOver ==
  /\ loopPc = "wait"
  /\ HasWork
  /\ loopPc' = "get"
  /\ UNCHANGED <<addVars, m_ready, m_pending, tableVars, dataID, event, timerVars>>

-----------------------------------------------------------------------------
(* Timers.  All are made, deleted and looked at by the loop's thread.      *)

Tick ==
  /\ clock < MaxClock
  /\ clock' = clock + 1 /\ m_time' = m_time + 1
  /\ UNCHANGED <<addVars, m_ready, m_pending, tableVars, loopPc, dataID, event,
                 m_timers, m_timerQueue, left, m_timerEvent, since>>

\* mutant: the stopwatch is not allowed for
CountsFromZero(t) == Duration[t]

\* The time that the stopwatch shows is subtracted at the next look.
InitialTime(t) == Duration[t] + m_time

\* newTimer and newOneShotTimer
newTimer(t) ==
  /\ loopPc \in {"before", "dispatch"} /\ t \notin m_timers
  /\ m_timers' = m_timers \union {t}
  /\ m_timerQueue' = m_timerQueue \union {t}
  /\ left' = [left EXCEPT ![t] = InitialTime(t)]
  /\ since' = [since EXCEPT ![t] = clock]
  /\ UNCHANGED <<addVars, m_ready, m_pending, tableVars, loopPc, dataID, event,
                 m_time, m_timerEvent, clock>>

\* mutant: a timer that is deleted stays in the queue
StaysQueued(t) == UNCHANGED m_timerQueue

Unqueue(t) == m_timerQueue' = m_timerQueue \ {t}

deleteTimer(t) ==
  /\ loopPc \in {"before", "dispatch"} /\ t \in m_timers
  /\ m_timers' = m_timers \ {t}
  /\ Unqueue(t)
  /\ UNCHANGED <<addVars, m_ready, m_pending, tableVars, loopPc, dataID, event,
                 left, m_time, m_timerEvent, clock, since>>

\* What each timer has left, and which is on top of the priority queue.
Remaining(t) == left[t] - m_time
IsTop(t) ==
  t \in m_timerQueue /\ \A u \in m_timerQueue : Remaining(t) <= Remaining(u)

\* mutant: a timer starts again at the time it should have expired
ResetsToDue(t) == Duration[t] + Remaining(t)
ResetTime(t) == Duration[t]

\* Timer::fillEvent
Count(t) == (Duration[t] - Remaining(t)) \div Duration[t]

\* hasTimerExpired with a timer that has: it fires at once, and starts again.
Expire(t) ==
  /\ loopPc = "get" /\ m_queue = << >>
  /\ IsTop(t) /\ Remaining(t) <= 0
  /\ m_time' = 0
  /\ left' = [u \in EventTimer |->
                IF u = t /\ t \notin OneShot THEN ResetTime(t)
                ELSE IF u \in m_timerQueue THEN Remaining(u) ELSE left[u]]
  /\ m_timerQueue' = IF t \in OneShot THEN m_timerQueue \ {t} ELSE m_timerQueue
  /\ m_timerEvent' = [m_timer |-> t, m_count |-> Count(t)]
  /\ since' = [since EXCEPT ![t] = clock]
  /\ loopPc' = "dispatch"
  /\ UNCHANGED <<addVars, m_ready, m_pending, tableVars, dataID, event, m_timers,
                 clock>>

\* ... and with none that has.
NoneExpired ==
  /\ loopPc = "get" /\ m_queue = << >> /\ m_timerQueue # {}
  /\ \A t \in m_timerQueue : Remaining(t) > 0
  /\ left' = [u \in EventTimer |->
                IF u \in m_timerQueue THEN Remaining(u) ELSE left[u]]
  /\ m_time' = 0
  /\ loopPc' = "wait"
  /\ UNCHANGED <<addVars, m_ready, m_pending, tableVars, dataID, event, m_timers,
                 m_timerQueue, m_timerEvent, clock, since>>

-----------------------------------------------------------------------------
DiscardsAll == m_events' = << >> /\ m_oldEventIDs' = << >> /\ m_queue' = << >>

\* A screen is opened or closed.
adoptBuffer ==
  /\ loopPc \in {"before", "dispatch"}
  /\ m_events # << >>
  /\ DiscardsAll
  /\ UNCHANGED <<addVars, m_ready, m_pending, loopPc, dataID, event, timerVars>>

HandlerReturns ==
  /\ loopPc = "dispatch" /\ loopPc' = "get"
  /\ UNCHANGED <<addVars, m_ready, m_pending, tableVars, dataID, event, timerVars>>

LoopStep ==
  \/ Ready \/ MovePending \/ TakeID \/ TakeEvent \/ Wait \/ WaitOver
  \/ (\E t \in EventTimer : Expire(t)) \/ NoneExpired \/ HandlerReturns

\* The loop has quit, or there is nothing to do and no time left.
QueueIdle ==
  /\ loopPc = "quit" \/ (loopPc = "wait" /\ m_queue = << >>)
  /\ UNCHANGED eventVars

QueueNext ==
  \/ \E t \in Thread, e \in Event : BeginAdd(t, e)
  \/ \E t \in Thread : EndAdd(t)
  \/ \E e \in Event : LoopAdds(e)
  \/ \E t \in EventTimer : newTimer(t) \/ deleteTimer(t)
  \/ adoptBuffer
  \/ LoopStep
  \/ Tick
  \/ QueueIdle

QueueSpec == QueueInit /\ [][QueueNext]_eventVars

-----------------------------------------------------------------------------
(* Properties.                                                             *)

ListOf(s) == {s[i] : i \in 1 .. Len(s)}

\* Every variable has its type; loop() is ready when it has begun.
QueueTypeOK ==
  /\ added \subseteq Event /\ hand \in [Thread -> added \union {NoEvent}]
  /\ sawReady \in [Thread -> BOOLEAN] /\ m_ready = (loopPc # "before")
  /\ ListOf(m_pending) \subseteq Event
  /\ DOMAIN m_events \subseteq Nat
  /\ \A i \in DOMAIN m_events : m_events[i] \in Event
  /\ loopPc \in {"before", "moving", "get", "remove", "wait", "dispatch", "quit"}
  /\ m_timerQueue \subseteq m_timers /\ m_timers \subseteq EventTimer
  /\ left \in [EventTimer -> Int] /\ m_time \in 0 .. clock
  /\ clock \in 0 .. MaxClock /\ since \in [EventTimer -> 0 .. clock]

\* The numbers the buffer holds, with the one that has been taken from it.
Waiting == IF loopPc = "remove" THEN <<dataID>> \o m_queue ELSE m_queue

\* Each number is used for one event at a time: those in the buffer are those
\* of the table, none twice; those kept for use again are others, none twice;
\* and there are no gaps, so that the table's size is new when none is kept.
NumbersAreUnique ==
  /\ \A i, j \in 1 .. Len(Waiting) : Waiting[i] = Waiting[j] => i = j
  /\ ListOf(Waiting) = DOMAIN m_events
  /\ \A i, j \in 1 .. Len(m_oldEventIDs) :
       m_oldEventIDs[i] = m_oldEventIDs[j] => i = j
  /\ ListOf(m_oldEventIDs) \intersect DOMAIN m_events = {}
  /\ \A i \in ListOf(m_oldEventIDs) \union DOMAIN m_events :
       0 .. i \subseteq ListOf(m_oldEventIDs) \union DOMAIN m_events

\* The events that wait, oldest first.
Contents == [i \in 1 .. Len(Waiting) |-> m_events[Waiting[i]]]

\* Once in the buffer, events are taken in order, each once, and none is lost
\* except when the buffer is replaced (IEventQueue.h: addEvent "Adds event to
\* the end of the queue"; adoptBuffer: "Any queued events are discarded").
Fifo == INSTANCE EventFifo WITH queue <- Contents, taken <- event
ImplementsFifo == Fifo!FifoSpec

\* Timers are on time.  What one has left is its duration less the time since
\* it was started or last fired, whenever other timers were looked at, made or
\* deleted; none fires early, nor once it is deleted (IEventQueue.h: "will not
\* generate event, even if the timer has expired"); and m_count tells how often
\* it would have fired since its last event (IEventQueue.h, newTimer).
TimersKeepTime ==
  \A t \in m_timerQueue : Remaining(t) = Duration[t] - (clock - since[t])
FiresOnTime(t) ==
  /\ t \in m_timers /\ clock - since[t] >= Duration[t]
  /\ m_timerEvent'.m_count = (clock - since[t]) \div Duration[t]
TimersAreOnTime ==
  [][TimersKeepTime' /\ \A t \in EventTimer : Expire(t) => FiresOnTime(t)]_eventVars

\* An event in the buffer is taken, unless the loop ends or the buffer is
\* replaced.
WaitingIsTaken ==
  \A e \in Event :
    (\E i \in DOMAIN m_events : m_events[i] = e)
      ~> (\A i \in DOMAIN m_events : m_events[i] # e) \/ loopPc = "quit"

\* The loop's thread goes on as long as it has something to do, and handlers
\* return.
QueueFairness == WF_eventVars(LoopStep)
QueueFairSpec == QueueSpec /\ QueueFairness
=============================================================================
