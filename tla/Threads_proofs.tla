--------------------------- MODULE Threads_proofs ---------------------------
(***************************************************************************)
(* Theorems about what threads share and what they send, for any threads,  *)
(* events, timers, sockets, jobs, bytes and packets.  First EventQueue's   *)
(* table and buffer: numbers are unique, and so events are taken first in, *)
(* first out.  Then SocketMultiplexer: its locks and waits, where the list *)
(* does not matter, and the list.  Then DataSocket, plain and with TLS:    *)
(* what is sent is what was written, and no work goes unnoticed.  Then     *)
(* PacketStream: what was written is read, to the end.  Then StreamBuffer: *)
(* a peek returns the bytes that are next.  Last the types of MCMessages.  *)
(***************************************************************************)
EXTENDS MCMessages, SocketMultiplexer, FiniteSetTheorems, SequenceTheorems,
        WellFoundedInduction, TLAPS

(***************************************************************************)
(* Sequences of numbers, none of which is there twice.                     *)
(***************************************************************************)
Distinct(s) == \A i, j \in 1 .. Len(s) : s[i] = s[j] => i = j

LEMMA AppendNumber ==
  ASSUME NEW s \in Seq(Nat), NEW k \in Nat, Distinct(s), k \notin ListOf(s)
  PROVE  /\ Append(s, k) \in Seq(Nat) /\ Distinct(Append(s, k))
         /\ ListOf(Append(s, k)) = ListOf(s) \union {k}
<1>1. /\ Append(s, k) \in Seq(Nat) /\ Len(Append(s, k)) = Len(s) + 1
      /\ \A i \in 1 .. Len(s) : Append(s, k)[i] = s[i]
      /\ Append(s, k)[Len(s) + 1] = k /\ Len(s) \in Nat
  OBVIOUS
<1>2. Distinct(Append(s, k))
  <2> DEFINE t == Append(s, k)
  <2>1. \A h \in 1 .. Len(s) : t[h] = s[h] /\ s[h] # k
    BY <1>1 DEF ListOf
  <2>2. Len(t) = Len(s) + 1 /\ t[Len(s) + 1] = k
    BY <1>1
  <2> HIDE DEF t
  <2>3. ASSUME NEW i \in 1 .. Len(t), NEW j \in 1 .. Len(t), t[i] = t[j] PROVE i = j
    <3>1. (i \in 1 .. Len(s) \/ i = Len(s) + 1) /\ (j \in 1 .. Len(s) \/ j = Len(s) + 1)
      BY <1>1, <2>2
    <3>2. CASE i \in 1 .. Len(s) /\ j \in 1 .. Len(s)
      BY <2>1, <2>3, <3>2 DEF Distinct
    <3>3. QED  BY <2>1, <2>2, <2>3, <3>1, <3>2
  <2>4. QED  BY <2>3 DEF Distinct, t
<1>3. ListOf(Append(s, k)) = ListOf(s) \union {k}
  <2>1. \A x : x \in ListOf(Append(s, k)) <=> \E i \in 1 .. Len(s) + 1 : Append(s, k)[i] = x
    BY <1>1 DEF ListOf
  <2>2. \A x : x \in ListOf(s) <=> \E i \in 1 .. Len(s) : s[i] = x
    BY DEF ListOf
  <2>3. \A x : x \in ListOf(Append(s, k)) <=> x \in ListOf(s) \/ x = k
    BY <1>1, <2>1, <2>2
  <2>4. QED  BY <2>3
<1>4. QED  BY <1>1, <1>2, <1>3

LEMMA DropLast ==
  ASSUME NEW s \in Seq(Nat), Distinct(s), s # << >>
  PROVE  /\ Last(s) \in Nat /\ Last(s) \in ListOf(s)
         /\ Front(s) \in Seq(Nat) /\ Distinct(Front(s))
         /\ ListOf(Front(s)) = ListOf(s) \ {Last(s)}
<1>1. Len(s) \in Nat \ {0} /\ \A i \in 1 .. Len(s) : s[i] \in Nat
  <2>1. Len(s) \in Nat /\ Len(s) # 0
    BY EmptySeq
  <2>2. \A i \in 1 .. Len(s) : s[i] \in Nat
    BY ONLY s \in Seq(Nat), ElementOfSeq
  <2>3. QED  BY ONLY <2>1, <2>2
<1>2. PICK n \in Nat : Len(s) = n + 1
  <2>1. Len(s) - 1 \in Nat /\ Len(s) = Len(s) - 1 + 1
    BY <1>1
  <2>2. QED  BY <2>1
<1>3. Front(s) = SubSeq(s, 1, n)
  <2>1. Len(s) - 1 = n
    BY <1>2
  <2>2. QED  BY <2>1 DEF Front
<1>4. \A i \in 1 .. n : i \in 1 .. Len(s) /\ s[i] \in Nat
  BY <1>1, <1>2
<1>5. /\ Front(s) \in Seq(Nat) /\ Len(Front(s)) = n
      /\ \A i \in 1 .. n : Front(s)[i] = s[i]
  <2>1. /\ SubSeq(s, 1, n) \in Seq(Nat)
        /\ Len(SubSeq(s, 1, n)) = IF 1 <= n THEN n - 1 + 1 ELSE 0
        /\ \A i \in 1 .. n - 1 + 1 : SubSeq(s, 1, n)[i] = s[1 + i - 1]
    BY <1>4, SubSeqProperties
  <2>2. \A i \in 1 .. n : i \in 1 .. n - 1 + 1 /\ 1 + i - 1 = i
    OBVIOUS
  <2>3. \A i \in 1 .. n : SubSeq(s, 1, n)[i] = s[i]
    BY <2>1, <2>2
  <2>4. (IF 1 <= n THEN n - 1 + 1 ELSE 0) = n
    OBVIOUS
  <2>5. QED  BY <1>3, <2>1, <2>3, <2>4
<1>6. Distinct(Front(s))
  <2> SUFFICES ASSUME NEW i \in 1 .. n, NEW j \in 1 .. n, Front(s)[i] = Front(s)[j]
               PROVE  i = j
    BY <1>5 DEF Distinct
  <2>1. i \in 1 .. Len(s) /\ j \in 1 .. Len(s) /\ s[i] = s[j]
    BY <1>4, <1>5
  <2>2. QED  BY <2>1 DEF Distinct
<1>7. ListOf(Front(s)) = ListOf(s) \ {Last(s)}
  <2>1. \A x : x \in ListOf(Front(s)) <=> \E i \in 1 .. n : s[i] = x
    BY <1>5 DEF ListOf
  <2>2. \A x : x \in ListOf(s) <=> \E i \in 1 .. n + 1 : s[i] = x
    BY <1>2 DEF ListOf
  <2>3. \A i, j \in 1 .. n + 1 : s[i] = s[j] => i = j
    BY <1>2 DEF Distinct
  <2>4. \A x : x \in ListOf(Front(s)) <=> x \in ListOf(s) /\ x # s[n + 1]
    BY <2>1, <2>2, <2>3
  <2>5. QED  BY <1>2, <2>4 DEF Last
<1>8. Last(s) \in Nat /\ Last(s) \in ListOf(s)
  BY <1>1 DEF Last, ListOf
<1>9. QED  BY <1>5, <1>6, <1>7, <1>8

LEMMA DropFirst ==
  ASSUME NEW s \in Seq(Nat), Distinct(s), s # << >>
  PROVE  /\ Head(s) \in Nat /\ Head(s) \in ListOf(s)
         /\ Tail(s) \in Seq(Nat) /\ Distinct(Tail(s))
         /\ ListOf(Tail(s)) = ListOf(s) \ {Head(s)}
<1>1. Len(s) \in Nat \ {0} /\ \A i \in 1 .. Len(s) : s[i] \in Nat
  BY EmptySeq, ElementOfSeq
<1>2. /\ Tail(s) \in Seq(Nat) /\ Len(Tail(s)) = Len(s) - 1
      /\ \A i \in 1 .. Len(s) - 1 : Tail(s)[i] = s[i + 1]
  BY HeadTailProperties
<1>3. Distinct(Tail(s))
  BY <1>1, <1>2 DEF Distinct
<1>4. ListOf(Tail(s)) = ListOf(s) \ {Head(s)}
  <2>1. \A x : x \in ListOf(Tail(s)) <=> \E i \in 1 .. Len(s) - 1 : s[i + 1] = x
    BY <1>2 DEF ListOf
  <2>2. \A x : x \in ListOf(s) <=> \E i \in 1 .. Len(s) : s[i] = x
    BY DEF ListOf
  <2>3. \A x : x \in ListOf(Tail(s)) => x \in ListOf(s) /\ x # s[1]
    BY <1>1, <2>1, <2>2 DEF Distinct
  <2>4. ASSUME NEW x, x \in ListOf(s), x # s[1] PROVE x \in ListOf(Tail(s))
    <3>1. PICK i \in 1 .. Len(s) : s[i] = x
      BY <2>2, <2>4
    <3>2. i - 1 \in 1 .. Len(s) - 1 /\ s[i - 1 + 1] = x
      BY <1>1, <2>4, <3>1
    <3>3. QED  BY <2>1, <3>2
  <2>5. Head(s) = s[1]
    OBVIOUS
  <2>6. QED  BY <2>3, <2>4, <2>5
<1>5. Head(s) \in Nat /\ Head(s) \in ListOf(s)
  BY <1>1 DEF ListOf
<1>6. QED  BY <1>2, <1>3, <1>4, <1>5

LEMMA PutFirst ==
  ASSUME NEW s \in Seq(Nat), s # << >>
  PROVE  <<Head(s)>> \o Tail(s) = s
<1>1. Len(s) \in Nat \ {0} /\ \A i \in 1 .. Len(s) : s[i] \in Nat
  BY EmptySeq, ElementOfSeq
<1>2. /\ Tail(s) \in Seq(Nat) /\ Len(Tail(s)) = Len(s) - 1
      /\ \A i \in 1 .. Len(s) - 1 : Tail(s)[i] = s[i + 1]
  BY HeadTailProperties
<1>3. <<Head(s)>> \in Seq(Nat) /\ Len(<<Head(s)>>) = 1 /\ <<Head(s)>>[1] = s[1]
  BY <1>1
<1>4. /\ <<Head(s)>> \o Tail(s) \in Seq(Nat)
      /\ Len(<<Head(s)>> \o Tail(s)) = Len(s)
      /\ \A i \in 1 .. Len(s) : (<<Head(s)>> \o Tail(s))[i] = s[i]
  <2>1. /\ <<Head(s)>> \o Tail(s) \in Seq(Nat)
        /\ Len(<<Head(s)>> \o Tail(s)) = 1 + Len(Tail(s))
        /\ \A i \in 1 .. 1 + Len(Tail(s)) :
             (<<Head(s)>> \o Tail(s))[i] =
               IF i <= 1 THEN <<Head(s)>>[i] ELSE Tail(s)[i - 1]
    BY ConcatProperties, <1>2, <1>3
  <2>2. QED  BY <1>1, <1>2, <1>3, <2>1
<1>5. QED  BY <1>4, SeqEqual

(***************************************************************************)
(* A finite set of numbers without gaps does not have its size.            *)
(***************************************************************************)
LEMMA SizeIsNew ==
  ASSUME NEW S \in SUBSET Nat, IsFiniteSet(S), \A i \in S : 0 .. i \subseteq S
  PROVE  /\ Cardinality(S) \in Nat /\ Cardinality(S) \notin S
         /\ 0 .. Cardinality(S) \subseteq S \union {Cardinality(S)}
<1> DEFINE c == Cardinality(S)
<1>1. c \in Nat
  BY FS_CardinalityType
<1>2. c \notin S
  <2> SUFFICES ASSUME c \in S PROVE FALSE
    OBVIOUS
  <2>1. 0 .. c \in SUBSET S
    OBVIOUS
  <2>2. Cardinality(0 .. c) <= c
    BY <2>1, FS_Subset
  <2>3. Cardinality(0 .. c) = c + 1
    BY <1>1, FS_Interval
  <2>4. QED  BY <1>1, <2>2, <2>3
<1>3. ASSUME NEW k \in 0 .. c, k # c PROVE k \in S
  <2> SUFFICES ASSUME k \notin S PROVE FALSE
    OBVIOUS
  <2>1. k \in Nat /\ k < c
    BY <1>1, <1>3
  <2>2. \A i \in S : i \in 0 .. k - 1
    BY <2>1
  <2>3. S \in SUBSET (0 .. k - 1)
    BY <2>2
  <2>4. /\ IsFiniteSet(0 .. k - 1)
        /\ Cardinality(0 .. k - 1) = IF 0 > k - 1 THEN 0 ELSE k - 1 - 0 + 1
    BY <2>1, FS_Interval
  <2>5. c <= Cardinality(0 .. k - 1)
    BY <2>3, <2>4, FS_Subset
  <2>6. QED  BY <1>1, <2>1, <2>4, <2>5
<1>4. QED  BY <1>1, <1>2, <1>3

(***************************************************************************)
(* What threads hold, and what is kept until the loop is ready.            *)
(***************************************************************************)
LoopPlace == {"before", "moving", "get", "remove", "wait", "dispatch", "quit"}

LoopInv ==
  /\ added \subseteq Event /\ hand \in [Thread -> added \union {NoEvent}]
  /\ sawReady \in [Thread -> BOOLEAN]
  /\ m_pending \in Seq(Event)
  /\ loopPc \in LoopPlace /\ m_ready = (loopPc # "before")

LEMMA LoopInvInit == QueueInit => LoopInv
<1> SUFFICES ASSUME QueueInit PROVE LoopInv
  OBVIOUS
<1>1. m_pending \in Seq(Event)
  BY DEF QueueInit
<1>2. m_ready = (loopPc # "before")
  BY Zenon DEF QueueInit
<1>3. QED  BY <1>1, <1>2 DEF QueueInit, LoopInv, LoopPlace

LEMMA PendingStays ==
  ASSUME LoopInv, QueueNext
  PROVE  m_pending' \in Seq(Event)
<1> USE DEF LoopInv
<1>1. ASSUME NEW t \in Thread, EndAdd(t) PROVE m_pending' \in Seq(Event)
  <2>1. hand[t] \in Event
    BY <1>1 DEF EndAdd
  <2>2. Append(m_pending, hand[t]) \in Seq(Event)
    BY <2>1
  <2>3. m_pending' = Append(m_pending, hand[t]) \/ m_pending' = m_pending
    BY <1>1 DEF EndAdd
  <2>4. QED  BY <2>2, <2>3
<1>2. ASSUME NEW e \in Event, LoopAdds(e) PROVE m_pending' \in Seq(Event)
  <2>1. Append(m_pending, e) \in Seq(Event)
    OBVIOUS
  <2>2. m_pending' = Append(m_pending, e) \/ m_pending' = m_pending
    BY <1>2 DEF LoopAdds
  <2>3. QED  BY <2>1, <2>2
<1>3. CASE MovePending
  <2>1. m_pending # << >> => Tail(m_pending) \in Seq(Event)
    BY HeadTailProperties
  <2>2. QED  BY <1>3, <2>1 DEF MovePending
<1>4. CASE UNCHANGED m_pending
  BY <1>4
<1>5. QED
  BY <1>1, <1>2, <1>3, <1>4
     DEF QueueNext, LoopStep, BeginAdd, newTimer, deleteTimer, adoptBuffer, Ready,
       TakeID, TakeEvent, Wait, WaitOver, Expire, NoneExpired, HandlerReturns, Tick,
       QueueIdle, eventVars

LEMMA ReadyStays ==
  ASSUME LoopInv, QueueNext
  PROVE  loopPc' \in LoopPlace /\ m_ready' = (loopPc' # "before")
<1> USE DEF LoopInv, LoopPlace
<1>1. CASE Ready
  <2>1. loopPc' = "moving" /\ m_ready' = TRUE
    BY <1>1 DEF Ready
  <2>2. QED  BY <2>1
<1>2. CASE m_ready' = m_ready /\ loopPc' = loopPc
  BY <1>2, Zenon
<1>3. CASE loopPc # "before" /\ loopPc' \in LoopPlace \ {"before"} /\ m_ready' = m_ready
  <2>1. m_ready
    BY <1>3, Zenon
  <2>2. (loopPc' # "before") /\ loopPc' \in LoopPlace
    BY <1>3
  <2>3. QED  BY <1>3, <2>1, <2>2
<1>4. LoopStep => \/ Ready
                  \/ loopPc' = loopPc /\ m_ready' = m_ready
                  \/ /\ loopPc # "before" /\ loopPc' \in LoopPlace \ {"before"}
                     /\ m_ready' = m_ready
  BY DEF LoopStep, MovePending, TakeID, TakeEvent, Wait, WaitOver, Expire,
       NoneExpired, HandlerReturns
<1>5. QueueNext => LoopStep \/ (loopPc' = loopPc /\ m_ready' = m_ready)
  BY DEF QueueNext, BeginAdd, EndAdd, LoopAdds, newTimer, deleteTimer, adoptBuffer,
       Tick, QueueIdle, eventVars
<1>6. QED  BY <1>1, <1>2, <1>3, <1>4, <1>5

LEMMA HandsStay ==
  ASSUME LoopInv, QueueNext
  PROVE  /\ added' \subseteq Event /\ hand' \in [Thread -> added' \union {NoEvent}]
         /\ sawReady' \in [Thread -> BOOLEAN]
<1> USE DEF LoopInv
<1>1. ASSUME NEW t \in Thread, NEW e \in Event, BeginAdd(t, e)
      PROVE  /\ added' \subseteq Event /\ hand' \in [Thread -> added' \union {NoEvent}]
             /\ sawReady' \in [Thread -> BOOLEAN]
  <2>1. m_ready \in BOOLEAN
    BY Zenon
  <2>2. QED  BY <1>1, <2>1 DEF BeginAdd
<1>2. ASSUME NEW t \in Thread, EndAdd(t)
      PROVE  /\ added' \subseteq Event /\ hand' \in [Thread -> added' \union {NoEvent}]
             /\ sawReady' \in [Thread -> BOOLEAN]
  BY <1>2 DEF EndAdd
<1>3. ASSUME NEW e \in Event, LoopAdds(e)
      PROVE  /\ added' \subseteq Event /\ hand' \in [Thread -> added' \union {NoEvent}]
             /\ sawReady' \in [Thread -> BOOLEAN]
  BY <1>3 DEF LoopAdds
<1>4. CASE UNCHANGED addVars
  BY <1>4 DEF addVars
<1>5. QED
  BY <1>1, <1>2, <1>3, <1>4
     DEF QueueNext, LoopStep, newTimer, deleteTimer, adoptBuffer, Ready, MovePending,
       TakeID, TakeEvent, Wait, WaitOver, Expire, NoneExpired, HandlerReturns, Tick,
       QueueIdle, eventVars, addVars

LEMMA LoopInvNext == LoopInv /\ [QueueNext]_eventVars => LoopInv'
<1> SUFFICES ASSUME LoopInv, [QueueNext]_eventVars PROVE LoopInv'
  OBVIOUS
<1>1. CASE QueueNext
  BY <1>1, PendingStays, ReadyStays, HandsStay DEF LoopInv
<1>2. CASE UNCHANGED eventVars
  BY <1>2 DEF eventVars, LoopInv
<1>3. QED  BY <1>1, <1>2

(***************************************************************************)
(* Timers: what one has left is what the clock says.                       *)
(***************************************************************************)
TimerInv ==
  /\ m_timerQueue \subseteq m_timers /\ m_timers \subseteq EventTimer
  /\ left \in [EventTimer -> Int] /\ clock \in 0 .. MaxClock
  /\ m_time \in 0 .. clock /\ since \in [EventTimer -> 0 .. clock]
  /\ TimersKeepTime

LEMMA TimerInvInit == QueueInit => TimerInv
BY ClockAssumption DEF QueueInit, TimerInv, TimersKeepTime

LEMMA TimerStep ==
  ASSUME TimerInv, QueueNext
  PROVE  TimerInv' /\ \A t \in EventTimer : Expire(t) => FiresOnTime(t)
<1> USE TimerAssumption, ClockAssumption DEF TimerInv
<1>1. ASSUME Tick PROVE TimerInv'
  BY <1>1 DEF Tick, TimersKeepTime, Remaining
<1>2. ASSUME NEW t \in EventTimer, newTimer(t) PROVE TimerInv'
  BY <1>2 DEF newTimer, InitialTime, TimersKeepTime, Remaining
<1>3. ASSUME NEW t \in EventTimer, deleteTimer(t) PROVE TimerInv'
  BY <1>3 DEF deleteTimer, Unqueue, TimersKeepTime, Remaining
<1>4. ASSUME NEW t \in EventTimer, Expire(t) PROVE TimerInv' /\ FiresOnTime(t)
  <2>1. /\ t \in m_timerQueue /\ Remaining(t) <= 0
        /\ Remaining(t) = Duration[t] - (clock - since[t])
    BY <1>4 DEF Expire, IsTop, TimersKeepTime
  <2>2. Duration[t] - Remaining(t) = clock - since[t] /\ clock - since[t] >= Duration[t]
    BY <2>1
  <2>3. FiresOnTime(t)
    BY <1>4, <2>1, <2>2 DEF FiresOnTime, Expire, Count
  <2>4. left' \in [EventTimer -> Int] /\ m_time' = 0 /\ since' \in [EventTimer -> 0 .. clock']
    BY <1>4 DEF Expire, ResetTime, Remaining
  <2>5. TimersKeepTime'
    BY <1>4, <2>4 DEF Expire, ResetTime, Remaining, TimersKeepTime
  <2>6. QED  BY <1>4, <2>3, <2>4, <2>5 DEF Expire
<1>5. ASSUME NoneExpired PROVE TimerInv'
  <2>1. left' \in [EventTimer -> Int] /\ m_time' = 0
    BY <1>5 DEF NoneExpired, Remaining
  <2>2. TimersKeepTime'
    BY <1>5, <2>1 DEF NoneExpired, TimersKeepTime, Remaining
  <2>3. QED  BY <1>5, <2>1, <2>2 DEF NoneExpired
<1>6. ASSUME UNCHANGED timerVars PROVE TimerInv'
  <2>1. TimersKeepTime'
    BY <1>6 DEF timerVars, TimersKeepTime, Remaining
  <2>2. QED  BY <1>6, <2>1 DEF timerVars
<1>7. \A t \in EventTimer : Expire(t) => TimerInv' /\ FiresOnTime(t)
  BY <1>4
<1>8. \/ Tick \/ (\E t \in EventTimer : newTimer(t) \/ deleteTimer(t) \/ Expire(t))
      \/ NoneExpired \/ UNCHANGED timerVars
  BY DEF QueueNext, LoopStep, BeginAdd, EndAdd, LoopAdds, adoptBuffer, Ready,
       MovePending, TakeID, TakeEvent, Wait, WaitOver, HandlerReturns, QueueIdle,
       eventVars, timerVars
<1>9. QED  BY <1>1, <1>2, <1>3, <1>5, <1>6, <1>7, <1>8

(***************************************************************************)
(* The table and the buffer.                                               *)
(***************************************************************************)
TableTypeOK ==
  /\ m_queue \in Seq(Nat) /\ m_oldEventIDs \in Seq(Nat) /\ dataID \in Nat
  /\ DOMAIN m_events \in SUBSET Nat /\ IsFiniteSet(DOMAIN m_events)
  /\ \A i \in DOMAIN m_events : m_events[i] \in Event

IDs == ListOf(m_oldEventIDs) \union DOMAIN m_events

TableInv == TableTypeOK /\ NumbersAreUnique

LEMMA NumbersApart ==
  NumbersAreUnique <=>
    /\ Distinct(Waiting) /\ ListOf(Waiting) = DOMAIN m_events
    /\ Distinct(m_oldEventIDs) /\ ListOf(m_oldEventIDs) \intersect DOMAIN m_events = {}
    /\ \A i \in IDs : 0 .. i \subseteq IDs
BY DEF NumbersAreUnique, Distinct, IDs

LEMMA EmptyList == Distinct(<< >>) /\ ListOf(<< >>) = {} /\ << >> \in Seq(Nat)
<1>1. Len(<< >>) = 0
  OBVIOUS
<1>2. ListOf(<< >>) = {}
  BY <1>1 DEF ListOf
<1>3. QED  BY <1>1, <1>2 DEF Distinct

LEMMA WaitingType ==
  ASSUME TableTypeOK
  PROVE  Waiting \in Seq(Nat)
<1>1. <<dataID>> \in Seq(Nat)
  BY DEF TableTypeOK
<1>2. <<dataID>> \o m_queue \in Seq(Nat)
  BY <1>1, ConcatProperties DEF TableTypeOK
<1>3. QED  BY <1>2 DEF TableTypeOK, Waiting

\* The events that a list of numbers stands for.
Image(f, w) == [i \in 1 .. Len(w) |-> f[w[i]]]

LEMMA ImageType ==
  ASSUME NEW w \in Seq(Nat), NEW f, \A i \in 1 .. Len(w) : f[w[i]] \in Event
  PROVE  /\ Image(f, w) \in Seq(Event) /\ Len(Image(f, w)) = Len(w)
         /\ \A i \in 1 .. Len(w) : Image(f, w)[i] = f[w[i]]
<1>1. Len(w) \in Nat
  BY LenProperties
<1>2. Image(f, w) \in [1 .. Len(w) -> Event]
  BY DEF Image
<1>3. Image(f, w) \in Seq(Event)
  BY <1>1, <1>2, SeqDef
<1>4. Len(Image(f, w)) = Len(w)
  BY <1>1, <1>2, <1>3
<1>5. QED  BY <1>3, <1>4 DEF Image

\* Two tables that have the same events at the numbers of a list.
Agree(w, f, g) ==
  \A i \in 1 .. Len(w) : f[w[i]] \in Event /\ g[w[i]] = f[w[i]]

LEMMA ImageAppend ==
  ASSUME NEW w \in Seq(Nat), NEW k \in Nat, NEW f, NEW g, NEW e \in Event,
         Agree(w, f, g), g[k] = e
  PROVE  Image(g, Append(w, k)) = Append(Image(f, w), e)
<1> USE DEF Agree
<1> DEFINE v == Append(w, k)
           a == Append(Image(f, w), e)
<1>1. /\ v \in Seq(Nat) /\ Len(v) = Len(w) + 1 /\ Len(w) \in Nat
      /\ \A i \in 1 .. Len(w) : v[i] = w[i]
      /\ v[Len(w) + 1] = k
  OBVIOUS
<1> HIDE DEF v
<1>2. ASSUME NEW i \in 1 .. Len(v) PROVE g[v[i]] \in Event
  <2>1. i \in 1 .. Len(w) \/ i = Len(w) + 1
    BY <1>1
  <2>2. CASE i \in 1 .. Len(w)
    <3>1. v[i] = w[i] /\ g[w[i]] = f[w[i]] /\ f[w[i]] \in Event
      BY <1>1, <2>2
    <3>2. QED  BY <3>1
  <2>3. CASE i = Len(w) + 1
    BY <1>1, <2>3
  <2>4. QED  BY <2>1, <2>2, <2>3
<1>3. /\ Image(g, v) \in Seq(Event) /\ Len(Image(g, v)) = Len(w) + 1
      /\ \A i \in 1 .. Len(v) : Image(g, v)[i] = g[v[i]]
  <2>1. v \in Seq(Nat) /\ Len(v) = Len(w) + 1
    BY ONLY <1>1
  <2>2. /\ Image(g, v) \in Seq(Event) /\ Len(Image(g, v)) = Len(v)
        /\ \A i \in 1 .. Len(v) : Image(g, v)[i] = g[v[i]]
    BY ONLY <2>1, <1>2, ImageType
  <2> QED BY ONLY <2>1, <2>2
<1>4. /\ Image(f, w) \in Seq(Event) /\ Len(Image(f, w)) = Len(w)
      /\ \A i \in 1 .. Len(w) : Image(f, w)[i] = f[w[i]]
  BY ImageType
<1>5. /\ a \in Seq(Event)
      /\ Len(a) = Len(w) + 1
      /\ \A i \in 1 .. Len(w) : a[i] = f[w[i]]
      /\ a[Len(w) + 1] = e
  BY <1>4
<1> HIDE DEF a
<1>6. \A i \in 1 .. Len(w) + 1 : Image(g, v)[i] = a[i]
  <2> TAKE i \in 1 .. Len(w) + 1
  <2>1. Image(g, v)[i] = g[v[i]]
    BY <1>1, <1>3
  <2>2. CASE i \in 1 .. Len(w)
    <3>1. v[i] = w[i] /\ g[w[i]] = f[w[i]]
      BY <2>2, <1>1
    <3>2. a[i] = f[w[i]]
      BY <2>2, <1>5
    <3>3. QED  BY <2>1, <3>1, <3>2
  <2>3. CASE i = Len(w) + 1
    <3>1. v[i] = k
      BY <2>3, <1>1
    <3>2. a[i] = e
      BY <2>3, <1>5
    <3>3. QED  BY <2>1, <3>1, <3>2
  <2>4. QED  BY <1>1, <2>2, <2>3
<1>7. Image(g, v) = a
  BY <1>3, <1>5, <1>6, SeqEqual
<1>8. QED  BY <1>7 DEF v, a

LEMMA ImageTail ==
  ASSUME NEW n \in Nat, NEW w \in Seq(Nat), NEW f, NEW g, f[n] \in Event,
         Agree(w, f, g)
  PROVE  /\ Image(f, <<n>> \o w) # << >>
         /\ Head(Image(f, <<n>> \o w)) = f[n]
         /\ Tail(Image(f, <<n>> \o w)) = Image(g, w)
<1> USE DEF Agree
<1> DEFINE v == <<n>> \o w
<1>1. Len(w) \in Nat
  BY LenProperties
<1>2. <<n>> \in Seq(Nat) /\ Len(<<n>>) = 1 /\ <<n>>[1] = n
  OBVIOUS
<1>3. /\ v \in Seq(Nat) /\ Len(v) = 1 + Len(w)
      /\ \A i \in 1 .. 1 + Len(w) : v[i] = IF i <= 1 THEN <<n>>[i] ELSE w[i - 1]
  BY <1>2, ConcatProperties
<1> HIDE DEF v
<1>4. v[1] = n /\ \A i \in 1 .. Len(w) : v[i + 1] = w[i]
  BY <1>1, <1>2, <1>3
<1>5. \A i \in 1 .. Len(v) : f[v[i]] \in Event
  <2> TAKE i \in 1 .. Len(v)
  <2>1. CASE i = 1
    BY <2>1, <1>4
  <2>2. CASE i # 1
    <3>1. i - 1 \in 1 .. Len(w) /\ i - 1 + 1 = i
      BY <2>2, <1>1, <1>3
    <3>2. v[i] = w[i - 1]
      BY <3>1, <1>4
    <3>3. QED  BY <3>1, <3>2
  <2>3. QED  BY <2>1, <2>2
<1>6. /\ Image(f, v) \in Seq(Event) /\ Len(Image(f, v)) = 1 + Len(w)
      /\ \A i \in 1 .. Len(v) : Image(f, v)[i] = f[v[i]]
  <2>1. /\ Image(f, v) \in Seq(Event) /\ Len(Image(f, v)) = Len(v)
        /\ \A i \in 1 .. Len(v) : Image(f, v)[i] = f[v[i]]
    BY ONLY <1>3, <1>5, ImageType
  <2> QED BY ONLY <2>1, <1>3
<1>7. Image(f, v) # << >> /\ Head(Image(f, v)) = f[n]
  BY <1>1, <1>3, <1>4, <1>6
<1>8. /\ Tail(Image(f, v)) \in Seq(Event) /\ Len(Tail(Image(f, v))) = Len(w)
      /\ \A i \in 1 .. Len(w) : Tail(Image(f, v))[i] = Image(f, v)[i + 1]
  BY <1>1, <1>6, <1>7, HeadTailProperties
<1>9. /\ Image(g, w) \in Seq(Event) /\ Len(Image(g, w)) = Len(w)
      /\ \A i \in 1 .. Len(w) : Image(g, w)[i] = g[w[i]]
  <2>1. \A i \in 1 .. Len(w) : g[w[i]] \in Event
    OBVIOUS
  <2>2. QED  BY <2>1, ImageType
<1>10. \A i \in 1 .. Len(w) : Tail(Image(f, v))[i] = Image(g, w)[i]
  <2> TAKE i \in 1 .. Len(w)
  <2>1. i + 1 \in 1 .. Len(v)
    BY <1>1, <1>3
  <2>2. Tail(Image(f, v))[i] = f[v[i + 1]]
    BY <1>6, <1>8, <2>1
  <2>3. v[i + 1] = w[i] /\ Image(g, w)[i] = g[w[i]]
    BY <1>4, <1>9
  <2>4. QED  BY <2>2, <2>3
<1>11. Tail(Image(f, v)) = Image(g, w)
  BY <1>8, <1>9, <1>10, SeqEqual
<1>12. QED  BY <1>7, <1>11 DEF v

LEMMA EventsWait ==
  ASSUME TableInv
  PROVE  \A i \in 1 .. Len(Waiting) : m_events[Waiting[i]] \in Event
<1>1. \A i \in 1 .. Len(Waiting) : Waiting[i] \in DOMAIN m_events
  BY NumbersApart DEF TableInv, ListOf
<1>2. QED  BY <1>1 DEF TableInv, TableTypeOK

\* The number that saveEvent takes is new, and closes no gap but the next.
LEMMA NewNumber ==
  ASSUME TableInv
  PROVE  /\ NewID \in Nat /\ NewID \notin DOMAIN m_events
         /\ 0 .. NewID \subseteq IDs \union {NewID}
         /\ m_oldEventIDs # << >> => NewID \in ListOf(m_oldEventIDs)
<1> USE DEF TableInv, TableTypeOK
<1>1. CASE m_oldEventIDs # << >>
  <2>1. NewID \in Nat /\ NewID \in ListOf(m_oldEventIDs)
    BY <1>1, NumbersApart, DropLast DEF NewID
  <2>2. QED  BY <1>1, <2>1, NumbersApart DEF IDs
<1>2. CASE m_oldEventIDs = << >>
  <2>1. NewID = Cardinality(DOMAIN m_events)
    BY <1>2 DEF NewID
  <2>2. IDs = DOMAIN m_events
    BY <1>2, EmptyList DEF IDs
  <2>3. \A i \in DOMAIN m_events : 0 .. i \subseteq DOMAIN m_events
    BY <2>2, NumbersApart
  <2>4. QED  BY <1>2, <2>1, <2>2, <2>3, SizeIsNew
<1>3. QED  BY <1>1, <1>2

\* What addEventToBuffer does to the numbers that are kept for use again.
LEMMA OldNumbers ==
  ASSUME TableInv, NEW e, addEventToBuffer(e)
  PROVE  /\ m_oldEventIDs' \in Seq(Nat) /\ Distinct(m_oldEventIDs')
         /\ ListOf(m_oldEventIDs') = ListOf(m_oldEventIDs) \ {NewID}
<1>1. m_oldEventIDs \in Seq(Nat) /\ Distinct(m_oldEventIDs)
  BY NumbersApart DEF TableInv, TableTypeOK
<1>2. CASE m_oldEventIDs # << >>
  <2>1. NewID = Last(m_oldEventIDs) /\ m_oldEventIDs' = Front(m_oldEventIDs)
    BY <1>2 DEF NewID, addEventToBuffer
  <2>2. QED  BY <1>1, <1>2, <2>1, DropLast
<1>3. CASE m_oldEventIDs = << >>
  <2>1. m_oldEventIDs' = << >>
    BY <1>3 DEF addEventToBuffer
  <2>2. QED  BY <1>3, <2>1, EmptyList
<1>4. QED  BY <1>2, <1>3

LEMMA AppendAfterFirst ==
  ASSUME NEW n \in Nat, NEW s \in Seq(Nat), NEW k \in Nat
  PROVE  <<n>> \o Append(s, k) = Append(<<n>> \o s, k)
<1>1. <<n>> \in Seq(Nat) /\ <<k>> \in Seq(Nat) /\ <<n>> \o s \in Seq(Nat)
  BY ConcatProperties
<1>2. Append(s, k) = s \o <<k>> /\ Append(<<n>> \o s, k) = (<<n>> \o s) \o <<k>>
  BY <1>1
<1>3. QED  BY <1>1, <1>2, ConcatAssociative

LEMMA AddStep ==
  ASSUME TableInv, NEW e \in Event, addEventToBuffer(e), dataID' = dataID,
         loopPc' = "remove" <=> loopPc = "remove"
  PROVE  TableInv' /\ Contents' = Append(Contents, e)
<1>1. /\ NewID \in Nat /\ NewID \notin DOMAIN m_events
      /\ m_events' = [i \in DOMAIN m_events \union {NewID} |->
                        IF i = NewID THEN e ELSE m_events[i]]
      /\ m_queue' = Append(m_queue, NewID)
  BY NewNumber DEF addEventToBuffer
<1>2. /\ DOMAIN m_events' = DOMAIN m_events \union {NewID}
      /\ m_events'[NewID] = e
      /\ \A i \in DOMAIN m_events : m_events'[i] = m_events[i]
  BY <1>1
<1>3. TableTypeOK'
  <2>1. IsFiniteSet(DOMAIN m_events')
    <3>1. IsFiniteSet(DOMAIN m_events \union {NewID})
      BY FS_AddElement DEF TableInv, TableTypeOK
    <3>2. QED  BY <1>2, <3>1
  <2>2. m_queue' \in Seq(Nat)
    BY <1>1 DEF TableInv, TableTypeOK
  <2>3. m_oldEventIDs' \in Seq(Nat)
    BY OldNumbers
  <2>4. \A i \in DOMAIN m_events' : m_events'[i] \in Event
    BY <1>2 DEF TableInv, TableTypeOK
  <2>5. DOMAIN m_events' \in SUBSET Nat
    BY <1>1, <1>2 DEF TableInv, TableTypeOK
  <2>6. QED  BY <2>1, <2>2, <2>3, <2>4, <2>5 DEF TableInv, TableTypeOK
<1>4. Waiting' = Append(Waiting, NewID)
  BY <1>1, AppendAfterFirst DEF Waiting, TableInv, TableTypeOK
<1>5. /\ Waiting \in Seq(Nat) /\ Distinct(Waiting)
      /\ ListOf(Waiting) = DOMAIN m_events
  BY WaitingType, NumbersApart DEF TableInv
<1>6. NumbersAreUnique'
  <2>1. Distinct(Waiting') /\ ListOf(Waiting') = DOMAIN m_events'
    BY <1>1, <1>2, <1>4, <1>5, AppendNumber
  <2>2. Distinct(m_oldEventIDs') /\ ListOf(m_oldEventIDs') = ListOf(m_oldEventIDs) \ {NewID}
    BY OldNumbers
  <2>3. ListOf(m_oldEventIDs') \intersect DOMAIN m_events' = {}
    BY <1>2, <2>2, NumbersApart DEF TableInv
  <2>4. IDs' = IDs \union {NewID}
    BY <1>2, <2>2 DEF IDs
  <2>5. \A i \in IDs' : 0 .. i \subseteq IDs'
    BY <2>4, NewNumber, NumbersApart DEF TableInv
  <2>6. /\ Distinct(Waiting)' /\ (ListOf(Waiting) = DOMAIN m_events)'
        /\ Distinct(m_oldEventIDs)'
        /\ (ListOf(m_oldEventIDs) \intersect DOMAIN m_events = {})'
    BY <2>1, <2>2, <2>3 DEF Distinct, ListOf
  <2>7. QED  BY <2>5, <2>6 DEF NumbersAreUnique, Distinct, ListOf, IDs
<1>7. TableInv'
  BY <1>3, <1>6 DEF TableInv
<1>8. Contents' = Append(Contents, e)
  <2>1. Contents = Image(m_events, Waiting) /\ Contents' = Image(m_events', Waiting')
    BY DEF Contents, Image
  <2>2. Agree(Waiting, m_events, m_events')
    BY <1>2, <1>5, EventsWait DEF Agree, ListOf
  <2>3. Image(m_events', Append(Waiting, NewID)) = Append(Image(m_events, Waiting), e)
    <3>1. Waiting \in Seq(Nat)
      BY <1>5
    <3>2. NewID \in Nat
      BY <1>1
    <3>3. m_events'[NewID] = e
      BY <1>2
    <3>4. e \in Event
      OBVIOUS
    <3>5. QED  BY ONLY <2>2, <3>1, <3>2, <3>3, <3>4, ImageAppend
  <2>4. QED  BY <1>4, <2>1, <2>3
<1>9. QED  BY <1>7, <1>8

LEMMA NumbersStay ==
  ASSUME NumbersAreUnique, Waiting' = Waiting, m_events' = m_events,
         m_oldEventIDs' = m_oldEventIDs
  PROVE  NumbersAreUnique'
<1>1. /\ Distinct(Waiting) /\ ListOf(Waiting) = DOMAIN m_events
      /\ Distinct(m_oldEventIDs) /\ ListOf(m_oldEventIDs) \intersect DOMAIN m_events = {}
      /\ \A i \in IDs : 0 .. i \subseteq IDs
  BY NumbersApart
<1>2. Distinct(Waiting)' /\ Distinct(m_oldEventIDs)'
  BY <1>1 DEF Distinct
<1>3. ListOf(Waiting)' = ListOf(Waiting) /\ ListOf(m_oldEventIDs)' = ListOf(m_oldEventIDs)
  BY DEF ListOf
<1>4. IDs' = IDs /\ (DOMAIN m_events)' = DOMAIN m_events
  BY <1>3 DEF IDs
<1>5. \A i \in IDs' : 0 .. i \subseteq IDs'
  BY <1>1, <1>4
<1>6. /\ ListOf(Waiting)' = (DOMAIN m_events)'
      /\ (ListOf(m_oldEventIDs) \intersect DOMAIN m_events)' = {}
  BY <1>1, <1>3, <1>4
<1>7. QED  BY <1>2, <1>5, <1>6 DEF NumbersAreUnique, Distinct, ListOf, IDs

LEMMA TakeIDStep ==
  ASSUME TableInv, TakeID
  PROVE  TableInv' /\ Contents' = Contents
<1>1. /\ loopPc # "remove" /\ loopPc' = "remove" /\ m_queue # << >>
      /\ dataID' = Head(m_queue) /\ m_queue' = Tail(m_queue)
      /\ m_events' = m_events /\ m_oldEventIDs' = m_oldEventIDs
  BY DEF TakeID
<1>2. m_queue \in Seq(Nat)
  BY DEF TableInv, TableTypeOK
<1>3. Waiting' = Waiting
  BY <1>1, <1>2, PutFirst DEF Waiting
<1>4. TableTypeOK'
  <2>1. m_queue' \in Seq(Nat) /\ dataID' \in Nat
    BY <1>1, <1>2, HeadTailProperties
  <2>2. QED  BY <1>1, <2>1 DEF TableInv, TableTypeOK
<1>5. NumbersAreUnique'
  BY <1>1, <1>3, NumbersStay DEF TableInv
<1>6. Contents' = Contents
  BY <1>1, <1>3 DEF Contents
<1>7. QED  BY <1>4, <1>5, <1>6 DEF TableInv

LEMMA TailAfterFirst ==
  ASSUME NEW n \in Nat, NEW s \in Seq(Nat)
  PROVE  /\ <<n>> \o s \in Seq(Nat) /\ <<n>> \o s # << >>
         /\ Head(<<n>> \o s) = n /\ Tail(<<n>> \o s) = s
<1> DEFINE v == <<n>> \o s
<1>1. <<n>> \in Seq(Nat) /\ Len(<<n>>) = 1 /\ <<n>>[1] = n /\ Len(s) \in Nat
  BY LenProperties
<1>2. /\ v \in Seq(Nat) /\ Len(v) = 1 + Len(s)
      /\ \A i \in 1 .. 1 + Len(s) : v[i] = IF i <= 1 THEN <<n>>[i] ELSE s[i - 1]
  BY <1>1, ConcatProperties
<1> HIDE DEF v
<1>3. v # << >> /\ Head(v) = n
  BY <1>1, <1>2
<1>4. /\ Tail(v) \in Seq(Nat) /\ Len(Tail(v)) = Len(s)
      /\ \A i \in 1 .. Len(s) : Tail(v)[i] = v[i + 1]
  BY <1>1, <1>2, <1>3, HeadTailProperties
<1>5. ASSUME NEW i \in 1 .. Len(s)
      PROVE  Tail(v)[i] = s[i]
  <2>1. i + 1 \in 1 .. 1 + Len(s) /\ ~(i + 1 <= 1) /\ (i + 1) - 1 = i
    BY ONLY <1>1, i \in 1 .. Len(s)
  <2>2. v[i + 1] = IF i + 1 <= 1 THEN <<n>>[i + 1] ELSE s[(i + 1) - 1]
    BY ONLY <2>1, <1>2
  <2> QED BY ONLY <2>1, <2>2, <1>4, i \in 1 .. Len(s)
<1>6. Tail(v) = s
  BY <1>4, <1>5, SeqEqual
<1>7. QED  BY <1>2, <1>3, <1>6 DEF v

LEMMA TakeEventStep ==
  ASSUME TableInv, TakeEvent
  PROVE  /\ TableInv'
         /\ Contents # << >> /\ event' = <<Head(Contents)>> /\ Contents' = Tail(Contents)
<1>1. /\ loopPc = "remove" /\ loopPc' # "remove" /\ event' = <<m_events[dataID]>>
      /\ m_events' = [i \in DOMAIN m_events \ {dataID} |-> m_events[i]]
      /\ m_oldEventIDs' = Append(m_oldEventIDs, dataID)
      /\ m_queue' = m_queue /\ dataID' = dataID
  BY DEF TakeEvent, removeEvent
<1>2. dataID \in Nat /\ m_queue \in Seq(Nat) /\ m_oldEventIDs \in Seq(Nat)
  BY DEF TableInv, TableTypeOK
<1>3. Waiting = <<dataID>> \o m_queue /\ Waiting' = m_queue
  BY <1>1 DEF Waiting
<1>4. /\ Distinct(Waiting) /\ ListOf(Waiting) = DOMAIN m_events
      /\ Distinct(m_oldEventIDs) /\ ListOf(m_oldEventIDs) \intersect DOMAIN m_events = {}
      /\ \A i \in IDs : 0 .. i \subseteq IDs
  BY NumbersApart DEF TableInv
<1>5. /\ Waiting \in Seq(Nat) /\ Waiting # << >>
      /\ Head(Waiting) = dataID /\ Tail(Waiting) = m_queue
  BY <1>2, <1>3, TailAfterFirst
<1>6. /\ dataID \in DOMAIN m_events /\ Distinct(m_queue)
      /\ ListOf(m_queue) = DOMAIN m_events \ {dataID}
  BY <1>4, <1>5, DropFirst
<1>7. /\ DOMAIN m_events' = DOMAIN m_events \ {dataID}
      /\ \A i \in DOMAIN m_events \ {dataID} : m_events'[i] = m_events[i]
  BY <1>1
<1>8. /\ m_oldEventIDs' \in Seq(Nat) /\ Distinct(m_oldEventIDs')
      /\ ListOf(m_oldEventIDs') = ListOf(m_oldEventIDs) \union {dataID}
  <2>1. dataID \notin ListOf(m_oldEventIDs)
    BY <1>4, <1>6
  <2>2. QED  BY <1>1, <1>2, <1>4, <2>1, AppendNumber
<1>9. TableTypeOK'
  <2>1. IsFiniteSet(DOMAIN m_events')
    <3>1. IsFiniteSet(DOMAIN m_events \ {dataID})
      BY FS_RemoveElement DEF TableInv, TableTypeOK
    <3>2. QED  BY <1>7, <3>1
  <2>2. QED  BY <1>1, <1>2, <1>7, <1>8, <2>1 DEF TableInv, TableTypeOK
<1>10. NumbersAreUnique'
  <2>1. IDs' = IDs
    BY <1>6, <1>7, <1>8 DEF IDs
  <2>2. \A i \in IDs' : 0 .. i \subseteq IDs'
    BY <1>4, <2>1
  <2>3. Distinct(Waiting)' /\ Distinct(m_oldEventIDs)'
    BY <1>3, <1>6, <1>8 DEF Distinct
  <2>4. ListOf(Waiting)' = (DOMAIN m_events)'
    BY <1>3, <1>6, <1>7 DEF ListOf
  <2>5. ListOf(m_oldEventIDs') \intersect DOMAIN m_events' = {}
    BY <1>4, <1>7, <1>8
  <2>6. (ListOf(m_oldEventIDs) \intersect DOMAIN m_events)' = {}
    BY <2>5 DEF ListOf
  <2>7. QED  BY <2>2, <2>3, <2>4, <2>6 DEF NumbersAreUnique, Distinct, ListOf, IDs
<1>11. /\ Contents # << >> /\ event' = <<Head(Contents)>> /\ Contents' = Tail(Contents)
  <2>1. Contents = Image(m_events, <<dataID>> \o m_queue) /\ Contents' = Image(m_events', m_queue)
    BY <1>3 DEF Contents, Image
  <2>2. Agree(m_queue, m_events, m_events')
    <3>1. \A i \in 1 .. Len(m_queue) : m_queue[i] \in DOMAIN m_events \ {dataID}
      BY <1>6 DEF ListOf
    <3>2. QED  BY <1>7, <3>1 DEF Agree, TableInv, TableTypeOK
  <2>3. m_events[dataID] \in Event
    BY <1>6 DEF TableInv, TableTypeOK
  <2>4. /\ Image(m_events, <<dataID>> \o m_queue) # << >>
        /\ Head(Image(m_events, <<dataID>> \o m_queue)) = m_events[dataID]
        /\ Tail(Image(m_events, <<dataID>> \o m_queue)) = Image(m_events', m_queue)
    <3>1. dataID \in Nat
      BY <1>2
    <3>2. m_queue \in Seq(Nat)
      BY <1>2
    <3>3. QED  BY ONLY <2>2, <2>3, <3>1, <3>2, ImageTail
  <2>5. QED  BY <1>1, <2>1, <2>4
<1>12. QED  BY <1>9, <1>10, <1>11 DEF TableInv

\* The table is empty at first, and when the buffer is replaced.
LEMMA EmptyTable ==
  /\ DOMAIN << >> = {} /\ IsFiniteSet(DOMAIN << >>)
BY FS_EmptySet

LEMMA DiscardStep ==
  ASSUME TableInv, adoptBuffer
  PROVE  TableInv' /\ Contents' = << >>
<1>1. /\ m_events' = << >> /\ m_oldEventIDs' = << >> /\ m_queue' = << >>
      /\ loopPc' # "remove" /\ dataID' = dataID
  BY DEF adoptBuffer, DiscardsAll
<1>2. Waiting' = << >>
  BY <1>1 DEF Waiting
<1>3. DOMAIN m_events' = {} /\ IsFiniteSet(DOMAIN m_events')
  BY <1>1, EmptyTable
<1>4. TableTypeOK'
  BY <1>1, <1>3, EmptyList DEF TableInv, TableTypeOK
<1>5. Len(<< >>) = 0
  OBVIOUS
<1>6. NumbersAreUnique'
  BY <1>1, <1>2, <1>3, <1>5 DEF NumbersAreUnique, ListOf
<1>7. Contents' = << >>
  BY <1>2, <1>5 DEF Contents
<1>8. QED  BY <1>4, <1>6, <1>7 DEF TableInv

LEMMA TableInvInit == QueueInit => TableInv /\ Contents = << >>
<1> SUFFICES ASSUME QueueInit PROVE TableInv /\ Contents = << >>
  OBVIOUS
<1>1. /\ m_events = << >> /\ m_oldEventIDs = << >> /\ m_queue = << >>
      /\ loopPc # "remove" /\ dataID = 0
  BY DEF QueueInit
<1>2. Waiting = << >>
  BY <1>1 DEF Waiting
<1>3. DOMAIN m_events = {} /\ IsFiniteSet(DOMAIN m_events)
  BY <1>1, EmptyTable
<1>4. TableTypeOK
  BY <1>1, <1>3, EmptyList DEF TableTypeOK
<1>5. Len(<< >>) = 0
  OBVIOUS
<1>6. NumbersAreUnique
  BY <1>1, <1>2, <1>3, <1>5 DEF NumbersAreUnique, ListOf
<1>7. Contents = << >>
  BY <1>2, <1>5 DEF Contents
<1>8. QED  BY <1>4, <1>6, <1>7 DEF TableInv

LEMMA TableStill ==
  ASSUME TableInv, UNCHANGED <<tableVars, dataID, event>>,
         loopPc' = "remove" <=> loopPc = "remove"
  PROVE  TableInv' /\ Contents' = Contents /\ event' = event
<1>1. /\ m_events' = m_events /\ m_oldEventIDs' = m_oldEventIDs /\ m_queue' = m_queue
      /\ dataID' = dataID
  BY DEF tableVars
<1>2. Waiting' = Waiting
  BY <1>1 DEF Waiting
<1>3. TableTypeOK'
  BY <1>1 DEF TableInv, TableTypeOK
<1>4. NumbersAreUnique'
  BY <1>1, <1>2, NumbersStay DEF TableInv
<1>5. Contents' = Contents
  BY <1>1, <1>2 DEF Contents
<1>6. QED  BY <1>3, <1>4, <1>5 DEF TableInv

(***************************************************************************)
(* Every step keeps the invariant, and is one of the queue or none.        *)
(***************************************************************************)
FifoStep == [Fifo!FifoNext]_(Fifo!fifoVars)

LEMMA PutIsFifo ==
  ASSUME NEW e \in Event, Contents' = Append(Contents, e), event' = event
  PROVE  FifoStep
BY DEF FifoStep, Fifo!FifoNext, Fifo!Put

LEMMA StillIsFifo ==
  ASSUME Contents' = Contents, event' = event
  PROVE  FifoStep
BY DEF FifoStep, Fifo!fifoVars

LEMMA TableStep ==
  ASSUME LoopInv, TableInv, QueueNext
  PROVE  TableInv' /\ FifoStep
<1>1. ASSUME NEW e \in Event, addEventToBuffer(e), UNCHANGED <<dataID, event>>,
             loopPc' = "remove" <=> loopPc = "remove"
      PROVE  TableInv' /\ FifoStep
  BY <1>1, AddStep, PutIsFifo
<1>2. ASSUME UNCHANGED <<tableVars, dataID, event>>,
             loopPc' = "remove" <=> loopPc = "remove"
      PROVE  TableInv' /\ FifoStep
  BY <1>2, TableStill, StillIsFifo
<1>3. ASSUME NEW t \in Thread, EndAdd(t) PROVE TableInv' /\ FifoStep
  <2>1. hand[t] \in Event
    BY <1>3 DEF EndAdd, LoopInv
  <2>2. /\ addEventToBuffer(hand[t]) \/ UNCHANGED tableVars
        /\ UNCHANGED <<dataID, event, loopPc>>
    BY <1>3 DEF EndAdd
  <2>3. QED  BY <1>1, <1>2, <2>1, <2>2
<1>4. ASSUME NEW e \in Event, LoopAdds(e) PROVE TableInv' /\ FifoStep
  <2>1. /\ addEventToBuffer(e) \/ UNCHANGED tableVars
        /\ UNCHANGED <<dataID, event, loopPc>>
    BY <1>4 DEF LoopAdds
  <2>2. QED  BY <1>1, <1>2, <2>1
<1>5. CASE MovePending
  <2>1. CASE m_pending # << >>
    <3>1. Head(m_pending) \in Event
      BY <2>1, HeadTailProperties DEF LoopInv
    <3>2. /\ addEventToBuffer(Head(m_pending))
          /\ UNCHANGED <<dataID, event, loopPc>>
      BY <1>5, <2>1 DEF MovePending
    <3>3. QED  BY <1>1, <3>1, <3>2
  <2>2. CASE m_pending = << >>
    <3>1. loopPc' # "remove" /\ loopPc # "remove" /\ UNCHANGED <<tableVars, dataID, event>>
      BY <1>5, <2>2 DEF MovePending
    <3>2. QED  BY <1>2, <3>1
  <2>3. QED  BY <2>1, <2>2
<1>6. CASE TakeID
  <2>1. event' = event
    BY <1>6 DEF TakeID
  <2>2. QED  BY <1>6, <2>1, TakeIDStep, StillIsFifo
<1>7. CASE TakeEvent
  <2>1. /\ TableInv' /\ Contents # << >>
        /\ event' = <<Head(Contents)>> /\ Contents' = Tail(Contents)
    BY <1>7, TakeEventStep
  <2>2. QED  BY <2>1 DEF FifoStep, Fifo!FifoNext, Fifo!Take
<1>8. CASE adoptBuffer
  <2>1. event' = event
    BY <1>8 DEF adoptBuffer
  <2>2. TableInv' /\ Contents' = << >>
    BY <1>8, DiscardStep
  <2>3. QED  BY <2>1, <2>2 DEF FifoStep, Fifo!FifoNext, Fifo!Discard
<1>9. ASSUME NEW t \in EventTimer, Expire(t) PROVE TableInv' /\ FifoStep
  <2>1. /\ loopPc # "remove" /\ loopPc' # "remove"
        /\ UNCHANGED <<tableVars, dataID, event>>
    BY <1>9 DEF Expire
  <2>2. QED  BY <1>2, <2>1
<1>10. CASE Ready \/ Wait \/ WaitOver \/ NoneExpired \/ HandlerReturns
  <2>1. /\ loopPc # "remove" /\ loopPc' # "remove"
        /\ UNCHANGED <<tableVars, dataID, event>>
    BY <1>10 DEF Ready, Wait, WaitOver, NoneExpired, HandlerReturns
  <2>2. QED  BY <1>2, <2>1
<1>11. ASSUME UNCHANGED <<tableVars, dataID, event, loopPc>> PROVE TableInv' /\ FifoStep
  BY <1>2, <1>11
<1>12. LoopStep => TableInv' /\ FifoStep
  BY <1>5, <1>6, <1>7, <1>9, <1>10 DEF LoopStep
<1>13. ASSUME NEW t \in Thread, NEW e \in Event, BeginAdd(t, e)
       PROVE  TableInv' /\ FifoStep
  BY <1>11, <1>13 DEF BeginAdd
<1>14. ASSUME NEW t \in EventTimer, newTimer(t) \/ deleteTimer(t)
       PROVE  TableInv' /\ FifoStep
  BY <1>11, <1>14 DEF newTimer, deleteTimer
<1>15. CASE Tick \/ QueueIdle
  BY <1>11, <1>15 DEF Tick, QueueIdle, eventVars, tableVars
<1>16. QED  BY <1>3, <1>4, <1>8, <1>12, <1>13, <1>14, <1>15 DEF QueueNext

QueueInv == LoopInv /\ TimerInv /\ TableInv

LEMMA QueueInvInit == QueueInit => QueueInv /\ Fifo!FifoInit
<1> SUFFICES ASSUME QueueInit PROVE QueueInv /\ Fifo!FifoInit
  OBVIOUS
<1>1. QueueInv
  BY LoopInvInit, TimerInvInit, TableInvInit DEF QueueInv
<1>2. event = << >>
  BY DEF QueueInit
<1>3. QED  BY <1>1, <1>2, TableInvInit DEF Fifo!FifoInit

LEMMA QueueInvNext == QueueInv /\ [QueueNext]_eventVars => QueueInv' /\ FifoStep
<1> SUFFICES ASSUME QueueInv, [QueueNext]_eventVars PROVE QueueInv' /\ FifoStep
  OBVIOUS
<1>1. LoopInv'
  BY LoopInvNext DEF QueueInv
<1>2. CASE QueueNext
  BY <1>1, <1>2, TimerStep, TableStep DEF QueueInv
<1>3. CASE UNCHANGED eventVars
  <2>1. TableInv' /\ FifoStep
    <3>1. UNCHANGED <<tableVars, dataID, event, loopPc>>
      BY <1>3 DEF eventVars, tableVars
    <3>2. QED  BY <3>1, TableStill, StillIsFifo DEF QueueInv
  <2>2. TimerInv'
    BY <1>3 DEF eventVars, QueueInv, TimerInv, TimersKeepTime, Remaining
  <2>3. QED  BY <1>1, <2>1, <2>2 DEF QueueInv
<1>4. QED  BY <1>2, <1>3

LEMMA QueueInvAlways == QueueSpec => []QueueInv
BY QueueInvInit, QueueInvNext, PTL DEF QueueSpec

LEMMA QueueTypes == QueueInv => QueueTypeOK
<1> SUFFICES ASSUME QueueInv PROVE QueueTypeOK
  OBVIOUS
<1>1. ListOf(m_pending) \subseteq Event
  BY ElementOfSeq DEF QueueInv, LoopInv, ListOf
<1>2. m_ready = (loopPc # "before")
  BY Zenon DEF QueueInv, LoopInv
<1>3. QED
  BY <1>1, <1>2
     DEF QueueInv, QueueTypeOK, LoopInv, TimerInv, TableInv, TableTypeOK, LoopPlace

\* Every variable of the event queue has its type, for any threads, events and
\* timers; loop() is ready when it has begun.
THEOREM QueueTypeCorrect == QueueSpec => []QueueTypeOK
BY QueueTypes, QueueInvAlways, PTL

\* For any threads, events and timers: each number stands for one event, and
\* saveEvent takes none that is in use (saveEvent, removeEvent, adoptBuffer).
THEOREM NumbersAreAlwaysUnique == QueueSpec => []NumbersAreUnique
<1>1. QueueInv => NumbersAreUnique  BY DEF QueueInv, TableInv
<1>2. QED  BY <1>1, QueueInvAlways, PTL

\* For any threads, events and timers: the table and the buffer together are a
\* queue of events, first in, first out (addEventToBuffer, getEvent).
THEOREM QueueImplementsFifo == QueueSpec => ImplementsFifo
<1>1. QueueInit => Fifo!FifoInit
  BY QueueInvInit
<1>2. QueueInv /\ [QueueNext]_eventVars => [Fifo!FifoNext]_(Fifo!fifoVars)
  BY QueueInvNext DEF FifoStep
<1>3. QED  BY <1>1, <1>2, QueueInvAlways, PTL DEF QueueSpec, ImplementsFifo, Fifo!FifoSpec

\* For any timers and durations: what a timer has left is what the clock says,
\* none fires early or once it is deleted, and the count it fires with is that
\* of the periods since it last did (newTimer, deleteTimer, hasTimerExpired).
THEOREM TimersAreAlwaysOnTime == QueueSpec => TimersAreOnTime
<1>1. QueueInv /\ [QueueNext]_eventVars =>
        [/\ TimersKeepTime'
         /\ \A t \in EventTimer : Expire(t) => FiresOnTime(t)]_eventVars
  BY TimerStep DEF QueueInv, TimerInv
<1>2. QED  BY <1>1, QueueInvAlways, PTL DEF QueueSpec, TimersAreOnTime
-----------------------------------------------------------------------------

Place ==
  {"idle", "lockLock", "unblock", "lockList", "edit", "unlock", "jobs", "collect",
   "poll", "next", "run", "sweep"}
Condition == {"no", "lockLock", "list", "jobs"}

(***************************************************************************)
(* The strengthening.  The byte in the pipe is there when the service      *)
(* thread goes to poll: a user that waits for the list has written it      *)
(* since the service thread took the list, since it had the lock on the    *)
(* list's lock until then.                                                 *)
(***************************************************************************)
LockTypeOK ==
  /\ pc \in [Runner -> Place] /\ asleep \in [Runner -> Condition]
  /\ m_jobListLock \in BOOLEAN /\ m_jobListLockLocked \in BOOLEAN
  /\ m_jobsReady \in BOOLEAN
  /\ m_jobListLocker \in Runner \union {NoThread}
  /\ m_jobListLockLocker \in Runner \union {NoThread}

PollWillBeInterrupted ==
  \A u \in User :
    pc[u] = "lockList" /\ pc[Service] \in {"collect", "poll"} => unblockPipe

LockInv ==
  /\ LockTypeOK /\ OneThreadHasTheList
  /\ SleepersHaveReason /\ PollWillBeInterrupted /\ JobsReadyIsTrue

LEMMA Threads ==
  /\ Service \in Runner /\ User \subseteq Runner /\ NoThread \notin Runner
  /\ Service \notin User
BY ServiceAssumption DEF Runner

LEMMA LockInvInit == MuxInit => LockInv
<1> SUFFICES ASSUME MuxInit PROVE LockInv
  OBVIOUS
<1>1. LockTypeOK
  BY Threads DEF MuxInit, LockTypeOK, Place, Condition
<1>2. OneThreadHasTheList
  BY Threads DEF MuxInit, OneThreadHasTheList, HasList, HasLockLock
<1>3. SleepersHaveReason /\ PollWillBeInterrupted
  BY Threads DEF MuxInit, SleepersHaveReason, PollWillBeInterrupted, HasLockLock
<1>4. JobsReadyIsTrue
  BY Threads DEF MuxInit, JobsReadyIsTrue, HasList, HasLockLock
<1> QED BY <1>1, <1>2, <1>3, <1>4 DEF LockInv

(***************************************************************************)
(* The two locks.                                                          *)
(***************************************************************************)
LEMMA LockLockStep ==
  ASSUME LockInv, NEW t \in Runner, NEW next \in {"unblock", "lockList"},
         lockJobListLock(t, next), t = Service <=> next = "lockList"
  PROVE  LockInv'
<1> USE Threads DEF LockInv, LockTypeOK, lockJobListLock, Goto, SleepOn, Place,
          Condition
<1>1. LockTypeOK'
  OBVIOUS
<1>2. OneThreadHasTheList'
  BY DEF OneThreadHasTheList, HasList, HasLockLock
<1>3. SleepersHaveReason'
  BY DEF SleepersHaveReason
<1>4. PollWillBeInterrupted'
  BY DEF PollWillBeInterrupted
<1>5. JobsReadyIsTrue'
  BY DEF JobsReadyIsTrue, jobVars
<1>6. QED  BY <1>1, <1>2, <1>3, <1>4, <1>5

LEMMA ListLockStep ==
  ASSUME LockInv, NEW t \in Runner, NEW next \in {"edit", "collect"},
         lockJobList(t, next), t = Service <=> next = "collect"
  PROVE  LockInv'
<1> USE Threads DEF LockInv, LockTypeOK, lockJobList, Goto, SleepOn, WakeLockers,
          IsLocked, Place, Condition
<1>1. LockTypeOK'
  OBVIOUS
<1>2. OneThreadHasTheList'
  BY DEF OneThreadHasTheList, HasList, HasLockLock
<1>3. SleepersHaveReason'
  BY DEF SleepersHaveReason, OneThreadHasTheList, HasLockLock
<1>4. PollWillBeInterrupted'
  BY DEF PollWillBeInterrupted, OneThreadHasTheList, HasLockLock
<1>5. JobsReadyIsTrue'
  BY DEF JobsReadyIsTrue, jobVars
<1>6. QED  BY <1>1, <1>2, <1>3, <1>4, <1>5

LEMMA UnlockStep ==
  ASSUME LockInv, NEW t \in Runner, NEW next \in {"idle", "jobs"},
         unlockJobList(t, next)
  PROVE  LockInv'
<1> USE Threads DEF LockInv, LockTypeOK, unlockJobList, Goto, Place, Condition
<1>1. LockTypeOK'
  BY DEF HasJobs
<1>2. OneThreadHasTheList'
  BY DEF OneThreadHasTheList, HasList, HasLockLock
<1>3. SleepersHaveReason'
  BY DEF SleepersHaveReason, HasJobs
<1>4. PollWillBeInterrupted'
  BY DEF PollWillBeInterrupted
<1>5. JobsReadyIsTrue'
  BY DEF JobsReadyIsTrue, HasJobs, jobVars
<1>6. QED  BY <1>1, <1>2, <1>3, <1>4, <1>5

(***************************************************************************)
(* The other steps of threads leave the locks alone.                       *)
(***************************************************************************)
\* A thread goes from one place to another, with the list or without.
Moves(t, from, to) ==
  /\ pc[t] \in from /\ \E p \in to : Goto(t, p)
  /\ UNCHANGED lockVars

LEMMA HolderStep ==
  ASSUME LockInv, NEW t \in Runner,
         Moves(t, {"edit", "collect", "poll", "next", "run", "sweep"},
                  {"unlock", "poll", "next", "run", "sweep"}),
         pc'[Service] \in {"collect", "poll"} =>
           pc[Service] \in {"collect", "poll"} /\ unblockPipe' = unblockPipe
  PROVE  LockInv'
<1> USE Threads DEF LockInv, LockTypeOK, Moves, Goto, lockVars, Place, Condition
<1>1. LockTypeOK'
  OBVIOUS
<1>2. OneThreadHasTheList'
  BY DEF OneThreadHasTheList, HasList, HasLockLock
<1>3. SleepersHaveReason'
  BY DEF SleepersHaveReason
<1>4. PollWillBeInterrupted'
  BY DEF PollWillBeInterrupted
<1>5. JobsReadyIsTrue'
  BY DEF JobsReadyIsTrue, OneThreadHasTheList, HasList
<1>6. QED  BY <1>1, <1>2, <1>3, <1>4, <1>5

LEMMA CallStep ==
  ASSUME LockInv, NEW u \in User, NEW s \in Socket, NEW j \in Job \union {NoJob},
         Call(u, s, j)
  PROVE  LockInv'
<1> USE Threads DEF LockInv, LockTypeOK, Call, Goto, lockVars, Place, Condition
<1>1. LockTypeOK'
  OBVIOUS
<1>2. OneThreadHasTheList'
  BY DEF OneThreadHasTheList, HasList, HasLockLock
<1>3. SleepersHaveReason'
  BY DEF SleepersHaveReason
<1>4. PollWillBeInterrupted'
  BY DEF PollWillBeInterrupted
<1>5. JobsReadyIsTrue'
  BY DEF JobsReadyIsTrue, jobVars
<1>6. QED  BY <1>1, <1>2, <1>3, <1>4, <1>5

LEMMA UnblockStep ==
  ASSUME LockInv, NEW u \in User, unblockPollSocket(u)
  PROVE  LockInv'
<1> USE Threads DEF LockInv, LockTypeOK, unblockPollSocket, WritesByte, Goto,
          lockVars, Place, Condition
<1>1. LockTypeOK'
  OBVIOUS
<1>2. OneThreadHasTheList'
  BY DEF OneThreadHasTheList, HasList, HasLockLock
<1>3. SleepersHaveReason'
  BY DEF SleepersHaveReason
<1>4. PollWillBeInterrupted'
  BY DEF PollWillBeInterrupted
<1>5. JobsReadyIsTrue'
  BY DEF JobsReadyIsTrue, jobVars
<1>6. QED  BY <1>1, <1>2, <1>3, <1>4, <1>5

LEMMA WaitStep ==
  ASSUME LockInv, WaitForJobs
  PROVE  LockInv'
<1> USE Threads DEF LockInv, LockTypeOK, WaitForJobs, Goto, SleepOn, Place, Condition
<1>1. LockTypeOK'
  OBVIOUS
<1>2. OneThreadHasTheList'
  BY DEF OneThreadHasTheList, HasList, HasLockLock
<1>3. SleepersHaveReason'
  BY DEF SleepersHaveReason
<1>4. PollWillBeInterrupted'
  BY DEF PollWillBeInterrupted
<1>5. JobsReadyIsTrue'
  BY DEF JobsReadyIsTrue, jobVars
<1>6. QED  BY <1>1, <1>2, <1>3, <1>4, <1>5

LEMMA StillStep ==
  ASSUME LockInv, UNCHANGED <<pc, lockVars, m_socketJobs, unblockPipe>>
  PROVE  LockInv'
BY DEF LockInv, LockTypeOK, OneThreadHasTheList, HasList, HasLockLock, lockVars,
     SleepersHaveReason, PollWillBeInterrupted, JobsReadyIsTrue

LEMMA EditStep ==
  ASSUME LockInv, NEW u \in User, Edit(u)
  PROVE  LockInv'
<1>1. Moves(u, {"edit", "collect", "poll", "next", "run", "sweep"},
               {"unlock", "poll", "next", "run", "sweep"})
  BY DEF Edit, Moves
<1>2. pc'[Service] = pc[Service] /\ unblockPipe' = unblockPipe
  BY Threads DEF Edit, Goto, LockInv, LockTypeOK
<1>3. QED  BY <1>1, <1>2, HolderStep, Threads

LEMMA WalkStep ==
  ASSUME LockInv,
         \/ Collect \/ Poll \/ NextCursor
         \/ (\E j \in Job \union {NoJob} : Run(j)) \/ Sweep
  PROVE  LockInv'
<1> DEFINE From == {"edit", "collect", "poll", "next", "run", "sweep"}
           To == {"unlock", "poll", "next", "run", "sweep"}
           Kept ==
             pc'[Service] \in {"collect", "poll"} =>
               pc[Service] \in {"collect", "poll"} /\ unblockPipe' = unblockPipe
<1>1. pc \in [Runner -> Place] /\ Service \in Runner
  BY Threads DEF LockInv, LockTypeOK
<1>2. ASSUME Collect PROVE Moves(Service, From, To) /\ Kept
  BY <1>1, <1>2 DEF Collect, Moves, Goto
<1>3. ASSUME Poll PROVE Moves(Service, From, To) /\ Kept
  BY <1>1, <1>3 DEF Poll, Moves, Goto
<1>4. ASSUME NextCursor
      PROVE  \/ Moves(Service, From, To) /\ Kept
             \/ UNCHANGED <<pc, lockVars, m_socketJobs, unblockPipe>>
  BY <1>1, <1>4 DEF NextCursor, Moves, Goto, jobVars
<1>5. ASSUME NEW j \in Job \union {NoJob}, Run(j) PROVE Moves(Service, From, To) /\ Kept
  BY <1>1, <1>5 DEF Run, Moves, Goto
<1>6. ASSUME Sweep PROVE Moves(Service, From, To) /\ Kept
  BY <1>1, <1>6 DEF Sweep, Moves, Goto
<1>7. QED
  BY <1>1, <1>2, <1>3, <1>4, <1>5, <1>6, HolderStep, StillStep

(***************************************************************************)
(* Every step keeps the invariant.                                         *)
(***************************************************************************)
LEMMA LockInvNext == LockInv /\ [MuxNext]_muxVars => LockInv'
<1> SUFFICES ASSUME LockInv, [MuxNext]_muxVars PROVE LockInv'
  OBVIOUS
<1>1. ASSUME NEW u \in User, NEW s \in Socket, NEW j \in Job \union {NoJob},
             Call(u, s, j)
      PROVE  LockInv'
  BY <1>1, CallStep
<1>2. ASSUME NEW u \in User, UserStep(u) PROVE LockInv'
  <2>1. u \in Runner /\ u # Service
    BY Threads
  <2>2. CASE UserLocks(u)
    BY <2>1, <2>2, LockLockStep DEF UserLocks
  <2>3. CASE unblockPollSocket(u)
    BY <2>3, UnblockStep
  <2>4. CASE lockJobList(u, "edit")
    BY <2>1, <2>4, ListLockStep
  <2>5. CASE Edit(u)
    BY <2>5, EditStep
  <2>6. CASE unlockJobList(u, "idle")
    BY <2>1, <2>6, UnlockStep
  <2>7. QED  BY <1>2, <2>2, <2>3, <2>4, <2>5, <2>6 DEF UserStep
<1>3. CASE ServiceStep
  <2>1. CASE WaitForJobs
    BY <2>1, WaitStep
  <2>2. CASE lockJobListLock(Service, "lockList")
    BY <2>2, LockLockStep, Threads
  <2>3. CASE lockJobList(Service, "collect")
    BY <2>3, ListLockStep, Threads
  <2>4. CASE unlockJobList(Service, "jobs")
    BY <2>4, UnlockStep, Threads
  <2>5. QED  BY <1>3, <2>1, <2>2, <2>3, <2>4, WalkStep DEF ServiceStep
<1>4. ASSUME NEW s \in Socket, BecomesReady(s) PROVE LockInv'
  BY <1>4, StillStep DEF BecomesReady, jobVars
<1>5. CASE UNCHANGED muxVars
  BY <1>5, StillStep DEF muxVars, lockVars
<1>6. QED  BY <1>1, <1>2, <1>3, <1>4, <1>5 DEF MuxNext

LEMMA LockInvAlways == MuxSpec => []LockInv
BY LockInvInit, LockInvNext, PTL DEF MuxSpec

\* For any threads, sockets and jobs: one thread at most has the list of jobs,
\* and one the lock on its lock, as m_jobListLocker and m_jobListLockLocker
\* say (the assertions in lockJobList and unlockJobList).
THEOREM ListHasOneOwner == MuxSpec => []OneThreadHasTheList
<1>1. LockInv => OneThreadHasTheList  BY DEF LockInv
<1>2. QED  BY <1>1, LockInvAlways, PTL

\* For any threads, sockets and jobs: no thread sleeps on a condition that
\* holds, and none waits for a poll that nothing ends (lockJobListLock,
\* lockJobList, unlockJobList, addSocket and removeSocket).
THEOREM NobodyEverOversleeps == MuxSpec => []NobodyOversleeps
<1>1. LockInv => NobodyOversleeps
  BY DEF LockInv, NobodyOversleeps, PollWillBeInterrupted, PollIsInterrupted
<1>2. QED  BY <1>1, LockInvAlways, PTL

(***************************************************************************)
(* The list of jobs.  The place of an entry of the poll is the number of   *)
(* jobs before it in the list: Rank.                                       *)
(***************************************************************************)
Rank(P, i) == Cardinality({j \in P : j < i})

LEMMA Segments ==
  ASSUME NEW n \in Nat, NEW P \in SUBSET (1 .. n), NEW Q \in SUBSET P
  PROVE  /\ IsFiniteSet(Q) /\ Cardinality(Q) \in Nat
         /\ Cardinality(Q) <= Cardinality(P)
<1>1. IsFiniteSet(1 .. n)
  BY FS_Interval
<1>2. IsFiniteSet(P)
  BY <1>1, FS_Subset
<1>3. QED
  BY <1>2, FS_Subset, FS_CardinalityType

LEMMA RankRises ==
  ASSUME NEW n \in Nat, NEW P \in SUBSET (1 .. n), NEW i \in P, NEW k \in P, i < k
  PROVE  Rank(P, i) < Rank(P, k)
<1> DEFINE Q == {j \in P : j < k}  R == {j \in P : j < i}
<1>0. i \in Nat /\ k \in Nat /\ \A j \in P : j \in Nat
  OBVIOUS
<1>1. i \in Q /\ R \subseteq Q \ {i}
  <2>1. i \in Q
    BY <1>0
  <2>2. ASSUME NEW j \in P, j < i PROVE j < k /\ j # i
    BY <1>0, <2>2
  <2>3. QED  BY <2>1, <2>2
<1>2. IsFiniteSet(Q) /\ Cardinality(Q) \in Nat
  BY Segments
<1>3. IsFiniteSet(Q \ {i}) /\ Cardinality(Q \ {i}) = Cardinality(Q) - 1
  BY <1>1, <1>2, FS_RemoveElement
<1>4. Cardinality(R) <= Cardinality(Q \ {i})
  BY <1>1, <1>3, FS_Subset
<1>5. Cardinality(R) \in Nat
  BY Segments
<1>6. QED  BY <1>2, <1>3, <1>4, <1>5 DEF Rank

LEMMA RankIsInRange ==
  ASSUME NEW n \in Nat, NEW P \in SUBSET (1 .. n), NEW i \in P
  PROVE  Cardinality(P) \in Nat /\ Rank(P, i) \in 0 .. Cardinality(P) - 1
<1> DEFINE R == {j \in P : j < i}
<1>1. R \subseteq P \ {i}
  OBVIOUS
<1>2. IsFiniteSet(P) /\ Cardinality(P) \in Nat
  BY Segments
<1>3. IsFiniteSet(P \ {i}) /\ Cardinality(P \ {i}) = Cardinality(P) - 1
  BY <1>2, FS_RemoveElement
<1>4. Cardinality(R) <= Cardinality(P \ {i}) /\ Cardinality(R) \in Nat
  BY <1>1, <1>3, FS_Subset, Segments
<1>5. QED  BY <1>2, <1>3, <1>4 DEF Rank

LEMMA RankIsUnique ==
  ASSUME NEW n \in Nat, NEW P \in SUBSET (1 .. n), NEW i \in P, NEW j \in P,
         Rank(P, i) = Rank(P, j)
  PROVE  i = j
<1>1. i \in Nat /\ j \in Nat
  OBVIOUS
<1>2. Rank(P, i) \in Nat /\ Rank(P, j) \in Nat
  BY Segments DEF Rank
<1>3. ASSUME i < j PROVE FALSE
  <2>1. Rank(P, i) < Rank(P, j)
    BY <1>3, RankRises
  <2>2. QED  BY <1>2, <2>1
<1>4. ASSUME j < i PROVE FALSE
  <2>1. Rank(P, j) < Rank(P, i)
    BY <1>4, RankRises
  <2>2. QED  BY <1>2, <2>1
<1>5. QED  BY <1>1, <1>3, <1>4

LEMMA RankIsOnto ==
  ASSUME NEW n \in Nat, NEW P \in SUBSET (1 .. n), NEW k \in 1 .. Cardinality(P)
  PROVE  \E i \in P : Rank(P, i) = k - 1
<1> DEFINE T == 0 .. Cardinality(P) - 1
           f == [i \in P |-> Rank(P, i)]
<1>1. IsFiniteSet(P) /\ Cardinality(P) \in Nat
  BY Segments
<1>2. IsFiniteSet(T) /\ Cardinality(T) = Cardinality(P)
  <2>1. 0 \in Int /\ Cardinality(P) - 1 \in Int
    BY <1>1
  <2>2. QED  BY <1>1, <2>1, FS_Interval
<1>3. ASSUME NEW i \in P PROVE Rank(P, i) \in T /\ i \in Nat
  <2>1. i \in Nat
    OBVIOUS
  <2>2. QED  BY <2>1, RankIsInRange
<1>4. ASSUME NEW i \in P, NEW j \in P, f[i] = f[j] PROVE i = j
  <2>1. /\ i \in Nat /\ j \in Nat /\ Rank(P, i) \in Nat /\ Rank(P, j) \in Nat
        /\ Rank(P, i) = Rank(P, j)
    BY <1>1, <1>3, <1>4
  <2> HIDE DEF T, f
  <2>2. QED  BY <2>1, RankIsUnique
<1>5. f \in Injection(P, T)
  BY <1>3, <1>4 DEF Injection, IsInjective
<1>6. f \in Surjection(P, T)
  BY <1>1, <1>2, <1>5, FS_Injection
<1>7. k - 1 \in T
  BY <1>1
<1>8. QED  BY <1>6, <1>7 DEF Surjection

(***************************************************************************)
(* The strengthening.  A poll that is up to date has the jobs of the list; *)
(* while it is walked the jobs from the cursor on still have their entries *)
(* from the index on: a job that has been run changed its own node only,   *)
(* for a socket is once in the list.                                       *)
(***************************************************************************)
Ahead(i) == Cardinality({j \in Live : cursor <= j /\ j < i})

ListTypeOK ==
  /\ call \in [User -> (Socket \X (Job \union {NoJob})) \union {<< >>}]
  /\ calls \in 0 .. MaxCalls
  /\ m_update \in BOOLEAN /\ m_socketJobs \in Seq(Socket)
  /\ job \in [Socket -> Job \union {NoJob}]
  /\ pfds \in Seq(Entry) /\ unblockPipe \in BOOLEAN
  /\ hot \subseteq Socket /\ polled \subseteq Socket
  /\ cursor \in Nat \ {0} /\ index \in Nat \ {0}

Places ==
  /\ pc[Service] \notin {"idle", "unblock", "edit"}
  /\ \A u \in User :
       /\ pc[u] \in {"idle", "lockLock", "unblock", "lockList", "edit", "unlock"}
       /\ pc[u] \in {"lockLock", "unblock", "lockList", "edit"} =>
            call[u] \in Socket \X (Job \union {NoJob})

OncePerSocket ==
  \A i, j \in 1 .. Len(m_socketJobs) : m_socketJobs[i] = m_socketJobs[j] => i = j

PollIsUpToDate ==
  /\ ~m_update => pfds = Entries
  /\ pc[Service] = "poll" => ~m_update
  /\ pc[Service] \notin {"next", "run", "sweep"} => cursor = 1 /\ index = 1

WalkIsInStep ==
  /\ pc[Service] \in {"next", "run"} =>
       \A i \in Live : cursor <= i =>
         pfds[index + Ahead(i)] = <<m_socketJobs[i], job[m_socketJobs[i]]>>
  /\ pc[Service] = "run" => cursor \in Live

ListInv ==
  /\ LockInv /\ ListTypeOK /\ Places /\ OncePerSocket
  /\ PollIsUpToDate /\ WalkIsInStep

LEMMA LiveIsBounded ==
  ASSUME m_socketJobs \in Seq(Socket)
  PROVE  /\ Len(m_socketJobs) \in Nat
         /\ Live \in SUBSET (1 .. Len(m_socketJobs))
BY DEF Live

LEMMA PlacesOfEntries ==
  ASSUME m_socketJobs \in Seq(Socket)
  PROVE  /\ Cardinality(Live) \in Nat
         /\ \A k \in 1 .. Cardinality(Live) :
              LivePlace(k) \in Live /\ LiveBefore(LivePlace(k)) = k - 1
         /\ \A i \in Live :
              /\ LiveBefore(i) + 1 \in 1 .. Cardinality(Live)
              /\ LivePlace(LiveBefore(i) + 1) = i
<1> DEFINE n == Len(m_socketJobs)
<1>1. n \in Nat /\ Live \in SUBSET (1 .. n)
  BY LiveIsBounded
<1>2. \A i : LiveBefore(i) = Rank(Live, i)
  BY DEF LiveBefore, Rank
<1>3. Cardinality(Live) \in Nat
  BY <1>1, Segments
<1> HIDE DEF n
<1>4. ASSUME NEW k \in 1 .. Cardinality(Live)
      PROVE  LivePlace(k) \in Live /\ LiveBefore(LivePlace(k)) = k - 1
  <2>1. \E i \in Live : Rank(Live, i) = k - 1
    BY <1>1, RankIsOnto
  <2>2. QED  BY <1>2, <2>1 DEF LivePlace
<1>5. ASSUME NEW i \in Live
      PROVE  /\ LiveBefore(i) + 1 \in 1 .. Cardinality(Live)
             /\ LivePlace(LiveBefore(i) + 1) = i
  <2> DEFINE k == LiveBefore(i) + 1  p == LivePlace(k)
  <2>1. LiveBefore(i) \in 0 .. Cardinality(Live) - 1
    BY <1>1, <1>2, RankIsInRange
  <2>2. k \in 1 .. Cardinality(Live) /\ k - 1 = LiveBefore(i)
    BY <1>3, <2>1
  <2> HIDE DEF k
  <2>3. p \in Live /\ LiveBefore(p) = k - 1
    BY <1>4, <2>2
  <2>4. Rank(Live, p) = Rank(Live, i)
    BY <1>2, <2>2, <2>3
  <2> HIDE DEF p
  <2>5. p = i
    BY <1>1, <2>3, <2>4, RankIsUnique
  <2>6. QED  BY <2>2, <2>5 DEF p, k
<1>6. QED  BY <1>3, <1>4, <1>5

LEMMA EntriesHaveTypes ==
  ASSUME m_socketJobs \in Seq(Socket), job \in [Socket -> Job \union {NoJob}],
         OncePerSocket
  PROVE  /\ Entries \in Seq(Entry) /\ LiveSockets \in Seq(Socket)
         /\ \A i, j \in 1 .. Len(LiveSockets) :
              LiveSockets[i] = LiveSockets[j] => i = j
<1>1. Cardinality(Live) \in Nat
  BY PlacesOfEntries
<1>2. ASSUME NEW k \in 1 .. Cardinality(Live)
      PROVE  /\ LivePlace(k) \in 1 .. Len(m_socketJobs)
             /\ m_socketJobs[LivePlace(k)] \in Socket
             /\ job[m_socketJobs[LivePlace(k)]] \in Job
             /\ LiveBefore(LivePlace(k)) = k - 1
  <2>1. LivePlace(k) \in Live /\ LiveBefore(LivePlace(k)) = k - 1
    BY PlacesOfEntries
  <2>2. LivePlace(k) \in 1 .. Len(m_socketJobs) /\ job[m_socketJobs[LivePlace(k)]] # NoJob
    BY <2>1 DEF Live
  <2>3. m_socketJobs[LivePlace(k)] \in Socket
    BY <2>2
  <2>4. QED  BY <2>1, <2>2, <2>3
<1>3. Entries \in Seq(Entry)
  BY <1>1, <1>2 DEF Entries, Entry
<1>4. LiveSockets \in Seq(Socket) /\ Len(LiveSockets) = Cardinality(Live)
  <2>1. Cardinality(Live) \in Nat /\ \A k \in 1 .. Cardinality(Live) : m_socketJobs[LivePlace(k)] \in Socket
    BY <1>1, <1>2
  <2> QED BY ONLY <2>1 DEF LiveSockets
<1>5. ASSUME NEW i \in 1 .. Cardinality(Live), NEW j \in 1 .. Cardinality(Live),
             LiveSockets[i] = LiveSockets[j]
      PROVE  i = j
  <2>1. m_socketJobs[LivePlace(i)] = m_socketJobs[LivePlace(j)]
    BY <1>5 DEF LiveSockets
  <2>2. LivePlace(i) = LivePlace(j)
    BY <1>2, <2>1 DEF OncePerSocket
  <2>3. i - 1 = j - 1
    BY <1>2, <2>2
  <2>4. i \in Int /\ j \in Int
    BY <1>1
  <2>5. QED  BY <2>3, <2>4
<1>6. QED  BY <1>3, <1>4, <1>5

LEMMA ListInvInit == MuxInit => ListInv
<1> SUFFICES ASSUME MuxInit PROVE ListInv
  OBVIOUS
<1> USE Threads, CallAssumption DEF MuxInit
<1>1. LockInv
  BY LockInvInit
<1>2. ListTypeOK
  <2>1. /\ call \in [User -> (Socket \X (Job \union {NoJob})) \union {<< >>}]
        /\ calls \in 0 .. MaxCalls
    OBVIOUS
  <2>2. m_socketJobs \in Seq(Socket) /\ pfds \in Seq(Entry)
    OBVIOUS
  <2>3. job \in [Socket -> Job \union {NoJob}]
    OBVIOUS
  <2>4. m_update = FALSE /\ unblockPipe = FALSE
    OBVIOUS
  <2>5. hot \subseteq Socket /\ polled \subseteq Socket
    OBVIOUS
  <2>6. cursor \in Nat \ {0} /\ index \in Nat \ {0}
    OBVIOUS
  <2>7. QED  BY ONLY <2>1, <2>2, <2>3, <2>4, <2>5, <2>6 DEF ListTypeOK
<1>3. Places /\ OncePerSocket
  BY DEF Places, OncePerSocket
<1>4. Live = {} /\ Entries = << >>
  <2>1. Live = {}
    BY DEF Live
  <2>2. Cardinality(Live) = 0
    BY <2>1, FS_EmptySet
  <2>3. QED  BY <2>1, <2>2 DEF Entries
<1>5. PollIsUpToDate /\ WalkIsInStep
  <2>1. pfds = << >> /\ cursor = 1 /\ index = 1 /\ ~m_update
    OBVIOUS
  <2>2. pc[Service] = "jobs"
    OBVIOUS
  <2>3. QED  BY ONLY <1>4, <2>1, <2>2 DEF PollIsUpToDate, WalkIsInStep
<1>6. QED  BY <1>1, <1>2, <1>3, <1>5 DEF ListInv

(***************************************************************************)
(* Steps that leave the list, the poll and the walk alone.                 *)
(***************************************************************************)
LEMMA QuietStep ==
  ASSUME ListInv, LockInv', ListTypeOK', Places', UNCHANGED <<jobVars, pollVars>>,
         \/ pc'[Service] = pc[Service]
         \/ {pc[Service], pc'[Service]} \intersect {"poll", "next", "run", "sweep"} = {}
  PROVE  ListInv'
<1>1. Live' = Live /\ Entries' = Entries /\ \A i : Ahead(i)' = Ahead(i)
  BY DEF jobVars, pollVars, Live, Entries, LivePlace, LiveBefore, Ahead
<1>2. OncePerSocket'
  BY DEF ListInv, OncePerSocket, jobVars
<1>3. PollIsUpToDate'
  BY <1>1 DEF ListInv, PollIsUpToDate, jobVars, pollVars
<1>4. WalkIsInStep'
  BY <1>1 DEF ListInv, WalkIsInStep, jobVars, pollVars
<1>5. QED  BY <1>2, <1>3, <1>4 DEF ListInv

\* The locks.
LEMMA QuietLocks ==
  ASSUME ListInv, LockInv', NEW t \in Runner, NEW from, NEW to,
         pc[t] = from, pc' = [pc EXCEPT ![t] = to] \/ pc' = pc,
         t \in User =>
           <<from, to>> \in {<<"lockLock", "unblock">>, <<"unblock", "lockList">>,
                              <<"lockList", "edit">>, <<"unlock", "idle">>},
         t = Service =>
           <<from, to>> \in {<<"jobs", "lockLock">>, <<"lockLock", "lockList">>,
                              <<"lockList", "collect">>, <<"unlock", "jobs">>},
         UNCHANGED <<call, calls, jobVars, pollVars, hot>>,
         unblockPipe' \in BOOLEAN
  PROVE  ListInv'
<1> USE Threads
<1>1. ListTypeOK'
  BY DEF ListInv, ListTypeOK, jobVars, pollVars
<1>2. pc \in [Runner -> Place]
  BY DEF ListInv, LockInv, LockTypeOK
<1>3. Places'
  BY <1>2 DEF ListInv, Places, Runner
<1>4. \/ pc'[Service] = pc[Service]
      \/ {pc[Service], pc'[Service]} \intersect {"poll", "next", "run", "sweep"} = {}
  BY <1>2
<1>5. QED  BY <1>1, <1>3, <1>4, QuietStep

LEMMA CallKeepsList ==
  ASSUME ListInv, NEW u \in User, NEW s \in Socket, NEW j \in Job \union {NoJob},
         Call(u, s, j)
  PROVE  ListInv'
<1> USE Threads, CallAssumption
<1>1. LockInv'
  BY CallStep DEF ListInv
<1>2. ListTypeOK'
  BY DEF ListInv, ListTypeOK, jobVars, pollVars, Call
<1>3. pc \in [Runner -> Place] /\ call \in [User -> (Socket \X (Job \union {NoJob})) \union {<< >>}]
  BY DEF ListInv, LockInv, LockTypeOK, ListTypeOK
<1>4. Places'
  BY <1>3 DEF ListInv, Places, Call, Goto
<1>5. pc'[Service] = pc[Service]
  BY <1>3 DEF Call, Goto
<1>6. QED  BY <1>1, <1>2, <1>4, <1>5, QuietStep DEF Call

LEMMA EditKeepsList ==
  ASSUME ListInv, NEW u \in User, Edit(u)
  PROVE  ListInv'
<1> USE Threads DEF ListInv
<1> DEFINE s == call[u][1]  j == call[u][2]
<1>1. LockInv'
  BY EditStep
<1>2. pc \in [Runner -> Place] /\ call \in [User -> (Socket \X (Job \union {NoJob})) \union {<< >>}]
  BY DEF LockInv, LockTypeOK, ListTypeOK
<1>3. s \in Socket /\ j \in Job \union {NoJob}
  BY DEF Edit, Places
<1>4. pc[Service] \notin {"poll", "next", "run", "sweep"} /\ pc'[Service] = pc[Service]
  BY <1>2 DEF LockInv, OneThreadHasTheList, HasList, Edit, Goto
<1>5. /\ m_socketJobs' = IF j # NoJob /\ s \notin Registered
                         THEN Append(m_socketJobs, s) ELSE m_socketJobs
      /\ job' = [job EXCEPT ![s] = j]
      /\ m_update' = (m_update \/ j # NoJob \/ job[s] # NoJob)
  BY DEF Edit, SetJob
<1> HIDE DEF s, j
<1>6. m_socketJobs \in Seq(Socket) /\ job \in [Socket -> Job \union {NoJob}]
  BY DEF ListTypeOK
<1>7. ListTypeOK'
  <2>1. m_socketJobs' \in Seq(Socket) /\ job' \in [Socket -> Job \union {NoJob}]
    BY <1>3, <1>5, <1>6
  <2>2. m_update' \in BOOLEAN
    BY <1>5 DEF ListTypeOK
  <2>3. QED  BY <2>1, <2>2 DEF ListTypeOK, Edit, pollVars
<1>8. Places'
  BY <1>2, <1>4 DEF Places, Edit, Goto
<1>9. OncePerSocket'
  <2>1. CASE j # NoJob /\ s \notin Registered
    <3>1. \A i \in 1 .. Len(m_socketJobs) : m_socketJobs[i] # s
      BY <2>1 DEF Registered
    <3>2. /\ Len(m_socketJobs') = Len(m_socketJobs) + 1 /\ Len(m_socketJobs) \in Nat
          /\ \A i \in 1 .. Len(m_socketJobs) + 1 :
               m_socketJobs'[i] = IF i = Len(m_socketJobs) + 1 THEN s ELSE m_socketJobs[i]
      BY <1>3, <1>5, <1>6, <2>1
    <3>3. QED  BY <3>1, <3>2 DEF OncePerSocket
  <2>2. CASE ~(j # NoJob /\ s \notin Registered)
    BY <1>5, <2>2 DEF OncePerSocket
  <2>3. QED  BY <2>1, <2>2
<1>10. PollIsUpToDate'
  <2>1. CASE m_update'
    BY <1>4, <2>1 DEF PollIsUpToDate, Edit, pollVars
  <2>2. CASE ~m_update'
    <3>1. ~m_update /\ m_socketJobs' = m_socketJobs /\ job' = job
      BY <1>3, <1>5, <1>6, <2>2
    <3>2. Entries' = Entries
      BY <3>1 DEF Entries, Live, LivePlace, LiveBefore
    <3>3. QED  BY <1>4, <3>1, <3>2 DEF PollIsUpToDate, Edit, pollVars
  <2>3. QED  BY <2>1, <2>2
<1>11. WalkIsInStep'
  BY <1>4 DEF WalkIsInStep
<1>12. QED  BY <1>1, <1>7, <1>8, <1>9, <1>10, <1>11

(***************************************************************************)
(* The service thread collects, polls, walks and sweeps.                   *)
(***************************************************************************)
LEMMA ServiceKeepsPlaces ==
  ASSUME ListInv, NEW place \in Place \ {"idle", "unblock", "edit"}, Goto(Service, place),
         call' = call
  PROVE  Places' /\ pc'[Service] = place
<1>1. pc \in [Runner -> Place]
  BY DEF ListInv, LockInv, LockTypeOK
<1>2. QED  BY <1>1, Threads DEF ListInv, Places, Goto

LEMMA CollectKeepsList == ASSUME ListInv, Collect PROVE ListInv'
<1> USE DEF ListInv
<1> DEFINE place == IF pfds' = << >> THEN "sweep" ELSE "poll"
<1>1. LockInv'
  BY WalkStep
<1>2. Places' /\ pc'[Service] = place
  BY ServiceKeepsPlaces DEF Collect, Place
<1>3. m_socketJobs' = m_socketJobs /\ job' = job /\ pfds' = Entries
  BY DEF Collect, PollIsUpToDate
<1>4. Entries' = Entries
  BY <1>3 DEF Entries, Live, LivePlace, LiveBefore
<1>5. ListTypeOK'
  <2>1. Entries \in Seq(Entry)
    BY EntriesHaveTypes DEF ListTypeOK
  <2>2. QED  BY <1>3, <2>1 DEF ListTypeOK, Collect
<1>6. OncePerSocket'
  BY <1>3 DEF OncePerSocket
<1>7. PollIsUpToDate'
  BY <1>2, <1>3, <1>4 DEF PollIsUpToDate, Collect
<1>8. WalkIsInStep'
  BY <1>2 DEF WalkIsInStep
<1>9. QED  BY <1>1, <1>2, <1>5, <1>6, <1>7, <1>8

LEMMA PollKeepsList == ASSUME ListInv, Poll PROVE ListInv'
<1> USE DEF ListInv
<1> DEFINE ready == {s \in hot : \E i \in 1 .. Len(pfds) : pfds[i][1] = s}
           place == IF ready = {} THEN "sweep" ELSE "next"
<1>1. LockInv'
  BY WalkStep
<1>2. Places' /\ pc'[Service] = place
  BY ServiceKeepsPlaces DEF Poll, Place
<1>3. /\ m_socketJobs' = m_socketJobs /\ job' = job /\ pfds' = pfds
      /\ m_update' = m_update /\ cursor' = cursor /\ index' = index
  BY DEF Poll, jobVars
<1>4. Live' = Live /\ Entries' = Entries
  BY <1>3 DEF Entries, Live, LivePlace, LiveBefore
<1>5. cursor = 1 /\ index = 1 /\ pfds = Entries /\ ~m_update
  BY DEF Poll, PollIsUpToDate
<1>6. ListTypeOK'
  BY <1>3 DEF ListTypeOK, Poll
<1>7. OncePerSocket'
  BY <1>3 DEF OncePerSocket
<1>8. PollIsUpToDate'
  BY <1>2, <1>3, <1>4, <1>5 DEF PollIsUpToDate
<1>9. ASSUME NEW i \in Live
      PROVE  pfds[1 + LiveBefore(i)] = <<m_socketJobs[i], job[m_socketJobs[i]]>>
  <2>1. /\ LiveBefore(i) + 1 \in 1 .. Cardinality(Live)
        /\ LivePlace(LiveBefore(i) + 1) = i
    BY PlacesOfEntries DEF ListTypeOK
  <2>2. LiveBefore(i) + 1 = 1 + LiveBefore(i)
    <3>1. m_socketJobs \in Seq(Socket)
      BY DEF ListTypeOK
    <3>2. LiveBefore(i) \in Nat
      BY <3>1, LiveIsBounded, Segments DEF LiveBefore
    <3>3. QED  BY <3>2
  <2>3. QED  BY <1>5, <2>1, <2>2 DEF Entries
<1>10. ASSUME NEW i \in Live PROVE Ahead(i)' = LiveBefore(i)
  <2>1. \A j \in Live : j \in Nat \ {0}
    BY LiveIsBounded DEF ListTypeOK
  <2>2. {j \in Live : 1 <= j /\ j < i} = {j \in Live : j < i}
    BY <2>1
  <2>3. Ahead(i)' = Cardinality({j \in Live : 1 <= j /\ j < i})
    BY <1>3, <1>4, <1>5 DEF Ahead
  <2>4. QED  BY <2>2, <2>3 DEF LiveBefore
<1>11. WalkIsInStep'
  BY <1>2, <1>3, <1>4, <1>5, <1>9, <1>10 DEF WalkIsInStep
<1>12. QED  BY <1>1, <1>2, <1>6, <1>7, <1>8, <1>11

\* A place without a job is passed over.
LEMMA NextKeepsList == ASSUME ListInv, NextCursor PROVE ListInv'
<1> USE DEF ListInv
<1>1. LockInv'
  BY WalkStep
<1>2. /\ m_socketJobs' = m_socketJobs /\ job' = job /\ pfds' = pfds
      /\ m_update' = m_update /\ index' = index
  BY DEF NextCursor, jobVars
<1>3. Live' = Live /\ Entries' = Entries
  BY <1>2 DEF Entries, Live, LivePlace, LiveBefore
<1>4. /\ cursor \in Nat \ {0} /\ m_socketJobs \in Seq(Socket)
      /\ pc \in [Runner -> Place] /\ Service \in Runner
  BY Threads DEF ListTypeOK, LockInv, LockTypeOK
<1>5. ListTypeOK'
  BY <1>2, <1>4 DEF ListTypeOK, NextCursor
<1>6. OncePerSocket'
  BY <1>2 DEF OncePerSocket
<1>7. CASE index > Len(pfds) \/ cursor > Len(m_socketJobs)
  <2>1. Places' /\ pc'[Service] = "sweep"
    BY <1>7, ServiceKeepsPlaces DEF NextCursor, Place
  <2>2. PollIsUpToDate'
    BY <1>2, <1>3, <2>1 DEF PollIsUpToDate
  <2>3. WalkIsInStep'
    BY <2>1 DEF WalkIsInStep
  <2>4. QED  BY <1>1, <1>5, <1>6, <2>1, <2>2, <2>3
<1>8. CASE /\ ~(index > Len(pfds) \/ cursor > Len(m_socketJobs))
           /\ job[m_socketJobs[cursor]] # NoJob
  <2>1. Places' /\ pc'[Service] = "run" /\ cursor' = cursor
    BY <1>8, ServiceKeepsPlaces DEF NextCursor, Place
  <2>2. PollIsUpToDate'
    BY <1>2, <1>3, <2>1 DEF PollIsUpToDate
  <2>3. cursor \in Live
    BY <1>4, <1>8 DEF Live
  <2>4. \A i : Ahead(i)' = Ahead(i)
    BY <1>3, <2>1 DEF Ahead
  <2>5. WalkIsInStep'
    BY <1>2, <1>3, <2>1, <2>3, <2>4 DEF WalkIsInStep, NextCursor
  <2>6. QED  BY <1>1, <1>5, <1>6, <2>1, <2>2, <2>5
<1>9. CASE /\ ~(index > Len(pfds) \/ cursor > Len(m_socketJobs))
           /\ job[m_socketJobs[cursor]] = NoJob
  <2>1. pc' = pc /\ cursor' = cursor + 1 /\ pc[Service] = "next" /\ call' = call
    BY <1>9 DEF NextCursor
  <2>2. Places'
    BY <2>1 DEF Places
  <2>3. PollIsUpToDate'
    BY <1>2, <1>3, <2>1 DEF PollIsUpToDate
  <2>4. cursor \notin Live
    BY <1>9 DEF Live
  <2>5. ASSUME NEW i \in Live, cursor + 1 <= i
        PROVE  cursor <= i /\ Ahead(i)' = Ahead(i)
    <3>1. \A j \in Live : j \in Nat
      BY <1>4, LiveIsBounded
    <3>2. {j \in Live : cursor <= j /\ j < i} = {j \in Live : cursor + 1 <= j /\ j < i}
      BY <1>4, <2>4, <3>1
    <3>3. Ahead(i)' = Cardinality({j \in Live : cursor + 1 <= j /\ j < i})
      BY <1>3, <2>1 DEF Ahead
    <3>4. cursor <= i
      BY <1>4, <2>5, <3>1
    <3>5. QED  BY <3>2, <3>3, <3>4 DEF Ahead
  <2>6. WalkIsInStep'
    BY <1>2, <1>3, <2>1, <2>5 DEF WalkIsInStep
  <2>7. QED  BY <1>1, <1>5, <1>6, <2>2, <2>3, <2>6
<1>10. QED  BY <1>7, <1>8, <1>9

\* The job that is run may change its node, which is behind the cursor then.
LEMMA RunKeepsList ==
  ASSUME ListInv, NEW j \in Job \union {NoJob}, Run(j)
  PROVE  ListInv'
<1> USE DEF ListInv
<1> DEFINE s == m_socketJobs[cursor]
<1>1. LockInv'
  BY WalkStep
<1>2. Places' /\ pc'[Service] = "next"
  BY ServiceKeepsPlaces DEF Run, Place
<1>3. /\ cursor \in Nat \ {0} /\ index \in Nat \ {0} /\ m_socketJobs \in Seq(Socket)
      /\ job \in [Socket -> Job \union {NoJob}]
  BY DEF ListTypeOK
<1>4. pc[Service] = "run" /\ cursor \in Live /\ cursor \in 1 .. Len(m_socketJobs) /\ s \in Socket
  <2>1. pc[Service] = "run" /\ cursor \in Live
    BY DEF Run, WalkIsInStep
  <2>2. cursor \in 1 .. Len(m_socketJobs)
    BY <2>1 DEF Live
  <2>3. QED  BY <1>3, <2>1, <2>2
<1>5. /\ m_socketJobs' = m_socketJobs /\ job' = [job EXCEPT ![s] = j] /\ pfds' = pfds
      /\ m_update' = (m_update \/ j # job[s]) /\ polled' = polled
      /\ cursor' = cursor + 1 /\ index' = index + 1 /\ hot' \subseteq hot
      /\ call' = call /\ calls' = calls /\ unblockPipe' = unblockPipe
  BY DEF Run
<1> HIDE DEF s
<1>6. ListTypeOK'
  BY <1>3, <1>4, <1>5 DEF ListTypeOK
<1>7. OncePerSocket'
  BY <1>5 DEF OncePerSocket
<1>8. PollIsUpToDate'
  <2>1. CASE ~m_update'
    <3>1. job' = job /\ ~m_update
      BY <1>3, <1>4, <1>5, <2>1
    <3>2. Entries' = Entries
      <4>1. m_socketJobs' = m_socketJobs
        BY <1>5
      <4>2. QED  BY ONLY <3>1, <4>1 DEF Entries, Live, LivePlace, LiveBefore
    <3>3. QED  BY <1>2, <1>5, <3>1, <3>2 DEF PollIsUpToDate
  <2>2. CASE m_update'
    BY <1>2, <2>2 DEF PollIsUpToDate
  <2>3. QED  BY <2>1, <2>2
<1>9. ASSUME NEW i \in 1 .. Len(m_socketJobs), i # cursor
      PROVE  job'[m_socketJobs[i]] = job[m_socketJobs[i]] /\ (i \in Live' <=> i \in Live)
  <2>1. m_socketJobs[i] # s
    BY <1>4, <1>9 DEF OncePerSocket, s
  <2>2. job'[m_socketJobs[i]] = job[m_socketJobs[i]]
    BY <1>3, <1>5, <2>1
  <2>3. QED  BY <1>5, <2>2 DEF Live
<1>10. ASSUME NEW i \in Live', cursor + 1 <= i
       PROVE  /\ i \in Live /\ cursor <= i /\ Ahead(i) \in Nat
              /\ Ahead(i)' = Ahead(i) - 1
              /\ job'[m_socketJobs[i]] = job[m_socketJobs[i]]
  <2>1. i \in 1 .. Len(m_socketJobs) /\ Len(m_socketJobs) \in Nat
    BY <1>3, <1>5 DEF Live
  <2>2. i \in Nat /\ i # cursor /\ cursor < i
    BY <1>3, <1>10, <2>1
  <2>3. i \in Live /\ cursor <= i /\ job'[m_socketJobs[i]] = job[m_socketJobs[i]]
    BY <1>3, <1>9, <2>1, <2>2
  <2> DEFINE Q == {k \in Live : cursor <= k /\ k < i}
             R == {k \in Live' : cursor + 1 <= k /\ k < i}
  <2>4. IsFiniteSet(Q) /\ Cardinality(Q) \in Nat
    <3>1. Q \in SUBSET Live
      OBVIOUS
    <3>2. QED  BY <1>3, <3>1, LiveIsBounded, Segments
  <2>5. cursor \in Q
    BY <1>3, <1>4, <2>2
  <2>6. R = Q \ {cursor}
    <3>1. \A k \in Live : k \in 1 .. Len(m_socketJobs)
      BY DEF Live
    <3>2. \A k \in Live' : k \in 1 .. Len(m_socketJobs)
      BY <1>5 DEF Live
    <3>3. ASSUME NEW k \in 1 .. Len(m_socketJobs) PROVE k \in R <=> k \in Q \ {cursor}
      <4>1. k \in Nat
        BY <2>1
      <4>2. CASE k = cursor
        BY <1>3, <4>2
      <4>3. CASE k # cursor
        <5>1. k \in Live' <=> k \in Live
          BY <1>9, <4>3
        <5>2. cursor + 1 <= k <=> cursor <= k
          BY <1>3, <4>1, <4>3
        <5>3. QED  BY <4>3, <5>1, <5>2
      <4>4. QED  BY <4>2, <4>3
    <3>4. QED  BY <3>1, <3>2, <3>3
  <2>7. Cardinality(R) = Cardinality(Q) - 1
    BY <2>4, <2>5, <2>6, FS_RemoveElement
  <2>8. Ahead(i) = Cardinality(Q)
    BY DEF Ahead
  <2>9. Ahead(i)' = Cardinality(R)
    BY <1>5 DEF Ahead
  <2>10. QED  BY <2>3, <2>4, <2>7, <2>8, <2>9
<1>11. WalkIsInStep'
  <2>1. ASSUME NEW i \in Live', cursor' <= i
        PROVE  pfds'[index' + Ahead(i)'] = <<m_socketJobs'[i], job'[m_socketJobs'[i]]>>
    <3>1. /\ i \in Live /\ cursor <= i /\ Ahead(i) \in Nat
          /\ Ahead(i)' = Ahead(i) - 1
          /\ job'[m_socketJobs[i]] = job[m_socketJobs[i]]
      BY <1>5, <1>10, <2>1
    <3>2. pfds[index + Ahead(i)] = <<m_socketJobs[i], job[m_socketJobs[i]]>>
      BY <1>4, <3>1 DEF WalkIsInStep
    <3>3. index' + Ahead(i)' = index + Ahead(i)
      BY <1>3, <1>5, <3>1
    <3>4. QED  BY <1>5, <3>1, <3>2, <3>3
  <2>2. QED  BY <1>2, <2>1 DEF WalkIsInStep
<1>12. QED  BY <1>1, <1>2, <1>6, <1>7, <1>8, <1>11

LEMMA SweepKeepsList == ASSUME ListInv, Sweep PROVE ListInv'
<1> USE DEF ListInv
<1>1. LockInv'
  BY WalkStep
<1>2. Places' /\ pc'[Service] = "unlock"
  BY ServiceKeepsPlaces DEF Sweep, Place
<1>3. /\ m_socketJobs' = LiveSockets /\ job' = job /\ pfds' = pfds
      /\ m_update' = (m_update \/ LiveSockets # m_socketJobs)
      /\ cursor' = 1 /\ index' = 1
  BY DEF Sweep
<1>4. /\ LiveSockets \in Seq(Socket)
      /\ \A i, j \in 1 .. Len(LiveSockets) : LiveSockets[i] = LiveSockets[j] => i = j
  BY EntriesHaveTypes DEF ListTypeOK
<1>5. ListTypeOK'
  BY <1>3, <1>4 DEF ListTypeOK, Sweep
<1>6. OncePerSocket'
  BY <1>3, <1>4 DEF OncePerSocket
<1>7. PollIsUpToDate'
  <2>1. CASE m_update'
    BY <1>2, <1>3, <2>1 DEF PollIsUpToDate
  <2>2. CASE ~m_update'
    <3>1. m_socketJobs' = m_socketJobs /\ ~m_update
      BY <1>3, <2>2
    <3>2. Entries' = Entries
      BY <1>3, <3>1 DEF Entries, Live, LivePlace, LiveBefore
    <3>3. QED  BY <1>2, <1>3, <3>1, <3>2 DEF PollIsUpToDate
  <2>3. QED  BY <2>1, <2>2
<1>8. WalkIsInStep'
  BY <1>2 DEF WalkIsInStep
<1>9. QED  BY <1>1, <1>2, <1>5, <1>6, <1>7, <1>8

(***************************************************************************)
(* Every step keeps the list in order.                                     *)
(***************************************************************************)
LEMMA UnlockKeepsList ==
  ASSUME ListInv, NEW t \in Runner, NEW next, unlockJobList(t, next),
         \/ t \in User /\ next = "idle"
         \/ t = Service /\ next = "jobs"
  PROVE  ListInv'
<1>1. LockInv'
  BY UnlockStep DEF ListInv
<1>2. pc[t] = "unlock" /\ pc' = [pc EXCEPT ![t] = next]
  BY DEF unlockJobList, Goto
<1>3. UNCHANGED <<call, calls, jobVars, pollVars, hot>> /\ unblockPipe' \in BOOLEAN
  BY DEF unlockJobList, ListInv, ListTypeOK
<1>4. QED  BY <1>1, <1>2, <1>3, Threads, QuietLocks

LEMMA LockListKeepsList ==
  ASSUME ListInv, NEW t \in Runner, NEW next, lockJobList(t, next),
         \/ t \in User /\ next = "edit"
         \/ t = Service /\ next = "collect"
  PROVE  ListInv'
<1>1. LockInv'
  BY ListLockStep, Threads DEF ListInv
<1>2. pc[t] = "lockList" /\ (pc' = [pc EXCEPT ![t] = next] \/ pc' = pc)
  BY DEF lockJobList, Goto
<1>3. UNCHANGED <<call, calls, jobVars, pollVars, hot>> /\ unblockPipe' \in BOOLEAN
  BY DEF lockJobList, ListInv, ListTypeOK
<1>4. QED  BY <1>1, <1>2, <1>3, Threads, QuietLocks

LEMMA LockLockKeepsList ==
  ASSUME ListInv, NEW t \in Runner, NEW next, lockJobListLock(t, next),
         \/ t \in User /\ next = "unblock"
         \/ t = Service /\ next = "lockList"
  PROVE  ListInv'
<1>1. LockInv'
  BY LockLockStep, Threads DEF ListInv
<1>2. pc[t] = "lockLock" /\ (pc' = [pc EXCEPT ![t] = next] \/ pc' = pc)
  BY DEF lockJobListLock, Goto
<1>3. UNCHANGED <<call, calls, jobVars, pollVars, hot>> /\ unblockPipe' \in BOOLEAN
  BY DEF lockJobListLock, ListInv, ListTypeOK
<1>4. QED  BY <1>1, <1>2, <1>3, Threads, QuietLocks

LEMMA ListInvNext == ListInv /\ [MuxNext]_muxVars => ListInv'
<1> SUFFICES ASSUME ListInv, [MuxNext]_muxVars PROVE ListInv'
  OBVIOUS
<1>1. ASSUME NEW u \in User, UserStep(u) PROVE ListInv'
  <2>1. u \in Runner
    BY Threads
  <2>2. CASE UserLocks(u)
    BY <2>1, <2>2, LockLockKeepsList DEF UserLocks
  <2>3. CASE unblockPollSocket(u)
    <3>1. LockInv'
      BY <2>3, UnblockStep DEF ListInv
    <3>2. pc[u] = "unblock" /\ pc' = [pc EXCEPT ![u] = "lockList"]
      BY <2>3 DEF unblockPollSocket, Goto
    <3>3. UNCHANGED <<call, calls, jobVars, pollVars, hot>> /\ unblockPipe' \in BOOLEAN
      BY <2>3 DEF unblockPollSocket, WritesByte
    <3>4. QED  BY <2>1, <3>1, <3>2, <3>3, Threads, QuietLocks
  <2>4. CASE lockJobList(u, "edit")
    BY <2>1, <2>4, LockListKeepsList
  <2>5. CASE Edit(u)
    BY <2>5, EditKeepsList
  <2>6. CASE unlockJobList(u, "idle")
    BY <2>1, <2>6, UnlockKeepsList
  <2>7. QED  BY <1>1, <2>2, <2>3, <2>4, <2>5, <2>6 DEF UserStep
<1>2. CASE ServiceStep
  <2>1. CASE WaitForJobs
    <3>1. LockInv'
      BY <2>1, WaitStep DEF ListInv
    <3>2. pc[Service] = "jobs" /\ (pc' = [pc EXCEPT ![Service] = "lockLock"] \/ pc' = pc)
      BY <2>1 DEF WaitForJobs, Goto
    <3>3. UNCHANGED <<call, calls, jobVars, pollVars, hot>> /\ unblockPipe' \in BOOLEAN
      BY <2>1 DEF WaitForJobs, ListInv, ListTypeOK
    <3>4. QED  BY <3>1, <3>2, <3>3, Threads, QuietLocks
  <2>2. CASE lockJobListLock(Service, "lockList")
    BY <2>2, Threads, LockLockKeepsList
  <2>3. CASE lockJobList(Service, "collect")
    BY <2>3, Threads, LockListKeepsList
  <2>4. CASE unlockJobList(Service, "jobs")
    BY <2>4, Threads, UnlockKeepsList
  <2>5. QED
    BY <1>2, <2>1, <2>2, <2>3, <2>4, CollectKeepsList, PollKeepsList, NextKeepsList,
       RunKeepsList, SweepKeepsList DEF ServiceStep
<1>3. ASSUME NEW s \in Socket, BecomesReady(s) PROVE ListInv'
  <2>1. LockInv' /\ pc' = pc
    BY <1>3, StillStep DEF ListInv, BecomesReady, jobVars
  <2>2. ListTypeOK' /\ Places'
    BY <1>3 DEF ListInv, ListTypeOK, Places, BecomesReady, jobVars, pollVars
  <2>3. QED  BY <1>3, <2>1, <2>2, QuietStep DEF BecomesReady
<1>4. CASE UNCHANGED muxVars
  <2>1. LockInv' /\ pc' = pc
    BY <1>4, LockInvNext DEF ListInv, muxVars
  <2>2. ListTypeOK' /\ Places'
    BY <1>4 DEF ListInv, ListTypeOK, Places, muxVars
  <2>3. QED  BY <1>4, <2>1, <2>2, QuietStep DEF muxVars, jobVars, pollVars
<1>5. QED  BY <1>1, <1>2, <1>3, <1>4, CallKeepsList DEF MuxNext

\* For any threads, sockets and jobs: the list and the poll keep their types,
\* the list does not change under the thread that polls and walks it, and what
\* was polled at a position is the job that is run there, although jobs are
\* removed, replaced and added between polls and a job may replace itself as it
\* runs (serviceThread, SocketMultiplexer.cpp:181-217).
THEOREM ListIsAlwaysStable == MuxSpec => []ListIsStable
<1>1. ListInv => ListIsStable
  <2> SUFFICES ASSUME ListInv PROVE ListIsStable
    OBVIOUS
  <2>1. MuxTypeOK
    BY DEF ListInv, LockInv, LockTypeOK, ListTypeOK, MuxTypeOK, Place, Condition
  <2>2. OneThreadHasTheList
    BY DEF ListInv, LockInv
  <2>3. ASSUME pc[Service] = "poll" PROVE pfds = Entries
    BY <2>3 DEF ListInv, PollIsUpToDate
  <2>4. ASSUME pc[Service] = "run"
        PROVE  /\ job[m_socketJobs[cursor]] # NoJob
               /\ pfds[index] = <<m_socketJobs[cursor], job[m_socketJobs[cursor]]>>
    <3>1. cursor \in Live /\ cursor \in Nat /\ index \in Nat
      BY <2>4 DEF ListInv, WalkIsInStep, ListTypeOK
    <3>2. {j \in Live : cursor <= j /\ j < cursor} = {}
      <4>1. \A j \in Live : j \in Nat
        BY LiveIsBounded DEF ListInv, ListTypeOK
      <4>2. ASSUME NEW j \in Live PROVE ~(cursor <= j /\ j < cursor)
        BY <3>1, <4>1
      <4>3. QED  BY <4>2
    <3>3. Ahead(cursor) = 0
      BY <3>2, FS_EmptySet DEF Ahead
    <3>4. pfds[index + Ahead(cursor)] = <<m_socketJobs[cursor], job[m_socketJobs[cursor]]>>
      BY <2>4, <3>1 DEF ListInv, WalkIsInStep
    <3>5. index + Ahead(cursor) = index
      BY <3>1, <3>3
    <3>6. job[m_socketJobs[cursor]] # NoJob
      BY <3>1 DEF Live
    <3>7. QED  BY <3>4, <3>5, <3>6
  <2>5. QED  BY <2>1, <2>2, <2>3, <2>4 DEF ListIsStable, EntriesMatchJobs
<1>2. QED  BY <1>1, ListInvInit, ListInvNext, PTL DEF MuxSpec

(***************************************************************************)
(*                                DataSocket                               *)
(***************************************************************************)

(***************************************************************************)
(* Sequences of consecutive numbers.                                       *)
(***************************************************************************)
\* The numbers after n, in order.
Counts(s, n) == s \in Seq(Nat) /\ \A i \in 1 .. Len(s) : s[i] = n + i

LEMMA CountsNothing ==
  ASSUME NEW n \in Nat
  PROVE  Counts(<< >>, n) /\ Len(<< >>) = 0
BY DEF Counts

LEMMA CountsEmpty ==
  ASSUME NEW n \in Nat, NEW s, Counts(s, n)
  PROVE  Len(s) \in Nat /\ (s = << >> <=> Len(s) = 0)
BY EmptySeq DEF Counts

LEMMA CountsOne ==
  ASSUME NEW n \in Nat, NEW s, Counts(s, n)
  PROVE  /\ Counts(Append(s, n + Len(s) + 1), n)
         /\ Len(Append(s, n + Len(s) + 1)) = Len(s) + 1
         /\ Append(s, n + Len(s) + 1) # << >>
<1> DEFINE k == n + Len(s) + 1
<1>1. s \in Seq(Nat) /\ Len(s) \in Nat /\ k \in Nat
  BY DEF Counts
<1> HIDE DEF k
<1>2. /\ Append(s, k) \in Seq(Nat) /\ Len(Append(s, k)) = Len(s) + 1
      /\ \A i \in 1 .. Len(s) : Append(s, k)[i] = s[i]
      /\ Append(s, k)[Len(s) + 1] = k
  BY <1>1
<1>3. ASSUME NEW i \in 1 .. Len(s) + 1 PROVE Append(s, k)[i] = n + i
  <2>1. CASE i \in 1 .. Len(s)
    BY <1>2, <2>1 DEF Counts
  <2>2. CASE i = Len(s) + 1
    BY <1>1, <1>2, <2>2 DEF k
  <2>3. QED  BY <1>1, <2>1, <2>2
<1>4. Counts(Append(s, k), n)
  BY <1>2, <1>3 DEF Counts
<1>5. Append(s, k) # << >>
  BY <1>1, <1>2, EmptySeq
<1>6. QED  BY <1>2, <1>4, <1>5 DEF k

LEMMA CountsOn ==
  ASSUME NEW n \in Nat, NEW s, NEW t, Counts(s, n), Counts(t, n + Len(s))
  PROVE  Counts(s \o t, n) /\ Len(s \o t) = Len(s) + Len(t)
<1>1. s \in Seq(Nat) /\ Len(s) \in Nat /\ t \in Seq(Nat) /\ Len(t) \in Nat
  BY DEF Counts
<1>2. /\ s \o t \in Seq(Nat) /\ Len(s \o t) = Len(s) + Len(t)
      /\ \A i \in 1 .. Len(s) + Len(t) :
           (s \o t)[i] = IF i <= Len(s) THEN s[i] ELSE t[i - Len(s)]
  BY <1>1, ConcatProperties
<1>3. ASSUME NEW i \in 1 .. Len(s) + Len(t) PROVE (s \o t)[i] = n + i
  <2>1. CASE i <= Len(s)
    <3>1. i \in 1 .. Len(s)
      BY <1>1, <2>1
    <3>2. QED  BY <1>2, <2>1, <3>1 DEF Counts
  <2>2. CASE ~(i <= Len(s))
    <3>1. i - Len(s) \in 1 .. Len(t)
      BY <1>1, <2>2
    <3>2. t[i - Len(s)] = n + Len(s) + (i - Len(s))
      BY <3>1 DEF Counts
    <3>3. (s \o t)[i] = t[i - Len(s)]
      BY <1>2, <2>2
    <3>4. QED  BY <1>1, <3>2, <3>3
  <2>3. QED  BY <2>1, <2>2
<1>4. QED  BY <1>2, <1>3 DEF Counts

LEMMA CountsFirst ==
  ASSUME NEW n \in Nat, NEW s, Counts(s, n), NEW k \in 0 .. Len(s)
  PROVE  Counts(SubSeq(s, 1, k), n) /\ Len(SubSeq(s, 1, k)) = k
<1>1. Len(s) \in Nat /\ \A i \in 1 .. k : i \in 1 .. Len(s) /\ s[i] \in Nat
  BY ElementOfSeq DEF Counts
<1>2. /\ SubSeq(s, 1, k) \in Seq(Nat)
      /\ Len(SubSeq(s, 1, k)) = IF 1 <= k THEN k - 1 + 1 ELSE 0
      /\ \A i \in 1 .. k - 1 + 1 : SubSeq(s, 1, k)[i] = s[1 + i - 1]
  BY <1>1, SubSeqProperties
<1>3. (IF 1 <= k THEN k - 1 + 1 ELSE 0) = k
  BY <1>1
<1>4. \A i \in 1 .. k : i \in 1 .. k - 1 + 1 /\ 1 + i - 1 = i
  BY <1>1
<1>5. \A i \in 1 .. k : SubSeq(s, 1, k)[i] = s[i]
  BY <1>2, <1>4
<1>6. QED  BY <1>1, <1>2, <1>3, <1>5 DEF Counts

LEMMA CountsRest ==
  ASSUME NEW n \in Nat, NEW s, Counts(s, n), NEW k \in 0 .. Len(s)
  PROVE  /\ Counts(SubSeq(s, k + 1, Len(s)), n + k)
         /\ Len(SubSeq(s, k + 1, Len(s))) = Len(s) - k
<1>1. Len(s) \in Nat /\ \A i \in k + 1 .. Len(s) : i \in 1 .. Len(s) /\ s[i] \in Nat
  BY ElementOfSeq DEF Counts
<1> DEFINE m == Len(s)
           r == SubSeq(s, k + 1, m)
<1>2. /\ r \in Seq(Nat)
      /\ Len(r) = IF k + 1 <= m THEN m - (k + 1) + 1 ELSE 0
      /\ \A i \in 1 .. m - (k + 1) + 1 : r[i] = s[k + 1 + i - 1]
  BY <1>1, SubSeqProperties
<1>3. m \in Nat /\ k \in 0 .. m
  BY <1>1
<1>4. \A j \in 1 .. m : s[j] = n + j
  BY DEF Counts
<1> HIDE DEF m, r
<1>5. (IF k + 1 <= m THEN m - (k + 1) + 1 ELSE 0) = m - k
  BY <1>3
<1>6. \A i \in 1 .. m - k :
        i \in 1 .. m - (k + 1) + 1 /\ k + 1 + i - 1 = k + i /\ k + i \in 1 .. m
  BY <1>3
<1>7. \A i \in 1 .. m - k : r[i] = s[k + i]
  BY <1>2, <1>6
<1>8. \A i \in 1 .. m - k : r[i] = n + k + i
  BY <1>3, <1>4, <1>6, <1>7
<1>9. Counts(r, n + k) /\ Len(r) = m - k
  BY <1>2, <1>5, <1>8 DEF Counts
<1>10. QED  BY <1>9 DEF r, m

LEMMA CountsIsBytes ==
  ASSUME NEW s, Counts(s, 0), NEW k \in Nat
  PROVE  /\ Len(s) = k => s = Bytes(0, k)
         /\ Len(s) <= k => IsPrefixOf(s, Bytes(0, k))
<1> DEFINE b == Bytes(0, k)
<1>1. b \in [1 .. k -> Nat] /\ \A i \in 1 .. k : b[i] = i
  BY DEF Bytes
<1>2. b \in Seq(Nat) /\ Len(b) = k
  BY <1>1, SeqDef
<1> HIDE DEF b
<1>3. s \in Seq(Nat) /\ Len(s) \in Nat /\ \A i \in 1 .. Len(s) : s[i] = i
  BY DEF Counts
<1>4. ASSUME Len(s) = k PROVE s = b
  BY <1>1, <1>2, <1>3, <1>4, SeqEqual
<1>5. ASSUME Len(s) <= k PROVE s = SubSeq(b, 1, Len(s))
  <2>1. Counts(b, 0)
    BY <1>1, <1>2 DEF Counts
  <2>2. Counts(SubSeq(b, 1, Len(s)), 0) /\ Len(SubSeq(b, 1, Len(s))) = Len(s)
    BY <1>2, <1>3, <1>5, <2>1, CountsFirst
  <2>3. \A i \in 1 .. Len(s) : s[i] = SubSeq(b, 1, Len(s))[i]
    BY <1>3, <2>2 DEF Counts
  <2>4. QED  BY <1>3, <2>2, <2>3, SeqEqual DEF Counts
<1>6. QED  BY <1>2, <1>4, <1>5 DEF IsPrefixOf, b

LEMMA CountsPrefix ==
  ASSUME NEW n \in Nat, NEW s, NEW t, Counts(s, n), Counts(t, n), Len(s) <= Len(t)
  PROVE  IsPrefixOf(s, t)
<1>1. s \in Seq(Nat) /\ Len(s) \in Nat /\ t \in Seq(Nat) /\ Len(t) \in Nat
  BY DEF Counts
<1>2. Counts(SubSeq(t, 1, Len(s)), n) /\ Len(SubSeq(t, 1, Len(s))) = Len(s)
  BY <1>1, CountsFirst
<1>3. \A i \in 1 .. Len(s) : s[i] = SubSeq(t, 1, Len(s))[i]
  BY <1>2 DEF Counts
<1>4. s = SubSeq(t, 1, Len(s))
  BY <1>1, <1>2, <1>3, SeqEqual DEF Counts
<1>5. QED  BY <1>4 DEF IsPrefixOf

(***************************************************************************)
(* The strengthening: the bytes in each place are numbered on from those   *)
(* that were sent.  Those of a write to be repeated stay so when the       *)
(* output buffer is emptied because the connection is lost.                *)
(***************************************************************************)
RetriesInv ==
  m_retrying =>
    /\ secure /\ Counts(pending, Len(wire)) /\ m_writeBuffer = pending
    /\ Len(wire) + Len(pending) <= written
    /\ m_writable => Len(pending) <= Len(m_outputBuffer)

OutputInv ==
  /\ written \in Nat
  /\ Counts(wire, 0) /\ Counts(m_outputBuffer, Len(wire))
  /\ Len(wire) + Len(m_outputBuffer) <= written
  /\ m_writable => Len(wire) + Len(m_outputBuffer) = written
  /\ m_outputBuffer # << >> => m_writable

BytesInv == OutputInv /\ RetriesInv

\* What a step must leave alone for the bytes to stay.
byteVars == <<secure, written, wire, m_outputBuffer, m_writable, m_retrying, m_writeBuffer,
              pending>>

LEMMA Lengths ==
  ASSUME OutputInv
  PROVE  /\ Len(wire) \in Nat /\ Len(m_outputBuffer) \in Nat
         /\ m_outputBuffer = << >> <=> Len(m_outputBuffer) = 0
BY CountsEmpty DEF OutputInv, Counts

LEMMA BytesStay ==
  ASSUME BytesInv, UNCHANGED byteVars
  PROVE  BytesInv'
BY DEF BytesInv, OutputInv, RetriesInv, byteVars

LEMMA BytesAreLost ==
  ASSUME BytesInv, m_outputBuffer' = << >>, m_writable' = FALSE,
         UNCHANGED <<secure, written, wire, m_retrying, m_writeBuffer, pending>>
  PROVE  BytesInv'
<1>1. Len(wire) \in Nat
  BY Lengths DEF BytesInv
<1>2. Counts(<< >>, Len(wire)) /\ Len(<< >>) = 0
  BY <1>1, CountsNothing
<1>3. OutputInv'
  BY <1>1, <1>2, Lengths DEF BytesInv, OutputInv
<1>4. RetriesInv'
  BY DEF BytesInv, RetriesInv
<1>5. QED  BY <1>3, <1>4 DEF BytesInv

LEMMA WriteKeepsBytes ==
  ASSUME BytesInv, Write
  PROVE  BytesInv'
<1>1. /\ written' = written + 1 /\ m_outputBuffer' = Append(m_outputBuffer, written + 1)
      /\ m_writable /\ UNCHANGED <<secure, wire, m_writable, m_retrying, m_writeBuffer, pending>>
  BY DEF Write, tlsVars
<1>2. /\ Len(wire) \in Nat /\ Len(m_outputBuffer) \in Nat
      /\ written = Len(wire) + Len(m_outputBuffer) /\ Counts(m_outputBuffer, Len(wire))
  BY <1>1, Lengths DEF BytesInv, OutputInv
<1>3. m_outputBuffer' = Append(m_outputBuffer, Len(wire) + Len(m_outputBuffer) + 1)
  BY <1>1, <1>2
<1>4. /\ Counts(m_outputBuffer', Len(wire))
      /\ Len(m_outputBuffer') = Len(m_outputBuffer) + 1
  BY <1>2, <1>3, CountsOne
<1>5. OutputInv'
  BY <1>1, <1>2, <1>4 DEF BytesInv, OutputInv
<1>6. RetriesInv'
  <2>1. m_retrying => /\ secure /\ Counts(pending, Len(wire)) /\ Len(pending) \in Nat
                      /\ m_writeBuffer = pending
                      /\ Len(pending) <= Len(m_outputBuffer)
    BY <1>1, <1>2, CountsEmpty DEF BytesInv, RetriesInv
  <2>2. QED  BY <1>1, <1>2, <1>4, <2>1 DEF RetriesInv
<1>7. QED  BY <1>5, <1>6 DEF BytesInv

LEMMA PlainKeepsBytes ==
  ASSUME BytesInv, WritePlain
  PROVE  BytesInv'
<1>1. PICK n \in 0 .. Len(m_outputBuffer) :
        /\ wire' = wire \o SubSeq(m_outputBuffer, 1, n)
        /\ IF n > 0 THEN Discards(n) ELSE UNCHANGED m_outputBuffer
  BY DEF WritePlain
<1>2. /\ ~m_retrying
      /\ UNCHANGED <<written, m_writable, m_retrying, m_writeBuffer, pending>>
  BY DEF WritePlain, mainVars, tlsVars, BytesInv, RetriesInv
<1>3. /\ Len(wire) \in Nat /\ Len(m_outputBuffer) \in Nat
      /\ Counts(wire, 0) /\ Counts(m_outputBuffer, Len(wire))
  BY Lengths DEF BytesInv, OutputInv
<1>4. /\ Counts(SubSeq(m_outputBuffer, 1, n), 0 + Len(wire))
      /\ Len(SubSeq(m_outputBuffer, 1, n)) = n
  BY <1>3, CountsFirst
<1>5. Counts(wire', 0) /\ Len(wire') = Len(wire) + n
  BY <1>1, <1>3, <1>4, CountsOn
<1>6. Counts(m_outputBuffer', Len(wire) + n) /\ Len(m_outputBuffer') = Len(m_outputBuffer) - n
  <2>1. CASE n > 0
    <3>1. m_outputBuffer' = SubSeq(m_outputBuffer, n + 1, Len(m_outputBuffer))
      BY <1>1, <2>1 DEF Discards
    <3>2. QED  BY <1>3, <3>1, CountsRest
  <2>2. CASE ~(n > 0)
    <3>1. m_outputBuffer' = m_outputBuffer
      BY <1>1, <2>2
    <3>2. Len(wire) + n = Len(wire) /\ Len(m_outputBuffer) - n = Len(m_outputBuffer)
      <4>1. PICK a \in Nat, b \in Nat : a = Len(wire) /\ b = Len(m_outputBuffer)
        BY <1>3
      <4>2. n = 0
        BY ONLY <4>1, <2>2, n \in 0 .. Len(m_outputBuffer)
      <4>3. a + n = a /\ b - n = b
        BY ONLY <4>2
      <4> QED BY ONLY <4>1, <4>3
    <3>3. QED  BY <1>3, <3>1, <3>2, Zenon
  <2>3. QED  BY <2>1, <2>2
<1>7. m_outputBuffer' # << >> => m_outputBuffer # << >>
  <2>1. Len(wire) + n \in Nat
    BY <1>3
  <2>2. m_outputBuffer' = << >> <=> Len(m_outputBuffer') = 0
    BY <1>6, <2>1, CountsEmpty
  <2>3. m_outputBuffer = << >> <=> Len(m_outputBuffer) = 0
    BY <1>3, CountsEmpty
  <2>4. QED  BY <1>3, <1>6, <2>2, <2>3
<1>8. OutputInv'
  BY <1>2, <1>3, <1>5, <1>6, <1>7 DEF BytesInv, OutputInv
<1>9. RetriesInv'
  BY <1>2 DEF RetriesInv
<1>10. QED  BY <1>8, <1>9 DEF BytesInv

\* What SSL_write is given goes on from what was sent.
LEMMA CaptureGoesOn ==
  ASSUME BytesInv
  PROVE  /\ Counts(Capture, Len(wire)) /\ Len(Capture) \in Nat
         /\ Len(wire) + Len(Capture) <= written
         /\ m_writable => Len(Capture) <= Len(m_outputBuffer)
         /\ m_retrying => Capture = pending
         /\ Capture # << >> /\ ~m_writable => m_retrying
<1>1. Len(wire) \in Nat /\ Len(m_outputBuffer) \in Nat
  BY Lengths DEF BytesInv
<1>2. CASE m_retrying
  <2>1. /\ Capture = pending /\ Counts(pending, Len(wire))
        /\ Len(wire) + Len(pending) <= written
        /\ m_writable => Len(pending) <= Len(m_outputBuffer)
    BY <1>2 DEF Capture, BytesInv, RetriesInv
  <2>2. Len(pending) \in Nat
    BY <1>1, <2>1, CountsEmpty
  <2>3. QED  BY <1>2, <2>1, <2>2
<1>3. CASE ~m_retrying
  <2>1. Capture = m_outputBuffer
    BY <1>3 DEF Capture
  <2>2. QED  BY <1>1, <1>3, <2>1 DEF BytesInv, OutputInv
<1>4. QED  BY <1>2, <1>3

LEMMA SentKeepsBytes ==
  ASSUME BytesInv, m_writable => Len(Capture) <= Len(m_outputBuffer),
         wire' = wire \o Capture, m_retrying' = FALSE, Discards(Len(Capture)),
         UNCHANGED <<written, m_writable>>
  PROVE  BytesInv'
<1> DEFINE c == Capture
<1>1. /\ Counts(c, Len(wire)) /\ Len(c) \in Nat /\ Len(wire) + Len(c) <= written
  BY CaptureGoesOn
<1>2. /\ Len(wire) \in Nat /\ Len(m_outputBuffer) \in Nat /\ written \in Nat
      /\ Counts(wire, 0) /\ Counts(m_outputBuffer, Len(wire))
      /\ m_writable => Len(wire) + Len(m_outputBuffer) = written
      /\ m_outputBuffer # << >> => m_writable
  BY Lengths DEF BytesInv, OutputInv
<1>3. /\ wire' = wire \o c
      /\ m_writable => Len(c) <= Len(m_outputBuffer)
      /\ m_outputBuffer' = SubSeq(m_outputBuffer, Len(c) + 1, Len(m_outputBuffer))
  BY DEF Discards
<1> HIDE DEF c
<1>4. Counts(wire', 0) /\ Len(wire') = Len(wire) + Len(c)
  <2>1. Counts(c, 0 + Len(wire))
    BY <1>1, <1>2
  <2>2. Counts(wire, 0) /\ 0 \in Nat
    BY <1>2
  <2>3. Counts(wire \o c, 0) /\ Len(wire \o c) = Len(wire) + Len(c)
    BY ONLY <2>1, <2>2, CountsOn
  <2>4. QED  BY <1>3, <2>3
<1>5. CASE m_writable
  <2>1. /\ Counts(m_outputBuffer', Len(wire) + Len(c))
        /\ Len(m_outputBuffer') = Len(m_outputBuffer) - Len(c)
    BY <1>1, <1>2, <1>3, <1>5, CountsRest
  <2>2. OutputInv'
    BY <1>1, <1>2, <1>4, <1>5, <2>1 DEF OutputInv
  <2>3. QED  BY <2>2 DEF BytesInv, RetriesInv
<1>6. CASE ~m_writable
  <2>1. m_outputBuffer = << >> /\ Len(m_outputBuffer) = 0
    BY <1>2, <1>6, Lengths DEF BytesInv
  <2>2. m_outputBuffer' = << >>
    BY <1>1, <1>3, <2>1, SubSeqEmpty
  <2>3. Counts(<< >>, Len(wire) + Len(c)) /\ Len(<< >>) = 0
    BY <1>1, <1>2, CountsNothing
  <2>4. OutputInv'
    BY <1>1, <1>2, <1>4, <1>6, <2>2, <2>3 DEF OutputInv
  <2>5. QED  BY <2>4 DEF BytesInv, RetriesInv
<1>7. QED  BY <1>5, <1>6

LEMMA SecureKeepsBytes ==
  ASSUME BytesInv, WriteSecure
  PROVE  BytesInv'
<1>1. /\ secure /\ m_writeBuffer' = Capture
      /\ UNCHANGED <<secure, written, m_writable>>
  BY DEF WriteSecure, mainVars
<1>2. /\ Counts(Capture, Len(wire)) /\ Len(wire) + Len(Capture) <= written
      /\ m_writable => Len(Capture) <= Len(m_outputBuffer)
      /\ m_retrying => Capture = pending
  BY CaptureGoesOn
<1>3. CASE UNCHANGED <<wire, m_outputBuffer, m_retrying, pending>>
  <2>1. OutputInv'
    BY <1>1, <1>3 DEF BytesInv, OutputInv
  <2>2. RetriesInv'
    BY <1>1, <1>2, <1>3 DEF BytesInv, RetriesInv
  <2>3. QED  BY <2>1, <2>2 DEF BytesInv
<1>4. CASE wire' = wire \o Capture /\ m_retrying' = FALSE /\ Discards(Len(Capture))
  BY <1>1, <1>2, <1>4, SentKeepsBytes
<1>5. CASE /\ pending' = Capture /\ m_retrying' = TRUE
           /\ UNCHANGED <<wire, m_outputBuffer>>
  <2>1. OutputInv'
    BY <1>1, <1>5 DEF BytesInv, OutputInv
  <2>2. RetriesInv'
    BY <1>1, <1>2, <1>5 DEF RetriesInv
  <2>3. QED  BY <2>1, <2>2 DEF BytesInv
<1>6. QED  BY <1>3, <1>4, <1>5 DEF WriteSecure

LEMMA BytesInvNext == BytesInv /\ [SocketNext]_socketVars => BytesInv'
<1> SUFFICES ASSUME BytesInv, [SocketNext]_socketVars PROVE BytesInv'
  OBVIOUS
<1>1. ASSUME Disconnected, UNCHANGED <<secure, written, wire, tlsVars>>
      PROVE  BytesInv'
  <2>1. /\ m_outputBuffer' = << >> /\ m_writable' = FALSE
        /\ UNCHANGED <<secure, written, wire, m_retrying, m_writeBuffer, pending>>
    BY <1>1 DEF Disconnected, tlsVars
  <2>2. QED  BY <2>1, BytesAreLost
<1>2. CASE FinishClose
  BY <1>1, <1>2 DEF FinishClose
<1>3. CASE serviceConnected
  <2>1. CASE reported.error
    BY <1>1, <1>3, <2>1 DEF serviceConnected, mainVars
  <2>2. CASE ~reported.error
    BY <1>3, <2>2, BytesStay
       DEF serviceConnected, mainVars, stateVars, bufferVars, tlsVars, byteVars
  <2>3. QED  BY <2>1, <2>2
<1>4. CASE ReadFails
  BY <1>1, <1>4 DEF ReadFails, mainVars
<1>5. CASE WriteFails
  <2>1. /\ m_outputBuffer' = << >> /\ m_writable' = FALSE
        /\ UNCHANGED <<secure, written, wire, m_retrying, m_writeBuffer, pending>>
    BY <1>5 DEF WriteFails, Disconnected, mainVars, tlsVars
  <2>2. QED  BY <2>1, BytesAreLost
<1>6. CASE BeginFlush \/ MakeJob \/ Install \/ EndFlush \/ Remove
  BY <1>6, BytesStay
     DEF BeginFlush, MakeJob, Install, EndFlush, Remove, stateVars, bufferVars, tlsVars,
       byteVars
<1>7. CASE Close \/ HandleEvent
  BY <1>7, BytesStay
     DEF Close, HandleEvent, stateVars, bufferVars, tlsVars, byteVars
<1>8. CASE Lock \/ PollSocket \/ DoRead \/ Store
  <2>1. CASE DoRead
    BY <2>1, BytesStay
       DEF DoRead, SkipRead, ReadBytes, ReadEnd, EndSecure, ReadError, EndRun, mainVars, byteVars
  <2> QED
    BY <1>8, <2>1, BytesStay
       DEF Lock, PollSocket, Store, mainVars, stateVars, bufferVars, tlsVars, byteVars
<1>9. CASE PeerSends \/ LineChanges \/ Drains
  BY <1>9, BytesStay
     DEF PeerSends, LineChanges, Drains, mainVars, stateVars, bufferVars, tlsVars, byteVars
<1>10. CASE UNCHANGED socketVars
  BY <1>10, BytesStay DEF socketVars, byteVars
<1>11. QED
  BY <1>2, <1>3, <1>4, <1>5, <1>6, <1>7, <1>8, <1>9, <1>10, WriteKeepsBytes,
     PlainKeepsBytes, SecureKeepsBytes
     DEF SocketNext, MainGoesOn, ServiceGoesOn

LEMMA BytesInvInit == SocketInit => BytesInv
<1> SUFFICES ASSUME SocketInit PROVE BytesInv
  OBVIOUS
<1>1. wire = << >> /\ m_outputBuffer = << >> /\ written = 0 /\ ~m_retrying
  BY DEF SocketInit
<1>2. Counts(<< >>, 0) /\ Len(<< >>) = 0
  BY CountsNothing
<1>3. QED  BY <1>1, <1>2 DEF BytesInv, OutputInv, RetriesInv

LEMMA BytesInvAlways == SocketSpec => []BytesInv
BY BytesInvInit, BytesInvNext, PTL DEF SocketSpec

\* The bytes that leave a socket, plain or with TLS, are those that were written
\* to it, in order and each once, and a TLS write is repeated with the bytes of
\* its first attempt whatever has been written since (TCPSocket::doWrite,
\* SecureSocket::doWrite).
THEOREM WhatIsWrittenIsSent == SocketSpec => []BytesAreSent
<1>1. BytesInv => BytesAreSent
  <2> SUFFICES ASSUME BytesInv PROVE BytesAreSent
    OBVIOUS
  <2>1. /\ Len(wire) \in Nat /\ Len(m_outputBuffer) \in Nat /\ written \in Nat
        /\ Counts(wire, 0) /\ Counts(m_outputBuffer, 0 + Len(wire))
        /\ Len(wire) <= written
        /\ m_writable => Len(wire) + Len(m_outputBuffer) = written
    BY Lengths DEF BytesInv, OutputInv
  <2>2. IsPrefixOf(wire, Bytes(0, written))
    BY <2>1, CountsIsBytes
  <2>3. ASSUME m_writable PROVE wire \o m_outputBuffer = Bytes(0, written)
    <3>1. /\ Counts(wire \o m_outputBuffer, 0)
          /\ Len(wire \o m_outputBuffer) = Len(wire) + Len(m_outputBuffer)
      BY <2>1, CountsOn
    <3>2. Len(wire \o m_outputBuffer) = written
      BY <2>1, <2>3, <3>1
    <3>3. QED  BY <2>1, <3>1, <3>2, CountsIsBytes
  <2>4. ASSUME m_retrying PROVE /\ m_writeBuffer = pending
                                /\ m_writable => IsPrefixOf(pending, m_outputBuffer)
    <3>1. /\ m_writeBuffer = pending /\ Counts(pending, Len(wire))
          /\ m_writable => Len(pending) <= Len(m_outputBuffer)
          /\ Counts(m_outputBuffer, Len(wire))
      BY <2>4 DEF BytesInv, RetriesInv, OutputInv
    <3>2. QED  BY <2>1, <3>1, CountsPrefix
  <2>5. QED  BY <2>2, <2>3, <2>4 DEF BytesAreSent, SentInOrder, RetriesAreTheSame
<1>2. QED  BY <1>1, BytesInvAlways, PTL

(***************************************************************************)
(* No work goes unnoticed.  The strengthening says who knows of bytes to   *)
(* be sent while the main thread is between write and addSocket: a job it  *)
(* has made without the mutex may be out of date, but only because the     *)
(* bytes are gone.                                                         *)
(***************************************************************************)
PollsToWrite(j) == j # NotPolled /\ j.writes

WorkInv ==
  /\ m_writable => m_connected
  /\ ran = "break" => fatal
  /\ m_outputBuffer # << >> /\ ~fatal /\ mainAt \in {"idle", "flush"}
       => PollsToWrite(socketJob)
  /\ m_outputBuffer # << >> /\ ~fatal /\ mainAt = "install" => PollsToWrite(newJob)
  /\ InputIsAnnounced
  /\ ClosedIsNotServed

LEMMA JobToWrite ==
  ASSUME NEW connected, NEW readable, NEW writable, NEW output,
         connected, writable, output # << >>
  PROVE  PollsToWrite(JobFor(connected, readable, writable, output))
<1> DEFINE made == [reads |-> readable, writes |-> writable /\ output # << >>]
<1>1. JobFor(connected, readable, writable, output) = made
  BY DEF JobFor
<1>2. made.writes
  OBVIOUS
<1>3. "reads" \in DOMAIN made
  OBVIOUS
<1>4. DOMAIN << >> = {}
  OBVIOUS
<1>5. made # << >>
  BY <1>3, <1>4
<1> HIDE DEF made
<1>6. QED  BY <1>1, <1>2, <1>5 DEF PollsToWrite, NotPolled

LEMMA WorkInvInit == SocketInit => WorkInv
BY DEF SocketInit, WorkInv, InputIsAnnounced, ClosedIsNotServed

\* The parts of the strengthening, for steps that disturb one or two.
Connection == (m_writable => m_connected) /\ (ran = "break" => fatal)
WaitingIsPolled ==
  /\ m_outputBuffer # << >> /\ ~fatal /\ mainAt \in {"idle", "flush"}
       => PollsToWrite(socketJob)
  /\ m_outputBuffer # << >> /\ ~fatal /\ mainAt = "install" => PollsToWrite(newJob)

LEMMA WorkInvParts ==
  WorkInv <=> Connection /\ WaitingIsPolled /\ InputIsAnnounced /\ ClosedIsNotServed
BY DEF WorkInv, Connection, WaitingIsPolled

\* What is sent or lost need not be polled for.
LEMMA OutputShrinks ==
  ASSUME WaitingIsPolled, m_outputBuffer' # << >> => m_outputBuffer # << >>,
         fatal => fatal', UNCHANGED <<mainAt, newJob, socketJob>>
  PROVE  WaitingIsPolled'
BY DEF WaitingIsPolled, PollsToWrite

LEMMA DiscardsShrinks ==
  ASSUME BytesInv, NEW n \in 0 .. Len(m_outputBuffer), Discards(n)
  PROVE  m_outputBuffer' # << >> => m_outputBuffer # << >>
<1>1. ASSUME m_outputBuffer = << >> PROVE m_outputBuffer' = << >>
  <2>1. Len(m_outputBuffer) = 0
    BY <1>1, Lengths DEF BytesInv
  <2>2. m_outputBuffer' = SubSeq(m_outputBuffer, n + 1, Len(m_outputBuffer)) /\ n = 0
    BY <2>1 DEF Discards
  <2>3. QED  BY <1>1, <2>1, <2>2, SubSeqEmpty
<1>2. QED  BY <1>1

\* The steps of the main thread.
LEMMA MainKeepsWork ==
  ASSUME BytesInv, WorkInv,
         Write \/ BeginFlush \/ Close \/ MainGoesOn
  PROVE  WorkInv'
<1> USE DEF Connection, WaitingIsPolled, InputIsAnnounced, ClosedIsNotServed,
        mainVars, bufferVars, stateVars, tlsVars, serviceVars, networkVars
<1>1. Connection /\ WaitingIsPolled /\ InputIsAnnounced /\ ClosedIsNotServed
  BY WorkInvParts
<1>2. CASE Write
  <2>1. Connection' /\ InputIsAnnounced'
    BY <1>1, <1>2 DEF Write
  <2>2. WaitingIsPolled'
    BY <1>1, <1>2 DEF Write, WasEmpty, PollsToWrite
  <2>3. ClosedIsNotServed'
    BY <1>1, <1>2 DEF Write
  <2>4. QED  BY <2>1, <2>2, <2>3 DEF WorkInv
<1>3. CASE MakeJob
  <2>1. Connection' /\ InputIsAnnounced' /\ ClosedIsNotServed'
    BY <1>1, <1>3 DEF MakeJob
  <2>2. m_outputBuffer # << >> => PollsToWrite(CurrentJob)
    BY <1>1, JobToWrite DEF BytesInv, OutputInv, CurrentJob
  <2>3. WaitingIsPolled'
    <3>1. /\ newJob' = CurrentJob /\ mainAt' = "install"
          /\ UNCHANGED <<m_outputBuffer, fatal, socketJob>>
      BY <1>3 DEF MakeJob
    <3>2. QED  BY <2>2, <3>1 DEF PollsToWrite
  <2>4. QED  BY <2>1, <2>3 DEF WorkInv
<1>4. CASE Install
  <2>1. Connection' /\ InputIsAnnounced' /\ ClosedIsNotServed'
    BY <1>1, <1>4 DEF Install
  <2>2. WaitingIsPolled'
    BY <1>1, <1>4 DEF Install, PollsToWrite
  <2>3. QED  BY <2>1, <2>2 DEF WorkInv
<1>5. CASE BeginFlush \/ EndFlush \/ Close
  <2>1. InputIsAnnounced' /\ ClosedIsNotServed'
    BY <1>1, <1>5 DEF BeginFlush, EndFlush, Close
  <2>2. Connection'
    <3>1. UNCHANGED <<m_writable, m_connected, ran>>
      BY <1>5 DEF BeginFlush, EndFlush, Close
    <3>2. fatal' = (fatal \/ secure) \/ fatal' = fatal
      BY <1>5 DEF BeginFlush, EndFlush, Close
    <3>3. fatal => fatal'
      BY ONLY <3>2, Zenon
    <3>4. QED  BY <1>1, <3>1, <3>3
  <2>3. WaitingIsPolled'
    BY <1>1, <1>5 DEF BeginFlush, EndFlush, Close, PollsToWrite
  <2>4. QED  BY <2>1, <2>2, <2>3 DEF WorkInv
<1>6. CASE HandleEvent
  <2>1. Connection'
    BY <1>1, <1>6 DEF HandleEvent
  <2>2. InputIsAnnounced'
    BY <1>1, <1>6 DEF HandleEvent, Popped
  <2>3. WaitingIsPolled' /\ ClosedIsNotServed'
    BY <1>1, <1>6 DEF HandleEvent, PollsToWrite
  <2>4. QED  BY <2>1, <2>2, <2>3 DEF WorkInv
<1>7. CASE Remove
  <2>1. Connection' /\ InputIsAnnounced'
    BY <1>1, <1>7 DEF Remove
  <2>2. WaitingIsPolled' /\ ClosedIsNotServed'
    BY <1>1, <1>7 DEF Remove, RemovesJob, ListIsFree
  <2>3. QED  BY <2>1, <2>2 DEF WorkInv
<1>8. CASE FinishClose
  <2>1. Connection' /\ InputIsAnnounced' /\ WaitingIsPolled' /\ ClosedIsNotServed'
    BY <1>1, <1>8 DEF FinishClose, Disconnected
  <2>2. QED  BY <2>1 DEF WorkInv
<1>9. QED
  BY <1>2, <1>3, <1>4, <1>5, <1>6, <1>7, <1>8 DEF MainGoesOn

\* The steps that write.
LEMMA WritingKeepsWork ==
  ASSUME BytesInv, WorkInv, WritePlain \/ WriteFails \/ WriteSecure
  PROVE  WorkInv'
<1> USE DEF Connection, InputIsAnnounced, ClosedIsNotServed, networkVars
<1>1. Connection /\ WaitingIsPolled /\ InputIsAnnounced /\ ClosedIsNotServed
  BY WorkInvParts
<1>2. UNCHANGED <<mainAt, newJob, socketJob>>
  BY DEF WritePlain, WriteFails, WriteSecure, mainVars
<1>3. serviceAt = "write"
  BY DEF WritePlain, WriteFails, WriteSecure
<1>4. ClosedIsNotServed'
  BY <1>1, <1>2, <1>3
<1>5. CASE WritePlain
  <2>1. Connection' /\ InputIsAnnounced' /\ (fatal => fatal')
    BY <1>1, <1>5 DEF WritePlain, Discards, tlsVars
  <2>2. PICK n \in 0 .. Len(m_outputBuffer) :
          IF n > 0 THEN Discards(n) ELSE UNCHANGED m_outputBuffer
    BY <1>5 DEF WritePlain
  <2>3. m_outputBuffer' # << >> => m_outputBuffer # << >>
    BY <2>2, DiscardsShrinks
  <2>4. WaitingIsPolled'
    BY <1>1, <1>2, <2>1, <2>3, OutputShrinks
  <2>5. QED  BY <1>4, <2>1, <2>4 DEF WorkInv, WaitingIsPolled
<1>6. CASE WriteFails
  <2>1. Connection' /\ (fatal => fatal') /\ m_outputBuffer' = << >>
    BY <1>1, <1>6 DEF WriteFails, Disconnected, tlsVars
  <2>2. InputIsAnnounced'
    BY <1>1, <1>6 DEF WriteFails, Disconnected
  <2>3. WaitingIsPolled'
    BY <1>1, <1>2, <2>1, OutputShrinks
  <2>4. QED  BY <1>4, <2>1, <2>2, <2>3 DEF WorkInv, WaitingIsPolled
<1>7. CASE WriteSecure
  <2>1. Connection' /\ (fatal => fatal')
    BY <1>1, <1>7 DEF WriteSecure
  <2>2. InputIsAnnounced'
    BY <1>1, <1>7 DEF WriteSecure, Discards
  <2>3. m_outputBuffer' # << >> => m_outputBuffer # << >>
    <3>1. UNCHANGED m_outputBuffer \/ (Capture # << >> /\ Discards(Len(Capture)))
      BY <1>7 DEF WriteSecure
    <3>2. ASSUME Capture # << >>, Discards(Len(Capture)), m_outputBuffer = << >>
          PROVE  m_outputBuffer' = << >>
      <4>1. Len(m_outputBuffer) = 0 /\ Len(Capture) \in Nat
        BY <3>2, CaptureGoesOn, Lengths DEF BytesInv
      <4>2. m_outputBuffer' = SubSeq(m_outputBuffer, Len(Capture) + 1, Len(m_outputBuffer))
        BY <3>2 DEF Discards
      <4>3. QED  BY <3>2, <4>1, <4>2, SubSeqEmpty
    <3>3. QED  BY <3>1, <3>2
  <2>4. WaitingIsPolled'
    BY <1>1, <1>2, <2>1, <2>3, OutputShrinks
  <2>5. QED  BY <1>4, <2>1, <2>2, <2>4 DEF WorkInv, WaitingIsPolled
<1>8. QED  BY <1>5, <1>6, <1>7

\* The end of a run, after a run that is broken off only by a fatal error.
LEMMA RunEnds ==
  ASSUME BytesInv, WorkInv, serviceAt = "read", NEW result, EndRun(result),
         result = "break" => fatal', fatal => fatal', m_writable => m_connected'
  PROVE  Connection' /\ WaitingIsPolled' /\ ClosedIsNotServed'
<1>1. Connection /\ WaitingIsPolled /\ ClosedIsNotServed
  BY WorkInvParts
<1>2. /\ UNCHANGED <<mainAt, newJob, m_writable, m_outputBuffer>> /\ ran' = "retry"
      /\ socketJob' = JobAfter(m_connected', m_readable', m_writable, m_outputBuffer, result)
  BY DEF EndRun, mainVars
<1>3. Connection'
  BY <1>2 DEF Connection
<1>4. ClosedIsNotServed'
  BY <1>1, <1>2 DEF ClosedIsNotServed
<1>5. WaitingIsPolled'
  <2> SUFFICES ASSUME m_outputBuffer' # << >>, ~fatal', mainAt' \in {"idle", "flush", "install"}
               PROVE  /\ mainAt' # "install" => PollsToWrite(socketJob')
                      /\ mainAt' = "install" => PollsToWrite(newJob')
    BY DEF WaitingIsPolled
  <2>1. m_outputBuffer # << >> /\ m_writable /\ m_connected' /\ ~fatal /\ result # "break"
    BY <1>2 DEF BytesInv, OutputInv
  <2>2. \/ socketJob' = socketJob
        \/ socketJob' = JobFor(m_connected', m_readable', m_writable, m_outputBuffer)
    BY <1>2, <2>1 DEF JobAfter
  <2>3. PollsToWrite(JobFor(m_connected', m_readable', m_writable, m_outputBuffer))
    BY <2>1, JobToWrite
  <2>4. QED  BY <1>1, <1>2, <2>1, <2>2, <2>3 DEF PollsToWrite, WaitingIsPolled
<1>6. QED  BY <1>3, <1>4, <1>5

\* The steps that read.
LEMMA ReadingKeepsWork ==
  ASSUME BytesInv, WorkInv, DoRead
  PROVE  WorkInv'
<1>1. Connection /\ InputIsAnnounced
  BY WorkInvParts
<1>2. ASSUME NEW result, EndRun(result), serviceAt = "read", result = "break" => fatal',
             fatal => fatal', m_writable => m_connected', InputIsAnnounced'
      PROVE  WorkInv'
  BY <1>2, RunEnds DEF WorkInv, Connection, WaitingIsPolled
<1>3. CASE SkipRead
  BY <1>1, <1>2, <1>3 DEF SkipRead, Connection, InputIsAnnounced
<1>4. CASE ReadBytes
  <2>1. InputIsAnnounced'
    BY <1>1, <1>4 DEF ReadBytes, Announced, InputIsAnnounced
  <2>2. EndRun(ran) /\ serviceAt = "read" /\ UNCHANGED <<fatal, m_connected>>
    BY <1>4 DEF ReadBytes
  <2> QED BY <1>1, <1>2, <2>1, <2>2 DEF Connection
<1>5. CASE ReadEnd
  <2>1. InputIsAnnounced'
    BY <1>1, <1>5 DEF ReadEnd, InputIsAnnounced
  <2>2. /\ EndRun(IF ran = "break" THEN ran ELSE "new") /\ serviceAt = "read" /\ UNCHANGED fatal
        /\ m_writable => m_connected' = m_connected
    BY <1>1, <1>5 DEF ReadEnd, Connection
  <2> QED BY <1>1, <1>2, <2>1, <2>2 DEF Connection
<1>6. CASE EndSecure
  <2>1. InputIsAnnounced'
    BY <1>6 DEF EndSecure, InputIsAnnounced
  <2>2. EndRun("break") /\ serviceAt = "read" /\ fatal' /\ UNCHANGED m_connected
    BY <1>6 DEF EndSecure
  <2> QED BY <1>1, <1>2, <2>1, <2>2 DEF Connection
<1>7. CASE ReadError
  <2>1. InputIsAnnounced'
    BY <1>7 DEF ReadError, InputIsAnnounced
  <2>2. EndRun(ran) /\ serviceAt = "read" /\ UNCHANGED <<fatal, m_connected>>
    BY <1>7 DEF ReadError
  <2> QED BY <1>1, <1>2, <2>1, <2>2 DEF Connection
<1>8. QED  BY <1>3, <1>4, <1>5, <1>6, <1>7 DEF DoRead

\* The other steps of the service thread.
LEMMA ServiceKeepsWork ==
  ASSUME BytesInv, WorkInv,
         Lock \/ PollSocket \/ serviceConnected \/ DoRead \/ ReadFails \/ Store
  PROVE  WorkInv'
<1> USE DEF Connection, WaitingIsPolled, InputIsAnnounced, ClosedIsNotServed,
        mainVars, bufferVars, stateVars, tlsVars, networkVars
<1>1. Connection /\ WaitingIsPolled /\ InputIsAnnounced /\ ClosedIsNotServed
  BY WorkInvParts
<1>2. CASE Lock
  <2>1. Connection' /\ InputIsAnnounced' /\ ClosedIsNotServed'
    BY <1>1, <1>2 DEF Lock
  <2>2. WaitingIsPolled'
    BY <1>1, <1>2 DEF Lock, PollsToWrite
  <2>3. QED  BY <2>1, <2>2 DEF WorkInv
<1>3. CASE PollSocket \/ Store
  <2>1. Connection' /\ InputIsAnnounced' /\ ClosedIsNotServed'
    BY <1>1, <1>3 DEF PollSocket, Store
  <2>2. WaitingIsPolled'
    BY <1>1, <1>3 DEF PollSocket, Store, PollsToWrite
  <2>3. QED  BY <2>1, <2>2 DEF WorkInv
<1>4. CASE serviceConnected
  <2>1. Connection' /\ InputIsAnnounced' /\ ClosedIsNotServed'
    BY <1>1, <1>4 DEF serviceConnected, Disconnected
  <2>2. WaitingIsPolled'
    BY <1>1, <1>4 DEF serviceConnected, Disconnected, PollsToWrite
  <2>3. QED  BY <2>1, <2>2 DEF WorkInv
<1>5. CASE ReadFails
  <2>1. Connection' /\ InputIsAnnounced' /\ ClosedIsNotServed' /\ WaitingIsPolled'
    BY <1>1, <1>5 DEF ReadFails, Disconnected
  <2>2. QED  BY <2>1 DEF WorkInv
<1>6. CASE DoRead
  BY <1>6, ReadingKeepsWork
<1>7. QED  BY <1>2, <1>3, <1>4, <1>5, <1>6

LEMMA WorkInvNext == BytesInv /\ WorkInv /\ [SocketNext]_socketVars => WorkInv'
<1> SUFFICES ASSUME BytesInv, WorkInv, [SocketNext]_socketVars PROVE WorkInv'
  OBVIOUS
<1>1. CASE PeerSends \/ LineChanges \/ Drains
  <2>1. UNCHANGED <<m_writable, m_connected, ran, fatal, m_outputBuffer, mainAt, newJob,
                    socketJob, m_inputBuffer, socketEvents, serviceAt>>
    BY <1>1 DEF PeerSends, LineChanges, Drains, mainVars, stateVars, bufferVars, tlsVars,
       serviceVars
  <2>2. line \in {"broken", "gone"} => UNCHANGED line
    BY <1>1 DEF PeerSends, LineChanges, Drains, networkVars
  <2>3. QED  BY <2>1, <2>2 DEF WorkInv, InputIsAnnounced, ClosedIsNotServed, PollsToWrite
<1>2. CASE UNCHANGED socketVars
  BY <1>2 DEF WorkInv, InputIsAnnounced, ClosedIsNotServed, PollsToWrite, socketVars
<1>3. QED
  BY <1>1, <1>2, MainKeepsWork, WritingKeepsWork, ServiceKeepsWork
     DEF SocketNext, MainGoesOn, ServiceGoesOn

\* Bytes that wait to be sent are polled for although the job for them is made
\* without the socket's mutex, bytes that were received are announced unless a
\* TLS connection ended, or a connection failed, in the run that received them,
\* and after close has removed the job the service thread leaves the socket alone
\* (TCPSocket::write, newJob and close, doRead of both sockets).
THEOREM NoWorkGoesUnnoticed == SocketSpec => []WorkIsNoticed
<1>1. WorkInv => WorkIsNoticed
  BY DEF WorkInv, WorkIsNoticed, OutputIsPolled, AtRest, PollsToWrite
<1>2. QED
  BY <1>1, WorkInvInit, WorkInvNext, BytesInvAlways, PTL DEF SocketSpec

(***************************************************************************)
(* DataSocket's types.  The bytes that can still be read are some of those *)
(* the peer has sent.                                                      *)
(***************************************************************************)
Reports == [read : BOOLEAN, write : BOOLEAN, error : BOOLEAN]
SocketPlace ==
  {"idle", "newJob", "install", "flush", "freeSSL", "remove", "closing", "closed"}
SocketKinds == {"ready", "flushed", "disconnected", "inputShutdown"}
ServicePlace == {"idle", "poll", "run", "write", "read", "store"}

MainTypes ==
  /\ secure \in BOOLEAN /\ mainAt \in SocketPlace /\ newJob \in Jobs \union {NotPolled}
  /\ written \in 0 .. MaxWritten
SocketFlags ==
  /\ m_connected \in BOOLEAN /\ m_readable \in BOOLEAN /\ m_writable \in BOOLEAN
  /\ m_flushed \in BOOLEAN /\ m_retrying \in BOOLEAN /\ fatal \in BOOLEAN /\ room \in BOOLEAN
ServiceTypes ==
  /\ socketJob \in Jobs \union {NotPolled} /\ serviceAt \in ServicePlace
  /\ ran \in {"retry", "new", "break"} /\ line \in {"up", "closed", "broken", "gone"}
  /\ reported \in Reports /\ socketEvents \subseteq SocketKinds
ReadTypes ==
  /\ m_inputBuffer \in Seq(Nat) /\ arrived \in Seq(Nat) /\ read \in Nat /\ sent \in 0 .. MaxReceived
  /\ read + Len(m_inputBuffer) + Len(arrived) <= sent

SocketTypeInv == MainTypes /\ SocketFlags /\ ServiceTypes /\ ReadTypes

LEMMA SocketTypes == SocketTypeInv => SocketTypeOK
<1> SUFFICES ASSUME SocketTypeInv
             PROVE  SocketTypeOK
  OBVIOUS
<1>1. <<m_connected, m_readable, m_writable, m_flushed, m_retrying, fatal, room>>
        \in BOOLEAN \X BOOLEAN \X BOOLEAN \X BOOLEAN \X BOOLEAN \X BOOLEAN \X BOOLEAN
  BY DEF SocketTypeInv, SocketFlags
<1>2. read + Len(m_inputBuffer) \in 0 .. sent
  <2>1. Len(m_inputBuffer) \in Nat /\ Len(arrived) \in Nat /\ sent \in Nat /\ read \in Nat
    BY ByteAssumption DEF SocketTypeInv, ReadTypes
  <2> QED BY <2>1 DEF SocketTypeInv, ReadTypes
<1> QED
  BY <1>1, <1>2
     DEF SocketTypeInv, SocketTypeOK, MainTypes, ServiceTypes, ReadTypes, SocketPlace, SocketKinds,
       ServicePlace

LEMMA NothingIsReported == Nothing \in Reports
BY DEF Nothing, Reports

LEMMA SocketTypesInit == SocketInit => SocketTypeInv
<1> SUFFICES ASSUME SocketInit
             PROVE  SocketTypeInv
  OBVIOUS
<1>1. << >> \in Seq(Nat) /\ Len(<< >>) = 0
  BY EmptySeq
<1>2. MainTypes /\ SocketFlags
  <2>1. 0 \in 0 .. MaxWritten
    BY ByteAssumption
  <2>2. MainTypes
    BY <2>1 DEF SocketInit, MainTypes, SocketPlace
  <2> QED BY <2>2 DEF SocketInit, SocketFlags
<1>3. ServiceTypes
  <2>1. socketJob \in Jobs
    BY DEF SocketInit, Jobs
  <2> QED BY <2>1, NothingIsReported DEF SocketInit, ServiceTypes, ServicePlace
<1>4. ReadTypes
  <2>1. 0 \in 0 .. MaxReceived
    BY ByteAssumption
  <2> QED BY <1>1, <2>1 DEF SocketInit, ReadTypes
<1> QED BY <1>2, <1>3, <1>4 DEF SocketTypeInv

\* A job that is made is one, or none.
LEMMA JobsAreJobs ==
  ASSUME NEW connected, NEW readable \in BOOLEAN, NEW writable, NEW output
  PROVE  JobFor(connected, readable, writable, output) \in Jobs \union {NotPolled}
<1>1. (writable /\ output # << >>) \in BOOLEAN
  OBVIOUS
<1>2. PICK w \in BOOLEAN : w = (writable /\ output # << >>)
  BY <1>1
<1>3. [reads |-> readable, writes |-> w] \in Jobs
  BY DEF Jobs
<1>4. JobFor(connected, readable, writable, output) \in {[reads |-> readable, writes |-> w], NotPolled}
  BY <1>2 DEF JobFor
<1> QED BY <1>3, <1>4

LEMMA MainTypesNext ==
  ASSUME SocketTypeInv, SocketNext
  PROVE  MainTypes'
<1>1. CASE Write
  BY <1>1, ByteAssumption DEF Write, SocketTypeInv, MainTypes, SocketPlace
<1>2. CASE MakeJob
  <2>1. newJob' \in Jobs \union {NotPolled}
    BY <1>2, JobsAreJobs DEF MakeJob, CurrentJob, SocketTypeInv, SocketFlags
  <2> QED BY <1>2, <2>1 DEF MakeJob, SocketTypeInv, MainTypes, SocketPlace
<1>3. CASE Install \/ BeginFlush \/ EndFlush \/ Close \/ Remove \/ FinishClose
  BY <1>3
     DEF Install, BeginFlush, EndFlush, Close, Remove, FinishClose, SocketTypeInv, MainTypes, SocketPlace
<1>4. CASE HandleEvent
  BY <1>4 DEF HandleEvent, SocketTypeInv, MainTypes
<1>5. CASE ServiceGoesOn
  BY <1>5
     DEF ServiceGoesOn, Lock, PollSocket, serviceConnected, WritePlain, WriteFails, WriteSecure, DoRead,
       SkipRead, ReadBytes, ReadEnd, EndSecure, ReadError, EndRun, ReadFails, Store, mainVars,
       SocketTypeInv, MainTypes
<1>6. CASE PeerSends \/ LineChanges \/ Drains
  BY <1>6 DEF PeerSends, LineChanges, Drains, mainVars, SocketTypeInv, MainTypes
<1> QED BY <1>1, <1>2, <1>3, <1>4, <1>5, <1>6 DEF SocketNext, MainGoesOn

LEMMA SocketFlagsNext ==
  ASSUME SocketTypeInv, SocketNext
  PROVE  SocketFlags'
<1>1. CASE Write \/ Close \/ BeginFlush \/ MakeJob \/ Install \/ EndFlush \/ Remove
  BY <1>1
     DEF Write, Close, BeginFlush, MakeJob, Install, EndFlush, Remove, SocketTypeInv, SocketFlags,
       stateVars, tlsVars
<1>2. CASE HandleEvent
  <2>1. m_connected' \in BOOLEAN
    BY <1>2 DEF HandleEvent, SocketTypeInv, SocketFlags
  <2> QED BY <1>2, <2>1 DEF HandleEvent, SocketTypeInv, SocketFlags, tlsVars
<1>3. CASE FinishClose \/ ReadFails
  BY <1>3 DEF FinishClose, ReadFails, Disconnected, SocketTypeInv, SocketFlags, tlsVars
<1>4. CASE serviceConnected
  BY <1>4 DEF serviceConnected, Disconnected, SocketTypeInv, SocketFlags, stateVars, tlsVars
<1>5. CASE WritePlain
  <2>1. m_flushed' \in BOOLEAN /\ room' \in BOOLEAN
    BY <1>5 DEF WritePlain, Discards, SocketTypeInv, SocketFlags
  <2> QED BY <1>5, <2>1 DEF WritePlain, SocketTypeInv, SocketFlags, tlsVars
<1>6. CASE WriteFails
  <2>1. /\ m_connected' \in BOOLEAN /\ m_readable' \in BOOLEAN /\ m_writable' \in BOOLEAN
        /\ m_flushed' \in BOOLEAN
    BY <1>6 DEF WriteFails, Disconnected, SocketTypeInv, SocketFlags
  <2> QED BY <1>6, <2>1 DEF WriteFails, SocketTypeInv, SocketFlags, tlsVars
<1>7. CASE WriteSecure
  <2>1. m_flushed' \in BOOLEAN /\ m_retrying' \in BOOLEAN /\ fatal' \in BOOLEAN /\ room' \in BOOLEAN
    BY <1>7 DEF WriteSecure, Discards, SocketTypeInv, SocketFlags
  <2> QED BY <1>7, <2>1 DEF WriteSecure, SocketTypeInv, SocketFlags
<1>8. CASE DoRead
  <2> USE DEF DoRead, SkipRead, ReadBytes, ReadEnd, EndSecure, ReadError
  <2>1. m_connected' \in BOOLEAN /\ m_readable' \in BOOLEAN /\ fatal' \in BOOLEAN
    BY <1>8 DEF SocketTypeInv, SocketFlags
  <2> QED BY <1>8, <2>1 DEF EndRun, SocketTypeInv, SocketFlags
<1>9. CASE Lock \/ PollSocket \/ Store
  BY <1>9 DEF Lock, PollSocket, Store, SocketTypeInv, SocketFlags, stateVars, tlsVars
<1>10. CASE PeerSends \/ LineChanges \/ Drains
  BY <1>10 DEF PeerSends, LineChanges, Drains, SocketTypeInv, SocketFlags, stateVars, tlsVars
<1> QED
  BY <1>1, <1>2, <1>3, <1>4, <1>5, <1>6, <1>7, <1>8, <1>9, <1>10
     DEF SocketNext, MainGoesOn, ServiceGoesOn

LEMMA ServiceTypesNext ==
  ASSUME SocketTypeInv, SocketNext
  PROVE  ServiceTypes'
<1> USE DEF ServicePlace, SocketKinds
<1>1. CASE Write \/ Close \/ BeginFlush \/ MakeJob \/ EndFlush
  BY <1>1
     DEF Write, Close, BeginFlush, MakeJob, EndFlush, SocketTypeInv, ServiceTypes, serviceVars,
       networkVars
<1>2. CASE HandleEvent \/ FinishClose
  BY <1>2 DEF HandleEvent, FinishClose, SocketTypeInv, ServiceTypes, serviceVars, networkVars
<1>3. CASE Install \/ Remove
  BY <1>3 DEF Install, Remove, RemovesJob, SocketTypeInv, MainTypes, ServiceTypes, networkVars
<1>4. CASE Lock \/ Store
  BY <1>4, NothingIsReported DEF Lock, Store, SocketTypeInv, ServiceTypes, networkVars
<1>5. CASE PollSocket
  <2>1. reported' \in Reports
    BY <1>5 DEF PollSocket, Reports
  <2>2. serviceAt' \in ServicePlace
    BY <1>5 DEF PollSocket
  <2> QED BY <1>5, <2>1, <2>2 DEF PollSocket, SocketTypeInv, ServiceTypes, networkVars
<1>6. CASE serviceConnected
  BY <1>6 DEF serviceConnected, SocketTypeInv, ServiceTypes, networkVars
<1>7. CASE WritePlain
  <2>1. socketEvents' \subseteq SocketKinds /\ ran' \in {"retry", "new", "break"}
    BY <1>7 DEF WritePlain, Discards, SocketTypeInv, ServiceTypes
  <2> QED BY <1>7, <2>1 DEF WritePlain, SocketTypeInv, ServiceTypes, networkVars
<1>8. CASE WriteFails
  <2>1. socketEvents' \subseteq SocketKinds
    BY <1>8 DEF WriteFails, SocketTypeInv, ServiceTypes
  <2> QED BY <1>8, <2>1 DEF WriteFails, SocketTypeInv, ServiceTypes, networkVars
<1>9. CASE WriteSecure
  <2>1. socketEvents' \subseteq SocketKinds /\ ran' \in {"retry", "new", "break"} /\ serviceAt' = "read"
    BY <1>9 DEF WriteSecure, Discards, SocketTypeInv, ServiceTypes
  <2> QED BY <1>9, <2>1 DEF WriteSecure, SocketTypeInv, ServiceTypes, networkVars
<1>10. CASE DoRead
  <2> USE DEF DoRead, SkipRead, ReadBytes, ReadEnd, EndSecure, ReadError
  <2>1. socketEvents' \subseteq SocketKinds /\ line' \in {"up", "closed", "broken", "gone"}
    BY <1>10 DEF Announced, SocketTypeInv, ServiceTypes
  <2>2. m_readable' \in BOOLEAN
    BY <1>10, SocketFlagsNext DEF SocketNext, ServiceGoesOn, SocketFlags
  <2>3. \E result : EndRun(result)
    BY <1>10
  <2> PICK result : EndRun(result)
    BY <2>3
  <2>4. socketJob' \in Jobs \union {NotPolled}
    BY <2>2, JobsAreJobs DEF EndRun, JobAfter, SocketTypeInv, ServiceTypes
  <2> QED BY <2>1, <2>4 DEF EndRun, SocketTypeInv, ServiceTypes
<1>11. CASE ReadFails
  BY <1>11 DEF ReadFails, SocketTypeInv, ServiceTypes, networkVars
<1>12. CASE PeerSends \/ LineChanges \/ Drains
  BY <1>12 DEF PeerSends, LineChanges, Drains, SocketTypeInv, ServiceTypes, serviceVars, networkVars
<1> QED
  BY <1>1, <1>2, <1>3, <1>4, <1>5, <1>6, <1>7, <1>8, <1>9, <1>10, <1>11, <1>12
     DEF SocketNext, MainGoesOn, ServiceGoesOn

LEMMA ReadTypesNext ==
  ASSUME SocketTypeInv, SocketNext
  PROVE  ReadTypes'
<1>1. /\ m_inputBuffer \in Seq(Nat) /\ arrived \in Seq(Nat) /\ read \in Nat /\ sent \in 0 .. MaxReceived
      /\ Len(m_inputBuffer) \in Nat /\ Len(arrived) \in Nat /\ sent \in Nat /\ MaxReceived \in Nat
      /\ read + Len(m_inputBuffer) + Len(arrived) <= sent
      /\ << >> \in Seq(Nat) /\ Len(<< >>) = 0
  BY ByteAssumption, EmptySeq DEF SocketTypeInv, ReadTypes
<1>2. CASE UNCHANGED <<m_inputBuffer, arrived, read, sent>>
  BY <1>1, <1>2 DEF ReadTypes
<1>3. CASE m_inputBuffer' = << >> /\ UNCHANGED <<arrived, read, sent>>
  BY <1>1, <1>3 DEF ReadTypes
<1>4. CASE HandleEvent
  <2>1. CASE UNCHANGED <<m_inputBuffer, read>>
    BY <1>2, <1>4, <2>1 DEF HandleEvent, networkVars
  <2>2. CASE m_inputBuffer' = << >> /\ read' = read + Len(m_inputBuffer)
    BY <1>1, <1>4, <2>2 DEF HandleEvent, networkVars, ReadTypes
  <2> QED BY <1>4, <2>1, <2>2 DEF HandleEvent, Popped
<1>5. CASE DoRead
  <2>1. UNCHANGED <<read, sent>>
    BY <1>5
       DEF DoRead, SkipRead, ReadBytes, ReadEnd, EndSecure, ReadError, EndRun, mainVars
  <2>2. CASE SkipRead \/ ReadEnd
    BY <1>2, <2>1, <2>2 DEF SkipRead, ReadEnd
  <2>3. CASE ReadBytes \/ ReadError
    <3>1. m_inputBuffer' = m_inputBuffer \o arrived /\ arrived' = << >>
      BY <2>3 DEF ReadBytes, ReadError
    <3>2. PICK b \in Seq(Nat), a \in Seq(Nat) : b = m_inputBuffer /\ a = arrived
      BY <1>1
    <3>3. b \o a \in Seq(Nat) /\ Len(b \o a) = Len(b) + Len(a)
      OBVIOUS
    <3> QED BY <1>1, <2>1, <3>1, <3>2, <3>3 DEF ReadTypes
  <2>4. CASE EndSecure
    <3> DEFINE Taken == IF fatal THEN {0} ELSE IF line = "closed" THEN {Len(arrived)}
                                         ELSE 0 .. Len(arrived)
    <3>0. PICK n \in Taken : m_inputBuffer' = m_inputBuffer \o SubSeq(arrived, 1, n)
      BY <2>4 DEF EndSecure
    <3>1. n \in 0 .. Len(arrived) /\ m_inputBuffer' = m_inputBuffer \o SubSeq(arrived, 1, n)
      BY <1>1, <3>0
    <3>2. PICK b \in Seq(Nat), a \in Seq(Nat) : b = m_inputBuffer /\ a = arrived
      BY <1>1
    <3>3. SubSeq(a, 1, n) \in Seq(Nat) /\ Len(SubSeq(a, 1, n)) = n
      <4>1. n \in 0 .. Len(a) /\ a \in Seq(Nat)
        BY ONLY <3>1, <3>2
      <4>2. Len(a) \in Nat
        BY ONLY <4>1
      <4>3. n \in Int /\ \A i \in 1 .. n : a[i] \in Nat
        BY ONLY <4>1, <4>2
      <4>4. /\ SubSeq(a, 1, n) \in Seq(Nat)
            /\ Len(SubSeq(a, 1, n)) = IF 1 <= n THEN n - 1 + 1 ELSE 0
        BY ONLY <4>3, SubSeqProperties
      <4> QED BY ONLY <4>1, <4>2, <4>4
    <3>4. /\ b \o SubSeq(a, 1, n) \in Seq(Nat)
          /\ Len(b \o SubSeq(a, 1, n)) = Len(b) + n
      <4>1. PICK s \in Seq(Nat) : s = SubSeq(a, 1, n) /\ Len(s) = n
        BY ONLY <3>3
      <4>2. b \o s \in Seq(Nat) /\ Len(b \o s) = Len(b) + Len(s)
        BY ONLY b \in Seq(Nat), s \in Seq(Nat)
      <4> QED BY ONLY <4>1, <4>2
    <3>5. arrived' = << >>
      BY <2>4 DEF EndSecure
    <3> QED BY <1>1, <2>1, <3>1, <3>2, <3>4, <3>5 DEF ReadTypes
  <2> QED BY <1>5, <2>2, <2>3, <2>4 DEF DoRead
<1>6. CASE PeerSends
  <2>1. sent' = sent + 1 /\ arrived' = Append(arrived, sent + 1) /\ UNCHANGED <<m_inputBuffer, read>>
    BY <1>6 DEF PeerSends, mainVars, bufferVars
  <2>2. arrived' \in Seq(Nat) /\ Len(arrived') = Len(arrived) + 1
    BY <1>1, <2>1
  <2>3. sent' \in 0 .. MaxReceived
    BY <1>1, <1>6, <2>1 DEF PeerSends
  <2> QED BY <1>1, <2>1, <2>2, <2>3 DEF ReadTypes
<1>7. CASE Write \/ Close \/ BeginFlush \/ MakeJob \/ EndFlush \/ Install \/ Remove
  BY <1>2, <1>7
     DEF Write, Close, BeginFlush, MakeJob, EndFlush, Install, Remove, bufferVars, networkVars
<1>8. CASE FinishClose \/ ReadFails
  BY <1>3, <1>8 DEF FinishClose, ReadFails, Disconnected, mainVars, networkVars
<1>9. CASE serviceConnected \/ WriteFails
  BY <1>2, <1>3, <1>9
     DEF serviceConnected, WriteFails, Disconnected, mainVars, bufferVars, networkVars
<1>10. CASE Lock \/ PollSocket \/ Store \/ WritePlain \/ WriteSecure
  BY <1>2, <1>10
     DEF Lock, PollSocket, Store, WritePlain, WriteSecure, mainVars, bufferVars, networkVars
<1>11. CASE LineChanges \/ Drains
  BY <1>2, <1>11 DEF LineChanges, Drains, mainVars, bufferVars, networkVars
<1> QED
  BY <1>4, <1>5, <1>6, <1>7, <1>8, <1>9, <1>10, <1>11 DEF SocketNext, MainGoesOn, ServiceGoesOn

LEMMA SocketTypesNext == SocketTypeInv /\ [SocketNext]_socketVars => SocketTypeInv'
<1> SUFFICES ASSUME SocketTypeInv, [SocketNext]_socketVars
             PROVE  SocketTypeInv'
  OBVIOUS
<1>1. CASE SocketNext
  BY <1>1, MainTypesNext, SocketFlagsNext, ServiceTypesNext, ReadTypesNext DEF SocketTypeInv
<1>2. CASE UNCHANGED socketVars
  <2>1. MainTypes' /\ SocketFlags' /\ ServiceTypes'
    BY <1>2 DEF socketVars, SocketTypeInv, MainTypes, SocketFlags, ServiceTypes
  <2>2. ReadTypes'
    BY <1>2 DEF socketVars, SocketTypeInv, ReadTypes
  <2> QED BY <2>1, <2>2 DEF SocketTypeInv
<1> QED BY <1>1, <1>2

\* Every variable of a socket has its type, for any bytes written and received.
THEOREM SocketTypeCorrect == SocketSpec => []SocketTypeOK
<1> QED BY SocketTypes, SocketTypesInit, SocketTypesNext, PTL DEF SocketSpec

-----------------------------------------------------------------------------
(***************************************************************************)
(* PacketStream.  A byte knows its packet and its place there, so that     *)
(* the order of a sequence of bytes says what follows which byte.          *)
(***************************************************************************)
EndOf(p) == HeaderSize + sizes[p]

\* The bytes in s are bytes of the packets, from place first on; what follows one
\* is the rest of its packet, and then the next packet.
InPackets(s, first) ==
  \A i \in 1 .. Len(s) : s[i][1] \in 1 .. Len(sizes) /\ s[i][2] \in first .. EndOf(s[i][1])
Follows(s, first) ==
  \A i, j \in 1 .. Len(s) :
    i < j =>
      /\ s[i][2] + (j - i) <= EndOf(s[i][1]) => s[j] = <<s[i][1], s[i][2] + (j - i)>>
      /\ s[i][2] + (j - i) = EndOf(s[i][1]) + 1 => s[j] = <<s[i][1] + 1, first>>
Ordered(s, first) == InPackets(s, first) /\ Follows(s, first)

\* The last byte that was written is the last in s.
Complete(s) == s # << >> => s[Len(s)] = <<Len(sizes), EndOf(Len(sizes))>>

\* What the listener has not read.
Stream == m_buffer \o input \o under_way

\* The first byte of s is the one the filter waits for, when it lacks size bytes
\* of a packet, and the next the listener reads, when it has read n.
Awaits(s, size, n) ==
  /\ s # << >> =>
       /\ n < Len(payload)
       /\ size = 0 => s[1][2] = 1 /\ payload[n + 1] = <<s[1][1], HeaderSize + 1>>
       /\ size # 0 => /\ s[1][2] > HeaderSize /\ size = EndOf(s[1][1]) - s[1][2] + 1
                      /\ payload[n + 1] = s[1]
  /\ s = << >> /\ ~cut => size = 0 /\ n = Len(payload)

StreamBytesInv ==
  /\ Ordered(payload, HeaderSize + 1) /\ Complete(payload)
  /\ BytesAreRead
  /\ Ordered(Stream, 1)
  /\ ~cut => Complete(Stream)
  /\ ~closed => Awaits(Stream, m_size, Len(got)) /\ (m_size = 0 => Len(m_buffer) < HeaderSize)
  /\ ended \/ broken => under_way = << >>
  /\ cut => ended \/ broken
  /\ closed => ~reading

EndIsLast(q) ==
  \A i, j \in 1 .. Len(q) : i < j /\ q[i] = "end" => q[j] \notin {"ready", "end"}

\* Nothing arrives behind the end, and what the end has closed stays so.
StreamEventsInv ==
  /\ EndIsLast(events)
  /\ IsQueued("end") => ended
  /\ m_inputShutdown => ended /\ ~IsQueued("ready") /\ ~IsQueued("end")
  /\ IsQueued("inputShutdown") /\ ~closed => m_inputShutdown /\ m_size = 0

StreamInv == PacketTypeOK /\ StreamBytesInv /\ StreamEventsInv /\ NoPacketIsStuck


LEMMA Parts ==
  ASSUME NEW S, NEW s \in Seq(S), NEW n \in 0 .. Len(s)
  PROVE  /\ First(s, n) \in Seq(S) /\ Len(First(s, n)) = n
         /\ \A i \in 1 .. n : First(s, n)[i] = s[i]
         /\ Rest(s, n) \in Seq(S) /\ Len(Rest(s, n)) = Len(s) - n
         /\ \A i \in 1 .. Len(s) - n : Rest(s, n)[i] = s[n + i]
         /\ First(s, n) \o Rest(s, n) = s
<1>1. Len(s) \in Nat /\ \A i \in 1 .. Len(s) : s[i] \in S
  OBVIOUS
<1>2. /\ First(s, n) \in Seq(S) /\ Len(First(s, n)) = n
      /\ \A i \in 1 .. n : First(s, n)[i] = s[i]
  <2>1. n \in Int /\ \A i \in 1 .. n : s[i] \in S
    BY <1>1
  <2>2. /\ SubSeq(s, 1, n) \in Seq(S)
        /\ Len(SubSeq(s, 1, n)) = IF 1 <= n THEN n - 1 + 1 ELSE 0
        /\ \A i \in 1 .. n - 1 + 1 : SubSeq(s, 1, n)[i] = s[1 + i - 1]
    BY <2>1, SubSeqProperties
  <2>3. Len(SubSeq(s, 1, n)) = n
    BY <2>2, <1>1
  <2>4. \A i \in 1 .. n : SubSeq(s, 1, n)[i] = s[i]
    <3>1. \A i \in 1 .. n : i \in 1 .. n - 1 + 1 /\ 1 + i - 1 = i
      BY <1>1
    <3> QED BY <2>2, <3>1
  <2> QED BY <2>2, <2>3, <2>4 DEF First
<1>3. /\ Rest(s, n) \in Seq(S) /\ Len(Rest(s, n)) = Len(s) - n
      /\ \A i \in 1 .. Len(s) - n : Rest(s, n)[i] = s[n + i]
  <2>1. n + 1 \in Int /\ Len(s) \in Int /\ \A i \in n + 1 .. Len(s) : s[i] \in S
    BY <1>1
  <2>2. /\ SubSeq(s, n + 1, Len(s)) \in Seq(S)
        /\ Len(SubSeq(s, n + 1, Len(s))) = IF n + 1 <= Len(s) THEN Len(s) - (n + 1) + 1 ELSE 0
        /\ \A i \in 1 .. Len(s) - (n + 1) + 1 : SubSeq(s, n + 1, Len(s))[i] = s[n + 1 + i - 1]
    BY <2>1, SubSeqProperties
  <2>3. Len(SubSeq(s, n + 1, Len(s))) = Len(s) - n
    BY <2>2, <1>1
  <2>4. \A i \in 1 .. Len(s) - n : SubSeq(s, n + 1, Len(s))[i] = s[n + i]
    <3>1. \A i \in 1 .. Len(s) - n : i \in 1 .. Len(s) - (n + 1) + 1 /\ n + 1 + i - 1 = n + i
      BY <1>1
    <3> QED BY <2>2, <3>1
  <2> QED BY <2>2, <2>3, <2>4 DEF Rest
<1>4. First(s, n) \o Rest(s, n) = s
  <2>1. /\ First(s, n) \o Rest(s, n) \in Seq(S)
        /\ Len(First(s, n) \o Rest(s, n)) = Len(First(s, n)) + Len(Rest(s, n))
        /\ \A i \in 1 .. Len(First(s, n)) + Len(Rest(s, n)) :
             (First(s, n) \o Rest(s, n))[i] =
               IF i <= Len(First(s, n)) THEN First(s, n)[i] ELSE Rest(s, n)[i - Len(First(s, n))]
    BY <1>2, <1>3, ConcatProperties
  <2>2. Len(First(s, n) \o Rest(s, n)) = Len(s)
    BY <2>1, <1>1, <1>2, <1>3
  <2>3. ASSUME NEW i \in 1 .. Len(s)
        PROVE  (First(s, n) \o Rest(s, n))[i] = s[i]
    <3>1. (First(s, n) \o Rest(s, n))[i] = IF i <= n THEN First(s, n)[i] ELSE Rest(s, n)[i - n]
      BY <2>1, <2>2, <1>2
    <3>2. i <= n => i \in 1 .. n
      BY <1>1
    <3>3. ~(i <= n) => i - n \in 1 .. Len(s) - n /\ n + (i - n) = i
      BY <1>1
    <3> QED BY <3>1, <3>2, <3>3, <1>2, <1>3
  <2> QED BY <2>1, <2>2, <2>3, SeqEqual
<1> QED BY <1>2, <1>3, <1>4

LEMMA Joined2 ==
  ASSUME NEW S, NEW s \in Seq(S), NEW t \in Seq(S)
  PROVE  /\ s \o t \in Seq(S) /\ Len(s \o t) = Len(s) + Len(t)
         /\ \A i \in 1 .. Len(s) : (s \o t)[i] = s[i]
         /\ \A i \in 1 .. Len(t) : (s \o t)[Len(s) + i] = t[i]
<1>1. /\ s \o t \in Seq(S) /\ Len(s \o t) = Len(s) + Len(t)
      /\ \A i \in 1 .. Len(s) + Len(t) :
           (s \o t)[i] = IF i <= Len(s) THEN s[i] ELSE t[i - Len(s)]
  BY ConcatProperties
<1>2. Len(s) \in Nat /\ Len(t) \in Nat
  OBVIOUS
<1>3. \A i \in 1 .. Len(s) : (s \o t)[i] = s[i]
  BY <1>1, <1>2
<1>4. ASSUME NEW i \in 1 .. Len(t)
      PROVE  (s \o t)[Len(s) + i] = t[i]
  <2>1. /\ Len(s) + i \in 1 .. Len(s) + Len(t) /\ ~(Len(s) + i <= Len(s))
        /\ Len(s) + i - Len(s) = i
    BY <1>2
  <2> QED BY <1>1, <2>1
<1> QED BY <1>1, <1>3, <1>4

\* What the rest of a joined sequence is.
LEMMA RestOfJoined ==
  ASSUME NEW S, NEW s \in Seq(S), NEW t \in Seq(S), NEW n \in 0 .. Len(s)
  PROVE  /\ Rest(s, n) \o t = Rest(s \o t, n)
         /\ First(s, n) = First(s \o t, n)
<1>1. Len(s) \in Nat /\ Len(t) \in Nat
  OBVIOUS
<1>2. /\ s \o t \in Seq(S) /\ Len(s \o t) = Len(s) + Len(t) /\ n \in 0 .. Len(s \o t)
      /\ \A i \in 1 .. Len(s) : (s \o t)[i] = s[i]
      /\ \A i \in 1 .. Len(t) : (s \o t)[Len(s) + i] = t[i]
  BY <1>1, Joined2
<1>3. /\ Rest(s, n) \in Seq(S) /\ Len(Rest(s, n)) = Len(s) - n
      /\ \A i \in 1 .. Len(s) - n : Rest(s, n)[i] = s[n + i]
      /\ First(s, n) \in Seq(S) /\ Len(First(s, n)) = n
      /\ \A i \in 1 .. n : First(s, n)[i] = s[i]
  BY Parts
<1>4. /\ Rest(s \o t, n) \in Seq(S) /\ Len(Rest(s \o t, n)) = Len(s \o t) - n
      /\ \A i \in 1 .. Len(s \o t) - n : Rest(s \o t, n)[i] = (s \o t)[n + i]
      /\ First(s \o t, n) \in Seq(S) /\ Len(First(s \o t, n)) = n
      /\ \A i \in 1 .. n : First(s \o t, n)[i] = (s \o t)[i]
  BY <1>2, Parts
<1>5. /\ Rest(s, n) \o t \in Seq(S) /\ Len(Rest(s, n) \o t) = Len(Rest(s, n)) + Len(t)
      /\ \A i \in 1 .. Len(Rest(s, n)) : (Rest(s, n) \o t)[i] = Rest(s, n)[i]
      /\ \A i \in 1 .. Len(t) : (Rest(s, n) \o t)[Len(Rest(s, n)) + i] = t[i]
  <2>1. PICK q \in Seq(S) : q = Rest(s, n)
    BY <1>3
  <2>2. /\ q \o t \in Seq(S) /\ Len(q \o t) = Len(q) + Len(t)
        /\ \A i \in 1 .. Len(q) : (q \o t)[i] = q[i]
        /\ \A i \in 1 .. Len(t) : (q \o t)[Len(q) + i] = t[i]
    BY Joined2
  <2> QED BY <2>1, <2>2
<1>6. First(s, n) = First(s \o t, n)
  <2>1. \A i \in 1 .. n : i \in 1 .. Len(s)
    BY <1>1
  <2>2. \A i \in 1 .. n : First(s, n)[i] = First(s \o t, n)[i]
    BY <2>1, <1>2, <1>3, <1>4
  <2> QED BY <2>2, <1>3, <1>4, SeqEqual
<1>7. Len(Rest(s, n) \o t) = Len(Rest(s \o t, n))
  BY <1>1, <1>2, <1>3, <1>4, <1>5
<1>8. ASSUME NEW i \in 1 .. Len(Rest(s, n) \o t)
      PROVE  (Rest(s, n) \o t)[i] = Rest(s \o t, n)[i]
  <2>1. i \in 1 .. Len(s) + Len(t) - n
    BY <1>1, <1>3, <1>5
  <2>2. Rest(s \o t, n)[i] = (s \o t)[n + i]
    BY <2>1, <1>2, <1>4
  <2>3. CASE i <= Len(s) - n
    <3>1. i \in 1 .. Len(s) - n /\ n + i \in 1 .. Len(s)
      BY <2>1, <2>3, <1>1
    <3> QED BY <2>2, <3>1, <1>2, <1>3, <1>5
  <2>4. CASE ~(i <= Len(s) - n)
    <3>1. PICK j : j = i - (Len(s) - n)
      OBVIOUS
    <3>2. j \in 1 .. Len(t) /\ i = Len(Rest(s, n)) + j /\ n + i = Len(s) + j
      BY <3>1, <2>1, <2>4, <1>1, <1>3
    <3>3. (Rest(s, n) \o t)[i] = t[j] /\ (s \o t)[n + i] = t[j]
      BY <3>2, <1>2, <1>5
    <3> QED BY <2>2, <3>3
  <2> QED BY <2>3, <2>4
<1>9. Rest(s, n) \o t = Rest(s \o t, n)
  BY <1>4, <1>5, <1>7, <1>8, SeqEqual
<1> QED BY <1>6, <1>9

LEMMA Ends ==
  ASSUME sizes \in Seq(PacketSize)
  PROVE  /\ Len(sizes) \in Nat /\ HeaderSize \in Nat \ {0}
         /\ \A p \in 1 .. Len(sizes) :
              /\ sizes[p] \in PacketSize /\ sizes[p] \in Nat \ {0}
              /\ EndOf(p) \in Nat /\ EndOf(p) = HeaderSize + sizes[p] /\ EndOf(p) > HeaderSize
<1>1. Len(sizes) \in Nat /\ HeaderSize \in Nat \ {0} /\ PacketSize \subseteq Nat \ {0}
  BY PacketAssumption
<1>2. \A p \in 1 .. Len(sizes) : sizes[p] \in PacketSize
  OBVIOUS
<1>3. \A p : EndOf(p) = HeaderSize + sizes[p]
  BY DEF EndOf
<1>4. ASSUME NEW p \in 1 .. Len(sizes)
      PROVE  /\ sizes[p] \in PacketSize /\ sizes[p] \in Nat \ {0}
             /\ EndOf(p) \in Nat /\ EndOf(p) = HeaderSize + sizes[p] /\ EndOf(p) > HeaderSize
  <2>1. sizes[p] \in PacketSize /\ sizes[p] \in Nat \ {0}
    BY <1>1, <1>2
  <2>2. EndOf(p) = HeaderSize + sizes[p]
    BY <1>3
  <2> QED BY <2>1, <2>2, <1>1
<1> QED BY <1>1, <1>4

LEMMA ABytes ==
  ASSUME NEW s \in Seq(Byte)
  PROVE  /\ Len(s) \in Nat
         /\ s = << >> <=> Len(s) = 0
         /\ \A i \in 1 .. Len(s) :
              /\ s[i] \in Byte /\ s[i][1] \in Nat \ {0} /\ s[i][2] \in Nat \ {0}
              /\ s[i] = <<s[i][1], s[i][2]>>
BY DEF Byte

\* A part of an ordered sequence is ordered.
LEMMA OrderedPart ==
  ASSUME NEW first, NEW s, NEW t, Ordered(s, first), Len(s) \in Nat, Len(t) \in Nat,
         NEW n \in Nat, \A i \in 1 .. Len(t) : n + i \in 1 .. Len(s) /\ t[i] = s[n + i]
  PROVE  Ordered(t, first)
<1>1. InPackets(t, first)
  BY DEF Ordered, InPackets
<1>2. Follows(t, first)
  <2>1. SUFFICES ASSUME NEW i \in 1 .. Len(t), NEW j \in 1 .. Len(t), i < j
                 PROVE  /\ t[i][2] + (j - i) <= EndOf(t[i][1])
                             => t[j] = <<t[i][1], t[i][2] + (j - i)>>
                        /\ t[i][2] + (j - i) = EndOf(t[i][1]) + 1
                             => t[j] = <<t[i][1] + 1, first>>
    BY DEF Follows
  <2>2. /\ n + i \in 1 .. Len(s) /\ n + j \in 1 .. Len(s) /\ n + i < n + j
        /\ (n + j) - (n + i) = j - i /\ t[i] = s[n + i] /\ t[j] = s[n + j]
    BY <2>1
  <2>3. /\ s[n + i][2] + ((n + j) - (n + i)) <= EndOf(s[n + i][1])
             => s[n + j] = <<s[n + i][1], s[n + i][2] + ((n + j) - (n + i))>>
        /\ s[n + i][2] + ((n + j) - (n + i)) = EndOf(s[n + i][1]) + 1
             => s[n + j] = <<s[n + i][1] + 1, first>>
    BY <2>2 DEF Ordered, Follows
  <2> QED BY ONLY <2>2, <2>3
<1> QED BY <1>1, <1>2 DEF Ordered

LEMMA OrderedParts ==
  ASSUME NEW first, NEW s \in Seq(Byte), Ordered(s, first), NEW n \in 0 .. Len(s)
  PROVE  /\ Ordered(First(s, n), first) /\ Ordered(Rest(s, n), first)
         /\ Complete(s) => Complete(Rest(s, n))
<1>1. /\ First(s, n) \in Seq(Byte) /\ Len(First(s, n)) = n
      /\ \A i \in 1 .. n : First(s, n)[i] = s[i]
      /\ Rest(s, n) \in Seq(Byte) /\ Len(Rest(s, n)) = Len(s) - n
      /\ \A i \in 1 .. Len(s) - n : Rest(s, n)[i] = s[n + i]
  BY Parts
<1>2. Len(s) \in Nat /\ n \in Nat /\ n <= Len(s)
  OBVIOUS
<1>3. Ordered(First(s, n), first)
  <2>1. PICK t : t = First(s, n)
    OBVIOUS
  <2>2. Len(t) \in Nat /\ \A i \in 1 .. Len(t) : 0 + i \in 1 .. Len(s) /\ t[i] = s[0 + i]
    BY <2>1, <1>1, <1>2
  <2>3. Ordered(t, first)
    BY <2>2, <1>2, OrderedPart
  <2> QED BY <2>1, <2>3
<1>4. \A i \in 1 .. Len(s) - n : n + i \in 1 .. Len(s) /\ Rest(s, n)[i] = s[n + i]
  <2>1. \A i \in 1 .. Len(s) - n : n + i \in 1 .. Len(s)
    BY ONLY <1>2
  <2> QED BY ONLY <2>1, <1>1
<1>5. Ordered(Rest(s, n), first)
  <2>1. PICK t : t = Rest(s, n)
    OBVIOUS
  <2>2. Len(t) \in Nat /\ \A i \in 1 .. Len(t) : n + i \in 1 .. Len(s) /\ t[i] = s[n + i]
    BY <2>1, <1>1, <1>2, <1>4
  <2>3. Ordered(t, first)
    BY <2>2, <1>2, OrderedPart
  <2> QED BY <2>1, <2>3
<1>6. ASSUME Complete(s), Rest(s, n) # << >>
      PROVE  Rest(s, n)[Len(Rest(s, n))] = <<Len(sizes), EndOf(Len(sizes))>>
  <2>1. Len(s) - n \in 1 .. Len(s) - n /\ n + (Len(s) - n) = Len(s) /\ s # << >>
    BY <1>1, <1>2, <1>6, ABytes
  <2>2. s[Len(s)] = <<Len(sizes), EndOf(Len(sizes))>>
    BY <2>1, <1>6 DEF Complete
  <2> QED BY <2>1, <2>2, <1>1, <1>4
<1> QED BY <1>3, <1>5, <1>6 DEF Complete

\* What is behind the byte at i.
LEMMA NextBytes ==
  ASSUME sizes \in Seq(PacketSize), NEW first \in Nat \ {0}, NEW s \in Seq(Byte),
         Ordered(s, first), NEW i \in 1 .. Len(s), NEW k \in Nat, i + k <= Len(s)
  PROVE  /\ s[i][1] \in 1 .. Len(sizes) /\ s[i][2] \in Nat \ {0} /\ s[i][2] >= first
         /\ s[i][2] <= EndOf(s[i][1])
         /\ s[i][2] + k <= EndOf(s[i][1]) => s[i + k] = <<s[i][1], s[i][2] + k>>
         /\ s[i][2] + k = EndOf(s[i][1]) + 1 =>
              s[i + k] = <<s[i][1] + 1, first>> /\ s[i][1] + 1 \in 1 .. Len(sizes)
<1>1. /\ s[i] = <<s[i][1], s[i][2]>> /\ s[i][1] \in 1 .. Len(sizes) /\ s[i][2] \in Nat \ {0}
      /\ s[i][2] \in first .. EndOf(s[i][1])
  BY ABytes DEF Ordered, InPackets
<1>2. EndOf(s[i][1]) \in Nat /\ Len(s) \in Nat
  BY <1>1, Ends
<1>3. CASE k = 0
  <2>1. /\ s[i][2] \in Nat /\ s[i][2] <= EndOf(s[i][1]) /\ s[i][2] >= first
        /\ i + k = i /\ s[i][2] + k = s[i][2]
    BY ONLY <1>1, <1>2, <1>3, i \in 1 .. Len(s), first \in Nat \ {0}
  <2> QED BY ONLY <2>1, <1>1, <1>2
<1>4. CASE k # 0
  <2>1. i + k \in 1 .. Len(s) /\ i < i + k /\ (i + k) - i = k
    BY <1>2, <1>4
  <2>2. /\ s[i][2] + k <= EndOf(s[i][1]) => s[i + k] = <<s[i][1], s[i][2] + k>>
        /\ s[i][2] + k = EndOf(s[i][1]) + 1 => s[i + k] = <<s[i][1] + 1, first>>
    BY <2>1 DEF Ordered, Follows
  <2>3. s[i + k][1] \in 1 .. Len(sizes)
    BY <2>1 DEF Ordered, InPackets
  <2>4. s[i][2] + k = EndOf(s[i][1]) + 1 => s[i][1] + 1 \in 1 .. Len(sizes)
    <3>1. ASSUME s[i + k] = <<s[i][1] + 1, first>>
          PROVE  s[i + k][1] = s[i][1] + 1
      BY ONLY <3>1
    <3> QED BY ONLY <2>2, <2>3, <3>1
  <2>5. s[i][2] >= first /\ s[i][2] <= EndOf(s[i][1])
    BY ONLY <1>1, <1>2, first \in Nat \ {0}
  <2> QED BY ONLY <1>1, <2>2, <2>4, <2>5
<1> QED BY ONLY <1>3, <1>4

\* What is complete has the rest of every packet, and of none but the last
\* nothing behind it.
LEMMA RestOfPacket ==
  ASSUME sizes \in Seq(PacketSize), NEW first \in Nat \ {0}, NEW s \in Seq(Byte),
         Ordered(s, first), Complete(s), NEW i \in 1 .. Len(s)
  PROVE  /\ i + (EndOf(s[i][1]) - s[i][2]) <= Len(s)
         /\ i + (EndOf(s[i][1]) - s[i][2]) = Len(s) => s[i][1] = Len(sizes)
<1>1. PICK k : k = Len(s) - i
  OBVIOUS
<1>2. k \in Nat /\ i + k = Len(s) /\ i + k <= Len(s) /\ s # << >>
  BY <1>1, ABytes
<1>3. /\ s[i][1] \in 1 .. Len(sizes) /\ s[i][2] \in Nat \ {0} /\ s[i][2] <= EndOf(s[i][1])
      /\ s[i][2] + k <= EndOf(s[i][1]) => s[i + k] = <<s[i][1], s[i][2] + k>>
  <2>1. /\ s[i][1] \in 1 .. Len(sizes) /\ s[i][2] \in Nat \ {0} /\ s[i][2] >= first
        /\ s[i][2] <= EndOf(s[i][1])
        /\ s[i][2] + k <= EndOf(s[i][1]) => s[i + k] = <<s[i][1], s[i][2] + k>>
        /\ s[i][2] + k = EndOf(s[i][1]) + 1 =>
             s[i + k] = <<s[i][1] + 1, first>> /\ s[i][1] + 1 \in 1 .. Len(sizes)
    BY <1>2, NextBytes, Zenon
  <2> QED BY <2>1
<1>4. EndOf(s[i][1]) \in Nat
  BY <1>3, Ends
<1>5. s[i + k] = <<Len(sizes), EndOf(Len(sizes))>>
  BY <1>2 DEF Complete
<1>6. s[i][2] + k <= EndOf(s[i][1]) => s[i][1] = Len(sizes) /\ s[i][2] + k = EndOf(s[i][1])
  BY ONLY <1>3, <1>5
<1>7. i \in Nat /\ Len(s) \in Nat /\ s[i][2] \in Nat
  BY ONLY <1>3, i \in 1 .. Len(s), s \in Seq(Byte)
<1> QED BY ONLY <1>2, <1>3, <1>4, <1>6, <1>7

-----------------------------------------------------------------------------
(* What the filter does to the bytes.                                      *)

SizeOK(size) == size = 0 \/ \E n \in PacketSize : size \in 1 .. n

Written ==
  /\ sizes \in Seq(PacketSize) /\ payload \in Seq(Byte)
  /\ Ordered(payload, HeaderSize + 1) /\ Complete(payload)

\* A header where one is due says how long its packet is.
LEMMA HeaderSays ==
  ASSUME sizes \in Seq(PacketSize), NEW s \in Seq(Byte), Ordered(s, 1),
         Len(s) >= HeaderSize, s[1][2] = 1
  PROVE  /\ s[1][1] \in 1 .. Len(sizes)
         /\ Value(First(s, HeaderSize)) = sizes[s[1][1]]
<1>1. HeaderSize \in Nat \ {0} /\ Len(s) \in Nat /\ HeaderSize \in 0 .. Len(s) /\ 1 \in 1 .. Len(s)
  BY Ends
<1>2. /\ First(s, HeaderSize) \in Seq(Byte) /\ Len(First(s, HeaderSize)) = HeaderSize
      /\ \A i \in 1 .. HeaderSize : First(s, HeaderSize)[i] = s[i]
  BY <1>1, Parts
<1>3. PICK p : p = s[1][1]
  OBVIOUS
<1>4. p \in 1 .. Len(sizes)
  BY <1>1, <1>3 DEF Ordered, InPackets
<1>5. EndOf(p) \in Nat /\ EndOf(p) > HeaderSize
  BY <1>4, Ends
<1>6. ASSUME NEW i \in 1 .. HeaderSize
      PROVE  First(s, HeaderSize)[i] = <<p, i>>
  <2>1. PICK k \in Nat : i = 1 + k
    <3>1. i - 1 \in Nat /\ i = 1 + (i - 1)
      OBVIOUS
    <3> QED BY <3>1
  <2>2. 1 + k <= Len(s) /\ 1 + k <= EndOf(p)
    BY <1>1, <1>5, <2>1
  <2>3. s[1][2] + k <= EndOf(s[1][1]) => s[1 + k] = <<s[1][1], s[1][2] + k>>
    BY <1>1, <2>2, NextBytes
  <2>4. s[i] = <<p, i>>
    BY <1>3, <2>1, <2>2, <2>3
  <2> QED BY <2>4, <1>2
<1>7. First(s, HeaderSize) = [i \in 1 .. HeaderSize |-> <<p, i>>]
  <2>1. First(s, HeaderSize) \in [1 .. HeaderSize -> Byte]
    BY <1>2
  <2> QED BY <2>1, <1>6
<1>8. First(s, HeaderSize)[1][1] = p
  BY <1>1, <1>6
<1> QED BY <1>3, <1>4, <1>7, <1>8 DEF Value

\* readPacketSize keeps the filter in step, and leaves it without a size only as
\* long as a header is incomplete.
LEMMA Settles ==
  ASSUME Written, NEW buffer \in Seq(Byte), NEW tail \in Seq(Byte), NEW size, SizeOK(size),
         NEW n \in Nat, Ordered(buffer \o tail, 1), ~cut => Complete(buffer \o tail),
         Awaits(buffer \o tail, size, n)
  PROVE  /\ NextBuffer(size, buffer) \in Seq(Byte)
         /\ SizeOK(NextSize(size, buffer))
         /\ Ordered(NextBuffer(size, buffer) \o tail, 1)
         /\ ~cut => Complete(NextBuffer(size, buffer) \o tail)
         /\ Awaits(NextBuffer(size, buffer) \o tail, NextSize(size, buffer), n)
         /\ NextSize(size, buffer) = 0 => Len(NextBuffer(size, buffer)) < HeaderSize
         /\ TooLong(size, buffer) => Oversize
         /\ size # 0 => NextSize(size, buffer) = size /\ NextBuffer(size, buffer) = buffer
<1>1. CASE ~HasHeader(size, buffer)
  <2>1. NextBuffer(size, buffer) = buffer /\ NextSize(size, buffer) = size /\ ~TooLong(size, buffer)
    BY <1>1 DEF NextBuffer, NextSize, TooLong
  <2>2. size = 0 => Len(buffer) < HeaderSize
    BY <1>1, PacketAssumption DEF HasHeader
  <2> QED BY <2>1, <2>2
<1>2. CASE HasHeader(size, buffer)
  <2>1. size = 0 /\ Len(buffer) >= HeaderSize /\ HeaderSize \in Nat \ {0} /\ Len(buffer) \in Nat
    BY <1>2, PacketAssumption DEF HasHeader
  <2>2. PICK s \in Seq(Byte) : s = buffer \o tail
    BY Joined2
  <2>3. Len(s) = Len(buffer) + Len(tail) /\ Len(tail) \in Nat /\ HeaderSize \in 0 .. Len(buffer)
    BY <2>1, <2>2, Joined2
  <2>4. HeaderSize \in 0 .. Len(s) /\ 1 \in 1 .. Len(s) /\ s # << >> /\ Len(s) >= HeaderSize
    BY <2>1, <2>3
  <2>5. /\ Rest(buffer, HeaderSize) \o tail = Rest(s, HeaderSize)
        /\ First(buffer, HeaderSize) = First(s, HeaderSize)
    BY <2>2, <2>3, RestOfJoined
  <2>6. n < Len(payload) /\ s[1][2] = 1 /\ payload[n + 1] = <<s[1][1], HeaderSize + 1>>
    BY <2>1, <2>2, <2>4 DEF Awaits
  <2>7. PICK p : p = s[1][1]
    OBVIOUS
  <2>8. p \in 1 .. Len(sizes) /\ Value(First(s, HeaderSize)) = sizes[p]
    BY <2>2, <2>4, <2>6, <2>7, HeaderSays DEF Written
  <2>9. /\ sizes[p] \in PacketSize /\ sizes[p] \in Nat \ {0}
        /\ EndOf(p) \in Nat /\ EndOf(p) = HeaderSize + sizes[p] /\ EndOf(p) > HeaderSize
    BY <2>8, Ends DEF Written
  <2>10. NextSize(size, buffer) = sizes[p] /\ NextBuffer(size, buffer) = Rest(buffer, HeaderSize)
    BY <1>2, <2>5, <2>8 DEF NextSize, NextBuffer
  <2>11. PICK r \in Seq(Byte) : r = Rest(s, HeaderSize)
    BY <2>4, Parts
  <2>12. Len(r) = Len(s) - HeaderSize /\ \A i \in 1 .. Len(r) : r[i] = s[HeaderSize + i]
    BY <2>4, <2>11, Parts
  <2>13. Ordered(r, 1) /\ (~cut => Complete(r))
    BY <2>2, <2>4, <2>11, OrderedParts
  <2>14. r # << >> => r[1] = <<p, HeaderSize + 1>>
    <3>1. SUFFICES ASSUME r # << >>
                   PROVE  s[HeaderSize + 1] = <<p, HeaderSize + 1>>
      <4>1. r # << >> => 1 \in 1 .. Len(r)
        BY ABytes
      <4> QED BY <4>1, <2>12
    <3>2. Len(r) >= 1 /\ 1 + HeaderSize <= Len(s)
      BY <3>1, <2>1, <2>12, <2>4, ABytes
    <3>3. s[1][2] + HeaderSize <= EndOf(s[1][1]) => s[1 + HeaderSize] = <<s[1][1], s[1][2] + HeaderSize>>
      <4>1. sizes \in Seq(PacketSize) /\ Ordered(s, 1) /\ 1 \in Nat \ {0} /\ HeaderSize \in Nat
        BY <2>1, <2>2 DEF Written
      <4>2. PICK k \in Nat : k = HeaderSize
        BY <4>1
      <4>3. 1 + k <= Len(s)
        BY <3>2, <4>2
      <4>4. s[1][2] + k <= EndOf(s[1][1]) => s[1 + k] = <<s[1][1], s[1][2] + k>>
        BY ONLY <4>1, <4>3, k \in Nat, <2>4, s \in Seq(Byte), NextBytes
      <4> QED BY ONLY <4>2, <4>4
    <3>4. 1 + HeaderSize <= EndOf(p) /\ 1 + HeaderSize = HeaderSize + 1
      BY ONLY <2>1, <2>9
    <3> QED BY ONLY <3>3, <3>4, <2>6, <2>7
  <2>15. ~cut => r # << >>
    <3>1. SUFFICES ASSUME ~cut
                   PROVE  r # << >>
      OBVIOUS
    <3>2. 1 + (EndOf(s[1][1]) - s[1][2]) <= Len(s)
      <4>1. sizes \in Seq(PacketSize) /\ Ordered(s, 1) /\ 1 \in Nat \ {0} /\ Complete(s)
        BY <3>1, <2>2 DEF Written
      <4> QED BY ONLY <4>1, <2>4, s \in Seq(Byte), RestOfPacket
    <3>3. HeaderSize < Len(s)
      <4>1. 1 + (EndOf(p) - 1) <= Len(s)
        BY ONLY <3>2, <2>6, <2>7
      <4>2. Len(s) \in Nat
        OBVIOUS
      <4> QED BY ONLY <4>1, <4>2, <2>9, <2>1
    <3> QED BY <3>3, <2>1, <2>12, ABytes
  <2>16. Awaits(r, sizes[p], n)
    <3>1. ASSUME r # << >>
          PROVE  /\ r[1][2] > HeaderSize /\ sizes[p] = EndOf(r[1][1]) - r[1][2] + 1
                 /\ payload[n + 1] = r[1]
      <4>1. r[1] = <<p, HeaderSize + 1>> /\ r[1][1] = p /\ r[1][2] = HeaderSize + 1
        BY <3>1, <2>14
      <4>2. sizes[p] = EndOf(p) - (HeaderSize + 1) + 1 /\ HeaderSize + 1 > HeaderSize
        BY ONLY <2>1, <2>9
      <4> QED BY ONLY <4>1, <4>2, <2>6, <2>7
    <3> QED BY <3>1, <2>6, <2>9, <2>15 DEF Awaits
  <2>17. SizeOK(sizes[p])
    <3>1. sizes[p] \in 1 .. sizes[p]
      BY ONLY <2>9
    <3> QED BY ONLY <3>1, <2>9 DEF SizeOK
  <2>18. TooLong(size, buffer) => Oversize
    BY <2>8, <2>10 DEF TooLong, Oversize
  <2>19. Rest(buffer, HeaderSize) \in Seq(Byte)
    BY <2>3, Parts
  <2> QED BY <2>1, <2>5, <2>9, <2>10, <2>11, <2>13, <2>16, <2>17, <2>18, <2>19
<1> QED BY <1>1, <1>2

\* A read within a packet takes the bytes that were written.
LEMMA Takes ==
  ASSUME Written, NEW buffer \in Seq(Byte), NEW tail \in Seq(Byte), NEW size \in Nat \ {0},
         Ordered(buffer \o tail, 1), ~cut => Complete(buffer \o tail), SizeOK(size),
         got \in Seq(Byte), BytesAreRead, Awaits(buffer \o tail, size, Len(got)),
         Len(buffer) >= size, NEW k \in 1 .. size
  PROVE  /\ Rest(buffer, k) \in Seq(Byte)
         /\ Ordered(Rest(buffer, k) \o tail, 1)
         /\ ~cut => Complete(Rest(buffer, k) \o tail)
         /\ Awaits(Rest(buffer, k) \o tail, size - k, Len(got) + k)
         /\ SizeOK(size - k)
         /\ got \o First(buffer, k) \in Seq(Byte) /\ Len(got \o First(buffer, k)) = Len(got) + k
         /\ Len(got) + k <= Len(payload)
         /\ got \o First(buffer, k) = First(payload, Len(got) + k)
<1>1. PICK s \in Seq(Byte) : s = buffer \o tail
  BY Joined2
<1>2. /\ Len(s) = Len(buffer) + Len(tail) /\ Len(tail) \in Nat /\ Len(buffer) \in Nat
      /\ k \in 0 .. Len(buffer) /\ k \in Nat \ {0} /\ k <= size
  BY <1>1, Joined2
<1>3. k \in 0 .. Len(s) /\ 1 \in 1 .. Len(s) /\ s # << >> /\ k <= Len(s)
  BY <1>2
<1>4. Rest(buffer, k) \o tail = Rest(s, k) /\ First(buffer, k) = First(s, k)
  BY <1>1, <1>2, RestOfJoined
<1>5. PICK r \in Seq(Byte) : r = Rest(s, k)
  BY <1>3, Parts
<1>6. Len(r) = Len(s) - k /\ \A i \in 1 .. Len(r) : r[i] = s[k + i]
  <2>1. Len(Rest(s, k)) = Len(s) - k /\ \A i \in 1 .. Len(s) - k : Rest(s, k)[i] = s[k + i]
    BY ONLY <1>3, s \in Seq(Byte), Parts
  <2> QED BY ONLY <2>1, <1>5
<1>7. Ordered(r, 1) /\ (~cut => Complete(r))
  BY <1>1, <1>3, <1>5, OrderedParts
<1>8. PICK g : g = Len(got)
  OBVIOUS
<1>9. PICK p, a, e, l : p = s[1][1] /\ a = s[1][2] /\ e = EndOf(p) /\ l = Len(payload)
  OBVIOUS
<1>10. /\ payload[g + 1] = s[1] /\ s[1] = <<p, a>> /\ p \in 1 .. Len(sizes)
       /\ g < l /\ a > HeaderSize /\ size = e - a + 1 /\ a \in 1 .. e /\ e \in Nat
       /\ HeaderSize \in Nat \ {0}
  <2>1. Ordered(s, 1)
    BY <1>1
  <2>2. p \in 1 .. Len(sizes) /\ a \in 1 .. e /\ s[1] = <<p, a>>
    BY <2>1, <1>3, <1>9, ABytes DEF Ordered, InPackets
  <2>3. e \in Nat /\ HeaderSize \in Nat \ {0}
    BY <2>2, <1>9, Ends DEF Written
  <2>4. g < l /\ a > HeaderSize /\ size = e - a + 1 /\ payload[g + 1] = s[1]
    BY <1>1, <1>3, <1>8, <1>9 DEF Awaits
  <2> QED BY <2>2, <2>3, <2>4
<1>11. /\ g \in Nat /\ l \in Nat /\ e \in Nat /\ a \in Nat /\ k \in Nat \ {0} /\ size \in Nat /\ k <= size
       /\ g < l /\ a > HeaderSize /\ HeaderSize \in Nat \ {0} /\ size = e - a + 1 /\ a <= e
       /\ Len(s) \in Nat /\ k <= Len(s) /\ Len(r) = Len(s) - k /\ Len(sizes) \in Nat
  <2>1. g \in Nat /\ l \in Nat /\ Len(s) \in Nat /\ Len(sizes) \in Nat
    BY <1>8, <1>9 DEF Written
  <2>2. e \in Nat /\ a \in 1 .. e
    BY <1>10
  <2> QED BY <2>1, <2>2, <1>2, <1>3, <1>6, <1>10
<1>12. /\ sizes \in Seq(PacketSize) /\ Ordered(s, 1) /\ 1 \in Nat \ {0} /\ HeaderSize + 1 \in Nat \ {0}
       /\ payload \in Seq(Byte) /\ Ordered(payload, HeaderSize + 1) /\ Complete(payload)
       /\ g + 1 \in 1 .. Len(payload) /\ payload[g + 1][1] = p /\ payload[g + 1][2] = a
  <2>1. g + 1 \in 1 .. l /\ HeaderSize + 1 \in Nat \ {0}
    BY ONLY <1>11
  <2> QED BY <2>1, <1>1, <1>9, <1>10 DEF Written
<1>13. \A i \in Nat : 1 + i <= Len(s) =>
         /\ a + i <= e => s[1 + i] = <<p, a + i>>
         /\ a + i = e + 1 => s[1 + i] = <<p + 1, 1>> /\ p + 1 \in 1 .. Len(sizes)
  <2>1. ASSUME NEW i \in Nat, 1 + i <= Len(s)
        PROVE  /\ s[1][2] + i <= EndOf(s[1][1]) => s[1 + i] = <<s[1][1], s[1][2] + i>>
               /\ s[1][2] + i = EndOf(s[1][1]) + 1 =>
                    s[1 + i] = <<s[1][1] + 1, 1>> /\ s[1][1] + 1 \in 1 .. Len(sizes)
    <3>1. PICK f, b : f = 1 /\ b = 1
      OBVIOUS
    <3>2. /\ sizes \in Seq(PacketSize) /\ f \in Nat \ {0} /\ s \in Seq(Byte) /\ Ordered(s, f)
          /\ b \in 1 .. Len(s) /\ i \in Nat /\ b + i <= Len(s)
      BY ONLY <3>1, <2>1, <1>3, <1>12, s \in Seq(Byte)
    <3>3. /\ s[b][1] \in 1 .. Len(sizes) /\ s[b][2] \in Nat \ {0} /\ s[b][2] >= f
          /\ s[b][2] <= EndOf(s[b][1])
          /\ s[b][2] + i <= EndOf(s[b][1]) => s[b + i] = <<s[b][1], s[b][2] + i>>
          /\ s[b][2] + i = EndOf(s[b][1]) + 1 =>
               s[b + i] = <<s[b][1] + 1, f>> /\ s[b][1] + 1 \in 1 .. Len(sizes)
      BY ONLY <3>2, NextBytes, Zenon
    <3> QED BY ONLY <3>1, <3>3
  <2> QED BY ONLY <2>1, <1>9
<1>14. \A i \in Nat : g + 1 + i <= l =>
         /\ a + i <= e => payload[g + 1 + i] = <<p, a + i>>
         /\ a + i = e + 1 => /\ payload[g + 1 + i] = <<p + 1, HeaderSize + 1>>
                             /\ p + 1 \in 1 .. Len(sizes)
  <2>1. PICK f \in Nat \ {0}, b \in 1 .. Len(payload) : f = HeaderSize + 1 /\ b = g + 1
    BY <1>12
  <2>2. Ordered(payload, f) /\ payload[b][1] = p /\ payload[b][2] = a /\ payload \in Seq(Byte)
    BY <2>1, <1>12
  <2>3. ASSUME NEW i \in Nat, b + i <= Len(payload)
        PROVE  /\ payload[b][2] + i <= EndOf(payload[b][1]) =>
                    payload[b + i] = <<payload[b][1], payload[b][2] + i>>
               /\ payload[b][2] + i = EndOf(payload[b][1]) + 1 =>
                    /\ payload[b + i] = <<payload[b][1] + 1, f>>
                    /\ payload[b][1] + 1 \in 1 .. Len(sizes)
    <3>1. sizes \in Seq(PacketSize) /\ Ordered(payload, f) /\ payload \in Seq(Byte)
      BY <2>2, <1>12
    <3>2. PICK t \in Seq(Byte) : t = payload
      BY <3>1
    <3>3. Ordered(t, f) /\ b \in 1 .. Len(t) /\ b + i <= Len(t)
      BY <3>1, <3>2, <2>3
    <3>4. /\ t[b][1] \in 1 .. Len(sizes) /\ t[b][2] \in Nat \ {0} /\ t[b][2] >= f
          /\ t[b][2] <= EndOf(t[b][1])
          /\ t[b][2] + i <= EndOf(t[b][1]) => t[b + i] = <<t[b][1], t[b][2] + i>>
          /\ t[b][2] + i = EndOf(t[b][1]) + 1 =>
               t[b + i] = <<t[b][1] + 1, f>> /\ t[b][1] + 1 \in 1 .. Len(sizes)
      BY ONLY <3>1, <3>3, i \in Nat, f \in Nat \ {0}, t \in Seq(Byte), NextBytes, Zenon
    <3> QED BY ONLY <3>2, <3>4
  <2> QED BY ONLY <2>1, <2>2, <2>3, <1>9
<1>15. /\ g + 1 + (e - a) <= l
       /\ g + 1 + (e - a) = l => p = Len(sizes)
  <2>1. /\ g + 1 + (EndOf(payload[g + 1][1]) - payload[g + 1][2]) <= Len(payload)
        /\ g + 1 + (EndOf(payload[g + 1][1]) - payload[g + 1][2]) = Len(payload)
             => payload[g + 1][1] = Len(sizes)
    BY ONLY <1>12, RestOfPacket
  <2> QED BY ONLY <2>1, <1>9, <1>12
<1>16. g + k <= l
  BY ONLY <1>11, <1>15
<1>17. /\ got \o First(s, k) \in Seq(Byte) /\ Len(got \o First(s, k)) = g + k
       /\ \A i \in 1 .. g : (got \o First(s, k))[i] = got[i]
       /\ \A i \in 1 .. k : (got \o First(s, k))[g + i] = s[i]
  <2>1. PICK f \in Seq(Byte) : f = First(s, k)
    BY <1>3, Parts
  <2>2. Len(f) = k /\ \A i \in 1 .. k : f[i] = s[i]
    BY <1>3, <2>1, Parts
  <2>3. /\ got \o f \in Seq(Byte) /\ Len(got \o f) = Len(got) + Len(f)
        /\ \A i \in 1 .. Len(got) : (got \o f)[i] = got[i]
        /\ \A i \in 1 .. Len(f) : (got \o f)[Len(got) + i] = f[i]
    BY Joined2
  <2> QED BY <1>8, <2>1, <2>2, <2>3
<1>18. got \o First(s, k) = First(payload, g + k)
  <2>1. g + k \in 0 .. Len(payload) /\ g \in 0 .. Len(payload)
    BY ONLY <1>11, <1>16, <1>9
  <2>2. /\ First(payload, g + k) \in Seq(Byte) /\ Len(First(payload, g + k)) = g + k
        /\ \A i \in 1 .. g + k : First(payload, g + k)[i] = payload[i]
        /\ \A i \in 1 .. g : First(payload, g)[i] = payload[i]
    BY <2>1, Parts DEF Written
  <2>3. ASSUME NEW i \in 1 .. g + k
        PROVE  (got \o First(s, k))[i] = payload[i]
    <3>1. CASE i <= g
      <4>1. i \in 1 .. g
        BY <3>1, <1>11
      <4>2. got[i] = payload[i]
        BY <4>1, <2>2, <1>8 DEF BytesAreRead
      <4> QED BY <4>1, <4>2, <1>17
    <3>2. CASE ~(i <= g)
      <4>1. PICK j \in Nat : i = g + 1 + j
        <5>1. i - g - 1 \in Nat /\ i = g + 1 + (i - g - 1)
          BY ONLY <3>2, <1>11, i \in 1 .. g + k
        <5> QED BY <5>1
      <4>2. /\ 1 + j \in 1 .. k /\ g + (1 + j) = i /\ 1 + j <= Len(s) /\ a + j <= e /\ g + 1 + j <= l
        BY ONLY <4>1, <1>11, <1>16, i \in 1 .. g + k, j \in Nat
      <4>3. s[1 + j] = <<p, a + j>> /\ payload[g + 1 + j] = <<p, a + j>>
        BY <4>2, <1>13, <1>14
      <4>4. (got \o First(s, k))[g + (1 + j)] = s[1 + j]
        BY <4>2, <1>17
      <4> QED BY <4>1, <4>2, <4>3, <4>4
    <3> QED BY <3>1, <3>2
  <2>4. \A i \in 1 .. g + k : (got \o First(s, k))[i] = First(payload, g + k)[i]
    BY <2>2, <2>3
  <2> QED BY <2>2, <2>4, <1>17, SeqEqual
<1>19. SizeOK(size - k)
  <2>1. PICK m \in PacketSize : size \in 1 .. m
    BY DEF SizeOK
  <2>2. m \in Nat
    BY PacketAssumption
  <2>3. size - k = 0 \/ size - k \in 1 .. m
    BY ONLY <1>11, <2>1, <2>2
  <2> QED BY <2>1, <2>3 DEF SizeOK
<1>20. ASSUME r # << >>
       PROVE  /\ g + k < l
              /\ size - k = 0 => /\ r[1][2] = 1
                                 /\ payload[g + k + 1] = <<r[1][1], HeaderSize + 1>>
              /\ size - k # 0 => /\ r[1][2] > HeaderSize
                                 /\ size - k = EndOf(r[1][1]) - r[1][2] + 1
                                 /\ payload[g + k + 1] = r[1]
  <2>1. /\ 1 \in 1 .. Len(r) /\ r[1] = s[1 + k] /\ 1 + k <= Len(s) /\ g + k + 1 = g + 1 + k
        /\ k \in Nat
    <3>1. Len(r) # 0
      BY <1>20, ABytes
    <3>2. 1 \in 1 .. Len(r) /\ 1 + k <= Len(s) /\ 1 + k = k + 1 /\ g + k + 1 = g + 1 + k /\ k \in Nat
      BY ONLY <1>11, <3>1
    <3> QED BY ONLY <3>2, <1>6
  <2>3. CASE k = size
    <3>1. a + k = e + 1 /\ size - k = 0 /\ g + 1 + (e - a) = g + k
      BY ONLY <2>3, <1>11
    <3>2. r[1] = <<p + 1, 1>> /\ p + 1 \in 1 .. Len(sizes)
      BY ONLY <2>1, <3>1, <1>13
    <3>3. p # Len(sizes)
      <4>1. PICK z \in Nat : z = Len(sizes)
        BY <1>11
      <4>2. p \in 1 .. z /\ p + 1 \in 1 .. z
        BY ONLY <3>2, <4>1, <1>10
      <4>3. p # z
        BY ONLY <4>2
      <4> QED BY ONLY <4>1, <4>3
    <3>4. g + k < l /\ g + 1 + k <= l
      BY ONLY <3>1, <3>3, <1>11, <1>15
    <3>5. payload[g + 1 + k] = <<p + 1, HeaderSize + 1>>
      BY ONLY <3>1, <3>4, <2>1, <1>14
    <3>6. r[1][1] = p + 1 /\ r[1][2] = 1
      BY ONLY <3>2
    <3> QED BY ONLY <2>1, <3>1, <3>4, <3>5, <3>6
  <2>4. CASE k # size
    <3>1. /\ a + k <= e /\ size - k # 0 /\ size - k = e - (a + k) + 1 /\ a + k > HeaderSize
          /\ ~(a + k = e + 1)
      BY ONLY <2>4, <1>11
    <3>2. r[1] = <<p, a + k>>
      BY ONLY <2>1, <3>1, <1>13
    <3>3. g + 1 + k <= l /\ g + k < l
      BY ONLY <3>1, <1>11, <1>15
    <3>4. payload[g + 1 + k] = <<p, a + k>>
      BY ONLY <3>1, <3>3, <2>1, <1>14
    <3>5. r[1][1] = p /\ r[1][2] = a + k
      BY ONLY <3>2
    <3> QED BY ONLY <2>1, <3>1, <3>2, <3>3, <3>4, <3>5, <1>9
  <2> QED BY ONLY <2>3, <2>4
<1>21. ASSUME r = << >>, ~cut
       PROVE  size - k = 0 /\ g + k = l
  <2>1. Complete(s) /\ Len(r) = 0
    BY <1>21, <1>1, ABytes
  <2>2. /\ 1 + (EndOf(s[1][1]) - s[1][2]) <= Len(s)
        /\ 1 + (EndOf(s[1][1]) - s[1][2]) = Len(s) => s[1][1] = Len(sizes)
    BY ONLY <2>1, <1>3, <1>12, s \in Seq(Byte), RestOfPacket
  <2>3. /\ 1 + (e - a) <= Len(s)
        /\ 1 + (e - a) = Len(s) => p = Len(sizes)
    BY ONLY <2>2, <1>9
  <2>4. k = size /\ 1 + (e - a) = Len(s)
    BY ONLY <2>1, <2>3, <1>11
  <2>5. ASSUME g + k # l
        PROVE  FALSE
    <3>1. g + 1 + k <= l /\ a + k = e + 1 /\ k \in Nat
      BY ONLY <2>4, <2>5, <1>11, <1>16
    <3>2. p + 1 \in 1 .. Len(sizes)
      BY ONLY <3>1, <1>14
    <3>3. PICK z \in Nat : z = Len(sizes)
      BY <1>11
    <3>4. p = z
      BY ONLY <2>3, <2>4, <3>3
    <3> QED BY ONLY <3>2, <3>3, <3>4
  <2> QED BY ONLY <2>4, <2>5, <1>11
<1>22. Awaits(r, size - k, g + k)
  BY ONLY <1>20, <1>21, <1>9 DEF Awaits
<1>23. Rest(buffer, k) \in Seq(Byte)
  BY <1>2, Parts
<1> QED BY <1>4, <1>5, <1>7, <1>8, <1>9, <1>16, <1>17, <1>18, <1>19, <1>22, <1>23

-----------------------------------------------------------------------------
(* Events.                                                                 *)

Has(q, e) == \E i \in 1 .. Len(q) : q[i] = e

LEMMA EventTaken ==
  ASSUME NEW q \in Seq(Kinds), q # << >>
  PROVE  /\ Head(q) \in Kinds /\ Tail(q) \in Seq(Kinds)
         /\ \A e : Has(q, e) <=> Head(q) = e \/ Has(Tail(q), e)
         /\ EndIsLast(q) =>
              /\ EndIsLast(Tail(q))
              /\ Head(q) = "end" => ~Has(Tail(q), "ready") /\ ~Has(Tail(q), "end")
<1>1. /\ Head(q) = q[1] /\ Head(q) \in Kinds /\ Tail(q) \in Seq(Kinds) /\ Len(Tail(q)) = Len(q) - 1
      /\ \A i \in 1 .. Len(Tail(q)) : Tail(q)[i] = q[i + 1]
      /\ Len(q) \in Nat \ {0}
  BY HeadTailProperties, EmptySeq
<1>2. \A i \in 1 .. Len(Tail(q)) : i + 1 \in 1 .. Len(q) /\ 1 < i + 1
  BY <1>1
<1>3. 1 \in 1 .. Len(q) /\ \A i \in 1 .. Len(q) : i = 1 \/ (i - 1 \in 1 .. Len(Tail(q)) /\ i - 1 + 1 = i)
  BY <1>1
<1>4. ASSUME NEW e
      PROVE  Has(q, e) <=> Head(q) = e \/ Has(Tail(q), e)
  <2>1. Has(q, e) => Head(q) = e \/ Has(Tail(q), e)
    BY <1>1, <1>3 DEF Has
  <2>2. Head(q) = e \/ Has(Tail(q), e) => Has(q, e)
    BY <1>1, <1>2, <1>3 DEF Has
  <2> QED BY <2>1, <2>2
<1>5. ASSUME EndIsLast(q)
      PROVE  /\ EndIsLast(Tail(q))
             /\ Head(q) = "end" => ~Has(Tail(q), "ready") /\ ~Has(Tail(q), "end")
  <2>1. \A i, j \in 1 .. Len(Tail(q)) : i < j => i + 1 < j + 1
    BY <1>1
  <2>2. EndIsLast(Tail(q))
    BY <1>1, <1>2, <1>5, <2>1 DEF EndIsLast
  <2>3. ASSUME Head(q) = "end"
        PROVE  ~Has(Tail(q), "ready") /\ ~Has(Tail(q), "end")
    <3>1. \A i \in 1 .. Len(Tail(q)) : q[i + 1] \notin {"ready", "end"}
      BY <1>1, <1>2, <1>3, <1>5, <2>3 DEF EndIsLast
    <3> QED BY <3>1, <1>1 DEF Has
  <2> QED BY <2>2, <2>3
<1> QED BY <1>1, <1>4, <1>5

LEMMA EventAdded ==
  ASSUME NEW q \in Seq(Kinds), NEW e \in Kinds, NEW c \in BOOLEAN
  PROVE  /\ q \o When(c, e) \in Seq(Kinds)
         /\ \A x : Has(q \o When(c, e), x) <=> Has(q, x) \/ (c /\ x = e)
         /\ EndIsLast(q) /\ (c /\ Has(q, "end") => e \notin {"ready", "end"})
              => EndIsLast(q \o When(c, e))
<1>1. CASE ~c
  <2>1. q \o When(c, e) = q
    BY <1>1, ConcatEmptySeq DEF When
  <2> QED BY <2>1, <1>1
<1>2. CASE c
  <2>1. PICK t : t = q \o When(c, e)
    OBVIOUS
  <2>2. When(c, e) = <<e>> /\ <<e>> \in Seq(Kinds) /\ Len(<<e>>) = 1 /\ <<e>>[1] = e
    BY <1>2 DEF When
  <2>3. /\ t \in Seq(Kinds) /\ Len(t) = Len(q) + 1
        /\ \A i \in 1 .. Len(q) : t[i] = q[i]
        /\ t[Len(q) + 1] = e
    <3>1. PICK u \in Seq(Kinds) : u = <<e>>
      BY <2>2
    <3>2. /\ q \o u \in Seq(Kinds) /\ Len(q \o u) = Len(q) + Len(u)
          /\ \A i \in 1 .. Len(q) : (q \o u)[i] = q[i]
          /\ \A i \in 1 .. Len(u) : (q \o u)[Len(q) + i] = u[i]
      BY Joined2
    <3>3. 1 \in 1 .. Len(u)
      BY <2>2, <3>1
    <3> QED BY <2>1, <2>2, <3>1, <3>2, <3>3
  <2>4. Len(q) \in Nat
    OBVIOUS
  <2>5. /\ \A i \in 1 .. Len(q) : i \in 1 .. Len(t)
        /\ Len(q) + 1 \in 1 .. Len(t)
        /\ \A i \in 1 .. Len(t) : i \in 1 .. Len(q) \/ i = Len(q) + 1
        /\ \A i \in 1 .. Len(t) : i < Len(q) + 1 => i \in 1 .. Len(q)
        /\ \A i \in 1 .. Len(t) : ~(Len(q) + 1 < i)
    BY <2>3, <2>4
  <2>6. \A x : Has(t, x) <=> Has(q, x) \/ x = e
    <3>1. \A x : Has(t, x) => Has(q, x) \/ x = e
      BY <2>3, <2>5 DEF Has
    <3>2. \A x : Has(q, x) \/ x = e => Has(t, x)
      BY <2>3, <2>5 DEF Has
    <3> QED BY <3>1, <3>2
  <2>7. ASSUME EndIsLast(q), Has(q, "end") => e \notin {"ready", "end"}
        PROVE  EndIsLast(t)
    <3>1. SUFFICES ASSUME NEW i \in 1 .. Len(t), NEW j \in 1 .. Len(t), i < j, t[i] = "end"
                   PROVE  t[j] \notin {"ready", "end"}
      BY DEF EndIsLast
    <3>2. CASE j \in 1 .. Len(q)
      <4>1. i \in 1 .. Len(q)
        BY <2>4, <3>1, <3>2
      <4> QED BY <4>1, <3>1, <3>2, <2>3, <2>7 DEF EndIsLast
    <3>3. CASE j = Len(q) + 1
      <4>1. i \in 1 .. Len(q)
        BY <2>5, <3>1, <3>3
      <4>2. Has(q, "end")
        BY <4>1, <3>1, <2>3 DEF Has
      <4> QED BY <4>2, <3>3, <2>3, <2>7
    <3> QED BY <2>5, <3>2, <3>3
  <2> QED BY <1>2, <2>1, <2>3, <2>6, <2>7
<1> QED BY <1>1, <1>2

LEMMA AppendIsWhen ==
  ASSUME NEW q, NEW e
  PROVE  Append(q, e) = q \o When(TRUE, e)
BY DEF When

-----------------------------------------------------------------------------
(* The peer, and the service thread.                                       *)

\* A packet that is written is behind all others.
LEMMA PacketAdded ==
  ASSUME sizes \in Seq(PacketSize), NEW n \in PacketSize, sizes' = Append(sizes, n),
         NEW s \in Seq(Byte), NEW first \in 1 .. HeaderSize + 1, Ordered(s, first), Complete(s),
         NEW b \in Seq(Byte), Len(b) = HeaderSize + n - (first - 1),
         \A i \in 1 .. Len(b) : b[i] = <<Len(sizes) + 1, first - 1 + i>>
  PROVE  Ordered(s \o b, first)' /\ Complete(s \o b)'
<1>1. PICK p, t, l, m, e : /\ p = Len(sizes) + 1 /\ t = s \o b /\ l = Len(s) /\ m = Len(b)
                           /\ e = HeaderSize + n
  OBVIOUS
<1>2. /\ t \in Seq(Byte) /\ Len(t) = l + m /\ l \in Nat /\ m \in Nat
      /\ \A i \in 1 .. l : t[i] = s[i]
      /\ \A i \in 1 .. m : t[l + i] = b[i]
  <2>1. /\ s \o b \in Seq(Byte) /\ Len(s \o b) = Len(s) + Len(b)
        /\ \A i \in 1 .. Len(s) : (s \o b)[i] = s[i]
        /\ \A i \in 1 .. Len(b) : (s \o b)[Len(s) + i] = b[i]
    BY ONLY s \in Seq(Byte), b \in Seq(Byte), Joined2
  <2>2. Len(s) \in Nat /\ Len(b) \in Nat
    OBVIOUS
  <2> QED BY ONLY <1>1, <2>1, <2>2
<1>3. /\ HeaderSize \in Nat \ {0} /\ n \in Nat \ {0} /\ e \in Nat /\ first \in Nat \ {0}
      /\ first <= HeaderSize + 1 /\ m = e - (first - 1) /\ m \in Nat \ {0} /\ Len(sizes) \in Nat
      /\ p \in Nat
  <2>1. HeaderSize \in Nat \ {0} /\ n \in Nat \ {0} /\ Len(sizes) \in Nat
    BY PacketAssumption
  <2> QED BY <2>1, <1>1
<1>4. /\ Len(sizes') = p /\ EndOf(p)' = e
      /\ \A q \in 1 .. Len(sizes) : EndOf(q)' = EndOf(q) /\ EndOf(q) \in Nat /\ q \in 1 .. p
  <2>1. /\ Len(sizes') = Len(sizes) + 1 /\ sizes'[Len(sizes) + 1] = n
        /\ \A q \in 1 .. Len(sizes) : sizes'[q] = sizes[q]
    BY <1>3
  <2>2. \A q \in 1 .. Len(sizes) : EndOf(q)' = EndOf(q) /\ EndOf(q) \in Nat
    BY <2>1, Ends DEF EndOf
  <2>3. \A q \in 1 .. Len(sizes) : q \in 1 .. p
    BY <1>1, <1>3
  <2> QED BY <2>1, <2>2, <2>3, <1>1 DEF EndOf
<1>5. \A i \in 1 .. m : t[l + i] = <<p, first - 1 + i>> /\ first - 1 + i \in first .. e
  <2>1. \A i \in 1 .. m : first - 1 + i \in first .. e
    BY ONLY <1>3
  <2>2. \A i \in 1 .. m : b[i] = <<p, first - 1 + i>>
    BY <1>1, Zenon
  <2>3. \A i \in 1 .. m : t[l + i] = b[i]
    BY ONLY <1>2
  <2> QED BY ONLY <2>1, <2>2, <2>3, Zenon
<1>6. \A i \in 1 .. l : /\ t[i] = s[i] /\ s[i][1] \in 1 .. Len(sizes)
                        /\ s[i][2] \in first .. EndOf(s[i][1]) /\ s[i][2] \in Nat
  <2>1. \A i \in 1 .. l : s[i][1] \in 1 .. Len(sizes) /\ s[i][2] \in first .. EndOf(s[i][1])
    BY <1>1 DEF Ordered, InPackets
  <2>2. \A i \in 1 .. l : s[i][2] \in Nat
    BY ONLY <2>1, <1>3, <1>4
  <2> QED BY ONLY <2>1, <2>2, <1>2
<1>7. \A i \in 1 .. l + m : i \in 1 .. l \/ (i - l \in 1 .. m /\ l + (i - l) = i)
  BY <1>2
<1>8. InPackets(t, first)'
  <2>1. SUFFICES ASSUME NEW i \in 1 .. l + m
                 PROVE  t[i][1] \in 1 .. Len(sizes') /\ t[i][2] \in first .. EndOf(t[i][1])'
    BY <1>2 DEF InPackets
  <2>2. CASE i \in 1 .. l
    BY <2>2, <1>4, <1>6
  <2>3. CASE i - l \in 1 .. m /\ l + (i - l) = i
    <3>1. t[i] = <<p, first - 1 + (i - l)>> /\ first - 1 + (i - l) \in first .. e
      BY ONLY <2>3, <1>5
    <3>2. p \in 1 .. Len(sizes')
      BY <1>3, <1>4, <1>1
    <3> QED BY ONLY <3>1, <3>2, <1>4
  <2> QED BY <2>2, <2>3, <1>7
<1>9. Follows(t, first)'
  <2>1. SUFFICES ASSUME NEW i \in 1 .. l + m, NEW j \in 1 .. l + m, i < j
                 PROVE  /\ t[i][2] + (j - i) <= EndOf(t[i][1])' => t[j] = <<t[i][1], t[i][2] + (j - i)>>
                        /\ t[i][2] + (j - i) = EndOf(t[i][1])' + 1 => t[j] = <<t[i][1] + 1, first>>
    BY <1>2 DEF Follows
  <2>a. l \in Nat /\ m \in Nat
    BY <1>2
  <2>b. i \in Nat /\ j \in Nat /\ 1 <= i /\ i < j /\ j <= l + m
    BY ONLY <2>1, <2>a, i \in 1 .. l + m, j \in 1 .. l + m
  <2>2. CASE i \in 1 .. l /\ j \in 1 .. l
    <3>1. t[i] = s[i] /\ t[j] = s[j] /\ EndOf(s[i][1])' = EndOf(s[i][1])
      BY <2>2, <1>4, <1>6
    <3>2. /\ s[i][2] + (j - i) <= EndOf(s[i][1]) => s[j] = <<s[i][1], s[i][2] + (j - i)>>
          /\ s[i][2] + (j - i) = EndOf(s[i][1]) + 1 => s[j] = <<s[i][1] + 1, first>>
      BY <2>1, <2>2, <1>1 DEF Ordered, Follows
    <3> QED BY ONLY <3>1, <3>2
  <2>3. CASE i \in 1 .. l /\ j - l \in 1 .. m /\ l + (j - l) = j
    <3>1. /\ i + (EndOf(s[i][1]) - s[i][2]) <= Len(s)
          /\ i + (EndOf(s[i][1]) - s[i][2]) = Len(s) => s[i][1] = Len(sizes)
      BY <2>3, <1>1, <1>3, RestOfPacket
    <3>2. PICK q, a, f : q = s[i][1] /\ a = s[i][2] /\ f = EndOf(q)
      OBVIOUS
    <3>3. /\ i + (f - a) <= l /\ (i + (f - a) = l => q = Len(sizes)) /\ f \in Nat /\ a \in Nat
          /\ t[i] = s[i] /\ EndOf(q)' = f
      BY <3>1, <3>2, <2>3, <1>1, <1>4, <1>6
    <3>4. ~(a + (j - i) <= f)
      <4>1. i \in Nat /\ j \in Nat /\ l \in Nat /\ j > l /\ i <= l
        BY ONLY <2>3, <2>a, <2>b
      <4>2. i + (f - a) <= l /\ f \in Nat /\ a \in Nat
        BY <3>3
      <4> QED BY ONLY <4>1, <4>2
    <3>5. ASSUME a + (j - i) = f + 1
          PROVE  t[j] = <<q + 1, first>>
      <4>1. j - l = 1 /\ i + (f - a) = l
        <5>1. /\ i \in Nat /\ j \in Nat /\ l \in Nat /\ i <= l /\ j > l
              /\ f \in Nat /\ a \in Nat /\ i + (f - a) <= l
          BY ONLY <3>3, <2>3, <2>a, <2>b
        <5> QED BY ONLY <5>1, <3>5
      <4>2. q + 1 = p
        BY <4>1, <3>3, <1>1
      <4>3. t[l + 1] = <<p, first - 1 + 1>> /\ first - 1 + 1 = first /\ l + 1 = j
        <5>1. 1 \in 1 .. m /\ first - 1 + 1 = first
          BY ONLY <1>3
        <5>2. t[l + 1] = <<p, first - 1 + 1>>
          BY ONLY <5>1, <1>5, Zenon
        <5>3. l + 1 = j
          BY ONLY <4>1, <2>a, <2>b
        <5> QED BY ONLY <5>1, <5>2, <5>3
      <4> QED BY ONLY <4>2, <4>3
    <3> QED BY ONLY <3>2, <3>3, <3>4, <3>5
  <2>4. CASE i - l \in 1 .. m /\ l + (i - l) = i
    <3>1. j - l \in 1 .. m /\ l + (j - l) = j
      <4>1. i > l
        BY ONLY <2>4, <2>a, <2>b
      <4> QED BY ONLY <4>1, <2>a, <2>b
    <3>2. t[i] = <<p, first - 1 + (i - l)>> /\ t[j] = <<p, first - 1 + (j - l)>>
      BY ONLY <3>1, <2>4, <1>5
    <3>3. first - 1 + (j - l) = first - 1 + (i - l) + (j - i)
      BY ONLY <1>3, <2>a, <2>b
    <3>4. ~(first - 1 + (i - l) + (j - i) = e + 1)
      BY ONLY <1>3, <2>a, <2>b
    <3>5. t[i][1] = p /\ t[i][2] = first - 1 + (i - l)
      BY ONLY <3>2
    <3> QED BY ONLY <3>2, <3>3, <3>4, <3>5, <1>4
  <2> QED BY <1>7, <2>2, <2>3, <2>4
<1>10. Complete(t)'
  <2>1. t[l + m] = <<p, first - 1 + m>> /\ first - 1 + m = e
    <3>1. m \in 1 .. m /\ first - 1 + m = e
      BY <1>3
    <3> QED BY <3>1, <1>5
  <2> QED BY <2>1, <1>2, <1>4 DEF Complete
<1> QED BY <1>1, <1>8, <1>9, <1>10 DEF Ordered

LEMMA BytesJoined ==
  \A s, t \in Seq(Byte) :
    /\ s \o t \in Seq(Byte) /\ Len(s \o t) = Len(s) + Len(t)
    /\ \A i \in 1 .. Len(s) : (s \o t)[i] = s[i]
    /\ \A i \in 1 .. Len(t) : (s \o t)[Len(s) + i] = t[i]
<1>1. ASSUME NEW s \in Seq(Byte), NEW t \in Seq(Byte)
      PROVE  /\ s \o t \in Seq(Byte) /\ Len(s \o t) = Len(s) + Len(t)
             /\ \A i \in 1 .. Len(s) : (s \o t)[i] = s[i]
             /\ \A i \in 1 .. Len(t) : (s \o t)[Len(s) + i] = t[i]
  BY Joined2
<1> QED BY <1>1

LEMMA BytesAssociate ==
  ASSUME NEW s \in Seq(Byte), NEW t \in Seq(Byte), NEW u \in Seq(Byte)
  PROVE  s \o (t \o u) = (s \o t) \o u
<1>1. (s \o t) \o u = s \o (t \o u)
  BY ONLY s \in Seq(Byte), t \in Seq(Byte), u \in Seq(Byte), ConcatAssociative, SMT
<1> QED BY ONLY <1>1

LEMMA Types ==
  ASSUME PacketTypeOK
  PROVE  /\ sizes \in Seq(PacketSize) /\ payload \in Seq(Byte) /\ under_way \in Seq(Byte)
         /\ input \in Seq(Byte) /\ m_buffer \in Seq(Byte) /\ got \in Seq(Byte)
         /\ events \in Seq(Kinds) /\ SizeOK(m_size) /\ m_size \in Nat
         /\ m_buffer \o input \in Seq(Byte) /\ Stream \in Seq(Byte)
         /\ Stream = m_buffer \o (input \o under_way)
         /\ \A e : IsQueued(e) <=> Has(events, e)
<1>1. /\ sizes \in Seq(PacketSize) /\ payload \in Seq(Byte) /\ under_way \in Seq(Byte)
      /\ input \in Seq(Byte) /\ m_buffer \in Seq(Byte) /\ got \in Seq(Byte)
      /\ events \in Seq(Kinds)
  BY DEF PacketTypeOK
<1>2. SizeOK(m_size)
  BY DEF PacketTypeOK, SizeOK
<1>3. m_size \in Nat
  <2>1. CASE m_size = 0
    BY <2>1
  <2>2. CASE m_size # 0
    <3>1. PICK n \in PacketSize : m_size \in 1 .. n
      BY <2>2, <1>2 DEF SizeOK
    <3>2. n \in Nat
      BY PacketAssumption
    <3> QED BY ONLY <3>1, <3>2
  <2> QED BY <2>1, <2>2
<1>4. m_buffer \o input \in Seq(Byte)
  BY <1>1, Joined2
<1>5. PICK q \in Seq(Byte) : q = m_buffer \o input
  BY <1>4
<1>6. q \o under_way \in Seq(Byte)
  BY <1>1, Joined2
<1>7. Stream = m_buffer \o (input \o under_way)
  <2>1. /\ m_buffer \in Seq(Byte) /\ input \in Seq(Byte) /\ under_way \in Seq(Byte)
    BY <1>1
  <2>2. (m_buffer \o input) \o under_way = m_buffer \o (input \o under_way)
    <3>1. PICK x \in Seq(Byte), y \in Seq(Byte), z \in Seq(Byte) :
            x = m_buffer /\ y = input /\ z = under_way
      BY <2>1
    <3>2. x \o (y \o z) = (x \o y) \o z
      BY ONLY x \in Seq(Byte), y \in Seq(Byte), z \in Seq(Byte), BytesAssociate, Zenon
    <3> QED BY ONLY <3>1, <3>2, Zenon
  <2> QED BY ONLY <2>2, Zenon DEF Stream
<1>8. \A e : IsQueued(e) <=> Has(events, e)
  BY DEF IsQueued, Has
<1> QED BY <1>1, <1>2, <1>3, <1>4, <1>5, <1>6, <1>7, <1>8 DEF Stream

\* The bytes of a new packet.
LEMMA PacketBytes ==
  ASSUME NEW m \in Nat, NEW p \in Nat \ {0}, NEW h \in Nat
  PROVE  /\ [i \in 1 .. m |-> <<p, h + i>>] \in Seq(Byte)
         /\ Len([i \in 1 .. m |-> <<p, h + i>>]) = m
<1>1. \A i \in 1 .. m : <<p, h + i>> \in Byte
  <2>1. \A i \in 1 .. m : h + i \in Nat \ {0}
    OBVIOUS
  <2> QED BY <2>1 DEF Byte
<1> QED BY <1>1

LEMMA PeerWritesKeeps ==
  ASSUME StreamInv, NEW n \in PacketSize, PeerWrites(n)
  PROVE  StreamInv'
<1>1. /\ sizes \in Seq(PacketSize) /\ payload \in Seq(Byte) /\ under_way \in Seq(Byte)
      /\ input \in Seq(Byte) /\ m_buffer \in Seq(Byte) /\ got \in Seq(Byte)
      /\ events \in Seq(Kinds) /\ m_size \in Nat
      /\ m_buffer \o input \in Seq(Byte) /\ Stream \in Seq(Byte)
  BY Types DEF StreamInv
<1>2. PICK p, a, b : /\ p = Len(sizes) + 1
                     /\ a = [i \in 1 .. n |-> <<p, HeaderSize + i>>]
                     /\ b = [i \in 1 .. HeaderSize + n |-> <<p, i>>]
  OBVIOUS
<1>3. /\ ~ended /\ ~broken /\ sizes' = Append(sizes, n) /\ payload' = payload \o a
      /\ under_way' = under_way \o b /\ Len(sizes) < MaxPackets
      /\ UNCHANGED <<onServer, overTls, ended, broken, cut, input, events, m_buffer, m_size,
                     m_inputShutdown, reading, messages, got, closed>>
  BY <1>2 DEF PeerWrites, filterVars, listenerVars
<1>4. /\ p \in Nat \ {0} /\ HeaderSize \in Nat \ {0} /\ n \in Nat \ {0} /\ HeaderSize + n \in Nat
      /\ Len(sizes) \in Nat /\ p = Len(sizes) + 1 /\ MaxPackets \in Nat
  <2>1. HeaderSize \in Nat \ {0} /\ n \in Nat \ {0} /\ Len(sizes) \in Nat /\ MaxPackets \in Nat
    BY <1>1, PacketAssumption
  <2> QED BY <2>1, <1>2
<1>5. a \in Seq(Byte) /\ Len(a) = n /\ \A i \in 1 .. n : a[i] = <<p, HeaderSize + i>>
  <2>1. PICK h \in Nat : h = HeaderSize
    BY <1>4
  <2>2. a = [i \in 1 .. n |-> <<p, h + i>>]
    BY <1>2, <2>1
  <2>3. PICK m \in Nat : m = n
    BY <1>4
  <2>4. /\ [i \in 1 .. m |-> <<p, h + i>>] \in Seq(Byte)
        /\ Len([i \in 1 .. m |-> <<p, h + i>>]) = m
    BY ONLY <1>4, m \in Nat, h \in Nat, PacketBytes
  <2> QED BY <2>1, <2>2, <2>3, <2>4
<1>6. /\ b \in Seq(Byte) /\ Len(b) = HeaderSize + n
      /\ \A i \in 1 .. HeaderSize + n : b[i] = <<p, i>>
  <2>1. PICK m \in Nat : m = HeaderSize + n
    BY <1>4
  <2>2. [i \in 1 .. m |-> <<p, 0 + i>>] = [i \in 1 .. m |-> <<p, i>>]
    OBVIOUS
  <2>3. b = [i \in 1 .. m |-> <<p, 0 + i>>]
    BY <1>2, <2>1, <2>2
  <2>4. /\ [i \in 1 .. m |-> <<p, 0 + i>>] \in Seq(Byte)
        /\ Len([i \in 1 .. m |-> <<p, 0 + i>>]) = m
    BY ONLY <1>4, m \in Nat, PacketBytes
  <2> QED BY <2>1, <2>3, <2>4, <1>2
<1>7. (m_buffer \o input) \o (under_way \o b) = ((m_buffer \o input) \o under_way) \o b
  <2>1. PICK u \in Seq(Byte) : u = m_buffer \o input
    BY <1>1
  <2>2. u \o (under_way \o b) = (u \o under_way) \o b
    <3>1. under_way \in Seq(Byte) /\ b \in Seq(Byte)
      BY <1>1, <1>6
    <3> QED BY ONLY u \in Seq(Byte), <3>1, BytesAssociate
  <2> QED BY <2>1, <2>2
<1>8. Ordered(payload, HeaderSize + 1)' /\ Complete(payload)'
  <2>1. PICK s \in Seq(Byte), first \in 1 .. HeaderSize + 1 : s = payload /\ first = HeaderSize + 1
    BY <1>1, <1>4
  <2>2. Ordered(s, first) /\ Complete(s)
    BY <2>1 DEF StreamInv, StreamBytesInv
  <2>3. /\ Len(a) = HeaderSize + n - (first - 1)
        /\ \A i \in 1 .. Len(a) : a[i] = <<Len(sizes) + 1, first - 1 + i>>
    <3>1. first - 1 = HeaderSize /\ HeaderSize + n - (first - 1) = n
      BY <2>1, <1>4
    <3> QED BY <3>1, <1>4, <1>5
  <2>4. Ordered(s \o a, first)' /\ Complete(s \o a)'
    BY <2>2, <2>3, <1>1, <1>3, <1>5, PacketAdded
  <2>5. PICK t : t = s \o a
    OBVIOUS
  <2>6. InPackets(t, first)' /\ Follows(t, first)' /\ Complete(t)'
    BY <2>4, <2>5 DEF Ordered
  <2>7. payload' = t /\ first = HeaderSize + 1
    BY <2>1, <2>5, <1>3
  <2>8. InPackets(payload, HeaderSize + 1)'
    BY ONLY <2>6, <2>7 DEF InPackets, EndOf
  <2>9. Follows(payload, HeaderSize + 1)'
    BY ONLY <2>6, <2>7 DEF Follows, EndOf
  <2>10. Complete(payload)'
    BY ONLY <2>6, <2>7 DEF Complete, EndOf
  <2> QED BY <2>8, <2>9, <2>10, <1>3 DEF Ordered
<1>9. Ordered(Stream, 1)' /\ (~cut => Complete(Stream)')
  <2>1. PICK s \in Seq(Byte), first \in 1 .. HeaderSize + 1 : s = Stream /\ first = 1
    <3>1. 1 \in 1 .. HeaderSize + 1
      BY <1>4
    <3> QED BY <3>1, <1>1
  <2>2. Ordered(s, first) /\ Complete(s)
    BY <2>1, <1>3 DEF StreamInv, StreamBytesInv
  <2>3. /\ Len(b) = HeaderSize + n - (first - 1)
        /\ \A i \in 1 .. Len(b) : b[i] = <<Len(sizes) + 1, first - 1 + i>>
    <3>1. first - 1 = 0 /\ HeaderSize + n - (first - 1) = HeaderSize + n
      BY <2>1, <1>4
    <3>2. \A i \in 1 .. HeaderSize + n : first - 1 + i = i
      BY <2>1, <1>4
    <3> QED BY <3>1, <3>2, <1>4, <1>6
  <2>4. Ordered(s \o b, first)' /\ Complete(s \o b)'
    BY <2>2, <2>3, <1>1, <1>3, <1>6, PacketAdded
  <2>5. PICK t : t = s \o b
    OBVIOUS
  <2>6. InPackets(t, first)' /\ Follows(t, first)' /\ Complete(t)'
    BY <2>4, <2>5 DEF Ordered
  <2>7. Stream' = t /\ first = 1
    <3> QED BY <1>7, <2>1, <2>5, <1>3 DEF Stream
  <2>8. InPackets(Stream, 1)'
    BY ONLY <2>6, <2>7 DEF InPackets, EndOf
  <2>9. Follows(Stream, 1)'
    BY ONLY <2>6, <2>7 DEF Follows, EndOf
  <2>10. Complete(Stream)'
    BY ONLY <2>6, <2>7 DEF Complete, EndOf
  <2> QED BY <2>8, <2>9, <2>10 DEF Ordered
<1>10. /\ Len(payload') = Len(payload) + n
       /\ \A i \in 1 .. Len(payload) : payload'[i] = payload[i]
       /\ \A i \in 1 .. n : payload'[Len(payload) + i] = <<p, HeaderSize + i>>
       /\ payload' \in Seq(Byte) /\ under_way' \in Seq(Byte)
  <2>1. /\ payload \o a \in Seq(Byte) /\ Len(payload \o a) = Len(payload) + Len(a)
        /\ \A i \in 1 .. Len(payload) : (payload \o a)[i] = payload[i]
        /\ \A i \in 1 .. Len(a) : (payload \o a)[Len(payload) + i] = a[i]
    BY ONLY <1>1, <1>5, BytesJoined, Zenon
  <2>2. under_way \o b \in Seq(Byte)
    BY ONLY <1>1, <1>6, BytesJoined, Zenon
  <2> QED BY ONLY <2>1, <2>2, <1>3, <1>5
<1>11. /\ Stream' = Stream \o b /\ Stream' \in Seq(Byte) /\ Len(Stream') = Len(Stream) + (HeaderSize + n)
       /\ \A i \in 1 .. Len(Stream) : Stream'[i] = Stream[i]
       /\ \A i \in 1 .. HeaderSize + n : Stream'[Len(Stream) + i] = <<p, i>>
  <2>2. Stream' = Stream \o b
    BY <1>7, <1>3 DEF Stream
  <2>3. /\ Stream \o b \in Seq(Byte) /\ Len(Stream \o b) = Len(Stream) + Len(b)
        /\ \A i \in 1 .. Len(Stream) : (Stream \o b)[i] = Stream[i]
        /\ \A i \in 1 .. Len(b) : (Stream \o b)[Len(Stream) + i] = b[i]
    BY ONLY <1>1, <1>6, BytesJoined, Zenon
  <2> QED BY ONLY <2>2, <2>3, <1>6
<1>12. BytesAreRead'
  <2>1. Len(got) \in Nat /\ Len(payload) \in Nat /\ Len(got) <= Len(payload) /\ got = First(payload, Len(got))
    BY <1>1 DEF StreamInv, StreamBytesInv, BytesAreRead
  <2>2. PICK k \in 0 .. Len(payload) : k = Len(got)
    <3>1. PICK x \in Nat, y \in Nat : x = Len(payload) /\ y = Len(got)
      BY ONLY <2>1
    <3>2. y \in 0 .. x
      <4>1. y <= x
        BY ONLY <2>1, <3>1
      <4> QED BY ONLY <4>1
    <3> QED BY ONLY <3>1, <3>2, Zenon
  <2>3. First(payload, k) = First(payload \o a, k)
    BY ONLY <1>1, <1>5, <2>2, RestOfJoined, Zenon
  <2> QED BY <2>1, <2>2, <2>3, <1>3, <1>4, <1>10 DEF BytesAreRead
<1>13. Awaits(Stream, m_size, Len(got))' \/ closed
  <2>1. SUFFICES ASSUME ~closed
                 PROVE  Awaits(Stream, m_size, Len(got))'
    OBVIOUS
  <2>2. PICK g \in Nat : g = Len(got)
    BY <1>1
  <2>3. Awaits(Stream, m_size, g) /\ ~cut
    BY <2>1, <2>2, <1>3 DEF StreamInv, StreamBytesInv
  <2>4. Len(Stream) \in Nat /\ Len(payload) \in Nat
    BY <1>1
  <2>5. CASE Stream # << >>
    <3>1. 1 \in 1 .. Len(Stream) /\ Stream'[1] = Stream[1]
      BY <2>4, <2>5, <1>1, <1>11, ABytes
    <3>2. g < Len(payload)
      BY <2>3, <2>5 DEF Awaits
    <3>3. g + 1 \in 1 .. Len(payload)
      BY ONLY <3>2, <2>4, g \in Nat
    <3>4. g < Len(payload') /\ payload'[g + 1] = payload[g + 1]
      BY <3>2, <3>3, <2>4, <1>4, <1>10
    <3>5. Stream[1][1] \in 1 .. Len(sizes)
      BY <3>1 DEF StreamInv, StreamBytesInv, Ordered, InPackets
    <3>6. EndOf(Stream[1][1])' = EndOf(Stream[1][1])
      <4>1. \A q \in 1 .. Len(sizes) : sizes'[q] = sizes[q]
        BY <1>1, <1>3, <1>4
      <4> QED BY <4>1, <3>1, <3>5 DEF EndOf
    <3>7. Stream' # << >>
      BY <2>4, <3>1, <1>4, <1>11, ABytes
    <3> QED BY <3>1, <3>2, <3>4, <3>6, <3>7, <2>2, <2>3, <2>5, <1>3 DEF Awaits
  <2>6. CASE Stream = << >>
    <3>1. m_size = 0 /\ g = Len(payload)
      BY <2>3, <2>6 DEF Awaits
    <3>2. Len(Stream) = 0
      BY <2>6
    <3>3. Stream'[1] = <<p, 1>> /\ Stream' # << >>
      <4>1. 1 \in 1 .. HeaderSize + n /\ 0 + 1 = 1 /\ ~(0 + (HeaderSize + n) = 0)
        BY <1>4
      <4>2. Stream'[Len(Stream) + 1] = <<p, 1>>
        BY <4>1, <1>11
      <4> QED BY <4>1, <4>2, <3>2, <1>11, ABytes
    <3>4. g < Len(payload') /\ payload'[g + 1] = <<p, HeaderSize + 1>>
      <4>1. 1 \in 1 .. n /\ n \in Nat \ {0}
        BY ONLY <1>4
      <4>2. payload'[Len(payload) + 1] = <<p, HeaderSize + 1>>
        BY ONLY <4>1, <1>10, Zenon
      <4>3. Len(payload') = Len(payload) + n
        BY ONLY <1>10
      <4>4. g < Len(payload')
        BY ONLY <4>1, <4>3, <3>1, <2>4
      <4> QED BY ONLY <4>2, <4>4, <3>1
    <3>5. Stream'[1][1] = p /\ Stream'[1][2] = 1
      BY <3>3
    <3> QED BY <3>1, <3>3, <3>4, <3>5, <2>2, <1>3 DEF Awaits
  <2> QED BY <2>5, <2>6
<1>14. PacketTypeOK'
  <2>1. sizes' \in Seq(PacketSize) /\ Len(sizes') <= MaxPackets
    BY <1>1, <1>3, <1>4
  <2>2. payload' \in Seq(Byte) /\ under_way' \in Seq(Byte)
    BY ONLY <1>10
  <2>3. input' \in Seq(Byte) /\ m_buffer' \in Seq(Byte) /\ got' \in Seq(Byte)
    BY ONLY <1>1, <1>3
  <2> QED BY <2>1, <2>2, <2>3, <1>3 DEF StreamInv, PacketTypeOK
<1>15. StreamBytesInv'
  <2>1. ~closed => (m_size = 0 => Len(m_buffer) < HeaderSize)
    BY DEF StreamInv, StreamBytesInv
  <2>2. ~ended' /\ ~broken'
    BY <1>3
  <2>3. (cut => ended \/ broken) /\ (closed => ~reading)
    BY DEF StreamInv, StreamBytesInv
  <2> QED BY <2>1, <2>2, <2>3, <1>3, <1>8, <1>9, <1>12, <1>13 DEF StreamBytesInv
<1>16. StreamEventsInv'
  BY <1>3 DEF StreamInv, StreamEventsInv, IsQueued
<1>17. NoPacketIsStuck'
  <2>1. Oversize => Oversize'
    <3>1. \A i \in 1 .. Len(sizes) : i \in 1 .. Len(sizes') /\ sizes'[i] = sizes[i]
      BY <1>1, <1>3, <1>4
    <3> QED BY <3>1 DEF Oversize
  <2> QED BY <2>1, <1>3 DEF StreamInv, NoPacketIsStuck, IsReady, IsQueued
<1> QED BY <1>14, <1>15, <1>16, <1>17 DEF StreamInv

LEMMA ArriveKeeps ==
  ASSUME StreamInv, NEW n \in 1 .. Len(under_way), Arrive(n)
  PROVE  StreamInv'
<1>1. /\ sizes \in Seq(PacketSize) /\ payload \in Seq(Byte) /\ under_way \in Seq(Byte)
      /\ input \in Seq(Byte) /\ m_buffer \in Seq(Byte) /\ got \in Seq(Byte)
      /\ events \in Seq(Kinds) /\ m_buffer \o input \in Seq(Byte)
      /\ \A e : IsQueued(e) <=> Has(events, e)
  BY Types DEF StreamInv
<1>2. /\ ~ended /\ ~closed /\ input' = input \o First(under_way, n) /\ under_way' = Rest(under_way, n)
      /\ events' = events \o When(input = << >>, "ready")
      /\ UNCHANGED <<onServer, overTls, sizes, payload, ended, broken, cut, m_buffer, m_size,
                     m_inputShutdown, reading, messages, got, closed>>
  BY DEF Arrive, filterVars, listenerVars
<1>a. ~broken
  <2>1. PICK u \in Seq(Byte) : u = under_way
    BY <1>1
  <2>2. u # << >>
    BY <2>1
  <2> QED BY <2>1, <2>2 DEF StreamInv, StreamBytesInv
<1>3. PICK taken \in Seq(Byte), r \in Seq(Byte) :
        taken = First(under_way, n) /\ r = Rest(under_way, n) /\ taken \o r = under_way
  <2>1. PICK u \in Seq(Byte) : u = under_way
    BY <1>1
  <2>2. n \in 0 .. Len(u)
    BY ONLY <2>1, n \in 1 .. Len(under_way)
  <2>3. First(u, n) \in Seq(Byte) /\ Rest(u, n) \in Seq(Byte) /\ First(u, n) \o Rest(u, n) = u
    BY ONLY <2>2, u \in Seq(Byte), Parts
  <2> QED BY ONLY <2>1, <2>3
<1>4. input \o taken \in Seq(Byte) /\ input' = input \o taken /\ under_way' = r
  BY <1>1, <1>2, <1>3, BytesJoined
<1>5. Stream' = Stream
  <2>1. PICK i \in Seq(Byte), b \in Seq(Byte), u \in Seq(Byte), v \in Seq(Byte) :
          i = input /\ b = m_buffer /\ u = b \o i /\ v = i \o taken
    BY <1>1, <1>4
  <2>2. u \o taken \in Seq(Byte) /\ b \o v = u \o taken
    <3>1. u \o taken \in Seq(Byte)
      BY BytesJoined, Zenon
    <3>2. b \o (i \o taken) = (b \o i) \o taken
      <4>1. \A z \in Seq(Byte) : b \o (i \o z) = (b \o i) \o z
        BY ONLY b \in Seq(Byte), i \in Seq(Byte), BytesAssociate
      <4> QED BY ONLY <4>1, taken \in Seq(Byte), Zenon
    <3> QED BY <2>1, <3>1, <3>2, Zenon
  <2>3. (u \o taken) \o r = u \o (taken \o r)
    <3>1. u \o (taken \o r) = (u \o taken) \o r
      <4>1. \A z \in Seq(Byte) : u \o (taken \o z) = (u \o taken) \o z
        BY ONLY u \in Seq(Byte), taken \in Seq(Byte), BytesAssociate
      <4> QED BY ONLY <4>1, r \in Seq(Byte), Zenon
    <3> QED BY ONLY <3>1, Zenon
  <2> QED BY <2>1, <2>2, <2>3, <1>2, <1>3, <1>4 DEF Stream
<1>6. /\ events' \in Seq(Kinds)
      /\ \A e : Has(events', e) <=> Has(events, e) \/ (input = << >> /\ e = "ready")
      /\ EndIsLast(events) /\ ~Has(events, "end") => EndIsLast(events')
  <2>1. PICK c \in BOOLEAN : c = (input = << >>)
    OBVIOUS
  <2>2. "ready" \in Kinds
    BY DEF Kinds
  <2>3. PICK q \in Seq(Kinds) : q = events
    BY <1>1
  <2>4. PICK w : w = q \o When(c, "ready")
    OBVIOUS
  <2>5. /\ w \in Seq(Kinds)
        /\ \A x : Has(w, x) <=> Has(q, x) \/ (c /\ x = "ready")
        /\ EndIsLast(q) /\ ~Has(q, "end") => EndIsLast(w)
    BY <2>2, <2>4, EventAdded
  <2>6. events' = w
    BY <2>1, <2>3, <2>4, <1>2
  <2> QED BY ONLY <2>1, <2>3, <2>5, <2>6, Zenon
<1>7. PacketTypeOK'
  <2>1. PacketTypeOK /\ Byte' = Byte /\ under_way' \in Seq(Byte) /\ input' \in Seq(Byte)
    BY <1>3, <1>4 DEF StreamInv, Byte
  <2> QED BY ONLY <2>1, <1>2, <1>6 DEF PacketTypeOK
<1>8. StreamBytesInv'
  <2>1. Awaits(Stream, m_size, Len(got))' <=> Awaits(Stream, m_size, Len(got))
    BY <1>2, <1>5 DEF Awaits, EndOf
  <2>2. Ordered(payload, HeaderSize + 1)' <=> Ordered(payload, HeaderSize + 1)
    BY <1>2 DEF Ordered, InPackets, Follows, EndOf
  <2>3. Ordered(Stream, 1)' <=> Ordered(Stream, 1)
    BY <1>2, <1>5 DEF Ordered, InPackets, Follows, EndOf
  <2>4. (Complete(payload)' <=> Complete(payload)) /\ (Complete(Stream)' <=> Complete(Stream))
    BY <1>2, <1>5 DEF Complete, EndOf
  <2>5. BytesAreRead' <=> BytesAreRead
    BY <1>2 DEF BytesAreRead
  <2> QED BY <2>1, <2>2, <2>3, <2>4, <2>5, <1>2, <1>a DEF StreamInv, StreamBytesInv
<1>9. \A e : IsQueued(e)' <=> Has(events', e)
  BY DEF IsQueued, Has
<1>10. StreamEventsInv'
  BY <1>1, <1>2, <1>6, <1>9 DEF StreamInv, StreamEventsInv
<1>11. NoPacketIsStuck'
  <2>1. Oversize' <=> Oversize
    BY <1>2 DEF Oversize
  <2>2. Has(events', "ready") \/ closed \/ Oversize \/ cut
    BY <1>1, <1>6 DEF StreamInv, NoPacketIsStuck
  <2>3. Has(events, "inputReady") => Has(events', "inputReady")
    BY <1>6
  <2>4. ~cut
    BY <1>2, <1>a DEF StreamInv, StreamBytesInv
  <2> QED BY <2>1, <2>2, <2>3, <2>4, <1>1, <1>2, <1>9 DEF StreamInv, NoPacketIsStuck, IsReady
<1> QED BY <1>7, <1>8, <1>10, <1>11 DEF StreamInv

\* The stream loses its last bytes, u, if there are any.
LEMMA StreamIsCut ==
  ASSUME StreamInv, ~closed, NEW s \in Seq(Byte), NEW u \in Seq(Byte), Stream = s \o u, Stream' = s,
         u # << >> => cut', cut => cut', cut' => ended' \/ broken', under_way' = << >>,
         UNCHANGED <<sizes, payload, m_buffer, m_size, reading, got, closed>>
  PROVE  StreamBytesInv'
<1>1. /\ Len(Stream) = Len(s) + Len(u) /\ Len(s) \in Nat /\ Len(u) \in Nat
      /\ \A i \in 1 .. Len(s) : Stream[i] = s[i]
  <2>1. Len(s) \in Nat /\ Len(u) \in Nat
    OBVIOUS
  <2>2. Len(s \o u) = Len(s) + Len(u) /\ \A i \in 1 .. Len(s) : (s \o u)[i] = s[i]
    BY BytesJoined
  <2> QED BY <2>1, <2>2
<1>2. Ordered(s, 1)
  <2>1. \A i \in 1 .. Len(s) : 0 + i \in 1 .. Len(Stream) /\ s[i] = Stream[0 + i]
    BY <1>1
  <2>2. Ordered(Stream, 1) /\ Len(Stream) \in Nat
    BY <1>1 DEF StreamInv, StreamBytesInv
  <2>3. PICK z : z = Stream
    OBVIOUS
  <2>4. PICK n \in Nat : n = 0
    OBVIOUS
  <2>5. \A i \in 1 .. Len(s) : n + i \in 1 .. Len(z) /\ s[i] = z[n + i]
    BY ONLY <2>1, <2>3, <2>4
  <2>6. Ordered(z, 1) /\ Len(z) \in Nat
    BY ONLY <2>2, <2>3
  <2> QED BY ONLY <2>5, <2>6, <1>1, OrderedPart, Zenon
<1>3. ~cut' => ~cut /\ Stream = s /\ Complete(s)
  <2>1. s \o << >> = s
    BY ConcatEmptySeq
  <2> QED BY <2>1 DEF StreamInv, StreamBytesInv
<1>4. Awaits(Stream, m_size, Len(got))
  BY DEF StreamInv, StreamBytesInv
<1>5. Awaits(s, m_size, Len(got))' /\ (~cut' => Complete(s)')
  <2>1. CASE s # << >>
    <3>1. 1 \in 1 .. Len(s) /\ s[1] = Stream[1]
      BY <2>1, <1>1, ABytes
    <3>2. Stream # << >>
      <4>1. Stream \in Seq(Byte) /\ Len(Stream) # 0
        BY <3>1, <1>1, Types DEF StreamInv
      <4> QED BY <4>1, ABytes
    <3>3. Awaits(s, m_size, Len(got))'
      BY <2>1, <3>1, <3>2, <1>4 DEF Awaits, EndOf
    <3> QED BY <3>3, <1>3 DEF Complete, EndOf
  <2>2. CASE s = << >>
    <3>1. Awaits(s, m_size, Len(got))'
      BY <2>2, <1>3, <1>4 DEF Awaits
    <3> QED BY <2>2, <3>1 DEF Complete
  <2> QED BY <2>1, <2>2
<1>6. Ordered(payload, HeaderSize + 1)' /\ Complete(payload)'
  BY DEF StreamInv, StreamBytesInv, Ordered, InPackets, Follows, Complete, EndOf
<1>7. BytesAreRead'
  BY DEF StreamInv, StreamBytesInv, BytesAreRead
<1>8. Ordered(Stream, 1)'
  BY <1>2 DEF Ordered, InPackets, Follows, EndOf
<1>9. (~cut => Complete(Stream))' /\ Awaits(Stream, m_size, Len(got))'
  BY <1>5 DEF Complete, Awaits, EndOf
<1> QED BY <1>6, <1>7, <1>8, <1>9 DEF StreamInv, StreamBytesInv

\* What else such a step does: it adds events of the kinds in more.
LEMMA CutKeeps ==
  ASSUME StreamInv, ~ended, ~closed, StreamBytesInv', input' \in Seq(Byte), under_way' = << >>,
         ended' \in BOOLEAN, broken' \in BOOLEAN, cut' \in BOOLEAN, broken => broken', cut => cut',
         UNCHANGED <<onServer, overTls, sizes, payload, m_buffer, m_size, m_inputShutdown, reading,
                     messages, got, closed>>,
         input' # << >> => input # << >> \/ (cut' /\ (overTls \/ broken')),
         NEW more, more \subseteq {"disconnected", "end"}, "end" \in more => ended',
         events' \in Seq(Kinds), EndIsLast(events'),
         \A e : Has(events', e) <=> Has(events, e) \/ e \in more
  PROVE  StreamInv'
<1>1. (\A e : IsQueued(e) <=> Has(events, e)) /\ (\A e : IsQueued(e)' <=> Has(events', e))
  BY DEF IsQueued, Has
<1>2. StreamEventsInv'
  BY <1>1 DEF StreamInv, StreamEventsInv
<1>3. NoPacketIsStuck'
  BY <1>1 DEF StreamInv, NoPacketIsStuck, IsReady, Oversize
<1>4. PacketTypeOK'
  <2>1. << >> \in Seq(Byte)
    BY EmptySeq
  <2> QED BY <2>1 DEF StreamInv, PacketTypeOK, Byte
<1> QED BY <1>2, <1>3, <1>4 DEF StreamInv

LEMMA StreamEndsKeeps ==
  ASSUME StreamInv, StreamEnds
  PROVE  StreamInv'
<1>1. /\ under_way \in Seq(Byte) /\ input \in Seq(Byte) /\ m_buffer \in Seq(Byte)
      /\ events \in Seq(Kinds) /\ m_buffer \o input \in Seq(Byte)
      /\ \A e : IsQueued(e) <=> Has(events, e)
  BY Types DEF StreamInv
<1>2. /\ ~ended /\ ~closed /\ ended' = TRUE /\ cut' = (cut \/ under_way # << >>)
      /\ under_way' = << >> /\ events' = Append(events, "end")
      /\ UNCHANGED <<onServer, overTls, sizes, payload, broken, input, m_buffer, m_size,
                     m_inputShutdown, reading, messages, got, closed>>
  BY DEF StreamEnds, filterVars, listenerVars
<1>3. PICK s \in Seq(Byte), u \in Seq(Byte) : s = m_buffer \o input /\ u = under_way
  BY <1>1
<1>4. Stream = s \o u /\ Stream' = s
  <2>1. s \o << >> = s
    BY ConcatEmptySeq
  <2> QED BY <2>1, <1>2, <1>3 DEF Stream
<1>5. StreamBytesInv'
  BY <1>2, <1>3, <1>4, StreamIsCut
<1>6. /\ events' \in Seq(Kinds) /\ EndIsLast(events')
      /\ \A e : Has(events', e) <=> Has(events, e) \/ e \in {"end"}
  <2>1. "end" \in Kinds /\ TRUE \in BOOLEAN /\ events' = events \o When(TRUE, "end")
    BY <1>2, AppendIsWhen DEF Kinds
  <2>2. EndIsLast(events) /\ ~Has(events, "end")
    BY <1>1, <1>2 DEF StreamInv, StreamEventsInv
  <2> QED BY <2>1, <2>2, <1>1, EventAdded
<1>7. /\ ended' \in BOOLEAN /\ broken' \in BOOLEAN /\ cut' \in BOOLEAN /\ input' \in Seq(Byte)
      /\ (broken => broken') /\ (cut => cut')
  BY <1>1, <1>2 DEF StreamInv, PacketTypeOK
<1>8. PICK more : more = {"end"}
  OBVIOUS
<1> QED BY <1>2, <1>5, <1>6, <1>7, <1>8, CutKeeps

\* The bytes of the last run are read, whether it is a TLS connection that ends
\* or an error that is ignored.
LEMMA ReadsLastKeeps ==
  ASSUME StreamInv, NEW n \in 0 .. Len(under_way), ReadsLast(n),
         \/ /\ overTls /\ ended' = TRUE /\ UNCHANGED broken
            /\ events' = Append(Append(events, "disconnected"), "end")
         \/ ~overTls /\ broken' = TRUE /\ UNCHANGED <<ended, events>>
  PROVE  StreamInv'
<1>1. /\ under_way \in Seq(Byte) /\ input \in Seq(Byte) /\ m_buffer \in Seq(Byte)
      /\ events \in Seq(Kinds) /\ Stream = m_buffer \o (input \o under_way)
      /\ \A e : IsQueued(e) <=> Has(events, e)
  BY Types DEF StreamInv
<1>2. /\ ~ended /\ ~closed /\ input' = input \o First(under_way, n) /\ under_way' = << >>
      /\ cut' = (cut \/ n < Len(under_way) \/ (input = << >> /\ n > 0))
      /\ UNCHANGED <<onServer, overTls, sizes, payload, m_buffer, m_size, m_inputShutdown, reading,
                     messages, got, closed>>
  BY DEF ReadsLast, filterVars, listenerVars
<1>3. PICK taken \in Seq(Byte), u \in Seq(Byte) :
        /\ taken = First(under_way, n) /\ u = Rest(under_way, n) /\ taken \o u = under_way
        /\ Len(taken) = n /\ Len(u) = Len(under_way) - n
  <2>1. PICK w \in Seq(Byte) : w = under_way
    BY <1>1
  <2>2. n \in 0 .. Len(w)
    BY ONLY <2>1, n \in 0 .. Len(under_way)
  <2>3. /\ First(w, n) \in Seq(Byte) /\ Rest(w, n) \in Seq(Byte) /\ First(w, n) \o Rest(w, n) = w
        /\ Len(First(w, n)) = n /\ Len(Rest(w, n)) = Len(w) - n
    BY ONLY <2>2, w \in Seq(Byte), Parts
  <2> QED BY ONLY <2>1, <2>3
<1>4. PICK b \in Seq(Byte), i \in Seq(Byte), v \in Seq(Byte), s \in Seq(Byte) :
        b = m_buffer /\ i = input /\ v = i \o taken /\ s = b \o v
  <2>1. input \o taken \in Seq(Byte)
    BY <1>1, BytesJoined
  <2>2. m_buffer \o (input \o taken) \in Seq(Byte)
    BY <2>1, <1>1, BytesJoined
  <2> QED BY <2>1, <2>2, <1>1
<1>5. Stream = s \o u /\ Stream' = s /\ input' = v
  <2>1. i \o (taken \o u) = (i \o taken) \o u
    <3>1. \A z \in Seq(Byte) : i \o (taken \o z) = (i \o taken) \o z
      BY ONLY i \in Seq(Byte), taken \in Seq(Byte), BytesAssociate
    <3> QED BY ONLY <3>1, u \in Seq(Byte), Zenon
  <2>2. b \o (v \o u) = (b \o v) \o u
    <3>1. \A z \in Seq(Byte) : b \o (v \o z) = (b \o v) \o z
      BY ONLY b \in Seq(Byte), v \in Seq(Byte), BytesAssociate
    <3> QED BY ONLY <3>1, u \in Seq(Byte), Zenon
  <2>3. Stream = s \o u
    BY ONLY <2>1, <2>2, <1>1, <1>3, <1>4
  <2>4. input' = v
    BY ONLY <1>2, <1>3, <1>4
  <2>5. s \o << >> = s
    BY ONLY s \in Seq(Byte), ConcatEmptySeq
  <2>6. Stream' = s
    BY ONLY <2>4, <2>5, <1>2, <1>4 DEF Stream
  <2> QED BY <2>3, <2>4, <2>6
<1>6. /\ u # << >> => cut'
      /\ input' # << >> => input # << >> \/ cut'
  <2>1. u # << >> => n < Len(under_way)
    <3>1. Len(under_way) \in Nat
      BY <1>1
    <3>2. u # << >> => Len(u) # 0
      BY ABytes
    <3> QED BY ONLY <3>1, <3>2, <1>3
  <2>2. input = << >> /\ ~(n > 0) => v = << >>
    <3>1. ~(n > 0) => taken = << >>
      BY <1>3, ABytes
    <3>2. << >> \o << >> = << >>
      OBVIOUS
    <3> QED BY <3>1, <3>2, <1>4
  <2> QED BY <2>1, <2>2, <1>2, <1>5
<1>7. /\ ended' \in BOOLEAN /\ broken' \in BOOLEAN /\ cut' \in BOOLEAN /\ input' \in Seq(Byte)
      /\ (broken => broken') /\ (cut => cut') /\ (overTls \/ broken') /\ (ended' \/ broken')
  BY <1>2, <1>5 DEF StreamInv, PacketTypeOK
<1>8. StreamBytesInv'
  BY <1>2, <1>5, <1>6, <1>7, StreamIsCut
<1>9. EndIsLast(events) /\ ~Has(events, "end")
  BY <1>1, <1>2 DEF StreamInv, StreamEventsInv
<1>10. \E more : /\ more \subseteq {"disconnected", "end"} /\ ("end" \in more => ended')
                 /\ events' \in Seq(Kinds) /\ EndIsLast(events')
                 /\ \A e : Has(events', e) <=> Has(events, e) \/ e \in more
  <2>1. CASE UNCHANGED events
    <3>1. PICK more : more = {}
      OBVIOUS
    <3>2. more \subseteq {"disconnected", "end"} /\ ("end" \in more => ended')
      BY <3>1
    <3>3. events' \in Seq(Kinds) /\ EndIsLast(events')
      BY <2>1, <1>1, <1>9
    <3>4. \A e : Has(events', e) <=> Has(events, e) \/ e \in more
      BY <2>1, <3>1
    <3> QED BY ONLY <3>2, <3>3, <3>4
  <2>2. CASE ended' /\ events' = Append(Append(events, "disconnected"), "end")
    <3>1. "disconnected" \in Kinds /\ "end" \in Kinds /\ TRUE \in BOOLEAN
      BY DEF Kinds
    <3>2. PICK q : q = events \o When(TRUE, "disconnected")
      OBVIOUS
    <3>3. events' = q \o When(TRUE, "end")
      BY <2>2, <3>2, AppendIsWhen
    <3>4. /\ q \in Seq(Kinds) /\ EndIsLast(q)
          /\ \A e : Has(q, e) <=> Has(events, e) \/ e = "disconnected"
      BY <3>1, <3>2, <1>1, <1>9, EventAdded
    <3>5. /\ events' \in Seq(Kinds) /\ EndIsLast(events')
          /\ \A e : Has(events', e) <=> Has(q, e) \/ e = "end"
      BY <3>1, <3>3, <3>4, <1>9, EventAdded
    <3>6. PICK more : more = {"disconnected", "end"}
      OBVIOUS
    <3>7. more \subseteq {"disconnected", "end"} /\ ("end" \in more => ended')
      BY <2>2, <3>6
    <3>8. \A e : Has(events', e) <=> Has(events, e) \/ e \in more
      BY <3>4, <3>5, <3>6
    <3> QED BY ONLY <3>5, <3>7, <3>8
  <2> QED BY <2>1, <2>2
<1> QED BY <1>2, <1>6, <1>7, <1>8, <1>10, CutKeeps

LEMMA ConnectionBreaksKeeps ==
  ASSUME StreamInv, ConnectionBreaks
  PROVE  StreamInv'
<1>1. /\ under_way \in Seq(Byte) /\ input \in Seq(Byte) /\ m_buffer \in Seq(Byte)
      /\ events \in Seq(Kinds) /\ Stream = m_buffer \o (input \o under_way)
      /\ \A e : IsQueued(e) <=> Has(events, e)
  BY Types DEF StreamInv
<1>2. /\ ~ended /\ ~closed /\ ended' = TRUE /\ broken' = TRUE
      /\ cut' = (cut \/ under_way # << >> \/ input # << >>)
      /\ under_way' = << >> /\ input' = << >> /\ events' = Append(events, "disconnected")
      /\ UNCHANGED <<onServer, overTls, sizes, payload, m_buffer, m_size, m_inputShutdown, reading,
                     messages, got, closed>>
  BY DEF ConnectionBreaks, filterVars, listenerVars
<1>3. PICK s \in Seq(Byte), u \in Seq(Byte) : s = m_buffer /\ u = input \o under_way
  BY <1>1, BytesJoined
<1>4. Stream = s \o u /\ Stream' = s
  <2>1. s \o << >> = s
    BY ConcatEmptySeq
  <2>2. Stream' = (s \o << >>) \o << >>
    BY <1>2, <1>3 DEF Stream
  <2> QED BY <2>1, <2>2, <1>1, <1>3
<1>5. u # << >> => cut'
  <2>1. << >> \o << >> = << >>
    OBVIOUS
  <2> QED BY <2>1, <1>2, <1>3
<1>6. StreamBytesInv'
  BY <1>2, <1>3, <1>4, <1>5, StreamIsCut
<1>7. /\ events' \in Seq(Kinds) /\ EndIsLast(events')
      /\ \A e : Has(events', e) <=> Has(events, e) \/ e \in {"disconnected"}
  <2>1. /\ "disconnected" \in Kinds /\ TRUE \in BOOLEAN
        /\ events' = events \o When(TRUE, "disconnected")
    BY <1>2, AppendIsWhen DEF Kinds
  <2>2. EndIsLast(events)
    BY DEF StreamInv, StreamEventsInv
  <2> QED BY <2>1, <2>2, <1>1, EventAdded
<1>8. /\ ended' \in BOOLEAN /\ broken' \in BOOLEAN /\ cut' \in BOOLEAN /\ input' \in Seq(Byte)
      /\ (broken => broken') /\ (cut => cut')
  BY <1>2, EmptySeq DEF StreamInv, PacketTypeOK
<1>9. PICK more : more = {"disconnected"}
  OBVIOUS
<1> QED BY <1>2, <1>6, <1>7, <1>8, <1>9, CutKeeps

-----------------------------------------------------------------------------
(* The filter and the listener.                                            *)

\* What has been written, and what is said of it, stays as it is.
LEMMA PeerStays ==
  ASSUME StreamInv, UNCHANGED peerVars
  PROVE  /\ Written /\ Ordered(payload, HeaderSize + 1)' /\ Complete(payload)'
         /\ \A s \in Seq(Byte) : /\ Ordered(s, 1)' <=> Ordered(s, 1)
                                 /\ Complete(s)' <=> Complete(s)
                                 /\ \A m, n : Awaits(s, m, n)' <=> Awaits(s, m, n)
         /\ Oversize' <=> Oversize
         /\ sizes' = sizes /\ payload' = payload /\ under_way' = under_way /\ ended' = ended /\ cut' = cut
         /\ broken' = broken /\ overTls' = overTls
<1>1. /\ sizes' = sizes /\ payload' = payload /\ under_way' = under_way /\ ended' = ended
      /\ cut' = cut /\ broken' = broken /\ overTls' = overTls
  BY DEF peerVars
<1>2. Written
  BY Types DEF StreamInv, StreamBytesInv, Written
<1>3. Ordered(payload, HeaderSize + 1)' /\ Complete(payload)'
  BY <1>1 DEF StreamInv, StreamBytesInv, Ordered, InPackets, Follows, Complete, EndOf
<1>4. ASSUME NEW s \in Seq(Byte)
      PROVE  /\ Ordered(s, 1)' <=> Ordered(s, 1)
             /\ Complete(s)' <=> Complete(s)
             /\ \A m, n : Awaits(s, m, n)' <=> Awaits(s, m, n)
  <2>1. Ordered(s, 1)' <=> Ordered(s, 1)
    BY <1>1 DEF Ordered, InPackets, Follows, EndOf
  <2>2. Complete(s)' <=> Complete(s)
    BY <1>1 DEF Complete, EndOf
  <2>3. \A m, n : Awaits(s, m, n)' <=> Awaits(s, m, n)
    BY <1>1 DEF Awaits, EndOf
  <2> QED BY <2>1, <2>2, <2>3
<1>5. Oversize' <=> Oversize
  BY <1>1 DEF Oversize
<1> QED BY <1>1, <1>2, <1>3, <1>4, <1>5

\* What has to be seen of the bytes after a step of the filter or the listener.
LEMMA BytesAfter ==
  ASSUME StreamInv, UNCHANGED peerVars, NEW s \in Seq(Byte), Stream' = s, Ordered(s, 1),
         ~cut => Complete(s), BytesAreRead', NEW m, m_size' = m, NEW n, Len(got') = n,
         ~closed' => Awaits(s, m, n), ~closed' /\ m_size' = 0 => Len(m_buffer') < HeaderSize,
         closed' => ~reading'
  PROVE  StreamBytesInv'
<1>1. /\ Ordered(payload, HeaderSize + 1)' /\ Complete(payload)'
      /\ Ordered(s, 1)' /\ (~cut' => Complete(s)') /\ (~closed' => Awaits(s, m, n)')
      /\ ended' = ended /\ cut' = cut /\ under_way' = under_way /\ broken' = broken
  BY PeerStays
<1>2. Ordered(Stream, 1)' /\ (~cut => Complete(Stream))' /\ (~closed => Awaits(Stream, m_size, Len(got)))'
  BY <1>1 DEF Ordered, InPackets, Follows, Complete, Awaits, EndOf
<1> QED BY <1>1, <1>2 DEF StreamInv, StreamBytesInv

LEMMA HandleReadyKeeps ==
  ASSUME StreamInv, HandleReady
  PROVE  StreamInv'
<1>1. /\ sizes \in Seq(PacketSize) /\ payload \in Seq(Byte) /\ under_way \in Seq(Byte)
      /\ input \in Seq(Byte) /\ m_buffer \in Seq(Byte) /\ got \in Seq(Byte)
      /\ events \in Seq(Kinds) /\ Stream \in Seq(Byte) /\ SizeOK(m_size) /\ m_size \in Nat
      /\ Stream = m_buffer \o (input \o under_way)
      /\ \A e : IsQueued(e) <=> Has(events, e)
  BY Types DEF StreamInv
<1>2. PICK n, all, bad :
        /\ n \in (IF input = << >> THEN {0} ELSE 1 .. Len(input))
        /\ all = m_buffer \o First(input, n)
        /\ bad = (n > 0 /\ TooLong(m_size, all))
        /\ n = Len(input) \/ bad
        /\ input' = Rest(input, n)
        /\ m_size' = IF n > 0 THEN NextSize(m_size, all) ELSE m_size
        /\ m_buffer' = IF n > 0 THEN NextBuffer(m_size, all) ELSE m_buffer
        /\ events' = Tail(events) \o When(bad, "formatError")
        /\ reading' = ((m_size' # 0 /\ Len(m_buffer') >= m_size') # IsReady)
  BY DEF HandleReady, ReadyChanges
<1>3. /\ ~closed /\ ~reading /\ events # << >> /\ Head(events) = "ready"
      /\ UNCHANGED <<onServer, m_inputShutdown, messages, got, closed>> /\ UNCHANGED peerVars
  BY DEF HandleReady
<1>4. n \in 0 .. Len(input) /\ n \in Nat /\ (n = 0 <=> input = << >>)
  BY <1>1, <1>2, ABytes
<1>5. PICK taken \in Seq(Byte), r \in Seq(Byte) :
        /\ taken = First(input, n) /\ r = Rest(input, n) /\ taken \o r = input
        /\ Len(taken) = n /\ Len(r) = Len(input) - n
  <2>1. PICK i \in Seq(Byte) : i = input
    BY <1>1
  <2>2. /\ First(i, n) \in Seq(Byte) /\ Rest(i, n) \in Seq(Byte) /\ First(i, n) \o Rest(i, n) = i
        /\ Len(First(i, n)) = n /\ Len(Rest(i, n)) = Len(i) - n
    <3>1. n \in 0 .. Len(i)
      BY ONLY <2>1, <1>4
    <3> QED BY ONLY <3>1, i \in Seq(Byte), Parts
  <2> QED BY ONLY <2>1, <2>2
<1>6. PICK tail \in Seq(Byte) : tail = r \o under_way
  BY <1>1, BytesJoined
<1>7. all \in Seq(Byte) /\ all \o tail = Stream
  <2>1. PICK i \in Seq(Byte), b \in Seq(Byte), u \in Seq(Byte) : i = input /\ b = m_buffer /\ u = under_way
    BY <1>1
  <2>2. b \o taken \in Seq(Byte) /\ all = b \o taken
    BY <2>1, <1>2, <1>5, BytesJoined
  <2>3. (b \o taken) \o tail = b \o (taken \o tail)
    <3>1. b \o (taken \o tail) = (b \o taken) \o tail
      <4>1. \A z \in Seq(Byte) : b \o (taken \o z) = (b \o taken) \o z
        BY ONLY b \in Seq(Byte), taken \in Seq(Byte), BytesAssociate
      <4> QED BY ONLY <4>1, tail \in Seq(Byte), Zenon
    <3> QED BY ONLY <3>1, Zenon
  <2>4. taken \o (r \o u) = (taken \o r) \o u
    <3>1. \A z \in Seq(Byte) : taken \o (r \o z) = (taken \o r) \o z
      BY ONLY taken \in Seq(Byte), r \in Seq(Byte), BytesAssociate
    <3> QED BY ONLY <3>1, u \in Seq(Byte), Zenon
  <2>5. taken \o tail = i \o u
    BY ONLY <2>1, <2>4, <1>5, <1>6
  <2>6. b \o (i \o u) \in Seq(Byte) /\ Stream = b \o (i \o u)
    BY ONLY <2>1, <1>1
  <2> QED BY ONLY <2>2, <2>3, <2>5, <2>6
<1>8. /\ Ordered(all \o tail, 1) /\ (~cut => Complete(all \o tail))
      /\ Awaits(all \o tail, m_size, Len(got)) /\ Len(got) \in Nat
      /\ m_size = 0 => Len(m_buffer) < HeaderSize
  BY <1>1, <1>3, <1>7 DEF StreamInv, StreamBytesInv
<1>9. /\ m_buffer' \in Seq(Byte) /\ SizeOK(m_size')
      /\ Ordered(m_buffer' \o tail, 1) /\ (~cut => Complete(m_buffer' \o tail))
      /\ Awaits(m_buffer' \o tail, m_size', Len(got))
      /\ m_size' = 0 => Len(m_buffer') < HeaderSize
      /\ bad => Oversize
      /\ m_size # 0 => m_size' = m_size /\ Len(m_buffer') >= Len(m_buffer)
  <2>1. CASE n > 0
    <3>1. m_size' = NextSize(m_size, all) /\ m_buffer' = NextBuffer(m_size, all) /\ (bad <=> TooLong(m_size, all))
      <4>1. m_size' = NextSize(m_size, all) /\ m_buffer' = NextBuffer(m_size, all)
        BY ONLY <2>1, <1>2, Zenon
      <4>2. bad <=> TooLong(m_size, all)
        BY ONLY <2>1, <1>2, Zenon
      <4> QED BY ONLY <4>1, <4>2, Zenon
    <3>2. PICK k \in Nat : k = Len(got)
      BY <1>8
    <3>3. Written
      BY <1>3, PeerStays
    <3>4. /\ NextBuffer(m_size, all) \in Seq(Byte)
          /\ SizeOK(NextSize(m_size, all))
          /\ Ordered(NextBuffer(m_size, all) \o tail, 1)
          /\ ~cut => Complete(NextBuffer(m_size, all) \o tail)
          /\ Awaits(NextBuffer(m_size, all) \o tail, NextSize(m_size, all), k)
          /\ NextSize(m_size, all) = 0 => Len(NextBuffer(m_size, all)) < HeaderSize
          /\ TooLong(m_size, all) => Oversize
          /\ m_size # 0 => NextSize(m_size, all) = m_size /\ NextBuffer(m_size, all) = all
      BY <1>1, <1>7, <1>8, <3>2, <3>3, Settles
    <3>5. Len(all) >= Len(m_buffer)
      <4>1. PICK b \in Seq(Byte) : b = m_buffer
        BY <1>1
      <4>2. Len(b \o taken) = Len(b) + Len(taken) /\ Len(b) \in Nat /\ Len(taken) \in Nat
        BY BytesJoined
      <4> QED BY <4>1, <4>2, <1>2, <1>5
    <3> QED BY ONLY <3>1, <3>2, <3>4, <3>5
  <2>2. CASE ~(n > 0)
    <3>1. n = 0 /\ m_size' = m_size /\ m_buffer' = m_buffer /\ ~bad
      <4>1. n = 0
        BY ONLY <2>2, <1>4
      <4>2. m_size' = m_size /\ m_buffer' = m_buffer
        BY ONLY <2>2, <1>2, Zenon
      <4>3. ~bad
        BY ONLY <2>2, <1>2, Zenon
      <4> QED BY ONLY <4>1, <4>2, <4>3
    <3>2. all = m_buffer
      <4>1. PICK b \in Seq(Byte) : b = m_buffer
        BY <1>1
      <4>2. taken = << >>
        BY <3>1, <1>5, ABytes
      <4>3. b \o << >> = b
        BY ConcatEmptySeq
      <4> QED BY <4>1, <4>2, <4>3, <1>2, <1>5
    <3>3. Len(m_buffer) \in Nat
      BY <1>1
    <3> QED BY <3>1, <3>2, <3>3, <1>1, <1>8
  <2> QED BY <2>1, <2>2
<1>10. Stream' = m_buffer' \o tail /\ Stream' \in Seq(Byte)
  <2>1. PICK b \in Seq(Byte) : b = m_buffer'
    BY <1>9
  <2>2. PICK u \in Seq(Byte) : u = under_way
    BY <1>1
  <2>3. b \o (r \o u) = (b \o r) \o u
    BY ONLY b \in Seq(Byte), r \in Seq(Byte), u \in Seq(Byte), BytesAssociate, Zenon
  <2>4. b \o tail \in Seq(Byte)
    BY ONLY b \in Seq(Byte), tail \in Seq(Byte), BytesJoined
  <2>5. input' = r /\ under_way' = u
    BY <1>2, <1>3, <1>5, <2>2 DEF peerVars
  <2>6. Stream' = (b \o r) \o u
    BY ONLY <2>1, <2>5 DEF Stream
  <2> QED BY ONLY <2>1, <2>2, <2>3, <2>4, <2>6, <1>6
<1>11. StreamBytesInv'
  <2>1. PICK s \in Seq(Byte) : s = Stream'
    BY <1>10
  <2>2. BytesAreRead'
    BY <1>3, PeerStays DEF StreamInv, StreamBytesInv, BytesAreRead
  <2>3. /\ Ordered(s, 1) /\ (~cut => Complete(s)) /\ Awaits(s, m_size', Len(got)) /\ got' = got /\ ~closed'
    BY <2>1, <1>3, <1>9, <1>10
  <2>4. PICK m, k : m = m_size' /\ k = Len(got')
    OBVIOUS
  <2> QED BY <2>1, <2>2, <2>3, <2>4, <1>3, <1>9, BytesAfter
<1>12. /\ Tail(events) \in Seq(Kinds)
       /\ \A e : Has(events, e) <=> e = "ready" \/ Has(Tail(events), e)
       /\ EndIsLast(Tail(events))
  BY <1>1, <1>3, EventTaken DEF StreamInv, StreamEventsInv
<1>13. /\ events' \in Seq(Kinds) /\ EndIsLast(events')
       /\ \A e : Has(events', e) <=> Has(Tail(events), e) \/ (bad /\ e = "formatError")
  <2>1. "formatError" \in Kinds /\ bad \in BOOLEAN
    BY <1>2 DEF Kinds
  <2> QED BY <2>1, <1>2, <1>12, EventAdded
<1>14. \A e : IsQueued(e)' <=> Has(events', e)
  BY DEF IsQueued, Has
<1>15. StreamEventsInv'
  <2>1. ~m_inputShutdown /\ ~Has(events, "inputShutdown")
    BY <1>1, <1>3, <1>12 DEF StreamInv, StreamEventsInv
  <2>2. Has(events', "end") => ended'
    BY <1>1, <1>3, <1>12, <1>13, PeerStays DEF StreamInv, StreamEventsInv
  <2> QED BY <2>1, <2>2, <1>3, <1>12, <1>13, <1>14 DEF StreamEventsInv
<1>16. NoPacketIsStuck'
  <2>1. IsReady => IsReady' /\ Has(events, "inputReady")
    <3>1. SUFFICES ASSUME IsReady
                   PROVE  IsReady' /\ Has(events, "inputReady")
      OBVIOUS
    <3>2. Len(m_buffer) \in Nat /\ Len(m_buffer') \in Nat
      BY <1>1, <1>9
    <3>3. IsReady'
      BY <3>1, <3>2, <1>1, <1>9 DEF IsReady
    <3> QED BY <3>1, <3>3, <1>1, <1>3 DEF StreamInv, NoPacketIsStuck
  <2>2. IsReady' => reading' \/ Has(events', "inputReady")
    BY <2>1, <1>2, <1>12, <1>13 DEF IsReady
  <2>3. input' # << >> => Oversize'
    <3>1. SUFFICES ASSUME ~bad
                   PROVE  r = << >>
      BY <1>2, <1>3, <1>5, <1>9, PeerStays
    <3>2. Len(r) = 0
      BY <3>1, <1>1, <1>2, <1>5
    <3> QED BY <3>2, ABytes
  <2> QED BY <2>2, <2>3, <1>14 DEF NoPacketIsStuck
<1>17. PacketTypeOK'
  <2>1. reading' \in BOOLEAN
    BY <1>2
  <2> QED BY <2>1, <1>2, <1>3, <1>5, <1>9, <1>13 DEF StreamInv, PacketTypeOK, SizeOK, Byte, peerVars
<1> QED BY <1>11, <1>15, <1>16, <1>17 DEF StreamInv

LEMMA HandleEndKeeps ==
  ASSUME StreamInv, HandleEnd
  PROVE  StreamInv'
<1>1. /\ sizes \in Seq(PacketSize) /\ payload \in Seq(Byte) /\ under_way \in Seq(Byte)
      /\ input \in Seq(Byte) /\ m_buffer \in Seq(Byte) /\ got \in Seq(Byte)
      /\ events \in Seq(Kinds) /\ Stream \in Seq(Byte) /\ m_size \in Nat
      /\ \A e : IsQueued(e) <=> Has(events, e)
  BY Types DEF StreamInv
<1>2. /\ ~closed /\ ~reading /\ events # << >> /\ Head(events) = "end" /\ m_inputShutdown' = TRUE
      /\ UNCHANGED <<onServer, input, m_buffer, reading, messages, got>> /\ UNCHANGED peerVars
      /\ m_size' = m_size \/ m_size' = 0
      /\ ~closed' => m_size' = m_size /\ closed' = closed
      /\ closed' \in BOOLEAN
  BY DEF HandleEnd, StreamInv, PacketTypeOK
<1>3. PICK c \in BOOLEAN : events' = Tail(events) \o When(c, "formatError")
  <2>1. Tail(events) \o << >> = Tail(events)
    <3>1. Tail(events) \in Seq(Kinds)
      BY <1>1, <1>2, EventTaken
    <3> QED BY <3>1, ConcatEmptySeq
  <2>2. When(FALSE, "formatError") = << >>
    BY DEF When
  <2>3. \/ events' = Tail(events)
        \/ events' = Tail(events) \o When(m_size # 0, "formatError")
    BY DEF HandleEnd
  <2>4. CASE events' = Tail(events)
    BY ONLY <2>1, <2>2, <2>4
  <2>5. CASE events' = Tail(events) \o When(m_size # 0, "formatError")
    <3>1. (m_size # 0) \in BOOLEAN
      OBVIOUS
    <3> QED BY ONLY <3>1, <2>5
  <2> QED BY ONLY <2>3, <2>4, <2>5
<1>4. /\ Tail(events) \in Seq(Kinds)
      /\ \A e : Has(events, e) <=> e = "end" \/ Has(Tail(events), e)
      /\ EndIsLast(Tail(events))
      /\ ~Has(Tail(events), "ready") /\ ~Has(Tail(events), "end")
  BY <1>1, <1>2, EventTaken DEF StreamInv, StreamEventsInv
<1>5. /\ events' \in Seq(Kinds) /\ EndIsLast(events')
      /\ \A e : Has(events', e) <=> Has(Tail(events), e) \/ (c /\ e = "formatError")
  <2>1. "formatError" \in Kinds
    BY DEF Kinds
  <2> QED BY <2>1, <1>3, <1>4, EventAdded
<1>6. \A e : IsQueued(e)' <=> Has(events', e)
  BY DEF IsQueued, Has
<1>7. StreamBytesInv'
  <2>1. PICK s \in Seq(Byte) : s = Stream /\ s = Stream'
    BY <1>1, <1>2 DEF Stream, peerVars
  <2>2. BytesAreRead'
    BY <1>2, PeerStays DEF StreamInv, StreamBytesInv, BytesAreRead
  <2>3. PICK m, k : m = m_size' /\ k = Len(got')
    OBVIOUS
  <2>4. /\ Ordered(s, 1) /\ (~cut => Complete(s)) /\ got' = got /\ ~reading'
        /\ ~closed' => Awaits(s, m, k) /\ (m_size' = 0 => Len(m_buffer') < HeaderSize)
    BY <2>1, <2>3, <1>2 DEF StreamInv, StreamBytesInv
  <2> QED BY <2>1, <2>2, <2>3, <2>4, <1>2, BytesAfter
<1>8. StreamEventsInv'
  <2>1. ended' /\ ~Has(Tail(events), "inputShutdown")
    BY <1>1, <1>2, <1>4, PeerStays DEF StreamInv, StreamEventsInv
  <2> QED BY <2>1, <1>2, <1>4, <1>5, <1>6 DEF StreamEventsInv
<1>9. NoPacketIsStuck'
  <2>1. ~closed' => (IsReady' => IsReady)
    BY <1>2 DEF IsReady
  <2>2. ~closed' => (IsReady' => Has(events', "inputReady"))
    BY <2>1, <1>1, <1>2, <1>4, <1>5 DEF StreamInv, NoPacketIsStuck
  <2>3. input' # << >> /\ ~Oversize' =>
          Has(Tail(events), "ready") \/ closed' \/ (cut' /\ (overTls' \/ broken'))
    BY <1>1, <1>2, <1>4, PeerStays DEF StreamInv, NoPacketIsStuck
  <2> QED BY <2>2, <2>3, <1>4, <1>5, <1>6 DEF NoPacketIsStuck
<1>10. PacketTypeOK'
  BY <1>2, <1>5 DEF StreamInv, PacketTypeOK, Byte, peerVars
<1> QED BY <1>7, <1>8, <1>9, <1>10 DEF StreamInv

LEMMA HandleOwnKeeps ==
  ASSUME StreamInv, HandleOwn \/ HandleDisconnected
  PROVE  StreamInv'
<1>1. /\ sizes \in Seq(PacketSize) /\ payload \in Seq(Byte) /\ under_way \in Seq(Byte)
      /\ input \in Seq(Byte) /\ m_buffer \in Seq(Byte) /\ got \in Seq(Byte)
      /\ events \in Seq(Kinds) /\ Stream \in Seq(Byte) /\ m_size \in Nat
      /\ \A e : IsQueued(e) <=> Has(events, e)
  BY Types DEF StreamInv
<1>2. /\ ~closed /\ ~reading /\ events # << >> /\ events' = Tail(events)
      /\ \/ Head(events) = "inputReady" /\ reading' = TRUE /\ UNCHANGED closed
         \/ Head(events) = "inputShutdown" /\ closed' = TRUE /\ UNCHANGED reading
         \/ Head(events) = "formatError" /\ closed' = onServer /\ UNCHANGED reading
         \/ Head(events) = "disconnected" /\ closed' = ~onServer /\ UNCHANGED reading
      /\ UNCHANGED <<onServer, input, m_buffer, m_size, m_inputShutdown, messages, got>>
      /\ UNCHANGED peerVars
      /\ closed' \in BOOLEAN /\ reading' \in BOOLEAN
  BY DEF HandleOwn, HandleDisconnected, StreamInv, PacketTypeOK, filterVars
<1>3. /\ events' \in Seq(Kinds) /\ EndIsLast(events')
      /\ \A e : Has(events, e) <=> Head(events) = e \/ Has(events', e)
  BY <1>1, <1>2, EventTaken DEF StreamInv, StreamEventsInv
<1>4. \A e : IsQueued(e)' <=> Has(events', e)
  BY DEF IsQueued, Has
<1>5. StreamBytesInv'
  <2>1. PICK s \in Seq(Byte) : s = Stream /\ s = Stream'
    BY <1>1, <1>2 DEF Stream, peerVars
  <2>2. BytesAreRead'
    BY <1>2, PeerStays DEF StreamInv, StreamBytesInv, BytesAreRead
  <2>3. PICK m, k : m = m_size' /\ k = Len(got')
    OBVIOUS
  <2>4. /\ Ordered(s, 1) /\ (~cut => Complete(s)) /\ got' = got /\ (closed' => ~reading')
        /\ ~closed' => Awaits(s, m, k) /\ (m_size' = 0 => Len(m_buffer') < HeaderSize)
    BY <2>1, <2>3, <1>2 DEF StreamInv, StreamBytesInv
  <2> QED BY <2>1, <2>2, <2>3, <2>4, <1>2, BytesAfter
<1>6. StreamEventsInv'
  BY <1>1, <1>2, <1>3, <1>4, PeerStays DEF StreamInv, StreamEventsInv
<1>7. NoPacketIsStuck'
  <2>1. IsReady' => IsReady
    BY <1>2 DEF IsReady
  <2>2. ~closed' => (IsReady' => reading' \/ Has(events', "inputReady"))
    BY <2>1, <1>1, <1>2, <1>3 DEF StreamInv, NoPacketIsStuck
  <2>3. input' # << >> /\ ~Oversize' => Has(events', "ready") \/ (cut' /\ (overTls' \/ broken'))
    BY <1>1, <1>2, <1>3, PeerStays DEF StreamInv, NoPacketIsStuck
  <2> QED BY <2>2, <2>3, <1>4 DEF NoPacketIsStuck
<1>8. PacketTypeOK'
  BY <1>2, <1>3 DEF StreamInv, PacketTypeOK, Byte, peerVars
<1> QED BY <1>5, <1>6, <1>7, <1>8 DEF StreamInv

LEMMA ReturnsKeeps ==
  ASSUME StreamInv, Returns
  PROVE  StreamInv'
<1>1. /\ sizes \in Seq(PacketSize) /\ payload \in Seq(Byte) /\ under_way \in Seq(Byte)
      /\ input \in Seq(Byte) /\ m_buffer \in Seq(Byte) /\ got \in Seq(Byte)
      /\ events \in Seq(Kinds) /\ Stream \in Seq(Byte) /\ m_size \in Nat
      /\ \A e : IsQueued(e) <=> Has(events, e)
  BY Types DEF StreamInv
<1>2. /\ reading /\ reading' = FALSE /\ messages' = 0 /\ events' = events \o When(IsReady, "inputReady")
      /\ UNCHANGED <<onServer, input, m_buffer, m_size, m_inputShutdown, got, closed>>
      /\ UNCHANGED peerVars
  BY DEF Returns, GoesOnLater, filterVars
<1>3. /\ events' \in Seq(Kinds) /\ EndIsLast(events')
      /\ \A e : Has(events', e) <=> Has(events, e) \/ (IsReady /\ e = "inputReady")
  <2>1. "inputReady" \in Kinds /\ IsReady \in BOOLEAN
    BY DEF Kinds, IsReady
  <2>2. EndIsLast(events)
    BY DEF StreamInv, StreamEventsInv
  <2> QED BY <2>1, <2>2, <1>1, <1>2, EventAdded
<1>4. \A e : IsQueued(e)' <=> Has(events', e)
  BY DEF IsQueued, Has
<1>5. StreamBytesInv'
  <2>1. PICK s \in Seq(Byte) : s = Stream /\ s = Stream'
    BY <1>1, <1>2 DEF Stream, peerVars
  <2>2. BytesAreRead'
    BY <1>2, PeerStays DEF StreamInv, StreamBytesInv, BytesAreRead
  <2>3. PICK m, k : m = m_size' /\ k = Len(got')
    OBVIOUS
  <2>4. /\ Ordered(s, 1) /\ (~cut => Complete(s)) /\ got' = got /\ ~reading'
        /\ ~closed' => Awaits(s, m, k) /\ (m_size' = 0 => Len(m_buffer') < HeaderSize)
    BY <2>1, <2>3, <1>2 DEF StreamInv, StreamBytesInv
  <2> QED BY <2>1, <2>2, <2>3, <2>4, <1>2, BytesAfter
<1>6. StreamEventsInv'
  BY <1>1, <1>2, <1>3, <1>4, PeerStays DEF StreamInv, StreamEventsInv
<1>7. NoPacketIsStuck'
  <2>1. IsReady' => IsReady
    BY <1>2 DEF IsReady
  <2>2. IsReady' => Has(events', "inputReady")
    BY <2>1, <1>3
  <2>3. input' # << >> /\ ~closed' /\ ~Oversize' =>
          Has(events', "ready") \/ (cut' /\ (overTls' \/ broken'))
    BY <1>1, <1>2, <1>3, PeerStays DEF StreamInv, NoPacketIsStuck
  <2> QED BY <2>2, <2>3, <1>4 DEF NoPacketIsStuck
<1>8. PacketTypeOK'
  <2>1. 0 \in 0 .. MaxMessages
    BY PacketAssumption
  <2> QED BY <2>1, <1>2, <1>3 DEF StreamInv, PacketTypeOK, Byte, peerVars
<1> QED BY <1>5, <1>6, <1>7, <1>8 DEF StreamInv

LEMMA ReadPacketKeeps ==
  ASSUME StreamInv, NEW n \in 1 .. MaxLength, ReadPacket(n)
  PROVE  StreamInv'
<1>1. /\ sizes \in Seq(PacketSize) /\ payload \in Seq(Byte) /\ under_way \in Seq(Byte)
      /\ input \in Seq(Byte) /\ m_buffer \in Seq(Byte) /\ got \in Seq(Byte)
      /\ events \in Seq(Kinds) /\ Stream \in Seq(Byte) /\ SizeOK(m_size) /\ m_size \in Nat
      /\ Stream = m_buffer \o (input \o under_way)
      /\ \A e : IsQueued(e) <=> Has(events, e)
  BY Types DEF StreamInv
<1>2. PICK k, size, buffer :
        /\ k = TakesAtMost(n) /\ size = (IF m_size > k THEN m_size - k ELSE 0)
        /\ buffer = Rest(m_buffer, k)
        /\ reading /\ messages < MaxMessages /\ IsReady
        /\ got' = got \o First(m_buffer, k)
        /\ m_size' = NextSize(size, buffer)
        /\ m_buffer' = NextBuffer(size, buffer)
        /\ events' = events \o When(TooLong(size, buffer), "formatError") \o EndAfter(m_size')
        /\ messages' = messages + (IF size = 0 THEN 1 ELSE 0)
        /\ UNCHANGED <<onServer, input, m_inputShutdown, reading, closed>> /\ UNCHANGED peerVars
  BY DEF ReadPacket
<1>3. m_size \in Nat \ {0} /\ Len(m_buffer) >= m_size /\ ~closed
  BY <1>1, <1>2 DEF IsReady, StreamInv, StreamBytesInv
<1>4. k \in 1 .. m_size /\ size = m_size - k
  <2>1. n \in Nat \ {0} /\ k = IF n <= m_size THEN n ELSE m_size
    BY <1>2, PacketAssumption DEF TakesAtMost
  <2>2. k \in 1 .. m_size
    BY ONLY <2>1, <1>3
  <2> QED BY ONLY <2>2, <1>2, <1>3
<1>5. PICK tail \in Seq(Byte) : tail = input \o under_way
  BY <1>1, BytesJoined
<1>6. Stream = m_buffer \o tail
  BY <1>1, <1>5
<1>7. PICK l \in Nat, o \in Nat : l = Len(got) /\ o = l + k
  BY <1>1, <1>4, ABytes
<1>8. Written
  BY <1>2, PeerStays
<1>9. /\ Ordered(m_buffer \o tail, 1) /\ (~cut => Complete(m_buffer \o tail)) /\ BytesAreRead
      /\ Awaits(m_buffer \o tail, m_size, Len(got))
  BY <1>3, <1>6 DEF StreamInv, StreamBytesInv
<1>10. /\ buffer \in Seq(Byte) /\ Ordered(buffer \o tail, 1) /\ (~cut => Complete(buffer \o tail))
       /\ Awaits(buffer \o tail, size, o) /\ SizeOK(size)
       /\ got' \in Seq(Byte) /\ Len(got') = o /\ o <= Len(payload) /\ got' = First(payload, o)
  <2>1. /\ Rest(m_buffer, k) \in Seq(Byte)
        /\ Ordered(Rest(m_buffer, k) \o tail, 1)
        /\ ~cut => Complete(Rest(m_buffer, k) \o tail)
        /\ Awaits(Rest(m_buffer, k) \o tail, m_size - k, Len(got) + k)
        /\ SizeOK(m_size - k)
        /\ got \o First(m_buffer, k) \in Seq(Byte) /\ Len(got \o First(m_buffer, k)) = Len(got) + k
        /\ Len(got) + k <= Len(payload)
        /\ got \o First(m_buffer, k) = First(payload, Len(got) + k)
    BY <1>1, <1>3, <1>4, <1>8, <1>9, Takes
  <2>2. /\ buffer = Rest(m_buffer, k) /\ size = m_size - k /\ Len(got) + k = o
        /\ got' = got \o First(m_buffer, k)
    BY <1>2, <1>4, <1>7
  <2> QED BY ONLY <2>1, <2>2
<1>11. /\ m_buffer' \in Seq(Byte) /\ SizeOK(m_size')
       /\ Ordered(m_buffer' \o tail, 1) /\ (~cut => Complete(m_buffer' \o tail))
       /\ Awaits(m_buffer' \o tail, m_size', o)
       /\ m_size' = 0 => Len(m_buffer') < HeaderSize
  <2>1. /\ NextBuffer(size, buffer) \in Seq(Byte)
        /\ SizeOK(NextSize(size, buffer))
        /\ Ordered(NextBuffer(size, buffer) \o tail, 1)
        /\ ~cut => Complete(NextBuffer(size, buffer) \o tail)
        /\ Awaits(NextBuffer(size, buffer) \o tail, NextSize(size, buffer), o)
        /\ NextSize(size, buffer) = 0 => Len(NextBuffer(size, buffer)) < HeaderSize
    BY <1>8, <1>10, Settles
  <2>2. m_size' = NextSize(size, buffer) /\ m_buffer' = NextBuffer(size, buffer)
    BY <1>2
  <2> QED BY ONLY <2>1, <2>2
<1>12. Stream' = m_buffer' \o tail /\ Stream' \in Seq(Byte)
  <2>1. PICK b \in Seq(Byte), i \in Seq(Byte), u \in Seq(Byte) : b = m_buffer' /\ i = input /\ u = under_way
    BY <1>1, <1>11
  <2>2. b \o (i \o u) = (b \o i) \o u
    BY ONLY b \in Seq(Byte), i \in Seq(Byte), u \in Seq(Byte), BytesAssociate, Zenon
  <2>3. b \o tail \in Seq(Byte)
    BY ONLY b \in Seq(Byte), tail \in Seq(Byte), BytesJoined
  <2>4. input' = i /\ under_way' = u
    BY <2>1, <1>2 DEF peerVars
  <2>5. Stream' = (b \o i) \o u
    BY ONLY <2>1, <2>4 DEF Stream
  <2> QED BY ONLY <2>1, <2>2, <2>3, <2>5, <1>5
<1>13. StreamBytesInv'
  <2>1. PICK s \in Seq(Byte) : s = Stream'
    BY <1>12
  <2>2. BytesAreRead'
    BY <1>10, <1>2, PeerStays DEF BytesAreRead
  <2>3. PICK m : m = m_size'
    OBVIOUS
  <2>4. /\ Ordered(s, 1) /\ (~cut => Complete(s)) /\ Awaits(s, m, o) /\ ~closed' /\ Len(got') = o
        /\ m_size' = 0 => Len(m_buffer') < HeaderSize
    BY <2>1, <2>3, <1>2, <1>3, <1>10, <1>11, <1>12
  <2> QED BY <2>1, <2>2, <2>3, <2>4, <1>2, BytesAfter
<1>14. PICK q, c, d :
         /\ q = events \o When(c, "formatError") /\ c \in BOOLEAN /\ d \in BOOLEAN
         /\ events' = q \o When(d, "inputShutdown")
         /\ d <=> m_inputShutdown /\ m_size' = 0
  <2>1. /\ TooLong(size, buffer) \in BOOLEAN
        /\ (m_inputShutdown /\ m_size' = 0) \in BOOLEAN
    BY DEF TooLong
  <2>2. events' = (events \o When(TooLong(size, buffer), "formatError"))
                    \o When(m_inputShutdown /\ m_size' = 0, "inputShutdown")
    BY <1>2 DEF EndAfter
  <2> QED BY <2>1, <2>2
<1>15. /\ q \in Seq(Kinds) /\ EndIsLast(q)
       /\ \A e : Has(q, e) <=> Has(events, e) \/ (c /\ e = "formatError")
  <2>1. "formatError" \in Kinds /\ EndIsLast(events)
    BY DEF Kinds, StreamInv, StreamEventsInv
  <2> QED BY <2>1, <1>1, <1>14, EventAdded
<1>16. /\ events' \in Seq(Kinds) /\ EndIsLast(events')
       /\ \A e : Has(events', e) <=> Has(q, e) \/ (d /\ e = "inputShutdown")
  <2>1. "inputShutdown" \in Kinds
    BY DEF Kinds
  <2> QED BY <2>1, <1>14, <1>15, EventAdded
<1>17. \A e : IsQueued(e)' <=> Has(events', e)
  BY DEF IsQueued, Has
<1>18. StreamEventsInv'
  <2>1. ~Has(events, "inputShutdown")
    BY <1>1, <1>3 DEF StreamInv, StreamEventsInv
  <2>2. /\ Has(events', "end") <=> Has(events, "end")
        /\ Has(events', "ready") <=> Has(events, "ready")
        /\ Has(events', "inputShutdown") => d
    BY <2>1, <1>15, <1>16
  <2>3. d => m_inputShutdown /\ m_size' = 0
    BY ONLY <1>14, Zenon
  <2> QED BY <2>2, <2>3, <1>1, <1>2, <1>16, <1>17, PeerStays DEF StreamInv, StreamEventsInv
<1>19. NoPacketIsStuck'
  <2>1. Has(events', "ready") <=> Has(events, "ready")
    BY <1>15, <1>16
  <2> QED BY <2>1, <1>1, <1>2, <1>17, PeerStays DEF StreamInv, NoPacketIsStuck
<1>20. PacketTypeOK'
  <2>1. messages' \in 0 .. MaxMessages
    BY <1>2, PacketAssumption DEF StreamInv, PacketTypeOK
  <2> QED BY <2>1, <1>2, <1>10, <1>11, <1>16 DEF StreamInv, PacketTypeOK, SizeOK, Byte, peerVars
<1> QED BY <1>13, <1>18, <1>19, <1>20 DEF StreamInv

\* The listener and the filter are as they are before anything is written.
LEMMA StreamInit == PacketInit => StreamInv
<1> SUFFICES ASSUME PacketInit
             PROVE  StreamInv
  OBVIOUS
<1>1. << >> \in Seq(Byte) /\ << >> \in Seq(PacketSize) /\ << >> \in Seq(Kinds) /\ Len(<< >>) = 0
  BY EmptySeq
<1>2. Stream = << >> /\ Len(<< >>) = 0
  <2>1. << >> \o << >> = << >>
    OBVIOUS
  <2> QED BY <2>1, <1>1 DEF Stream, PacketInit
<1>3. PacketTypeOK
  <2>1. 0 \in 0 .. MaxMessages /\ 0 <= MaxPackets
    BY PacketAssumption
  <2> QED BY <2>1, <1>1 DEF PacketInit, PacketTypeOK, Byte
<1>4. BytesAreRead
  <2>1. First(<< >>, 0) = << >>
    BY <1>1, EmptySeq DEF First
  <2> QED BY <2>1, <1>1 DEF PacketInit, BytesAreRead
<1>5. StreamBytesInv
  <2>1. \A x : Ordered(<< >>, x)
    BY <1>1 DEF Ordered, InPackets, Follows
  <2>2. Complete(<< >>)
    BY DEF Complete
  <2>3. Awaits(<< >>, 0, 0)
    BY <1>1 DEF Awaits, PacketInit
  <2>4. 0 < HeaderSize
    BY PacketAssumption
  <2> QED BY <2>1, <2>2, <2>3, <2>4, <1>1, <1>2, <1>4 DEF PacketInit, StreamBytesInv
<1>6. StreamEventsInv /\ NoPacketIsStuck
  BY <1>1 DEF PacketInit, StreamEventsInv, EndIsLast, IsQueued, NoPacketIsStuck, IsReady
<1> QED BY <1>3, <1>5, <1>6 DEF StreamInv

LEMMA StreamStutters ==
  ASSUME StreamInv, UNCHANGED packetVars
  PROVE  StreamInv'
<1>1. StreamBytesInv'
  <2>1. UNCHANGED <<sizes, payload, under_way, ended, broken, cut, input, m_buffer, m_size, reading,
                    got, closed>>
    BY DEF packetVars
  <2>2. Ordered(payload, HeaderSize + 1)' /\ Complete(payload)'
    BY <2>1 DEF StreamInv, StreamBytesInv, Ordered, InPackets, Follows, Complete, EndOf
  <2>3. Ordered(Stream, 1)'
    <3>1. PICK s : s = Stream /\ s = Stream'
      BY <2>1 DEF Stream
    <3>2. Ordered(s, 1)
      BY <3>1 DEF StreamInv, StreamBytesInv
    <3>3. InPackets(s, 1)' /\ Follows(s, 1)'
      BY <2>1, <3>2 DEF Ordered, InPackets, Follows, EndOf
    <3> QED BY <3>1, <3>3 DEF Ordered, InPackets, Follows
  <2>4. (~cut => Complete(Stream))'
    BY <2>1 DEF StreamInv, StreamBytesInv, Complete, Stream, EndOf
  <2>5. (~closed => Awaits(Stream, m_size, Len(got)) /\ (m_size = 0 => Len(m_buffer) < HeaderSize))'
    BY <2>1 DEF StreamInv, StreamBytesInv, Awaits, Stream, EndOf
  <2>6. BytesAreRead'
    BY <2>1 DEF StreamInv, StreamBytesInv, BytesAreRead
  <2> QED BY <2>1, <2>2, <2>3, <2>4, <2>5, <2>6 DEF StreamInv, StreamBytesInv
<1>2. StreamEventsInv' /\ NoPacketIsStuck'
  BY DEF packetVars, StreamInv, StreamEventsInv, EndIsLast, IsQueued, NoPacketIsStuck, IsReady, Oversize
<1>3. PacketTypeOK'
  BY DEF packetVars, StreamInv, PacketTypeOK, Byte
<1> QED BY <1>1, <1>2, <1>3 DEF StreamInv

LEMMA StreamStep == StreamInv /\ [PacketNext]_packetVars => StreamInv'
<1> SUFFICES ASSUME StreamInv, [PacketNext]_packetVars
             PROVE  StreamInv'
  OBVIOUS
<1>1. ASSUME NEW n \in PacketSize, PeerWrites(n) PROVE StreamInv'
  BY <1>1, PeerWritesKeeps
<1>2. ASSUME NEW n \in 1 .. Len(under_way), Arrive(n) PROVE StreamInv'
  BY <1>2, ArriveKeeps
<1>3. CASE StreamEnds
  BY <1>3, StreamEndsKeeps
<1>4. CASE HandleReady
  BY <1>4, HandleReadyKeeps
<1>5. CASE HandleEnd
  BY <1>5, HandleEndKeeps
<1>6. CASE HandleOwn \/ HandleDisconnected
  BY <1>6, HandleOwnKeeps
<1>10. CASE ConnectionBreaks
  BY <1>10, ConnectionBreaksKeeps
<1>11. ASSUME NEW n \in 0 .. Len(under_way), SecureEnds(n) \/ ErrorIsIgnored(n) PROVE StreamInv'
  BY <1>11, ReadsLastKeeps DEF SecureEnds, ErrorIsIgnored
<1>7. CASE Returns
  BY <1>7, ReturnsKeeps
<1>8. ASSUME NEW n \in 1 .. MaxLength, ReadPacket(n) PROVE StreamInv'
  BY <1>8, ReadPacketKeeps
<1>9. CASE UNCHANGED packetVars
  BY <1>9, StreamStutters
<1> QED
  BY <1>1, <1>2, <1>3, <1>4, <1>5, <1>6, <1>7, <1>8, <1>9, <1>10, <1>11 DEF PacketNext, MainStep

LEMMA StreamCorrect == PacketSpec => []StreamInv
<1> QED BY StreamInit, StreamStep, PTL DEF PacketSpec

\* What has come to its end, with no packet left in the filter, has been read.
LEMMA NothingUnread ==
  ASSUME StreamInv, ~closed, ~IsReady, ended, input = << >>, ~cut
  PROVE  got = payload
<1>1. /\ sizes \in Seq(PacketSize) /\ payload \in Seq(Byte) /\ m_buffer \in Seq(Byte)
      /\ got \in Seq(Byte) /\ m_size \in Nat
  BY Types DEF StreamInv
<1>2. Stream = m_buffer
  <2>1. m_buffer \o << >> = m_buffer
    BY <1>1, ConcatEmptySeq
  <2>2. under_way = << >>
    BY DEF StreamInv, StreamBytesInv
  <2> QED BY <2>1, <2>2 DEF Stream
<1>3. /\ Ordered(m_buffer, 1) /\ Complete(m_buffer) /\ Awaits(m_buffer, m_size, Len(got))
      /\ m_size = 0 => Len(m_buffer) < HeaderSize
  BY <1>2 DEF StreamInv, StreamBytesInv
<1>4. m_buffer = << >>
  <2> SUFFICES ASSUME m_buffer # << >>
               PROVE  FALSE
    OBVIOUS
  <2>1. 1 \in 1 .. Len(m_buffer) /\ Len(m_buffer) \in Nat
    BY <1>1, ABytes
  <2>2. PICK p, o, e : p = m_buffer[1][1] /\ o = m_buffer[1][2] /\ e = EndOf(p)
    OBVIOUS
  <2>3. p \in 1 .. Len(sizes) /\ o \in Nat
    <3>1. 1 \in Nat \ {0}
      OBVIOUS
    <3>2. m_buffer[1][1] \in 1 .. Len(sizes)
      BY <1>3, <2>1 DEF Ordered, InPackets
    <3>3. m_buffer[1][2] \in Nat
      BY <1>1, <2>1, ABytes
    <3> QED BY <2>2, <3>2, <3>3
  <2>4. e \in Nat /\ e > HeaderSize /\ HeaderSize \in Nat
    BY <1>1, <2>2, <2>3, Ends
  <2>5. 1 + (e - o) <= Len(m_buffer)
    <3>1. 1 \in Nat \ {0}
      OBVIOUS
    <3>2. 1 + (EndOf(m_buffer[1][1]) - m_buffer[1][2]) <= Len(m_buffer)
      BY <1>1, <1>3, <2>1, <3>1, RestOfPacket
    <3> QED BY ONLY <2>2, <3>2
  <2>6. /\ m_size = 0 => o = 1
        /\ m_size # 0 => m_size = e - o + 1
    BY <1>3, <2>2 DEF Awaits
  <2>7. CASE m_size = 0
    BY ONLY <2>1, <2>4, <2>5, <2>6, <2>7, <1>3
  <2>8. CASE m_size # 0
    <3>1. Len(m_buffer) >= m_size
      BY ONLY <2>1, <2>3, <2>4, <2>5, <2>6, <2>8
    <3> QED BY <2>8, <3>1 DEF IsReady
  <2> QED BY <2>7, <2>8
<1>5. Len(got) = Len(payload) /\ got = First(payload, Len(got))
  BY <1>3, <1>4 DEF Awaits, StreamInv, StreamBytesInv, BytesAreRead
<1>6. First(payload, Len(payload)) = payload
  <2>1. PICK s \in Seq(Byte) : s = payload
    BY <1>1
  <2>2. SubSeq(s, 1, Len(s)) = s
    BY ONLY s \in Seq(Byte)
  <2> QED BY <2>1, <2>2 DEF First
<1> QED BY <1>5, <1>6

LEMMA EndIsSeenLast ==
  ASSUME StreamInv, [PacketNext]_packetVars, closed', ~closed,
         Head(events) \notin {"formatError", "disconnected"}
  PROVE  ~IsReady /\ (~cut /\ ~Oversize => got = payload)
<1>1. events \in Seq(Kinds) /\ m_size \in Nat /\ \A e : IsQueued(e) <=> Has(events, e)
  BY Types DEF StreamInv
<1>2. ASSUME ended, ~IsReady, ~Has(events, "ready")
      PROVE  ~IsReady /\ (~cut /\ ~Oversize => got = payload)
  <2>1. ~cut /\ ~Oversize => input = << >>
    BY <1>1, <1>2 DEF StreamInv, NoPacketIsStuck
  <2> QED BY <1>2, <2>1, NothingUnread
<1>3. CASE HandleEnd
  <2>1. events # << >> /\ Head(events) = "end"
    BY <1>3 DEF HandleEnd
  <2>2. ~IsReady
    BY <1>3 DEF HandleEnd, HeldBack, IsReady
  <2>3. Has(events, "end") /\ ~Has(events, "ready")
    BY <1>1, <2>1, EventTaken DEF StreamInv, StreamEventsInv
  <2>4. ended
    BY <1>1, <2>3 DEF StreamInv, StreamEventsInv
  <2> QED BY <1>2, <2>2, <2>3, <2>4
<1>4. CASE HandleOwn
  <2>1. events # << >> /\ Head(events) = "inputShutdown"
    BY <1>4 DEF HandleOwn
  <2>2. Has(events, "inputShutdown")
    BY <1>1, <2>1, EventTaken
  <2>3. m_inputShutdown /\ m_size = 0
    BY <1>1, <2>2 DEF StreamInv, StreamEventsInv
  <2>4. ended /\ ~Has(events, "ready") /\ ~IsReady
    BY <1>1, <2>3 DEF StreamInv, StreamEventsInv, IsReady
  <2> QED BY <1>2, <2>4
<1>5. CASE \/ StreamEnds \/ ConnectionBreaks \/ HandleReady \/ HandleDisconnected \/ Returns
           \/ UNCHANGED packetVars
  BY <1>5
     DEF StreamEnds, ConnectionBreaks, HandleReady, HandleDisconnected, Returns, packetVars,
       listenerVars
<1>6. ASSUME NEW n, PeerWrites(n) \/ Arrive(n) \/ ReadPacket(n) \/ SecureEnds(n) \/ ErrorIsIgnored(n)
      PROVE  FALSE
  BY <1>6
     DEF PeerWrites, Arrive, ReadPacket, SecureEnds, ErrorIsIgnored, ReadsLast, listenerVars
<1> QED BY <1>3, <1>4, <1>5, <1>6 DEF PacketNext, MainStep

\* Every variable of PacketStream has its type: in the filter's buffer there are
\* bytes, and what m_size waits for is a part of a packet.
THEOREM PacketTypeCorrect == PacketSpec => []PacketTypeOK
<1>1. StreamInv => PacketTypeOK
  BY DEF StreamInv
<1> QED BY <1>1, StreamCorrect, PTL

\* What handleData reads is what the peer wrote, in its order, with no byte of a
\* header in it and none left out (PacketStreamFilter::read, readPacketSize).
THEOREM ListenerReadsBytes == PacketSpec => []BytesAreRead
<1>1. StreamInv => BytesAreRead
  BY DEF StreamInv, StreamBytesInv
<1> QED BY <1>1, StreamCorrect, PTL

\* A whole packet in the filter, and bytes in the socket's buffer, always have an
\* event queued or a reader that will look at them (filterEvent, handleData),
\* unless the bytes were received in the run in which a TLS connection ended or a
\* read failed (SecureSocket::doRead, serviceConnected).
THEOREM PacketsGoOn == PacketSpec => []NoPacketIsStuck
<1>1. StreamInv => NoPacketIsStuck
  BY DEF StreamInv
<1> QED BY <1>1, StreamCorrect, PTL

\* The listener is told of the end of the stream after it has read all that came
\* whole, whichever way it learns of it (StreamInputShutdown in filterEvent, and
\* in read), plain and with TLS.  SocketDisconnected is another matter: a client
\* closes for it at once.
THEOREM EndIsLastOfAll == PacketSpec => EndComesLast
<1>1. StreamInv /\ [PacketNext]_packetVars
        => [closed' /\ ~closed /\ Head(events) \notin {"formatError", "disconnected"} =>
              ~IsReady /\ (~cut /\ ~Oversize => got = payload)]_packetVars
  BY EndIsSeenLast
<1> QED BY <1>1, StreamCorrect, PTL DEF PacketSpec, EndComesLast

-----------------------------------------------------------------------------
(***************************************************************************)
(* StreamBuffer.  Each chunk has consecutive numbers and goes on where the *)
(* one before it ends, so that joining chunks joins what they number.  The *)
(* least number of a set stands for induction.                             *)
(***************************************************************************)
LEMMA LeastNumber ==
  ASSUME NEW T \in SUBSET Nat, T # {}
  PROVE  \E x \in T : \A y \in T : x <= y
<1> DEFINE R == {p \in Nat \X Nat : p[1] < p[2]}
<1>1. IsWellFoundedOn(OpToRel(<, Nat), Nat)
  BY NatLessThanWellFounded
<1>2. OpToRel(<, Nat) = R
  BY DEF OpToRel
<1>3. IsWellFoundedOn(R, Nat)
  BY <1>1, <1>2
<1> HIDE DEF R
<1>4. PICK x \in T : \A y \in T : ~ (<<y, x>> \in R)
  BY <1>3, WFMin
<1>5. ASSUME NEW y \in T PROVE x <= y
  <2>1. x \in Nat /\ y \in Nat
    OBVIOUS
  <2>2. ~ (y < x)
    <3>1. SUFFICES ASSUME y < x PROVE FALSE
      OBVIOUS
    <3>2. <<y, x>> \in R
      BY <2>1, <3>1 DEF R
    <3>3. QED  BY <1>4, <3>2
  <2>3. QED  BY <2>1, <2>2
<1>6. QED  BY <1>5

Before(q, i) == q[i][1] - 1            \* how many bytes are before the i-th chunk
Until(q, i) == Before(q, i) + Len(q[i])
Consecutive(q) ==
  /\ q \in Seq(Seq(Nat))
  /\ \A i \in 1 .. Len(q) :
       /\ Before(q, i) \in Nat /\ Len(q[i]) \in Nat \ {0}
       /\ Counts(q[i], Before(q, i))
  /\ \A i, j \in 1 .. Len(q) : j = i + 1 => Before(q, j) = Until(q, i)

LEMMA CountsBefore ==
  ASSUME NEW n \in Nat, NEW s, Counts(s, n), Len(s) # 0
  PROVE  s[1] - 1 = n
<1>1. Len(s) \in Nat /\ 1 \in 1 .. Len(s)
  BY CountsEmpty
<1>2. s[1] = n + 1
  BY <1>1 DEF Counts
<1>3. QED  BY <1>2

\* The sequences of consecutive numbers are determined by the first and length.
LEMMA CountsSame ==
  ASSUME NEW n \in Nat, NEW s, NEW t, Counts(s, n), Counts(t, n), Len(s) = Len(t)
  PROVE  s = t
<1>1. s \in Seq(Nat) /\ t \in Seq(Nat)
  BY DEF Counts
<1>2. \A i \in 1 .. Len(s) : s[i] = t[i]
  BY DEF Counts
<1>3. QED  BY <1>1, <1>2, SeqEqual

LEMMA CountsNumbers ==
  ASSUME NEW m \in Nat, NEW n \in Nat, m <= n
  PROVE  Counts(Numbers(m, n), m) /\ Len(Numbers(m, n)) = n - m
<1> DEFINE s == Numbers(m, n)
<1>1. n - m \in Nat
  OBVIOUS
<1>2. s \in [1 .. n - m -> Nat] /\ \A i \in 1 .. n - m : s[i] = m + i
  BY <1>1 DEF Numbers
<1> HIDE DEF s
<1>3. s \in Seq(Nat) /\ Len(s) = n - m
  BY <1>1, <1>2, SeqDef
<1>4. Counts(s, m) /\ Len(s) = n - m
  BY <1>2, <1>3 DEF Counts
<1>5. QED  BY <1>4 DEF s

\* The equation of the function that Joined applies.
Joining(n, q) == [i \in 0 .. n |-> IF i = 0 THEN << >> ELSE q[i - 1] \o m_chunks[i]]

LEMMA JoinedByEquation ==
  ASSUME NEW n \in Nat
  PROVE  Joined(n) = (CHOOSE q : q = Joining(n, q))[n]
BY Zenon DEF Joined, Joining

\* Where the bytes of the first i chunks end.
Reach(i) == IF i = 0 THEN Before(m_chunks, 1) ELSE Until(m_chunks, i)

LEMMA ReachRises ==
  ASSUME Consecutive(m_chunks), NEW n \in 1 .. Len(m_chunks), NEW i \in 1 .. n
  PROVE  /\ Reach(i - 1) = Before(m_chunks, i)
         /\ Reach(i) = Reach(i - 1) + Len(m_chunks[i])
<1>1. /\ i \in 1 .. Len(m_chunks) /\ i \in Nat /\ n \in Nat
      /\ i # 1 => i - 1 \in 1 .. Len(m_chunks) /\ i = (i - 1) + 1 /\ i - 1 # 0
      /\ i # 0
  <2>1. Len(m_chunks) \in Nat
    BY DEF Consecutive
  <2>2. QED  BY <2>1
<1>2. Reach(i - 1) = Before(m_chunks, i)
  <2>1. CASE i = 1
    BY <2>1 DEF Reach
  <2>2. CASE i # 1
    <3>1. Before(m_chunks, i) = Until(m_chunks, i - 1)
      BY <1>1, <2>2 DEF Consecutive
    <3>2. QED  BY <1>1, <2>2, <3>1 DEF Reach
  <2>3. QED  BY <2>1, <2>2
<1>3. Reach(i) = Before(m_chunks, i) + Len(m_chunks[i])
  BY <1>1 DEF Reach, Until
<1>4. QED  BY <1>2, <1>3

LEMMA ReachIsNat ==
  ASSUME Consecutive(m_chunks), NEW n \in 1 .. Len(m_chunks), NEW k \in 0 .. n
  PROVE  Reach(k) \in Nat /\ Reach(0) \in Nat /\ Reach(0) <= Reach(k)
<1> DEFINE Wrong == {i \in 0 .. n : ~ (Reach(i) \in Nat /\ Reach(0) <= Reach(i))}
<1>1. Reach(0) \in Nat /\ n \in Nat /\ 1 \in 1 .. Len(m_chunks)
  <2>1. Len(m_chunks) \in Nat /\ 1 \in 1 .. Len(m_chunks)
    BY DEF Consecutive
  <2>2. QED  BY <2>1 DEF Reach, Consecutive
<1>2. ASSUME NEW x \in Wrong, \A y \in Wrong : x <= y PROVE FALSE
  <2>1. x \in 0 .. n /\ ~ (Reach(x) \in Nat /\ Reach(0) <= Reach(x))
    OBVIOUS
  <2> HIDE DEF Wrong
  <2>2. x # 0
    BY <1>1, <2>1
  <2>3. x \in 1 .. n /\ x - 1 \in 0 .. n /\ ~ (x <= x - 1)
    BY <1>1, <2>1, <2>2
  <2>4. x - 1 \notin Wrong
    BY <1>2, <2>3
  <2>5. Reach(x - 1) \in Nat /\ Reach(0) <= Reach(x - 1)
    BY <2>3, <2>4 DEF Wrong
  <2>6. Reach(x) = Reach(x - 1) + Len(m_chunks[x])
    BY <2>3, ReachRises
  <2>7. Len(m_chunks[x]) \in Nat
    <3>1. x \in 1 .. Len(m_chunks)
      <4>1. Len(m_chunks) \in Nat
        BY DEF Consecutive
      <4>2. QED  BY <2>3, <4>1
    <3>2. QED  BY <3>1 DEF Consecutive
  <2>8. QED  BY ONLY <1>1, <2>1, <2>5, <2>6, <2>7
<1>3. Wrong = {}
  <2>1. Wrong \in SUBSET Nat
    OBVIOUS
  <2>2. ASSUME Wrong # {} PROVE FALSE
    <3> HIDE DEF Wrong
    <3>1. \E x \in Wrong : \A y \in Wrong : x <= y
      BY <2>1, <2>2, LeastNumber
    <3>2. QED  BY <3>1, <1>2
  <2>3. QED  BY <2>2
<1>4. QED  BY <1>1, <1>3

\* Whatever satisfies the equation joins the first i chunks at i.
LEMMA JoiningCounts ==
  ASSUME Consecutive(m_chunks), NEW n \in 1 .. Len(m_chunks),
         NEW q, q = Joining(n, q), NEW k \in 0 .. n
  PROVE  Counts(q[k], Reach(0)) /\ Len(q[k]) = Reach(k) - Reach(0)
<1> DEFINE Wrong == {i \in 0 .. n :
                       ~ (Counts(q[i], Reach(0)) /\ Len(q[i]) = Reach(i) - Reach(0))}
<1>1. Len(m_chunks) \in Nat /\ n \in Nat /\ Reach(0) \in Nat
  <2>1. Len(m_chunks) \in Nat
    BY DEF Consecutive
  <2>2. 0 \in 0 .. n /\ n \in Nat
    BY <2>1
  <2>3. QED  BY <2>1, <2>2, ReachIsNat
<1>2. ASSUME NEW x \in Wrong, \A y \in Wrong : x <= y PROVE FALSE
  <2>1. /\ x \in 0 .. n
        /\ ~ (Counts(q[x], Reach(0)) /\ Len(q[x]) = Reach(x) - Reach(0))
    OBVIOUS
  <2> HIDE DEF Wrong
  <2>2. q[x] = IF x = 0 THEN << >> ELSE q[x - 1] \o m_chunks[x]
    <3>1. Joining(n, q)[x] = IF x = 0 THEN << >> ELSE q[x - 1] \o m_chunks[x]
      BY <2>1, Zenon DEF Joining
    <3>2. QED  BY <3>1, Zenon
  <2>3. CASE x = 0
    <3>1. q[x] = << >>
      BY <2>2, <2>3, Zenon
    <3>2. Counts(<< >>, Reach(0)) /\ Len(<< >>) = 0
      BY <1>1, CountsNothing
    <3>3. QED  BY <1>1, <2>1, <2>3, <3>1, <3>2
  <2>4. CASE x # 0
    <3>1. x \in 1 .. n /\ x - 1 \in 0 .. n /\ ~ (x <= x - 1) /\ x \in 1 .. Len(m_chunks)
      BY <1>1, <2>1, <2>4
    <3>2. x - 1 \notin Wrong
      BY <1>2, <3>1
    <3>3. Counts(q[x - 1], Reach(0)) /\ Len(q[x - 1]) = Reach(x - 1) - Reach(0)
      BY <3>1, <3>2 DEF Wrong
    <3>4. /\ Reach(x - 1) = Before(m_chunks, x)
          /\ Reach(x) = Reach(x - 1) + Len(m_chunks[x])
      BY <3>1, ReachRises
    <3>5. Counts(m_chunks[x], Before(m_chunks, x)) /\ Len(m_chunks[x]) \in Nat
      BY <3>1 DEF Consecutive
    <3>6. Reach(x - 1) \in Nat /\ Reach(0) <= Reach(x - 1)
      BY <3>1, ReachIsNat
    <3>7. Reach(0) + Len(q[x - 1]) = Before(m_chunks, x)
      BY <1>1, <3>3, <3>4, <3>6
    <3>8. q[x] = q[x - 1] \o m_chunks[x]
      BY <2>2, <2>4, Zenon
    <3> DEFINE s == q[x - 1]
               t == m_chunks[x]
    <3>9. Counts(s, Reach(0)) /\ Counts(t, Reach(0) + Len(s))
      BY <3>3, <3>5, <3>7
    <3>10. /\ Reach(x) = Reach(x - 1) + Len(t) /\ Len(s) = Reach(x - 1) - Reach(0)
           /\ Len(t) \in Nat
      BY <3>3, <3>4, <3>5
    <3> HIDE DEF s, t
    <3>11. Counts(s \o t, Reach(0)) /\ Len(s \o t) = Len(s) + Len(t)
      BY <1>1, <3>9, CountsOn
    <3>12. Len(s \o t) = Reach(x) - Reach(0)
      BY ONLY <1>1, <3>6, <3>10, <3>11
    <3>13. q[x] = s \o t
      BY <3>8 DEF s, t
    <3>14. Counts(q[x], Reach(0)) /\ Len(q[x]) = Reach(x) - Reach(0)
      BY <3>11, <3>12, <3>13, Zenon
    <3>15. QED  BY <2>1, <3>14, Zenon
  <2>5. QED  BY <2>3, <2>4
<1>3. Wrong = {}
  <2>1. Wrong \in SUBSET Nat
    OBVIOUS
  <2>2. ASSUME Wrong # {} PROVE FALSE
    <3> HIDE DEF Wrong
    <3>1. \E x \in Wrong : \A y \in Wrong : x <= y
      BY <2>1, <2>2, LeastNumber
    <3>2. QED  BY <3>1, <1>2
  <2>3. QED  BY <2>2
<1>4. k \notin Wrong
  BY <1>3
<1>5. QED  BY <1>4

\* The first n chunks joined: consecutive numbers, up to where the n-th ends.
LEMMA JoinedCounts ==
  ASSUME Consecutive(m_chunks), NEW n \in 1 .. Len(m_chunks)
  PROVE  /\ Counts(Joined(n), Reach(0)) /\ Len(Joined(n)) = Reach(n) - Reach(0)
         /\ Reach(0) \in Nat /\ Reach(n) \in Nat /\ Reach(0) <= Reach(n)
<1> DEFINE g == [i \in 0 .. n |-> Numbers(Reach(0), Reach(i))]
           c == CHOOSE q : q = Joining(n, q)
<1>1. n \in Nat /\ n \in 0 .. n
  <2>1. Len(m_chunks) \in Nat
    BY DEF Consecutive
  <2>2. QED  BY <2>1
<1>2. ASSUME NEW i \in 0 .. n
      PROVE  /\ Reach(i) \in Nat /\ Reach(0) \in Nat /\ Reach(0) <= Reach(i)
             /\ Counts(Numbers(Reach(0), Reach(i)), Reach(0))
             /\ Len(Numbers(Reach(0), Reach(i))) = Reach(i) - Reach(0)
  <2>1. Reach(i) \in Nat /\ Reach(0) \in Nat /\ Reach(0) <= Reach(i)
    BY ReachIsNat
  <2> DEFINE a == Reach(0)
             b == Reach(i)
  <2>2. a \in Nat /\ b \in Nat /\ a <= b
    BY <2>1
  <2> HIDE DEF a, b
  <2>3. Counts(Numbers(a, b), a) /\ Len(Numbers(a, b)) = b - a
    BY <2>2, CountsNumbers
  <2>4. QED  BY <2>1, <2>3 DEF a, b
<1>3. ASSUME NEW i \in 1 .. n
      PROVE  Numbers(Reach(0), Reach(i)) = Numbers(Reach(0), Reach(i - 1)) \o m_chunks[i]
  <2>1. i \in 0 .. n /\ i - 1 \in 0 .. n /\ i \in 1 .. Len(m_chunks)
    <3>1. Len(m_chunks) \in Nat
      BY DEF Consecutive
    <3>2. QED  BY <1>1, <3>1
  <2>2. /\ Reach(i - 1) = Before(m_chunks, i)
        /\ Reach(i) = Reach(i - 1) + Len(m_chunks[i])
    BY ReachRises
  <2>3. /\ Counts(m_chunks[i], Reach(i - 1)) /\ Len(m_chunks[i]) \in Nat
    BY <2>1, <2>2 DEF Consecutive
  <2> DEFINE s == Numbers(Reach(0), Reach(i - 1))
             u == Numbers(Reach(0), Reach(i))
             t == m_chunks[i]
             a == Reach(0)
             b == Reach(i - 1)
             d == Reach(i)
  <2>4. /\ a \in Nat /\ b \in Nat /\ Counts(s, a) /\ Len(s) = b - a
        /\ Counts(u, a) /\ Len(u) = d - a /\ Counts(t, b) /\ d = b + Len(t)
        /\ Len(t) \in Nat
    BY <2>1, <2>2, <2>3, <1>2
  <2> HIDE DEF s, u, t, a, b, d
  <2>5. b = a + Len(s)
    BY ONLY <2>4
  <2>6. Counts(s \o t, a) /\ Len(s \o t) = Len(s) + Len(t)
    BY ONLY <2>4, <2>5, CountsOn
  <2>7. Len(s \o t) = Len(u)
    BY ONLY <2>4, <2>5, <2>6
  <2>8. u = s \o t
    BY ONLY <2>4, <2>6, <2>7, CountsSame
  <2>9. QED  BY <2>8 DEF s, u, t
<1>4. g = Joining(n, g)
  <2>1. ASSUME NEW i \in 0 .. n
        PROVE  g[i] = IF i = 0 THEN << >> ELSE g[i - 1] \o m_chunks[i]
    <3>1. g[i] = Numbers(Reach(0), Reach(i))
      BY Zenon
    <3>2. CASE i = 0
      <4>1. Reach(i) = Reach(0)
        BY <3>2, Zenon
      <4>2. Len(Numbers(Reach(0), Reach(i))) = 0 /\ Counts(Numbers(Reach(0), Reach(i)), Reach(0))
        BY <1>2, <4>1
      <4>3. Numbers(Reach(0), Reach(i)) = << >>
        BY <1>2, <4>2, CountsEmpty
      <4>4. QED  BY <3>1, <3>2, <4>3, Zenon
    <3>3. CASE i # 0
      <4>1. i \in 1 .. n /\ i - 1 \in 0 .. n
        BY <1>1, <3>3
      <4>2. g[i - 1] = Numbers(Reach(0), Reach(i - 1))
        BY <4>1, Zenon
      <4>3. Numbers(Reach(0), Reach(i)) = Numbers(Reach(0), Reach(i - 1)) \o m_chunks[i]
        BY <1>3, <4>1
      <4>4. QED  BY <3>1, <3>3, <4>2, <4>3, Zenon
    <3>4. QED  BY <3>2, <3>3
  <2>2. g = [i \in 0 .. n |-> g[i]]
    BY Zenon
  <2> HIDE DEF g
  <2>3. QED  BY <2>1, <2>2, Zenon DEF Joining
<1>5. c = Joining(n, c)
  <2> HIDE DEF g
  <2>1. QED  BY <1>4, Zenon
<1>6. Joined(n) = c[n]
  BY <1>1, JoinedByEquation, Zenon
<1> HIDE DEF c, g
<1>7. Counts(c[n], Reach(0)) /\ Len(c[n]) = Reach(n) - Reach(0)
  BY ONLY <1>1, <1>5, JoiningCounts, Consecutive(m_chunks), n \in 1 .. Len(m_chunks)
<1>8. Reach(0) \in Nat /\ Reach(n) \in Nat /\ Reach(0) <= Reach(n)
  BY <1>1, <1>2
<1>9. QED  BY <1>6, <1>7, <1>8, Zenon

LEMMA JoinedNone ==  Joined(0) = << >>
<1> DEFINE g == [i \in 0 .. 0 |-> << >>]
           c == CHOOSE q : q = Joining(0, q)
<1>1. \A i : i \in 0 .. 0 <=> i = 0
  OBVIOUS
<1>2. g = Joining(0, g)
  BY <1>1, Zenon DEF Joining
<1>3. c = Joining(0, c)
  <2> HIDE DEF g
  <2>1. QED  BY <1>2, Zenon
<1>4. Joined(0) = c[0]
  <2>1. 0 \in Nat
    OBVIOUS
  <2>2. QED  BY <2>1, JoinedByEquation, Zenon
<1> HIDE DEF c, g
<1>5. c[0] = Joining(0, c)[0]
  BY <1>3, Zenon
<1>6. Joining(0, c)[0] = << >>
  BY <1>1, Zenon DEF Joining
<1>7. QED  BY <1>4, <1>5, <1>6, Zenon

\* Chunks that hold the bytes after a, up to b.
Hold(q, a, b) ==
  /\ Consecutive(q) /\ a \in Nat /\ b \in Nat
  /\ q = << >> => a = b
  /\ q # << >> => Before(q, 1) = a /\ Until(q, Len(q)) = b

LEMMA HoldNothing ==
  ASSUME NEW a \in Nat
  PROVE  Hold(<< >>, a, a)
<1>1. << >> \in Seq(Seq(Nat)) /\ Len(<< >>) = 0 /\ 1 .. 0 = {}
  OBVIOUS
<1>2. QED  BY <1>1 DEF Hold, Consecutive

LEMMA HoldOne ==
  ASSUME NEW a \in Nat, NEW s, Counts(s, a), Len(s) # 0
  PROVE  Hold(<<s>>, a, a + Len(s))
<1>1. s \in Seq(Nat) /\ Len(s) \in Nat \ {0}
  BY DEF Counts
<1> DEFINE q == <<s>>
<1>2. q \in Seq(Seq(Nat)) /\ Len(q) = 1 /\ q[1] = s /\ q # << >>
  BY <1>1
<1> HIDE DEF q
<1>3. \A i \in 1 .. Len(q) : i = 1
  BY <1>2
<1>4. s[1] - 1 = a
  BY <1>1, CountsBefore
<1>5. Before(q, 1) = a /\ Until(q, 1) = a + Len(s)
  BY <1>2, <1>4 DEF Before, Until
<1>6. ASSUME NEW i \in 1 .. Len(q)
      PROVE  /\ Before(q, i) \in Nat /\ Len(q[i]) \in Nat \ {0}
             /\ Counts(q[i], Before(q, i))
  <2>1. i = 1
    BY <1>3
  <2>2. QED  BY <1>1, <1>2, <1>5, <2>1
<1>7. \A i, j \in 1 .. Len(q) : j = i + 1 => Before(q, j) = Until(q, i)
  BY <1>3
<1>8. Consecutive(q)
  BY <1>2, <1>6, <1>7 DEF Consecutive
<1>9. Hold(q, a, a + Len(s))
  BY <1>1, <1>2, <1>5, <1>8 DEF Hold
<1>10. QED  BY <1>9 DEF q

LEMMA HoldBoth ==
  ASSUME NEW a, NEW b, NEW d, NEW p, NEW q, Hold(p, a, b), Hold(q, b, d)
  PROVE  Hold(p \o q, a, d)
<1> DEFINE r == p \o q
           m == Len(p)
           n == Len(q)
<1>1. /\ p \in Seq(Seq(Nat)) /\ q \in Seq(Seq(Nat)) /\ m \in Nat /\ n \in Nat
      /\ a \in Nat /\ b \in Nat /\ d \in Nat
  BY DEF Hold, Consecutive
<1>2. /\ r \in Seq(Seq(Nat)) /\ Len(r) = m + n
      /\ \A i \in 1 .. m + n : r[i] = IF i <= m THEN p[i] ELSE q[i - m]
  BY <1>1, ConcatProperties
<1>3. (p = << >> <=> m = 0) /\ (q = << >> <=> n = 0) /\ (r = << >> <=> m + n = 0)
  BY <1>1, <1>2, EmptySeq
<1>4. /\ m # 0 => Before(p, 1) = a /\ Until(p, m) = b
      /\ m = 0 => a = b
      /\ n # 0 => Before(q, 1) = b /\ Until(q, n) = d
      /\ n = 0 => b = d
  BY <1>3 DEF Hold
<1> HIDE DEF r, m, n
<1>5. ASSUME NEW i \in 1 .. m
      PROVE  /\ i \in 1 .. m + n /\ r[i] = p[i] /\ Before(r, i) = Before(p, i)
             /\ Until(r, i) = Until(p, i)
  <2>1. i \in 1 .. m + n /\ i <= m
    BY <1>1
  <2>2. r[i] = p[i]
    BY <1>2, <2>1
  <2>3. QED  BY <2>1, <2>2 DEF Before, Until
<1>6. ASSUME NEW i \in 1 .. n
      PROVE  /\ m + i \in 1 .. m + n /\ r[m + i] = q[i] /\ Before(r, m + i) = Before(q, i)
             /\ Until(r, m + i) = Until(q, i)
  <2>1. m + i \in 1 .. m + n /\ ~ (m + i <= m) /\ m + i - m = i
    BY <1>1
  <2>2. r[m + i] = q[i]
    <3>1. \A h \in 1 .. m + n : ~ (h <= m) => r[h] = q[h - m]
      BY <1>2
    <3>2. PICK h \in 1 .. m + n : h = m + i
      BY <2>1
    <3>3. ~ (h <= m) /\ h - m = i
      BY <1>1, <3>2
    <3>4. r[h] = q[i]
      BY <3>1, <3>3, Zenon
    <3>5. QED  BY <3>2, <3>4, Zenon
  <2>3. QED  BY <2>1, <2>2 DEF Before, Until
<1>7. ASSUME NEW i \in 1 .. m + n PROVE i \in 1 .. m \/ \E k \in 1 .. n : i = m + k
  <2>1. CASE i <= m
    BY <1>1, <2>1
  <2>2. CASE ~ (i <= m)
    <3>1. i - m \in 1 .. n /\ i = m + (i - m)
      BY <1>1, <2>2
    <3>2. QED  BY <3>1
  <2>3. QED  BY <2>1, <2>2
<1>8. ASSUME NEW i \in 1 .. m + n
      PROVE  /\ Before(r, i) \in Nat /\ Len(r[i]) \in Nat \ {0}
             /\ Counts(r[i], Before(r, i))
  <2>1. CASE i \in 1 .. m
    <3>1. r[i] = p[i] /\ Before(r, i) = Before(p, i)
      BY <1>5, <2>1
    <3>2. /\ Before(p, i) \in Nat /\ Len(p[i]) \in Nat \ {0}
          /\ Counts(p[i], Before(p, i))
      BY <2>1 DEF Hold, Consecutive, m
    <3>3. QED  BY <3>1, <3>2
  <2>2. CASE \E k \in 1 .. n : i = m + k
    <3>1. PICK k \in 1 .. n : i = m + k
      BY <2>2
    <3>2. r[i] = q[k] /\ Before(r, i) = Before(q, k)
      BY <1>6, <3>1
    <3>3. /\ Before(q, k) \in Nat /\ Len(q[k]) \in Nat \ {0}
          /\ Counts(q[k], Before(q, k))
      BY DEF Hold, Consecutive, n
    <3>4. QED  BY <3>2, <3>3
  <2>3. QED  BY <1>7, <2>1, <2>2
<1>9. ASSUME NEW i \in 1 .. m + n, NEW j \in 1 .. m + n, j = i + 1
      PROVE  Before(r, j) = Until(r, i)
  <2>1. CASE i \in 1 .. m /\ j \in 1 .. m
    <3>1. Before(p, j) = Until(p, i)
      BY <1>9, <2>1 DEF Hold, Consecutive, m
    <3>2. QED  BY <1>5, <2>1, <3>1
  <2>2. CASE i \in 1 .. m /\ j \notin 1 .. m
    <3>1. i = m /\ j = m + 1 /\ m # 0 /\ n # 0 /\ 1 \in 1 .. n /\ m \in 1 .. m
      BY <1>1, <1>9, <2>2
    <3>2. Before(r, m + 1) = Before(q, 1) /\ Until(r, m) = Until(p, m)
      BY <1>5, <1>6, <3>1
    <3>3. QED  BY <1>4, <3>1, <3>2
  <2>3. CASE i \notin 1 .. m
    <3>1. /\ i - m \in 1 .. n /\ j - m \in 1 .. n /\ j - m = (i - m) + 1
          /\ i = m + (i - m) /\ j = m + (j - m)
      BY <1>1, <1>9, <2>3
    <3>2. Before(q, j - m) = Until(q, i - m)
      BY <3>1 DEF Hold, Consecutive, n
    <3>3. QED  BY <1>6, <3>1, <3>2
  <2>4. QED  BY <2>1, <2>2, <2>3
<1>10. Consecutive(r)
  BY <1>2, <1>8, <1>9 DEF Consecutive
<1>11. r = << >> => a = d
  BY <1>1, <1>3, <1>4
<1>12. ASSUME r # << >> PROVE Before(r, 1) = a /\ Until(r, m + n) = d
  <2>1. m + n # 0
    BY <1>3, <1>12
  <2>2. Before(r, 1) = a
    <3>1. CASE m # 0
      <4>1. 1 \in 1 .. m
        BY <1>1, <3>1
      <4>2. QED  BY <1>4, <1>5, <3>1, <4>1
    <3>2. CASE m = 0
      <4>1. n # 0 /\ 1 \in 1 .. n /\ m + 1 = 1
        BY <1>1, <2>1, <3>2
      <4>2. QED  BY <1>4, <1>6, <3>2, <4>1
    <3>3. QED  BY <3>1, <3>2
  <2>3. Until(r, m + n) = d
    <3>1. CASE n # 0
      <4>1. n \in 1 .. n
        BY <1>1, <3>1
      <4>2. QED  BY <1>4, <1>6, <3>1, <4>1
    <3>2. CASE n = 0
      <4>1. m # 0 /\ m \in 1 .. m /\ m + n = m
        BY <1>1, <2>1, <3>2
      <4>2. QED  BY <1>4, <1>5, <3>2, <4>1
    <3>3. QED  BY <3>1, <3>2
  <2>4. QED  BY <2>2, <2>3
<1>13. Hold(r, a, d)
  BY <1>1, <1>2, <1>10, <1>11, <1>12 DEF Hold
<1>14. QED  BY <1>13 DEF r

\* Some of the chunks, one after the other.
LEMMA HoldSome ==
  ASSUME NEW a, NEW b, NEW q, Hold(q, a, b),
         NEW i \in 1 .. Len(q), NEW j \in i .. Len(q)
  PROVE  Hold(SubSeq(q, i, j), Before(q, i), Until(q, j))
<1> DEFINE r == SubSeq(q, i, j)
           l == j - i + 1
<1>1. /\ q \in Seq(Seq(Nat)) /\ Len(q) \in Nat /\ i \in Nat \ {0} /\ j \in Nat
      /\ i <= j /\ j <= Len(q) /\ l \in Nat \ {0}
  <2>1. q \in Seq(Seq(Nat)) /\ Len(q) \in Nat
    BY DEF Hold, Consecutive
  <2>2. QED  BY <2>1
<1>2. \A k \in i .. j : k \in 1 .. Len(q)
  BY <1>1
<1>3. \A k \in i .. j : q[k] \in Seq(Nat)
  BY <1>1, <1>2, ElementOfSeq
<1>4. /\ r \in Seq(Seq(Nat)) /\ Len(r) = IF i <= j THEN j - i + 1 ELSE 0
      /\ \A k \in 1 .. j - i + 1 : r[k] = q[i + k - 1]
  <2>1. i \in Int /\ j \in Int
    BY <1>1
  <2>2. QED  BY <1>3, <2>1, SubSeqProperties
<1> HIDE DEF r
<1>5. Len(r) = l
  BY <1>1, <1>4
<1>6. ASSUME NEW k \in 1 .. l
      PROVE  /\ i + k - 1 \in 1 .. Len(q)
             /\ r[k] = q[i + k - 1] /\ Before(r, k) = Before(q, i + k - 1)
             /\ Until(r, k) = Until(q, i + k - 1)
  <2>1. k \in 1 .. j - i + 1 /\ i + k - 1 \in 1 .. Len(q)
    BY <1>1
  <2>2. r[k] = q[i + k - 1]
    BY <1>4, <2>1
  <2>3. QED  BY <2>1, <2>2 DEF Before, Until
<1>7. ASSUME NEW k \in 1 .. l
      PROVE  /\ Before(r, k) \in Nat /\ Len(r[k]) \in Nat \ {0}
             /\ Counts(r[k], Before(r, k))
  <2>1. /\ i + k - 1 \in 1 .. Len(q)
        /\ r[k] = q[i + k - 1] /\ Before(r, k) = Before(q, i + k - 1)
    BY <1>6
  <2>2. /\ Before(q, i + k - 1) \in Nat /\ Len(q[i + k - 1]) \in Nat \ {0}
        /\ Counts(q[i + k - 1], Before(q, i + k - 1))
    BY <2>1 DEF Hold, Consecutive
  <2>3. QED  BY <2>1, <2>2
<1>8. ASSUME NEW k \in 1 .. l, NEW h \in 1 .. l, h = k + 1
      PROVE  Before(r, h) = Until(r, k)
  <2>1. /\ i + k - 1 \in 1 .. Len(q) /\ i + h - 1 \in 1 .. Len(q)
        /\ Before(r, h) = Before(q, i + h - 1) /\ Until(r, k) = Until(q, i + k - 1)
    BY <1>6
  <2>2. i + h - 1 = (i + k - 1) + 1
    BY <1>1, <1>8
  <2>3. Before(q, i + h - 1) = Until(q, i + k - 1)
    BY <2>1, <2>2 DEF Hold, Consecutive
  <2>4. QED  BY <2>1, <2>3
<1>9. Consecutive(r)
  BY <1>4, <1>5, <1>7, <1>8 DEF Consecutive
<1>10. r # << >>
  BY <1>1, <1>4, <1>5, EmptySeq
<1>11. Before(r, 1) = Before(q, i) /\ Until(r, Len(r)) = Until(q, j)
  <2>1. 1 \in 1 .. l /\ l \in 1 .. l /\ i + 1 - 1 = i /\ i + l - 1 = j
    BY <1>1
  <2>2. Before(r, 1) = Before(q, i + 1 - 1) /\ Until(r, l) = Until(q, i + l - 1)
    BY <1>6, <2>1
  <2>3. QED  BY <1>5, <2>1, <2>2
<1>12. Before(q, i) \in Nat /\ Until(q, j) \in Nat
  <2>1. j \in 1 .. Len(q)
    BY <1>1
  <2>2. /\ Before(q, j) \in Nat /\ Len(q[j]) \in Nat /\ Before(q, i) \in Nat
    BY <2>1 DEF Hold, Consecutive
  <2>3. QED  BY <2>2 DEF Until
<1>13. Hold(r, Before(q, i), Until(q, j))
  BY <1>9, <1>10, <1>11, <1>12 DEF Hold
<1>14. QED  BY <1>13 DEF r

LEMMA Products ==
  ASSUME NEW k \in Nat, NEW i \in Nat, NEW j \in Nat, i <= j
  PROVE  i * k \in Nat /\ j * k \in Nat /\ i * k <= j * k
OBVIOUS

\* How many chunks of size k the bytes take: as few as hold n.
LEMMA ChunksNeeded ==
  ASSUME NEW k \in Nat \ {0}, NEW n \in Nat, NEW c, c = (n + k - 1) \div k
  PROVE  /\ c \in Nat /\ n <= c * k /\ (c = 0 <=> n = 0)
         /\ c # 0 => (c - 1) * k < n
<1>1. n + k - 1 \in Nat
  OBVIOUS
<1>2. c \in Nat /\ c * k <= n + k - 1 /\ n + k - 1 < c * k + k
  BY <1>1
<1>3. c * k \in Nat
  BY <1>2
<1>4. n <= c * k
  BY ONLY <1>2, <1>3, n \in Nat, k \in Nat \ {0}
<1>5. c = 0 => n = 0
  BY <1>2, <1>4
<1>6. ASSUME c # 0 PROVE (c - 1) * k < n
  <2>1. (c - 1) * k = c * k - k
    BY <1>2
  <2>2. QED  BY ONLY <1>2, <1>3, <2>1, n \in Nat, k \in Nat \ {0}
<1>7. n = 0 => c = 0
  <2>1. ASSUME n = 0, c # 0 PROVE FALSE
    <3>1. c - 1 \in Nat /\ (c - 1) * k \in Nat
      BY <1>2, <2>1
    <3>2. QED  BY ONLY <1>6, <2>1, <3>1
  <2>2. QED  BY <2>1
<1>8. QED  BY <1>2, <1>4, <1>5, <1>6, <1>7

LEMMA HoldChunked ==
  ASSUME NEW a \in Nat, NEW s, Counts(s, a)
  PROVE  Hold(Chunked(s), a, a + Len(s))
<1> DEFINE k == kChunkSize
           n == Len(s)
           c == (n + k - 1) \div k
           End(i) == IF i * k <= n THEN i * k ELSE n
           q == Chunked(s)
<1>1. k \in Nat \ {0} /\ n \in Nat /\ s \in Seq(Nat)
  BY ChunkAssumption DEF Counts
<1>2. q = [i \in 1 .. c |-> SubSeq(s, (i - 1) * k + 1, End(i))]
  BY Zenon DEF Chunked
<1> HIDE DEF k, n, c, q
<1>3. c \in Nat /\ n <= c * k /\ (c = 0 <=> n = 0) /\ (c # 0 => (c - 1) * k < n)
  BY <1>1, ChunksNeeded DEF c
<1>4. ASSUME NEW i \in 1 .. c
      PROVE  /\ (i - 1) * k \in Nat /\ End(i) \in Nat
             /\ (i - 1) * k < End(i) /\ End(i) <= n
             /\ i = c => End(i) = n
             /\ i # c => End(i) = i * k
  <2>1. i \in Nat /\ i - 1 \in Nat /\ c - 1 \in Nat /\ i - 1 <= c - 1 /\ c # 0 /\ k \in Nat
    BY <1>1, <1>3
  <2>2. (i - 1) * k \in Nat /\ (c - 1) * k \in Nat /\ (i - 1) * k <= (c - 1) * k
    BY ONLY <2>1, Products
  <2>3. (c - 1) * k < n
    BY <1>3, <2>1
  <2>4. i * k = (i - 1) * k + k
    BY <1>1, <2>1
  <2>5. i # c => i * k <= (c - 1) * k
    <3>1. ASSUME i # c PROVE i <= c - 1
      BY <1>3, <3>1
    <3>2. ASSUME i <= c - 1 PROVE i * k <= (c - 1) * k
      BY ONLY <2>1, <3>2, Products
    <3>3. QED  BY <3>1, <3>2
  <2> DEFINE x == (i - 1) * k
             y == i * k
             z == (c - 1) * k
             w == c * k
  <2>6. /\ x \in Nat /\ z \in Nat /\ x <= z /\ z < n /\ y = x + k
        /\ i # c => y <= z
        /\ n <= w /\ (i = c => w = y) /\ k \in Nat \ {0} /\ n \in Nat
    BY <1>1, <1>3, <2>2, <2>3, <2>4, <2>5
  <2>7. End(i) = IF y <= n THEN y ELSE n
    OBVIOUS
  <2> HIDE DEF x, y, z, w, End
  <2>8. /\ x \in Nat /\ End(i) \in Nat /\ x < End(i) /\ End(i) <= n
        /\ i = c => End(i) = n
        /\ i # c => End(i) = y
    BY ONLY <2>6, <2>7
  <2>9. QED  BY <2>8 DEF x, y
<1>5. ASSUME NEW i \in 1 .. c
      PROVE  /\ q[i] \in Seq(Nat) /\ Counts(q[i], a + (i - 1) * k)
             /\ Len(q[i]) = End(i) - (i - 1) * k
  <2> DEFINE x == (i - 1) * k
             e == End(i)
             t == SubSeq(s, 1, e)
  <2>1. x \in Nat /\ e \in Nat /\ x < e /\ e <= n
    BY <1>4
  <2>2. q[i] = SubSeq(s, x + 1, e)
    BY <1>2, Zenon
  <2> HIDE DEF x, e, End
  <2>3. \A h \in x + 1 .. e : s[h] \in Nat /\ s[h] = a + h
    <3>1. \A h \in x + 1 .. e : h \in 1 .. n
      BY <1>1, <2>1
    <3>2. QED  BY <3>1 DEF Counts, n
  <2> DEFINE r == SubSeq(s, x + 1, e)
  <2>4. /\ r \in Seq(Nat) /\ Len(r) = IF x + 1 <= e THEN e - (x + 1) + 1 ELSE 0
        /\ \A h \in 1 .. e - (x + 1) + 1 : r[h] = s[x + 1 + h - 1]
    <3>1. x + 1 \in Int /\ e \in Int
      BY <2>1
    <3>2. QED  BY <2>3, <3>1, SubSeqProperties
  <2> HIDE DEF r
  <2>5. Len(r) = e - x
    BY <2>1, <2>4
  <2>6. ASSUME NEW h \in 1 .. e - x PROVE r[h] = a + x + h
    <3>1. /\ h \in 1 .. e - (x + 1) + 1 /\ x + 1 + h - 1 = x + h /\ x + h \in x + 1 .. e
          /\ a + (x + h) = a + x + h
      BY <2>1
    <3>2. r[h] = s[x + h]
      BY <2>4, <3>1
    <3>3. s[x + h] = a + (x + h)
      BY <2>3, <3>1
    <3>4. QED  BY <3>1, <3>2, <3>3, Zenon
  <2>7. Counts(r, a + x)
    BY <2>4, <2>5, <2>6 DEF Counts
  <2>8. q[i] = r
    BY <2>2 DEF r
  <2>9. /\ q[i] \in Seq(Nat) /\ Counts(q[i], a + x) /\ Len(q[i]) = e - x
    BY <2>4, <2>5, <2>7, <2>8, Zenon
  <2>10. QED  BY <2>9, Zenon DEF x, e
<1>6. q \in Seq(Seq(Nat)) /\ Len(q) = c
  <2>1. q \in [1 .. c -> Seq(Nat)]
    <3>1. q = [i \in 1 .. c |-> q[i]]
      BY <1>2, Zenon
    <3>2. QED  BY <1>5, <3>1, Zenon
  <2>2. QED  BY <1>3, <2>1, SeqDef
<1>7. ASSUME NEW i \in 1 .. c
      PROVE  /\ Before(q, i) = a + (i - 1) * k /\ Before(q, i) \in Nat
             /\ Len(q[i]) \in Nat \ {0} /\ Counts(q[i], Before(q, i))
             /\ Until(q, i) = a + End(i)
  <2> DEFINE x == (i - 1) * k
             e == End(i)
             t == q[i]
  <2>1. /\ x \in Nat /\ e \in Nat /\ x < e
        /\ Counts(t, a + x) /\ Len(t) = e - x
    BY <1>4, <1>5, Zenon
  <2>2. Before(q, i) = t[1] - 1 /\ Until(q, i) = Before(q, i) + Len(t)
    BY DEF Before, Until
  <2> HIDE DEF x, e, t, End
  <2>3. Len(t) \in Nat \ {0} /\ a + x \in Nat
    BY ONLY <2>1, a \in Nat
  <2>4. t[1] - 1 = a + x
    BY ONLY <2>1, <2>3, CountsBefore
  <2>5. Before(q, i) = a + x
    BY <2>2, <2>4, Zenon
  <2>6. Until(q, i) = a + e
    BY ONLY <2>1, <2>2, <2>5, a \in Nat
  <2>7. Counts(t, Before(q, i))
    BY <2>1, <2>5, Zenon
  <2>8. QED  BY <2>3, <2>5, <2>6, <2>7, Zenon DEF x, e, t
<1>8. ASSUME NEW i \in 1 .. c, NEW j \in 1 .. c, j = i + 1
      PROVE  Before(q, j) = Until(q, i)
  <2>1. i # c /\ j - 1 = i
    BY <1>3, <1>8
  <2>2. End(i) = i * k
    BY <1>4, <2>1, Zenon
  <2>3. Before(q, j) = a + (j - 1) * k /\ Until(q, i) = a + End(i)
    BY <1>7, Zenon
  <2>4. QED  BY <2>1, <2>2, <2>3, Zenon
<1>9. Consecutive(q)
  <2> HIDE DEF End
  <2>1. \A i \in 1 .. Len(q) : /\ Before(q, i) \in Nat /\ Len(q[i]) \in Nat \ {0}
                               /\ Counts(q[i], Before(q, i))
    BY <1>6, <1>7, Zenon
  <2>2. \A i, j \in 1 .. Len(q) : j = i + 1 => Before(q, j) = Until(q, i)
    BY <1>6, <1>8, Zenon
  <2>3. QED  BY <1>6, <2>1, <2>2, Zenon DEF Consecutive
<1>10. q = << >> => a = a + n
  <2>1. q = << >> => c = 0
    BY <1>6, EmptySeq
  <2>2. QED  BY <1>1, <1>3, <2>1
<1>11. ASSUME q # << >> PROVE Before(q, 1) = a /\ Until(q, c) = a + n
  <2>1. c # 0
    BY <1>6, <1>11, EmptySeq
  <2>2. 1 \in 1 .. c /\ c \in 1 .. c /\ 1 - 1 = 0
    BY <1>3, <2>1
  <2>3. (1 - 1) * k = 0 /\ a + 0 = a
    BY <1>1
  <2>4. Before(q, 1) = a + (1 - 1) * k
    BY <1>7, <2>2, Zenon
  <2>5. Until(q, c) = a + End(c) /\ End(c) = n
    BY <1>4, <1>7, <2>2, Zenon
  <2>6. QED  BY <2>3, <2>4, <2>5, Zenon
<1>12. a + n \in Nat
  BY <1>1
<1>13. Hold(q, a, a + n)
  BY <1>6, <1>9, <1>10, <1>11, <1>12, Zenon DEF Hold
<1>14. QED  BY <1>13 DEF q, n

LEMMA FirstOfBoth ==
  ASSUME NEW p \in Seq(Seq(Nat)), NEW q \in Seq(Seq(Nat)), p # << >>
  PROVE  p \o q # << >> /\ (p \o q)[1] = p[1]
<1> DEFINE r == p \o q
           n == Len(p) + Len(q)
<1>1. /\ r \in Seq(Seq(Nat)) /\ Len(r) = n
      /\ \A i \in 1 .. n : r[i] = IF i <= Len(p) THEN p[i] ELSE q[i - Len(p)]
  BY ConcatProperties
<1>2. Len(p) \in Nat \ {0} /\ Len(q) \in Nat
  BY EmptySeq
<1> HIDE DEF r
<1>3. \A i \in 1 .. n : i <= Len(p) => r[i] = p[i]
  BY <1>1
<1>4. 1 \in 1 .. n /\ 1 <= Len(p) /\ n # 0
  BY <1>2
<1>5. r[1] = p[1]
  BY <1>3, <1>4, Zenon
<1>6. r # << >>
  BY <1>1, <1>4, EmptySeq
<1>7. QED  BY <1>5, <1>6 DEF r

(***************************************************************************)
(* The strengthening: the chunks hold the bytes from the used part of the  *)
(* first on, up to the last written.                                       *)
(***************************************************************************)
ChunksInv ==
  /\ put \in Nat /\ popped \in Nat /\ m_headUsed \in Nat
  /\ popped <= put /\ put <= MaxBytes /\ m_headUsed <= popped
  /\ chunkBytes = put - popped
  /\ Hold(m_chunks, popped - m_headUsed, put)
  /\ m_chunks = << >> => m_headUsed = 0
  /\ m_chunks # << >> => m_headUsed < Len(m_chunks[1])

LEMMA ChunksInvInit == BufferInit => ChunksInv
<1>1. SUFFICES ASSUME BufferInit PROVE ChunksInv
  OBVIOUS
<1>2. put = 0 /\ popped = 0 /\ m_headUsed = 0 /\ chunkBytes = 0 /\ m_chunks = << >>
  BY <1>1 DEF BufferInit
<1>3. 0 \in Nat /\ 0 - 0 = 0 /\ 0 <= MaxBytes /\ 0 <= 0
  BY ChunkAssumption
<1>4. Hold(<< >>, 0, 0)
  BY <1>3, HoldNothing
<1>5. QED  BY <1>2, <1>3, <1>4, Zenon DEF ChunksInv

\* Where the chunks are not empty, what joining the first ones gives.
LEMMA FirstChunks ==
  ASSUME ChunksInv, m_chunks # << >>
  PROVE  /\ Len(m_chunks) \in Nat \ {0} /\ m_chunks \in Seq(Seq(Nat))
         /\ Reach(0) = popped - m_headUsed /\ Reach(0) \in Nat
         /\ Reach(Len(m_chunks)) = put
         /\ \A n \in 1 .. Len(m_chunks) :
              /\ Reach(n) = Until(m_chunks, n)
              /\ Counts(Joined(n), Reach(0)) /\ Len(Joined(n)) = Reach(n) - Reach(0)
              /\ Reach(n) \in Nat /\ Reach(0) <= Reach(n)
<1>1. Consecutive(m_chunks) /\ m_chunks \in Seq(Seq(Nat)) /\ Len(m_chunks) \in Nat
  BY DEF ChunksInv, Hold, Consecutive
<1>2. Len(m_chunks) # 0
  BY <1>1, EmptySeq
<1>3. Reach(0) = popped - m_headUsed /\ Until(m_chunks, Len(m_chunks)) = put
  BY DEF ChunksInv, Hold, Reach
<1>4. Reach(Len(m_chunks)) = put
  BY <1>2, <1>3 DEF Reach
<1>5. ASSUME NEW n \in 1 .. Len(m_chunks)
      PROVE  /\ Reach(n) = Until(m_chunks, n)
             /\ Counts(Joined(n), Reach(0)) /\ Len(Joined(n)) = Reach(n) - Reach(0)
             /\ Reach(n) \in Nat /\ Reach(0) <= Reach(n) /\ Reach(0) \in Nat
  <2>1. n # 0
    BY <1>1
  <2>2. QED  BY <1>1, <2>1, JoinedCounts, Zenon DEF Reach
<1>6. Reach(0) \in Nat
  <2>1. 1 \in 1 .. Len(m_chunks)
    BY <1>1, <1>2
  <2>2. QED  BY <1>5, <2>1
<1>7. QED  BY <1>1, <1>2, <1>3, <1>4, <1>5, <1>6

LEMMA ChunksHoldBytes == ChunksInv => BufferHoldsBytes
<1>1. SUFFICES ASSUME ChunksInv PROVE BufferHoldsBytes
  OBVIOUS
<1>2. /\ put \in Nat /\ popped \in Nat /\ m_headUsed \in Nat /\ m_headUsed <= popped
      /\ popped <= put
  BY <1>1 DEF ChunksInv
<1>3. Counts(Numbers(popped, put), popped) /\ Len(Numbers(popped, put)) = put - popped
  BY <1>2, CountsNumbers
<1>4. Dropped(All, m_headUsed) = Numbers(popped, put)
  <2>1. CASE m_chunks = << >>
    <3>1. All = << >> /\ m_headUsed = 0
      <4>1. Len(m_chunks) = 0
        BY <2>1
      <4>2. QED  BY <1>1, <2>1, <4>1, JoinedNone DEF All, ChunksInv
    <3>2. popped = put
      <4>1. popped - m_headUsed = put
        BY <1>1, <2>1 DEF ChunksInv, Hold
      <4>2. QED  BY <1>2, <3>1, <4>1
    <3>3. Len(Numbers(popped, put)) = 0
      BY <1>2, <1>3, <3>2
    <3>4. Numbers(popped, put) = << >>
      BY <1>2, <1>3, <3>3, CountsEmpty
    <3>5. Dropped(<< >>, 0) = << >>
      BY DEF Dropped
    <3>6. QED  BY <3>1, <3>4, <3>5
  <2>2. CASE m_chunks # << >>
    <3>1. /\ Len(m_chunks) \in Nat \ {0} /\ Reach(0) = popped - m_headUsed
          /\ Reach(0) \in Nat /\ Reach(Len(m_chunks)) = put
          /\ \A n \in 1 .. Len(m_chunks) :
               Counts(Joined(n), Reach(0)) /\ Len(Joined(n)) = Reach(n) - Reach(0)
      BY <1>1, <2>2, FirstChunks, Zenon
    <3> DEFINE a == Reach(0)
               l == Len(m_chunks)
               s == Joined(l)
    <3>2. Counts(s, a) /\ Len(s) = put - a /\ a = popped - m_headUsed /\ a \in Nat
      <4>1. l \in 1 .. l
        BY <3>1
      <4>2. QED  BY <3>1, <4>1
    <3>3. All = s
      BY DEF All
    <3> HIDE DEF a, l, s
    <3>4. m_headUsed \in 0 .. Len(s) /\ a + m_headUsed = popped
          /\ Len(s) - m_headUsed = put - popped
      BY ONLY <1>2, <3>2
    <3> DEFINE d == SubSeq(s, m_headUsed + 1, Len(s))
    <3>5. Counts(d, a + m_headUsed) /\ Len(d) = Len(s) - m_headUsed
      BY ONLY <3>2, <3>4, CountsRest
    <3> HIDE DEF d
    <3>6. Counts(d, popped) /\ Len(d) = Len(Numbers(popped, put))
      BY <1>3, <3>4, <3>5
    <3>7. d = Numbers(popped, put)
      BY ONLY <1>2, <1>3, <3>6, CountsSame
    <3>8. QED  BY <3>3, <3>7 DEF d, Dropped
  <2>3. QED  BY <2>1, <2>2
<1>5. QED  BY <1>1, <1>4 DEF BufferHoldsBytes, ChunksInv

\* Of the places that may end a peek there is a first.
LEMMA FirstEnough ==
  ASSUME NEW P, P \subseteq Nat, P # {}, NEW l \in Nat, P \subseteq 1 .. l
  PROVE  \E k \in 1 .. l : k \in P /\ \A i \in 1 .. k - 1 : i \notin P
<1>1. PICK k \in P : \A y \in P : k <= y
  BY LeastNumber
<1>2. k \in 1 .. l /\ \A i \in 1 .. k - 1 : ~ (k <= i)
  OBVIOUS
<1>3. QED  BY <1>1, <1>2

\* And of the places that pop may go by there is a last.
LEMMA LastGoneBy ==
  ASSUME NEW l \in Nat, NEW P, P \subseteq 0 .. l, P # {}
  PROVE  \E k \in 0 .. l : k \in P /\ \A i \in k + 1 .. l : i \notin P
<1> DEFINE T == {n \in 0 .. l : l - n \in P}
<1>1. T \in SUBSET Nat
  OBVIOUS
<1>2. T # {}
  <2>1. PICK p \in P : TRUE
    OBVIOUS
  <2>2. l - p \in 0 .. l /\ l - (l - p) = p
    BY <2>1
  <2>3. l - p \in T
    BY <2>1, <2>2
  <2>4. QED  BY <2>3
<1>3. PICK n \in T : \A y \in T : n <= y
  BY <1>1, <1>2, LeastNumber
<1>4. n \in 0 .. l /\ l - n \in P
  BY <1>3
<1>5. l - n \in 0 .. l
  BY <1>4
<1>6. ASSUME NEW i \in l - n + 1 .. l PROVE i \notin P
  <2>1. l - i \in 0 .. l /\ l - (l - i) = i /\ ~ (n <= l - i)
    BY <1>4
  <2>2. l - i \notin T
    BY <1>3, <2>1
  <2>3. QED  BY <2>1, <2>2
<1>7. QED  BY <1>4, <1>5, <1>6

LEMMA NotEmpty ==
  ASSUME ChunksInv, chunkBytes # 0
  PROVE  m_chunks # << >>
<1>1. ASSUME m_chunks = << >> PROVE FALSE
  <2>1. m_headUsed = 0 /\ popped - m_headUsed = put /\ chunkBytes = put - popped
        /\ popped \in Nat /\ put \in Nat
    BY <1>1 DEF ChunksInv, Hold
  <2>2. QED  BY <2>1
<1>2. QED  BY <1>1

\* The chunks after the first n hold the rest.
LEMMA HoldRest ==
  ASSUME ChunksInv, m_chunks # << >>, NEW n \in 1 .. Len(m_chunks)
  PROVE  /\ Hold(Dropped(m_chunks, n), Reach(n), put)
         /\ Dropped(m_chunks, n) \in Seq(Seq(Nat))
         /\ n = Len(m_chunks) => Dropped(m_chunks, n) = << >>
         /\ n # Len(m_chunks) =>
              /\ Dropped(m_chunks, n) # << >>
              /\ Dropped(m_chunks, n)[1] = m_chunks[n + 1]
<1> DEFINE l == Len(m_chunks)
           d == Dropped(m_chunks, n)
<1>1. /\ l \in Nat \ {0} /\ m_chunks \in Seq(Seq(Nat)) /\ Reach(l) = put
      /\ Reach(n) = Until(m_chunks, n) /\ Reach(n) \in Nat /\ n \in Nat \ {0}
  BY FirstChunks
<1>2. d = SubSeq(m_chunks, n + 1, l)
  BY DEF Dropped
<1>3. CASE n = l
  <2>1. d = << >>
    <3>1. n + 1 \in Int /\ l \in Int /\ l < n + 1
      BY <1>1, <1>3
    <3>2. QED  BY <1>2, <3>1, SubSeqEmpty
  <2>2. Hold(<< >>, Reach(n), Reach(n))
    BY <1>1, HoldNothing
  <2>3. Reach(n) = put
    BY <1>1, <1>3
  <2>4. << >> \in Seq(Seq(Nat))
    OBVIOUS
  <2>5. QED  BY <1>3, <2>1, <2>2, <2>3, <2>4
<1>4. CASE n # l
  <2>1. n + 1 \in 1 .. l /\ l \in n + 1 .. l /\ n \in 1 .. l
    BY <1>1, <1>4
  <2>2. Hold(m_chunks, popped - m_headUsed, put)
    BY DEF ChunksInv
  <2>3. Hold(d, Before(m_chunks, n + 1), Until(m_chunks, l))
    BY <1>2, <2>1, <2>2, HoldSome
  <2>4. Until(m_chunks, l) = put
    BY <2>2, <1>1 DEF Hold
  <2>5. Before(m_chunks, n + 1) = Reach(n)
    BY <1>1, <2>1, <2>2 DEF Hold, Consecutive
  <2>6. \A h \in n + 1 .. l : m_chunks[h] \in Seq(Nat)
    <3>1. \A h \in n + 1 .. l : h \in 1 .. Len(m_chunks)
      BY <1>1
    <3>2. QED  BY <1>1, <3>1, ElementOfSeq
  <2> HIDE DEF d, l
  <2>7. /\ d \in Seq(Seq(Nat)) /\ Len(d) = (IF n + 1 <= l THEN l - (n + 1) + 1 ELSE 0)
        /\ \A h \in 1 .. l - (n + 1) + 1 : d[h] = m_chunks[n + 1 + h - 1]
    <3>1. n + 1 \in Int /\ l \in Int
      BY <1>1
    <3>2. QED  BY <1>2, <2>6, <3>1, SubSeqProperties
  <2>8. 1 \in 1 .. l - (n + 1) + 1 /\ n + 1 + 1 - 1 = n + 1 /\ Len(d) # 0
    BY <1>1, <2>1, <2>7
  <2>9. d[1] = m_chunks[n + 1]
    <3>1. d[1] = m_chunks[n + 1 + 1 - 1]
      BY <2>7, <2>8
    <3>2. QED  BY <2>8, <3>1
  <2>10. d # << >>
    BY <2>7, <2>8, EmptySeq
  <2>11. Hold(d, Reach(n), put)
    BY <2>3, <2>4, <2>5, Zenon
  <2>12. QED  BY <1>4, <2>7, <2>9, <2>10, <2>11, Zenon DEF d, l
<1>5. QED  BY <1>3, <1>4, Zenon

LEMMA PeekStep ==
  ASSUME ChunksInv, NEW n \in Nat, PeekBytes(n)
  PROVE  ChunksInv' /\ peeked' = Numbers(popped, popped + n)
<1> DEFINE l == Len(m_chunks)
           IsPlace(k) == Enough(n, k) /\ \A i \in 1 .. k - 1 : ~Enough(n, i)
           j == CHOOSE k \in 1 .. l : IsPlace(k)
<1>1. /\ put \in Nat /\ popped \in Nat /\ m_headUsed \in Nat
      /\ popped <= put /\ put <= MaxBytes /\ m_headUsed <= popped
      /\ chunkBytes = put - popped
  BY DEF ChunksInv
<1>2. n \in 1 .. chunkBytes /\ n \in Nat \ {0}
  BY <1>1 DEF PeekBytes
<1>3. m_chunks # << >>
  <2>1. chunkBytes # 0
    BY <1>1, <1>2
  <2>2. QED  BY <2>1, NotEmpty
<1>4. /\ m_chunks' = <<Joined(j)>> \o Dropped(m_chunks, j)
      /\ peeked' = IF Len(Joined(j)) >= m_headUsed + n
                   THEN SubSeq(Joined(j), m_headUsed + 1, m_headUsed + n)
                   ELSE << >>
      /\ UNCHANGED <<chunkBytes, m_headUsed, put, popped>>
  BY DEF PeekBytes
<1>5. /\ l \in Nat \ {0} /\ Reach(0) = popped - m_headUsed /\ Reach(0) \in Nat
      /\ Reach(l) = put
      /\ \A k \in 1 .. l :
           /\ Counts(Joined(k), Reach(0)) /\ Len(Joined(k)) = Reach(k) - Reach(0)
           /\ Reach(k) \in Nat /\ Reach(0) <= Reach(k)
  BY <1>3, FirstChunks, Zenon
<1> HIDE DEF l
<1>6. \E k \in 1 .. l : IsPlace(k)
  <2> DEFINE P == {k \in 1 .. l : Enough(n, k)}
  <2>1. l \in 1 .. l
    BY <1>5
  <2>2. Enough(n, l)
    <3>1. Len(Joined(l)) = put - (popped - m_headUsed)
      BY <1>5, <2>1
    <3>2. Len(Joined(l)) - m_headUsed >= n
      BY ONLY <1>1, <1>2, <3>1
    <3>3. QED  BY <3>2 DEF Enough
  <2>3. P \subseteq Nat /\ P # {} /\ P \subseteq 1 .. l /\ l \in Nat
    <3>1. P \subseteq 1 .. l /\ l \in P
      BY ONLY <2>1, <2>2
    <3>2. l \in Nat
      BY <1>5
    <3>3. 1 .. l \subseteq Nat
      BY ONLY <3>2
    <3> QED BY ONLY <3>1, <3>2, <3>3
  <2> HIDE DEF P
  <2>4. PICK k \in 1 .. l : k \in P /\ \A i \in 1 .. k - 1 : i \notin P
    BY <2>3, FirstEnough
  <2>5. \A i \in 1 .. k - 1 : i \in 1 .. l
    BY <1>5
  <2>6. IsPlace(k)
    BY <2>4, <2>5 DEF P
  <2>7. QED  BY <2>6
<1>7. j \in 1 .. l /\ IsPlace(j)
  BY <1>6, Zenon
<1> HIDE DEF j
<1> DEFINE s == Joined(j)
           a == Reach(0)
           b == Reach(j)
<1>8. /\ Counts(s, a) /\ Len(s) = b - a /\ b \in Nat /\ a \in Nat /\ a <= b
      /\ a = popped - m_headUsed
  BY <1>5, <1>7
<1>9. Len(s) - m_headUsed >= n
  BY <1>7 DEF Enough
<1> HIDE DEF s, a, b
<1>10. /\ m_headUsed + n \in 0 .. Len(s) /\ m_headUsed < Len(s) /\ Len(s) # 0
       /\ a + m_headUsed = popped /\ a + Len(s) = b
  BY ONLY <1>1, <1>2, <1>8, <1>9
<1>11. ChunksInv'
  <2>1. Hold(<<s>>, a, b)
    BY <1>8, <1>10, HoldOne
  <2>2. Hold(Dropped(m_chunks, j), b, put) /\ Dropped(m_chunks, j) \in Seq(Seq(Nat))
    BY <1>3, <1>7, HoldRest DEF l, b
  <2>3. Hold(m_chunks', a, put)
    <3>1. m_chunks' = <<s>> \o Dropped(m_chunks, j)
      BY <1>4 DEF s
    <3>2. Hold(<<s>> \o Dropped(m_chunks, j), a, put)
      BY <2>1, <2>2, HoldBoth
    <3>3. QED  BY <3>1, <3>2
  <2>4. m_chunks' # << >> /\ m_chunks'[1] = s
    <3>1. s \in Seq(Nat)
      BY <1>8 DEF Counts
    <3> DEFINE d == Dropped(m_chunks, j)
               q == m_chunks'
    <3>2. d \in Seq(Seq(Nat)) /\ q = <<s>> \o d
      BY <1>4, <2>2 DEF s
    <3> HIDE DEF d, q
    <3>3. <<s>> \in Seq(Seq(Nat)) /\ Len(<<s>>) = 1 /\ <<s>>[1] = s
      BY <3>1
    <3>4. /\ q \in Seq(Seq(Nat)) /\ Len(q) = 1 + Len(d)
          /\ \A i \in 1 .. 1 + Len(d) : q[i] = IF i <= 1 THEN <<s>>[i] ELSE d[i - 1]
      BY <3>2, <3>3, ConcatProperties
    <3>5. 1 \in 1 .. 1 + Len(d) /\ 1 + Len(d) # 0
      BY <3>2
    <3>6. q[1] = s
      <4> DEFINE w == <<s>>
      <4>1. w[1] = s
        OBVIOUS
      <4>2. \A i \in 1 .. 1 + Len(d) : i <= 1 => q[i] = w[i]
        BY <3>4
      <4> HIDE DEF w
      <4>3. 1 <= 1
        OBVIOUS
      <4>4. q[1] = w[1]
        BY <3>5, <4>2, <4>3, Zenon
      <4>5. QED  BY <4>1, <4>4, Zenon
    <3>7. q # << >> /\ q[1] = s
      BY <3>4, <3>5, <3>6, EmptySeq
    <3>8. QED  BY <3>7 DEF q
  <2>5. /\ put' = put /\ popped' = popped /\ m_headUsed' = m_headUsed
        /\ chunkBytes' = chunkBytes
    BY <1>4
  <2>6. Hold(m_chunks', popped' - m_headUsed', put')
    BY <1>8, <2>3, <2>5, Zenon
  <2>7. m_headUsed' < Len(m_chunks'[1])
    BY <1>10, <2>4, <2>5
  <2>8. QED  BY <1>1, <2>4, <2>5, <2>6, <2>7, Zenon DEF ChunksInv
<1>12. peeked' = Numbers(popped, popped + n)
  <2> DEFINE h == m_headUsed
             x == h + 1
             y == h + n
             r == SubSeq(s, x, y)
             z == popped + n
  <2>3. Len(s) >= m_headUsed + n
    BY ONLY <1>8, <1>10
  <2>4. peeked' = r
    BY <1>4, <2>3 DEF s
  <2>5. /\ h \in Nat /\ x = h + 1 /\ y = h + n /\ y <= Len(s) /\ a + h = popped
        /\ Len(s) \in Nat
    BY <1>1, <1>2, <1>8, <1>10, CountsEmpty
  <2> HIDE DEF h, x, y
  <2>6. \A i \in x .. y : s[i] = a + i /\ s[i] \in Nat
    <3>1. \A i \in x .. y : i \in 1 .. Len(s)
      BY <1>2, <2>5
    <3>2. QED  BY <1>8, <3>1 DEF Counts
  <2>7. /\ r \in Seq(Nat)
        /\ Len(r) = IF x <= y THEN y - x + 1 ELSE 0
        /\ \A i \in 1 .. y - x + 1 : r[i] = s[x + i - 1]
    <3>1. x \in Int /\ y \in Int
      BY <1>2, <2>5
    <3>2. QED  BY <2>6, <3>1, SubSeqProperties
  <2> HIDE DEF r
  <2>8. Len(r) = n
    BY <1>2, <2>5, <2>7
  <2>9. ASSUME NEW i \in 1 .. n PROVE r[i] = popped + i
    <3>1. /\ i \in 1 .. y - x + 1 /\ x + i - 1 = h + i
          /\ h + i \in x .. y /\ a + (h + i) = popped + i
      BY <1>2, <1>8, <2>5
    <3>2. r[i] = s[h + i]
      BY <2>7, <3>1
    <3>3. s[h + i] = a + (h + i)
      BY <2>6, <3>1
    <3>4. QED  BY <3>1, <3>2, <3>3, Zenon
  <2>10. Counts(r, popped)
    BY <2>7, <2>8, <2>9 DEF Counts
  <2> DEFINE u == Numbers(popped, z)
  <2>11. Counts(u, popped) /\ Len(u) = n
    <3>1. z \in Nat /\ popped <= z /\ z - popped = n
      BY <1>1, <1>2
    <3> HIDE DEF z
    <3>2. Counts(u, popped) /\ Len(u) = z - popped
      BY <1>1, <3>1, CountsNumbers
    <3>3. QED  BY <3>1, <3>2
  <2> HIDE DEF u
  <2>12. r = u
    BY ONLY <1>1, <2>8, <2>10, <2>11, CountsSame
  <2>13. QED  BY <2>4, <2>12 DEF u, z
<1>13. QED  BY <1>11, <1>12

LEMMA PopStep ==
  ASSUME ChunksInv, NEW n \in Nat, PopBytes(n)
  PROVE  ChunksInv'
<1> DEFINE l == Len(m_chunks)
           IsPlace(k) == /\ k = 0 \/ GoesBy(n, k)
                      /\ \A i \in k + 1 .. l : ~GoesBy(n, i)
           j == CHOOSE k \in 0 .. l : IsPlace(k)
<1>1. /\ put \in Nat /\ popped \in Nat /\ m_headUsed \in Nat
      /\ popped <= put /\ put <= MaxBytes /\ m_headUsed <= popped
      /\ chunkBytes = put - popped
  BY DEF ChunksInv
<1>2. n \in Nat \ {0} /\ put' = put
  BY DEF PopBytes
<1>3. CASE n >= chunkBytes
  <2>1. m_chunks' = << >> /\ m_headUsed' = 0 /\ chunkBytes' = 0 /\ popped' = put
    BY <1>3 DEF PopBytes
  <2>2. Hold(<< >>, put, put) /\ put - 0 = put /\ put - put = 0 /\ put <= put /\ 0 <= put
        /\ 0 \in Nat
    BY <1>1, HoldNothing
  <2>3. QED  BY <1>1, <1>2, <2>1, <2>2, Zenon DEF ChunksInv
<1>4. CASE ~ (n >= chunkBytes)
  <2>1. /\ m_chunks' = Dropped(m_chunks, j) /\ m_headUsed' = HeadUsed(n, j)
        /\ chunkBytes' = chunkBytes - n /\ popped' = popped + n
    BY <1>4, Zenon DEF PopBytes
  <2>2. m_chunks # << >> /\ popped + n < put
    <3>1. chunkBytes # 0 /\ popped + n < put
      BY <1>1, <1>4
    <3>2. QED  BY <3>1, NotEmpty
  <2>3. /\ l \in Nat \ {0} /\ Reach(0) = popped - m_headUsed /\ Reach(0) \in Nat
        /\ Reach(l) = put
        /\ \A k \in 1 .. l :
             /\ Counts(Joined(k), Reach(0)) /\ Len(Joined(k)) = Reach(k) - Reach(0)
             /\ Reach(k) \in Nat /\ Reach(0) <= Reach(k)
             /\ Reach(k) = Until(m_chunks, k)
    BY <2>2, FirstChunks, Zenon
  <2>4. Consecutive(m_chunks) /\ m_headUsed < Len(m_chunks[1]) /\ m_chunks \in Seq(Seq(Nat))
    BY <2>2 DEF ChunksInv, Hold, Consecutive
  <2>5. ASSUME NEW k \in 1 .. l PROVE GoesBy(n, k) <=> Reach(k) <= popped + n
    <3> DEFINE r == Reach(k)
    <3>1. Len(Joined(k)) = r - (popped - m_headUsed) /\ r \in Nat /\ k > 0
      BY <2>3
    <3> HIDE DEF r
    <3>2. Len(Joined(k)) - m_headUsed <= n <=> r <= popped + n
      BY ONLY <1>1, <1>2, <3>1
    <3>3. QED  BY <3>1, <3>2 DEF GoesBy, r
  <2> HIDE DEF l
  <2>6. \E k \in 0 .. l : IsPlace(k)
    <3> DEFINE P == {k \in 0 .. l : k = 0 \/ GoesBy(n, k)}
    <3>1. P \subseteq 0 .. l /\ P # {} /\ l \in Nat /\ 0 \in 0 .. l
      <4>1. l \in Nat /\ 0 \in 0 .. l
        BY <2>3
      <4>2. P \subseteq 0 .. l /\ 0 \in P
        BY <4>1, Zenon
      <4>3. QED  BY <4>1, <4>2, Zenon
    <3> HIDE DEF P
    <3>2. PICK k \in 0 .. l : k \in P /\ \A i \in k + 1 .. l : i \notin P
      BY <3>1, LastGoneBy
    <3>3. \A i \in k + 1 .. l : i \in 0 .. l
      BY <2>3
    <3>4. (k = 0 \/ GoesBy(n, k)) /\ \A i \in k + 1 .. l : ~GoesBy(n, i)
      BY <3>2, <3>3 DEF P
    <3>5. QED  BY <3>4
  <2>7. j \in 0 .. l /\ IsPlace(j)
    BY <2>6, Zenon
  <2> HIDE DEF j
  <2>8. j # l
    <3>1. ASSUME j = l PROVE FALSE
      <4>1. l \in 1 .. l /\ l # 0
        BY <2>3
      <4>2. GoesBy(n, l)
        BY <2>7, <3>1, <4>1
      <4>3. Reach(l) <= popped + n
        BY <2>5, <4>1, <4>2
      <4>4. QED  BY <1>1, <1>2, <2>2, <2>3, <4>3
    <3>2. QED  BY <3>1
  <2>9. j + 1 \in 1 .. l /\ j + 1 \in j + 1 .. l /\ (j # 0 => j \in 1 .. l)
    BY <2>3, <2>7, <2>8
  <2>10. ~ (Reach(j + 1) <= popped + n)
    BY <2>5, <2>7, <2>9
  <2>11. CASE j = 0
    <3>1. m_headUsed' = m_headUsed + n
      BY <2>1, <2>11, Zenon DEF HeadUsed
    <3>2. m_chunks' = m_chunks
      <4>1. Dropped(m_chunks, 0) = m_chunks
        BY <2>4 DEF Dropped
      <4>2. QED  BY <2>1, <2>11, <4>1
    <3>3. Reach(1) = Before(m_chunks, 1) + Len(m_chunks[1]) /\ Reach(1) \in Nat
          /\ Before(m_chunks, 1) = popped - m_headUsed /\ Len(m_chunks[1]) \in Nat
      <4>1. 1 \in 1 .. l
        BY <2>9, <2>11
      <4>2. QED  BY <2>3, <2>4, <4>1 DEF Until, Reach, Consecutive, l
    <3>4. Reach(0 + 1) = Reach(1)
      OBVIOUS
    <3>5. m_headUsed + n < Len(m_chunks[1])
      <4> DEFINE x == Reach(1)
                 y == Len(m_chunks[1])
      <4>1. x = popped - m_headUsed + y /\ ~ (x <= popped + n) /\ x \in Nat /\ y \in Nat
        BY <2>10, <2>11, <3>3
      <4> HIDE DEF x, y
      <4>2. m_headUsed + n < y
        BY ONLY <1>1, <1>2, <4>1
      <4>3. QED  BY <4>2 DEF y
    <3>6. /\ popped + n - (m_headUsed + n) = popped - m_headUsed
          /\ popped + n \in Nat /\ m_headUsed + n \in Nat /\ popped + n <= put
          /\ m_headUsed + n <= popped + n /\ chunkBytes - n = put - (popped + n)
      BY <1>1, <1>2, <2>2
    <3>7. Hold(m_chunks', popped' - m_headUsed', put')
      <4>1. Hold(m_chunks, popped - m_headUsed, put)
        BY DEF ChunksInv
      <4>2. popped' - m_headUsed' = popped - m_headUsed
        <5>1. popped' = popped + n
          BY <2>1
        <5>2. QED  BY ONLY <1>1, <1>2, <3>1, <5>1
      <4>3. QED  BY <1>2, <3>2, <4>1, <4>2, Zenon
    <3>8. /\ popped' \in Nat /\ m_headUsed' \in Nat /\ popped' <= put /\ m_headUsed' <= popped'
          /\ chunkBytes' = put - popped'
      BY <2>1, <3>1, <3>6
    <3>9. m_chunks' # << >> /\ m_headUsed' < Len(m_chunks'[1])
      BY <2>2, <3>1, <3>2, <3>5
    <3>10. QED  BY <1>1, <1>2, <3>7, <3>8, <3>9, Zenon DEF ChunksInv
  <2>12. CASE j # 0
    <3>1. GoesBy(n, j) /\ j \in 1 .. l
      BY <2>7, <2>9, <2>12
    <3>2. Reach(j) <= popped + n /\ Reach(j) \in Nat
      BY <2>3, <2>5, <3>1
    <3>3. m_headUsed' = popped + n - Reach(j)
      <4> DEFINE r == Reach(j)
      <4>1. Len(Joined(j)) = r - (popped - m_headUsed) /\ r \in Nat
        BY <2>3, <3>1
      <4>2. m_headUsed' = n - (Len(Joined(j)) - m_headUsed)
        BY <2>1, <2>12, Zenon DEF HeadUsed
      <4> HIDE DEF r
      <4>3. m_headUsed' = popped + n - r
        BY ONLY <1>1, <1>2, <4>1, <4>2
      <4>4. QED  BY <4>3 DEF r
    <3>4. /\ Hold(Dropped(m_chunks, j), Reach(j), put)
          /\ Dropped(m_chunks, j) # << >>
          /\ Dropped(m_chunks, j)[1] = m_chunks[j + 1]
      BY <2>2, <2>8, <3>1, HoldRest DEF l
    <3>5. Reach(j + 1) = Reach(j) + Len(m_chunks[j + 1]) /\ Len(m_chunks[j + 1]) \in Nat
      <4>1. Before(m_chunks, j + 1) = Until(m_chunks, j) /\ Len(m_chunks[j + 1]) \in Nat
        BY <2>4, <2>9, <3>1 DEF Consecutive, l
      <4>2. Reach(j) = Until(m_chunks, j) /\ Reach(j + 1) = Until(m_chunks, j + 1)
        BY <2>3, <2>9, <3>1, Zenon
      <4>3. QED  BY <4>1, <4>2, Zenon DEF Until
    <3>6. popped + n - Reach(j) < Len(m_chunks[j + 1])
      <4> DEFINE x == Reach(j)
                 y == Len(m_chunks[j + 1])
                 z == Reach(j + 1)
      <4>1. z = x + y /\ ~ (z <= popped + n) /\ x \in Nat /\ y \in Nat
        BY <2>10, <3>2, <3>5
      <4> HIDE DEF x, y, z
      <4>2. popped + n - x < y
        BY ONLY <1>1, <1>2, <4>1
      <4>3. QED  BY <4>2 DEF x, y
    <3> DEFINE x == Reach(j)
    <3>7. x <= popped + n /\ x \in Nat /\ m_headUsed' = popped + n - x
      BY <3>2, <3>3
    <3> HIDE DEF x
    <3>8. /\ popped + n - (popped + n - x) = x
          /\ popped + n \in Nat /\ popped + n - x \in Nat /\ popped + n <= put
          /\ popped + n - x <= popped + n /\ chunkBytes - n = put - (popped + n)
      BY ONLY <1>1, <1>2, <2>2, <3>7
    <3>9. /\ popped' \in Nat /\ m_headUsed' \in Nat /\ popped' <= put /\ m_headUsed' <= popped'
          /\ chunkBytes' = put - popped' /\ popped' - m_headUsed' = x
      <4>1. popped' = popped + n /\ chunkBytes' = chunkBytes - n
        BY <2>1
      <4>2. QED  BY ONLY <1>1, <1>2, <2>2, <3>7, <4>1
    <3>10. Hold(m_chunks', popped' - m_headUsed', put')
      BY <1>2, <2>1, <3>4, <3>9, Zenon DEF x
    <3>11. m_chunks' # << >> /\ m_headUsed' < Len(m_chunks'[1])
      BY <2>1, <3>3, <3>4, <3>6
    <3>12. QED  BY <1>1, <1>2, <3>9, <3>10, <3>11, Zenon DEF ChunksInv
  <2>13. QED  BY <2>11, <2>12
<1>5. QED  BY <1>3, <1>4

LEMMA WriteStep ==
  ASSUME ChunksInv, NEW n \in Nat, WriteBytes(n)
  PROVE  ChunksInv'
<1> DEFINE l == Len(m_chunks)
           z == put + n
           data == Numbers(put, z)
           space == kChunkSize - Len(m_chunks[l])
           count == IF n <= space THEN n ELSE space
           c == m_chunks[l]
           a == popped - m_headUsed
<1>1. /\ put \in Nat /\ popped \in Nat /\ m_headUsed \in Nat
      /\ popped <= put /\ put <= MaxBytes /\ m_headUsed <= popped
      /\ chunkBytes = put - popped
  BY DEF ChunksInv
<1>2. /\ z <= MaxBytes /\ put' = z /\ chunkBytes' = chunkBytes + n
      /\ m_headUsed' = m_headUsed /\ popped' = popped
      /\ LastHasSpace =>
           m_chunks' = SubSeq(m_chunks, 1, l - 1) \o <<c \o SubSeq(data, 1, count)>>
                         \o Chunked(Dropped(data, count))
      /\ ~LastHasSpace => m_chunks' = m_chunks \o Chunked(data)
  BY Zenon DEF WriteBytes
<1>3. z \in Nat /\ put <= z /\ z - put = n /\ z = put + n
  BY <1>1
<1>4. Hold(m_chunks, a, put) /\ a \in Nat
  BY DEF ChunksInv, Hold
<1>5. Counts(data, put) /\ Len(data) = n
  <2> HIDE DEF z
  <2>1. Counts(data, put) /\ Len(data) = z - put
    BY <1>1, <1>3, CountsNumbers
  <2>2. QED  BY <1>3, <2>1
<1> HIDE DEF z, data
<1>6. m_chunks \in Seq(Seq(Nat)) /\ l \in Nat /\ Consecutive(m_chunks)
  BY <1>4 DEF Hold, Consecutive
<1>7. /\ Hold(m_chunks', a, z)
      /\ m_chunks # << >> =>
           m_chunks' # << >> /\ Before(m_chunks', 1) = Before(m_chunks, 1)
           /\ Len(m_chunks'[1]) >= Len(m_chunks[1])
  <2>1. CASE ~LastHasSpace
    <3> DEFINE d == Chunked(data)
    <3>1. m_chunks' = m_chunks \o d
      BY <1>2, <2>1
    <3>2. Hold(d, put, put + n)
      BY <1>1, <1>5, HoldChunked
    <3>3. Hold(d, put, z)
      BY <1>3, <3>2, Zenon
    <3> HIDE DEF d, a
    <3>4. Hold(m_chunks \o d, a, z)
      BY <1>4, <3>3, HoldBoth
    <3>5. d \in Seq(Seq(Nat))
      BY <3>3 DEF Hold, Consecutive
    <3>6. m_chunks # << >> =>
            m_chunks \o d # << >> /\ (m_chunks \o d)[1] = m_chunks[1]
      BY <1>6, <3>5, FirstOfBoth
    <3>7. m_chunks # << >> => Len(m_chunks[1]) \in Nat
      <4>1. m_chunks # << >> => 1 \in 1 .. Len(m_chunks)
        BY <1>6, EmptySeq
      <4>2. QED  BY <1>6, <4>1 DEF Consecutive
    <3>8. m_chunks # << >> => Len(m_chunks[1]) >= Len(m_chunks[1])
      BY <3>7
    <3>9. QED  BY <3>1, <3>4, <3>6, <3>8, Zenon DEF Before
  <2>2. CASE LastHasSpace
    <3>1. m_chunks # << >> /\ Len(c) < kChunkSize /\ kChunkSize \in Nat
      BY <2>2, ChunkAssumption DEF LastHasSpace
    <3>2. l \in Nat \ {0} /\ l \in 1 .. l
      BY <1>6, <3>1, EmptySeq
    <3>3. /\ Counts(c, Before(m_chunks, l)) /\ Before(m_chunks, l) \in Nat
          /\ Len(c) \in Nat \ {0} /\ Until(m_chunks, l) = put
          /\ Before(m_chunks, 1) = a
      BY <1>4, <3>1, <3>2 DEF Hold, Consecutive
    <3> DEFINE b == Before(m_chunks, l)
               p == SubSeq(m_chunks, 1, l - 1)
               s == SubSeq(data, 1, count)
               t == SubSeq(data, count + 1, Len(data))
               m == put + count
               q == <<c \o s>>
               d == Chunked(t)
    <3>4. b \in Nat /\ b + Len(c) = put /\ Counts(c, b)
      BY <3>3 DEF Until
    <3>5. count \in 0 .. Len(data) /\ count \in Nat
      <4>1. space \in Nat
        BY <3>1, <3>3
      <4>2. QED  BY <1>5, <4>1
    <3> HIDE DEF count
    <3>6. Counts(s, put) /\ Len(s) = count
      BY <1>1, <1>5, <3>5, CountsFirst
    <3>7. Counts(t, put + count) /\ Len(t) = Len(data) - count
      BY <1>1, <1>5, <3>5, CountsRest
    <3>8. Dropped(data, count) = t
      BY DEF Dropped
    <3>9. m_chunks' = p \o q \o d
      BY <1>2, <2>2, <3>8, Zenon
    <3>10. m \in Nat /\ m + Len(t) = z
      BY <1>1, <1>3, <1>5, <3>5, <3>7
    <3>11. Counts(t, m)
      BY <3>7
    <3> HIDE DEF m, t, s, q, d, p, b, c
    <3>12. Hold(d, m, z)
      <4>1. Hold(Chunked(t), m, m + Len(t))
        BY <3>10, <3>11, HoldChunked
      <4>2. QED  BY <3>10, <4>1, Zenon DEF d
    <3>13. Hold(q, b, m)
      <4> DEFINE w == c \o s
      <4>1. Counts(s, b + Len(c))
        BY <3>4, <3>6, Zenon
      <4>2. Counts(w, b) /\ Len(w) = Len(c) + Len(s)
        BY <3>4, <4>1, CountsOn
      <4>3. Len(w) # 0 /\ b + Len(w) = m
        BY <3>3, <3>4, <3>5, <3>6, <4>2 DEF m
      <4> HIDE DEF w
      <4>4. Hold(<<w>>, b, b + Len(w))
        BY <3>4, <4>2, <4>3, HoldOne
      <4>5. QED  BY <4>3, <4>4, Zenon DEF q, w
    <3>14. Hold(p, a, b)
      <4>1. CASE l = 1
        <5>1. p = << >>
          BY <1>6, <4>1 DEF p
        <5>2. a = b
          BY <3>3, <4>1 DEF b
        <5>3. Hold(<< >>, a, a)
          BY <1>4, HoldNothing
        <5>4. QED  BY <5>1, <5>2, <5>3, Zenon
      <4>2. CASE l # 1
        <5> DEFINE k == l - 1
        <5>1. 1 \in 1 .. l /\ k \in 1 .. l /\ k \in 1 .. k /\ l = k + 1
          <6> HIDE DEF l
          <6>1. QED  BY <3>2, <4>2
        <5> HIDE DEF k, a, l
        <5>2. Hold(SubSeq(m_chunks, 1, k), Before(m_chunks, 1), Until(m_chunks, k))
          BY <1>4, <5>1, HoldSome DEF l
        <5>3. Before(m_chunks, l) = Until(m_chunks, k)
          BY <1>6, <5>1 DEF Consecutive, l
        <5>4. QED  BY <3>3, <5>2, <5>3, Zenon DEF p, b, k
      <4>3. QED  BY <4>1, <4>2
    <3> HIDE DEF a
    <3>15. Hold(p \o q, a, m)
      BY <3>13, <3>14, HoldBoth
    <3>16. Hold(p \o q \o d, a, z)
      BY <3>12, <3>15, HoldBoth
    <3>17. p \in Seq(Seq(Nat)) /\ q \in Seq(Seq(Nat)) /\ d \in Seq(Seq(Nat))
           /\ p \o q \in Seq(Seq(Nat)) /\ q # << >>
      <4>1. p \in Seq(Seq(Nat)) /\ q \in Seq(Seq(Nat)) /\ d \in Seq(Seq(Nat))
            /\ p \o q \in Seq(Seq(Nat))
        BY <3>12, <3>13, <3>14, <3>15 DEF Hold, Consecutive
      <4>2. QED  BY <4>1 DEF q
    <3>18. /\ p \o q # << >>
           /\ (p \o q)[1] = IF l = 1 THEN c \o s ELSE m_chunks[1]
      <4>1. CASE l = 1
        <5>1. p = << >>
          BY <1>6, <4>1 DEF p
        <5>2. p \o q = q
          BY <3>17, <5>1, ConcatEmptySeq
        <5>3. q[1] = c \o s
          BY DEF q
        <5>4. QED  BY <3>17, <4>1, <5>2, <5>3, Zenon
      <4>2. CASE l # 1
        <5>1. p # << >> /\ p[1] = m_chunks[1]
          <6> DEFINE k == l - 1
          <6>1. k \in 1 .. l /\ k \in Nat \ {0} /\ k <= l
            <7> HIDE DEF l
            <7>1. QED  BY <3>2, <4>2
          <6>2. \A i \in 1 .. k : m_chunks[i] \in Seq(Nat)
            <7>1. \A i \in 1 .. k : i \in 1 .. Len(m_chunks)
              BY <3>2
            <7>2. QED  BY <1>6, <7>1, ElementOfSeq
          <6>3. p = SubSeq(m_chunks, 1, k)
            BY DEF p
          <6> HIDE DEF k, l
          <6>4. /\ p \in Seq(Seq(Nat)) /\ Len(p) = IF 1 <= k THEN k - 1 + 1 ELSE 0
                /\ \A i \in 1 .. k - 1 + 1 : p[i] = m_chunks[1 + i - 1]
            <7>1. 1 \in Int /\ k \in Int
              BY <6>1
            <7>2. QED  BY <6>2, <6>3, <7>1, SubSeqProperties
          <6>5. 1 \in 1 .. k - 1 + 1 /\ 1 + 1 - 1 = 1 /\ Len(p) # 0
            BY <6>1, <6>4
          <6>6. p[1] = m_chunks[1 + 1 - 1]
            BY <6>4, <6>5
          <6>7. QED  BY <6>4, <6>5, <6>6, EmptySeq
        <5>2. p \o q # << >> /\ (p \o q)[1] = p[1]
          BY <3>17, <5>1, FirstOfBoth
        <5>3. QED  BY <4>2, <5>1, <5>2, Zenon
      <4>3. QED  BY <4>1, <4>2, Zenon
    <3>19. m_chunks' # << >> /\ m_chunks'[1] = (p \o q)[1]
      <4> DEFINE r == p \o q
      <4>1. r \in Seq(Seq(Nat)) /\ r # << >>
        BY <3>17, <3>18
      <4> HIDE DEF r
      <4>2. r \o d # << >> /\ (r \o d)[1] = r[1]
        BY <3>17, <4>1, FirstOfBoth
      <4>3. QED  BY <3>9, <4>2, Zenon DEF r
    <3>20. Before(m_chunks', 1) = a /\ Hold(m_chunks', a, z)
      <4>1. Hold(m_chunks', a, z)
        BY <3>9, <3>16, Zenon
      <4>2. QED  BY <3>19, <4>1 DEF Hold
    <3>21. Len(m_chunks'[1]) >= Len(m_chunks[1])
      <4>1. CASE l = 1
        <5>1. m_chunks'[1] = c \o s /\ m_chunks[1] = c
          BY <3>18, <3>19, <4>1, Zenon DEF c
        <5>2. Len(c \o s) = Len(c) + Len(s)
          BY <3>4, <3>6, CountsOn
        <5>3. Len(c \o s) >= Len(c)
          BY <3>3, <3>5, <3>6, <5>2
        <5>4. QED  BY <5>1, <5>3, Zenon
      <4>2. CASE l # 1
        <5>1. m_chunks'[1] = m_chunks[1]
          BY <3>18, <3>19, <4>2, Zenon
        <5>2. Len(m_chunks[1]) \in Nat
          <6>1. 1 \in 1 .. Len(m_chunks)
            BY <3>2
          <6>2. QED  BY <1>6, <6>1 DEF Consecutive
        <5>3. Len(m_chunks[1]) >= Len(m_chunks[1])
          BY <5>2
        <5>4. QED  BY <5>1, <5>3, Zenon
      <4>3. QED  BY <4>1, <4>2, Zenon
    <3>22. QED  BY <3>3, <3>19, <3>20, <3>21, Zenon
  <2>3. QED  BY <2>1, <2>2
<1>8. /\ put' \in Nat /\ popped' <= put' /\ chunkBytes' = put' - popped'
      /\ put' <= MaxBytes /\ popped' \in Nat /\ m_headUsed' \in Nat /\ m_headUsed' <= popped'
  BY <1>1, <1>2, <1>3
<1>9. Hold(m_chunks', popped' - m_headUsed', put')
  BY <1>2, <1>7, Zenon DEF a
<1>10. /\ m_chunks' = << >> => m_headUsed' = 0
       /\ m_chunks' # << >> => m_headUsed' < Len(m_chunks'[1])
  <2>1. CASE m_chunks = << >>
    <3>1. m_headUsed' = 0
      BY <1>2, <2>1 DEF ChunksInv
    <3>2. ASSUME m_chunks' # << >> PROVE Len(m_chunks'[1]) \in Nat \ {0}
      <4> DEFINE q == m_chunks'
      <4>1. Consecutive(q) /\ q # << >> /\ q \in Seq(Seq(Nat))
        BY <1>7, <3>2 DEF Hold, Consecutive
      <4> HIDE DEF q
      <4>2. 1 \in 1 .. Len(q)
        BY <4>1, EmptySeq
      <4>3. Len(q[1]) \in Nat \ {0}
        BY <4>1, <4>2 DEF Consecutive
      <4>4. QED  BY <4>3 DEF q
    <3>3. QED  BY <3>1, <3>2
  <2>2. CASE m_chunks # << >>
    <3> DEFINE x == Len(m_chunks'[1])
               y == Len(m_chunks[1])
    <3>1. m_chunks' # << >> /\ x >= y /\ m_headUsed < y
      BY <1>7, <2>2 DEF ChunksInv
    <3>2. x \in Int /\ y \in Int
      <4>1. 1 \in 1 .. Len(m_chunks)
        BY <1>6, <2>2, EmptySeq
      <4>2. y \in Nat
        BY <1>6, <4>1 DEF Consecutive
      <4> DEFINE q == m_chunks'
      <4>3. Consecutive(q) /\ q # << >> /\ q \in Seq(Seq(Nat))
        BY <1>7, <3>1 DEF Hold, Consecutive
      <4> HIDE DEF q
      <4>4. 1 \in 1 .. Len(q)
        BY <4>3, EmptySeq
      <4>5. Len(q[1]) \in Nat
        BY <4>3, <4>4 DEF Consecutive
      <4>6. QED  BY <4>2, <4>5 DEF q
    <3> HIDE DEF x, y
    <3>3. m_headUsed < x
      BY ONLY <1>1, <3>1, <3>2
    <3>4. QED  BY <1>2, <3>1, <3>3 DEF x
  <2>3. QED  BY <2>1, <2>2
<1>11. QED  BY <1>8, <1>9, <1>10, Zenon DEF ChunksInv

LEMMA ChunksInvNext == ChunksInv /\ [BufferNext]_chunkVars => ChunksInv'
<1>1. SUFFICES ASSUME ChunksInv, [BufferNext]_chunkVars PROVE ChunksInv'
  OBVIOUS
<1>2. CASE UNCHANGED chunkVars
  BY <1>1, <1>2 DEF chunkVars, ChunksInv, Hold, Consecutive, Before, Until
<1>3. CASE BufferNext
  <2>1. PICK n \in 1 .. MaxBytes + 1 : PeekBytes(n) \/ PopBytes(n) \/ WriteBytes(n)
    BY <1>3 DEF BufferNext
  <2>2. n \in Nat
    BY ChunkAssumption
  <2>3. QED  BY <1>1, <2>1, <2>2, PeekStep, PopStep, WriteStep
<1>4. QED  BY <1>1, <1>2, <1>3

\* A peek returns the bytes asked for, in one piece, whatever was written and
\* dropped before, in chunks of any size.
THEOREM PeekIsAlwaysWhole == BufferSpec => PeekIsWhole
<1> DEFINE A == /\ BufferHoldsBytes'
                /\ \A n \in 1 .. MaxBytes :
                     PeekBytes(n) => peeked' = Numbers(popped, popped + n)
<1>1. ChunksInv /\ ChunksInv' /\ [BufferNext]_chunkVars => [A]_chunkVars
  <2>1. ChunksInv' => BufferHoldsBytes'
    BY ChunksHoldBytes, PTL
  <2>2. ASSUME ChunksInv, NEW n \in 1 .. MaxBytes, PeekBytes(n)
        PROVE  peeked' = Numbers(popped, popped + n)
    <3>1. n \in Nat
      BY ChunkAssumption
    <3>2. QED  BY <2>2, <3>1, PeekStep
  <2>3. QED  BY <2>1, <2>2
<1> HIDE DEF A
<1>2. BufferSpec => [][A]_chunkVars
  BY <1>1, ChunksInvInit, ChunksInvNext, PTL DEF BufferSpec
<1>3. QED  BY <1>2 DEF A, PeekIsWhole

-----------------------------------------------------------------------------
(***************************************************************************)
(* MCMessages: what events and messages pass through.  The parts share no  *)
(* variable, so that a step of one leaves the invariants of the others.    *)
(***************************************************************************)
MessagesInv == QueueInv /\ SocketTypeInv /\ StreamInv

\* A part that is over has its types, too.
LEMMA QueueOverInv == QueueOver => QueueInv
<1> SUFFICES ASSUME QueueOver
             PROVE  QueueInv
  OBVIOUS
<1>1. LoopInv
  <2>1. m_pending \in Seq(Event)
    BY DEF QueueOver
  <2>2. m_ready = (loopPc # "before")
    BY Zenon DEF QueueOver
  <2> QED BY <2>1, <2>2 DEF QueueOver, LoopInv, LoopPlace
<1>2. TimerInv
  <2>1. left \in [EventTimer -> Int] /\ since \in [EventTimer -> 0 .. clock]
    BY DEF QueueOver
  <2>2. clock \in 0 .. MaxClock /\ m_time \in 0 .. clock
    BY ClockAssumption DEF QueueOver
  <2> QED BY <2>1, <2>2 DEF QueueOver, TimerInv, TimersKeepTime
<1>3. TableInv
  <2>1. /\ m_events = << >> /\ m_oldEventIDs = << >> /\ m_queue = << >>
        /\ loopPc # "remove" /\ dataID = 0
    BY DEF QueueOver
  <2>2. Waiting = << >>
    BY <2>1 DEF Waiting
  <2>3. DOMAIN m_events = {} /\ IsFiniteSet(DOMAIN m_events)
    BY <2>1, EmptyTable
  <2>4. TableTypeOK
    BY <2>1, <2>3, EmptyList DEF TableTypeOK
  <2>5. Len(<< >>) = 0
    OBVIOUS
  <2>6. NumbersAreUnique
    BY <2>1, <2>2, <2>3, <2>5 DEF NumbersAreUnique, ListOf
  <2> QED BY <2>4, <2>6 DEF TableInv
<1> QED BY <1>1, <1>2, <1>3 DEF QueueInv

LEMMA SocketOverTypes == SocketOver => SocketTypeInv
<1> SUFFICES ASSUME SocketOver
             PROVE  SocketTypeInv
  OBVIOUS
<1>1. << >> \in Seq(Nat) /\ Len(<< >>) = 0
  BY EmptySeq
<1>2. 0 \in 0 .. MaxWritten /\ 0 \in 0 .. MaxReceived
  BY ByteAssumption
<1>3. MainTypes
  BY <1>2 DEF SocketOver, MainTypes, SocketPlace
<1>4. SocketFlags
  BY DEF SocketOver, SocketFlags
<1>5. ServiceTypes
  BY NothingIsReported DEF SocketOver, ServiceTypes, ServicePlace
<1>6. ReadTypes
  BY <1>1, <1>2 DEF SocketOver, ReadTypes
<1> QED BY <1>3, <1>4, <1>5, <1>6 DEF SocketTypeInv

LEMMA MessagesInit == Init => MessagesInv
<1> SUFFICES ASSUME Init
             PROVE  MessagesInv
  OBVIOUS
<1>1. QueueInit \/ QueueOver
  BY DEF Init
<1>2. SocketInit \/ SocketOver
  BY DEF Init
<1>3. PacketInit
  BY DEF Init, PacketsOver
<1> QED
  BY <1>1, <1>2, <1>3, QueueInvInit, QueueOverInv, SocketTypesInit, SocketOverTypes, StreamInit
     DEF MessagesInv

LEMMA MessagesNext == MessagesInv /\ [Next]_vars => MessagesInv'
<1> SUFFICES ASSUME MessagesInv, [Next]_vars
             PROVE  MessagesInv'
  OBVIOUS
<1>1. [QueueNext]_eventVars
  BY DEF Next, vars
<1>2. [SocketNext]_socketVars
  BY DEF Next, vars
<1>3. [PacketNext]_packetVars
  BY DEF Next, vars
<1> QED BY <1>1, <1>2, <1>3, QueueInvNext, SocketTypesNext, StreamStep DEF MessagesInv

\* Every variable has its type, of the event queue, the socket and the packets
\* on it, whichever of them goes on.
THEOREM MessagesHaveTypes == Spec => []TypesOK
<1>1. MessagesInv => TypesOK
  BY QueueTypes, SocketTypes DEF MessagesInv, StreamInv, TypesOK
<1> QED BY <1>1, MessagesInit, MessagesNext, PTL DEF Spec

=============================================================================
