----------------------- MODULE ClipboardShare_proofs -----------------------
(***************************************************************************)
(* Theorems about ClipboardShare, for any clients, copies, switches and    *)
(* circumstances: its types; that a clean screen has the shared data; that *)
(* data come from the owner; that an owner without the cursor has sent its *)
(* clipboard; that what was copied last reaches the screen with the cursor.*)
(*                                                                         *)
(* The argument follows what is under way.  While users copy where the     *)
(* cursor is and wait (InFocus), there is one grab at most, and it moves   *)
(* from the screen to its program, to the server and to its handler; its   *)
(* data are behind it in every queue.  ClipboardInv says so.  LastInv says *)
(* where the last copy is: on the screen that grabs, or on the owner's,    *)
(* with a number that the server does not find old.                        *)
(***************************************************************************)
EXTENDS ClipboardShare, SequenceTheorems, TLAPS

(***************************************************************************)
(* Queues: that nothing in a queue is in a set, or one thing is; that what *)
(* is last of the set Z is in Y; that something of Y is before each of Z.  *)
(***************************************************************************)
NoneIn(q, Z) == \A i \in DOMAIN q : q[i] \notin Z
OneIn(q, Z) == \E i \in DOMAIN q : q[i] \in Z /\ \A j \in DOMAIN q : q[j] \in Z => j = i
LastIn(q, Z, Y) == \E i \in DOMAIN q : q[i] \in Y /\ \A j \in DOMAIN q : q[j] \in Z => j <= i
Leads(q, Y, Z) ==
  \A j \in DOMAIN q : q[j] \in Z => \E i \in DOMAIN q : i < j /\ q[i] \in Y

LEMMA TailOf ==
  ASSUME NEW S, NEW q \in Seq(S), q # << >>
  PROVE  /\ Tail(q) \in Seq(S) /\ q[1] \in S /\ Head(q) = q[1]
         /\ 1 \in DOMAIN q /\ DOMAIN q \subseteq Nat \ {0} /\ DOMAIN Tail(q) \subseteq Nat \ {0}
         /\ \A i \in DOMAIN Tail(q) : i + 1 \in DOMAIN q /\ Tail(q)[i] = q[i + 1]
         /\ \A i \in DOMAIN q : i # 1 => i - 1 \in DOMAIN Tail(q) /\ Tail(q)[i - 1] = q[i]
<1>1. Tail(q) \in Seq(S) /\ Head(q) = q[1] /\ Head(q) \in S /\ Len(Tail(q)) = Len(q) - 1
  OBVIOUS
<1>2. Len(q) \in Nat /\ Len(q) # 0 /\ DOMAIN q = 1 .. Len(q) /\ DOMAIN Tail(q) = 1 .. Len(q) - 1
  BY <1>1
<1>3. \A i \in 1 .. Len(q) - 1 : Tail(q)[i] = q[i + 1]
  OBVIOUS
<1>4. \A i \in DOMAIN Tail(q) : i + 1 \in DOMAIN q
  BY <1>2
<1>5. ASSUME NEW i \in DOMAIN q, i # 1
      PROVE  i - 1 \in DOMAIN Tail(q) /\ Tail(q)[i - 1] = q[i]
  <2>1. i - 1 \in 1 .. Len(q) - 1 /\ (i - 1) + 1 = i
    BY <1>2, <1>5
  <2> QED BY <2>1, <1>2, <1>3
<1> QED BY <1>1, <1>2, <1>3, <1>4, <1>5

LEMMA AppendOf ==
  ASSUME NEW S, NEW q \in Seq(S), NEW e \in S
  PROVE  /\ Append(q, e) \in Seq(S)
         /\ \E n \in Nat :
              /\ DOMAIN q = 1 .. n /\ DOMAIN Append(q, e) = 1 .. n + 1
              /\ n + 1 \notin DOMAIN q
              /\ Append(q, e)[n + 1] = e
              /\ \A i \in DOMAIN q : Append(q, e)[i] = q[i] /\ i < n + 1 /\ i \in Nat
              /\ \A i \in DOMAIN Append(q, e) : i \in DOMAIN q \/ i = n + 1
<1>1. /\ Append(q, e) \in Seq(S) /\ Len(Append(q, e)) = Len(q) + 1
      /\ Append(q, e)[Len(q) + 1] = e /\ Len(q) \in Nat /\ DOMAIN q = 1 .. Len(q)
  OBVIOUS
<1>2. \A i \in 1 .. Len(q) : Append(q, e)[i] = q[i]
  OBVIOUS
<1>3. DOMAIN Append(q, e) = 1 .. Len(q) + 1
  BY <1>1
<1>4. PICK n \in Nat : n = Len(q)
  BY <1>1
<1>5. DOMAIN q = 1 .. n /\ DOMAIN Append(q, e) = 1 .. n + 1 /\ Append(q, e)[n + 1] = e
  BY <1>1, <1>3, <1>4
<1>6. \A i \in DOMAIN q : Append(q, e)[i] = q[i]
  BY <1>2, <1>1
<1>7. \A i \in DOMAIN q : i < n + 1 /\ i \in Nat
  BY <1>5
<1>8. n + 1 \notin DOMAIN q /\ \A i \in DOMAIN Append(q, e) : i \in DOMAIN q \/ i = n + 1
  BY <1>5
<1> QED BY <1>1, <1>5, <1>6, <1>7, <1>8

LEMMA EmptyQueue ==
  /\ \A S : << >> \in Seq(S)
  /\ \A Z : NoneIn(<< >>, Z)
  /\ \A Y, Z : Leads(<< >>, Y, Z)
BY DEF NoneIn, Leads

LEMMA Fewer ==
  ASSUME NEW q, NEW Z, NEW Y, NoneIn(q, Z), Y \subseteq Z
  PROVE  NoneIn(q, Y)
BY DEF NoneIn

LEMMA Removed ==
  ASSUME NEW S, NEW q \in Seq(S), q # << >>
  PROVE  /\ Tail(q) \in Seq(S) /\ Head(q) \in S
         /\ \A Z : NoneIn(q, Z) => NoneIn(Tail(q), Z) /\ Head(q) \notin Z
         /\ \A Z : Head(q) \notin Z /\ NoneIn(Tail(q), Z) => NoneIn(q, Z)
         /\ \A Z : OneIn(q, Z) =>
              IF Head(q) \in Z THEN NoneIn(Tail(q), Z) ELSE OneIn(Tail(q), Z)
         /\ \A Z, Y : LastIn(q, Z, Y) =>
              LastIn(Tail(q), Z, Y) \/ (Head(q) \in Y /\ NoneIn(Tail(q), Z))
         /\ \A Z, Y : Leads(q, Y, Z) =>
              /\ Head(q) \notin Z
              /\ Head(q) \notin Y => Leads(Tail(q), Y, Z)
<1> DEFINE r == Tail(q)
<1>0. /\ r \in Seq(S) /\ q[1] \in S /\ Head(q) = q[1] /\ 1 \in DOMAIN q
      /\ DOMAIN q \subseteq Nat \ {0} /\ DOMAIN r \subseteq Nat \ {0}
      /\ \A i \in DOMAIN r : i + 1 \in DOMAIN q /\ r[i] = q[i + 1]
      /\ \A i \in DOMAIN q : i # 1 => i - 1 \in DOMAIN r /\ r[i - 1] = q[i]
  BY TailOf
<1> HIDE DEF r
<1>1. \A Z : NoneIn(q, Z) => NoneIn(r, Z) /\ q[1] \notin Z
  BY <1>0 DEF NoneIn
<1>2. \A Z : q[1] \notin Z /\ NoneIn(r, Z) => NoneIn(q, Z)
  BY <1>0 DEF NoneIn
<1>3. ASSUME NEW Z, OneIn(q, Z), q[1] \notin Z
      PROVE  OneIn(r, Z)
  <2>1. PICK i \in DOMAIN q : q[i] \in Z /\ \A j \in DOMAIN q : q[j] \in Z => j = i
    BY <1>3 DEF OneIn
  <2>2. i - 1 \in DOMAIN r /\ r[i - 1] \in Z
    BY <2>1, <1>0, <1>3
  <2>3. ASSUME NEW j \in DOMAIN r, r[j] \in Z
        PROVE  j = i - 1
    <3>1. j + 1 = i
      BY <2>1, <2>3, <1>0
    <3> QED BY <3>1, <1>0
  <2> QED BY <2>2, <2>3 DEF OneIn
<1>4. ASSUME NEW Z, OneIn(q, Z), q[1] \in Z
      PROVE  NoneIn(r, Z)
  <2>1. \A j \in DOMAIN q : q[j] \in Z => j = 1
    BY <1>4, <1>0 DEF OneIn
  <2>2. \A j \in DOMAIN r : j + 1 # 1
    BY <1>0
  <2> QED BY <2>1, <2>2, <1>0 DEF NoneIn
<1>5. ASSUME NEW Z, NEW Y, LastIn(q, Z, Y)
      PROVE  LastIn(r, Z, Y) \/ (q[1] \in Y /\ NoneIn(r, Z))
  <2>1. PICK i \in DOMAIN q : q[i] \in Y /\ \A j \in DOMAIN q : q[j] \in Z => j <= i
    BY <1>5 DEF LastIn
  <2>2. ASSUME NEW j \in DOMAIN r, r[j] \in Z
        PROVE  j <= i - 1
    <3>1. j + 1 <= i
      BY <2>1, <2>2, <1>0
    <3>2. j \in Nat /\ i \in Nat
      BY <1>0
    <3> QED BY <3>1, <3>2
  <2>3. CASE i = 1
    <3>1. \A j \in DOMAIN r : r[j] \notin Z
      BY <2>2, <2>3, <1>0
    <3> QED BY <3>1, <2>1, <2>3 DEF NoneIn
  <2>4. CASE i # 1
    BY <2>1, <2>2, <2>4, <1>0 DEF LastIn
  <2> QED BY <2>3, <2>4
<1>6. ASSUME NEW Z, NEW Y, Leads(q, Y, Z)
      PROVE  q[1] \notin Z
  <2>1. \A i \in DOMAIN q : ~(i < 1)
    BY <1>0
  <2> QED BY <2>1, <1>0, <1>6 DEF Leads
<1>7. ASSUME NEW Z, NEW Y, Leads(q, Y, Z), q[1] \notin Y
      PROVE  Leads(r, Y, Z)
  <2>1. ASSUME NEW j \in DOMAIN r, r[j] \in Z
        PROVE  \E i \in DOMAIN r : i < j /\ r[i] \in Y
    <3>1. j + 1 \in DOMAIN q /\ q[j + 1] \in Z
      BY <2>1, <1>0
    <3>2. PICK i \in DOMAIN q : i < j + 1 /\ q[i] \in Y
      BY <3>1, <1>7 DEF Leads
    <3>3. i - 1 \in DOMAIN r /\ r[i - 1] \in Y
      BY <3>2, <1>0, <1>7
    <3>4. i - 1 < j
      BY <3>2, <1>0, <2>1
    <3> QED BY <3>3, <3>4
  <2> QED BY <2>1 DEF Leads
<1> QED BY <1>0, <1>1, <1>2, <1>3, <1>4, <1>5, <1>6, <1>7 DEF r

LEMMA Added ==
  ASSUME NEW S, NEW q \in Seq(S), NEW e \in S
  PROVE  /\ Append(q, e) \in Seq(S)
         /\ \A Z : NoneIn(Append(q, e), Z) <=> NoneIn(q, Z) /\ e \notin Z
         /\ \A Z : OneIn(q, Z) /\ e \notin Z => OneIn(Append(q, e), Z)
         /\ \A Z : NoneIn(q, Z) /\ e \in Z => OneIn(Append(q, e), Z)
         /\ \A Z, Y : LastIn(q, Z, Y) /\ e \notin Z => LastIn(Append(q, e), Z, Y)
         /\ \A Z, Y : e \in Y => LastIn(Append(q, e), Z, Y)
         /\ \A Z, Y : Leads(q, Y, Z) /\ (NoneIn(q, Y) => e \notin Z) => Leads(Append(q, e), Y, Z)
<1> DEFINE r == Append(q, e)
<1>0. PICK n \in Nat :
        /\ DOMAIN q = 1 .. n /\ DOMAIN r = 1 .. n + 1 /\ n + 1 \notin DOMAIN q /\ r[n + 1] = e
        /\ \A i \in DOMAIN q : r[i] = q[i] /\ i < n + 1 /\ i \in Nat
        /\ \A i \in DOMAIN r : i \in DOMAIN q \/ i = n + 1
  BY AppendOf
<1>10. r \in Seq(S)
  BY AppendOf
<1> HIDE DEF r
<1>11. DOMAIN q \subseteq DOMAIN r /\ n + 1 \in DOMAIN r
  BY <1>0
<1>1. ASSUME NEW Z
      PROVE  NoneIn(r, Z) <=> NoneIn(q, Z) /\ e \notin Z
  BY <1>0, <1>11 DEF NoneIn
<1>2. ASSUME NEW Z, OneIn(q, Z), e \notin Z
      PROVE  OneIn(r, Z)
  BY <1>0, <1>11, <1>2 DEF OneIn
<1>3. ASSUME NEW Z, NoneIn(q, Z), e \in Z
      PROVE  OneIn(r, Z)
  BY <1>0, <1>11, <1>3 DEF OneIn, NoneIn
<1>4. ASSUME NEW Z, NEW Y, LastIn(q, Z, Y), e \notin Z
      PROVE  LastIn(r, Z, Y)
  BY <1>0, <1>11, <1>4 DEF LastIn
<1>5. ASSUME NEW Z, NEW Y, e \in Y
      PROVE  LastIn(r, Z, Y)
  <2>1. \A j \in DOMAIN r : j <= n + 1
    BY <1>0
  <2> QED BY <2>1, <1>0, <1>11, <1>5 DEF LastIn
<1>6. ASSUME NEW Z, NEW Y, Leads(q, Y, Z), NoneIn(q, Y) => e \notin Z
      PROVE  Leads(r, Y, Z)
  <2>1. ASSUME NEW j \in DOMAIN r, r[j] \in Z
        PROVE  \E i \in DOMAIN r : i < j /\ r[i] \in Y
    <3>1. CASE j \in DOMAIN q
      BY <3>1, <2>1, <1>0, <1>11, <1>6 DEF Leads
    <3>2. CASE j = n + 1
      <4>1. PICK i \in DOMAIN q : q[i] \in Y
        BY <3>2, <2>1, <1>0, <1>6 DEF NoneIn
      <4> QED BY <4>1, <3>2, <1>0, <1>11
    <3> QED BY <3>1, <3>2, <2>1, <1>0
  <2> QED BY <2>1 DEF Leads
<1> QED BY <1>10, <1>1, <1>2, <1>3, <1>4, <1>5, <1>6 DEF r

-----------------------------------------------------------------------------
(* What the queues hold.                                                   *)
Number == 0 .. MaxSwitches
ServerEvent ==
  [type : {"grabbed"}, screen : Screen, seq : Number]
    \union [type : {"changed"}, screen : Client, seq : Number]
    \union [type : {"sending"}, screen : Client, seq : Number, data : Data]
    \union [type : {"gone"}, screen : Client]
ClientEvent ==
  [type : {"grabbed"}, screen : Client, seq : Number]
    \union [type : {"sending"}, screen : Client, seq : Number, data : Data]
ToClient ==
  [type : {"enter"}, seq : Number \ {0}] \union [type : {"leave"}]
    \union [type : {"grab"}, seq : Number] \union [type : {"data"}, seq : Number, data : Data]
ToServer ==
  [type : {"grab"}, seq : Number] \union [type : {"data"}, seq : Number, data : Data]

Grabs == {e \in ServerEvent : e.type = "grabbed"}
GrabsOf(s) == {e \in Grabs : e.screen = s}
LaterGrabs(n) == {e \in Grabs : e.seq > n}
OldGrabs(n) == {e \in Grabs : e.screen # Home /\ e.seq < n}
ChangesOf(c) == {e \in ServerEvent : e.type = "changed" /\ e.screen = c}
SendingsTo(c) == {e \in ServerEvent : e.type = "sending" /\ e.screen = c}
SendingsOf(c, v) == {e \in SendingsTo(c) : e.data = v}
EventsOf(c) == {e \in ServerEvent : e.type # "gone" /\ e.screen = c}

Reports == {e \in ClientEvent : e.type = "grabbed"}
Uploads == {e \in ClientEvent : e.type = "sending"}

MoveMessages == {m \in ToClient : m.type = "enter" \/ m.type = "leave"}
Enters(n) == {m \in ToClient : m.type = "enter" /\ m.seq = n}
Leaves == {m \in ToClient : m.type = "leave"}
LaterEnters(n) == {m \in ToClient : m.type = "enter" /\ m.seq > n}
EarlierEnters(n) == {m \in ToClient : m.type = "enter" /\ m.seq < n}
TakeMessages == {m \in ToClient : m.type = "grab" \/ m.type = "data"}
TakesOf(v) ==
  {m \in TakeMessages : m.type = "data" /\ m.data = v}

GrabMessages == {m \in ToServer : m.type = "grab"}
DataMessages == {m \in ToServer : m.type = "data"}
LaterMessages(n) == {m \in GrabMessages : m.seq > n}
OldMessages(n) == {m \in GrabMessages : m.seq < n}

QueueTypes ==
  /\ events \in Seq(ServerEvent)
  /\ clientEvents \in [Client -> Seq(ClientEvent)]
  /\ toClient \in [Client -> Seq(ToClient)]
  /\ toServer \in [Client -> Seq(ToServer)]

\* No number under way runs ahead of the server's.
BoundInv ==
  /\ NoneIn(events, LaterGrabs(m_seqNum))
  /\ \A c \in Client : /\ NoneIn(toClient[c], LaterEnters(m_seqNum))
                     /\ NoneIn(toServer[c], LaterMessages(m_seqNum))

\* Nothing of a client that is not connected is under way.
GoneInv ==
  \A c \in Client \ connected :
    /\ clientEvents[c] = << >> /\ toClient[c] = << >> /\ toServer[c] = << >>
    /\ c \notin unnoticed
    /\ NoneIn(events, EventsOf(c))
    /\ ~setting.drops => ~clientActive[c]

-----------------------------------------------------------------------------
\* Where the last enter or leave brings a client: to be active if it is the
\* active screen.  A client that has not been entered since it connected may
\* believe that it is active if it was when its last connection was lost.
ComesTo(c) ==
  \/ c = activeScreen /\ LastIn(toClient[c], MoveMessages, Enters(m_seqNum))
  \/ c # activeScreen /\ LastIn(toClient[c], MoveMessages, Leaves)
  \/ /\ NoneIn(toClient[c], MoveMessages)
     /\ c = activeScreen => seqNum[c] = m_seqNum /\ clientActive[c]
     /\ c # activeScreen /\ (~setting.drops \/ seqNum[c] > 0) => ~clientActive[c]
MovesInv ==
  /\ activeScreen # Home => m_seqNum > 0
  /\ \A c \in connected : ComesTo(c)

\* An owner that is not active has sent its clipboard or is about to.
SentInv ==
  NoticesEveryCopy \/ ~setting.background =>
    \A c \in connected : c \in ownClipboard /\ ~clientActive[c] =>
      \/ sentClipboard[c] = content[c]
      \/ c \in unnoticed
      \/ ~NoneIn(clientEvents[c], Reports)

-----------------------------------------------------------------------------
\* The stages of a grab: the copy is yet to be noticed, the client is yet to
\* tell the server, the message is under way, the server is yet to handle it.
NoReports == \A c \in Client : NoneIn(clientEvents[c], Reports)
NoMessages == \A c \in Client : NoneIn(toServer[c], GrabMessages)
NoGrab == unnoticed = {} /\ NoReports /\ NoMessages /\ NoneIn(events, Grabs)
Unnoticed(s) == unnoticed = {s} /\ NoReports /\ NoMessages /\ NoneIn(events, Grabs)
Reported(c) ==
  /\ unnoticed = {} /\ NoMessages /\ NoneIn(events, Grabs)
  /\ OneIn(clientEvents[c], Reports)
  /\ \A d \in Client \ {c} : NoneIn(clientEvents[d], Reports)
Told(c) ==
  /\ unnoticed = {} /\ NoReports /\ NoneIn(events, Grabs)
  /\ OneIn(toServer[c], GrabMessages)
  /\ \A d \in Client \ {c} : NoneIn(toServer[d], GrabMessages)
Posted(s) ==
  /\ unnoticed = {} /\ NoReports /\ NoMessages
  /\ OneIn(events, Grabs) /\ ~NoneIn(events, GrabsOf(s))
GrabOf(s) ==
  Unnoticed(s) \/ Posted(s) \/ (s \in Client /\ (Reported(s) \/ Told(s)))

\* c sends nothing, and will not when the cursor leaves it.
Silent(c) ==
  /\ c \in ownClipboard => sentClipboard[c] = content[c]
  /\ NoneIn(clientEvents[c], Uploads) /\ NoneIn(toServer[c], DataMessages)
  /\ NoneIn(events, ChangesOf(c))

\* There is one grab at most, and while there is the other clients are silent.
StageInv ==
  \/ NoGrab
  \/ \E s \in connected \union {Home} :
       GrabOf(s) /\ \A c \in connected \ {s} : Silent(c)

\* The client has yet to tell the server of a copy; the server is told by it.
HasCopied(c) == c \in unnoticed \/ ~NoneIn(clientEvents[c], Reports)
HasTold(c) == ~NoneIn(toServer[c], GrabMessages) \/ ~NoneIn(events, GrabsOf(c))
HomeHasCopied == Home \in unnoticed \/ ~NoneIn(events, GrabsOf(Home))

\* The number of a grab is not old.
Recent(c) ==
  /\ m_clipboardSeqNum <= seqNum[c] /\ 0 < seqNum[c]
  /\ NoneIn(toClient[c], EarlierEnters(m_clipboardSeqNum))
NumbersInv(c) ==
  /\ NoneIn(toServer[c], OldMessages(m_clipboardSeqNum))
  /\ HasCopied(c) => Recent(c)
  /\ c \in ownClipboard => 0 < seqNum[c]

\* A client that believes that it owns the clipboard does, or will once what is
\* under way has arrived.
OwnInv(c) ==
  c \in ownClipboard =>
    \/ m_clipboardOwner = c
    \/ HasTold(c)
    \/ sentClipboard[c] = content[c] /\ ~NoneIn(toClient[c], TakeMessages)

\* A screen whose copies would go unnoticed is the owner.
HeldInv(c) ==
  \/ held[c] \/ m_clipboardOwner = c \/ HasCopied(c) \/ HasTold(c)
  \/ ~NoneIn(toClient[c], TakeMessages)

\* Data come from the owner, or behind the grab that will make it the owner.
DataInv(c) ==
  m_clipboardOwner # c =>
    /\ ~NoneIn(clientEvents[c], Uploads) => HasTold(c)
    /\ NoneIn(events, GrabsOf(c)) => Leads(toServer[c], GrabMessages, DataMessages)
    /\ Leads(events, GrabsOf(c), ChangesOf(c))

\* c will have the data v once what is under way to it has arrived.
WillHave(c, v) ==
  \/ LastIn(events, SendingsTo(c), SendingsOf(c, v))
  \/ /\ NoneIn(events, SendingsTo(c))
     /\ \/ LastIn(toClient[c], TakeMessages, TakesOf(v))
        \/ NoneIn(toClient[c], TakeMessages) /\ content[c] = v

CleanInv(c) ==
  c \notin dirty \union {m_clipboardOwner} /\ ~HasCopied(c) /\ ~HasTold(c)
    => WillHave(c, m_clipboardData)

ClientInv(c) == NumbersInv(c) /\ OwnInv(c) /\ HeldInv(c) /\ DataInv(c) /\ CleanInv(c)

HomeInv ==
  /\ held[Home] \/ m_clipboardOwner = Home \/ HomeHasCopied
  /\ Home \notin dirty \union {m_clipboardOwner} /\ ~HomeHasCopied
       => content[Home] = m_clipboardData

Focused ==
  /\ StageInv /\ HomeInv
  /\ NoneIn(events, OldGrabs(m_clipboardSeqNum))
  /\ \A c \in connected : ClientInv(c)
FocusInv == InFocus => Focused

-----------------------------------------------------------------------------
(* Types.                                                                  *)

LEMMA ServerKinds ==
  ASSUME NEW e \in ServerEvent
  PROVE  /\ e \in Grabs <=> e.type = "grabbed"
         /\ \A s : e \in GrabsOf(s) <=> e.type = "grabbed" /\ e.screen = s
         /\ \A n : e \in LaterGrabs(n) <=> e.type = "grabbed" /\ e.seq > n
         /\ \A n : e \in OldGrabs(n) <=> e.type = "grabbed" /\ e.screen # Home /\ e.seq < n
         /\ \A c : e \in ChangesOf(c) <=> e.type = "changed" /\ e.screen = c
         /\ \A c : e \in SendingsTo(c) <=> e.type = "sending" /\ e.screen = c
         /\ \A c, v : e \in SendingsOf(c, v)
                        <=> e.type = "sending" /\ e.screen = c /\ e.data = v
         /\ \A c : e \in EventsOf(c) <=> e.type # "gone" /\ e.screen = c
BY DEF Grabs, GrabsOf, LaterGrabs, OldGrabs, ChangesOf, SendingsTo, SendingsOf, EventsOf

LEMMA ServerEventTypes ==
  ASSUME NEW e \in ServerEvent
  PROVE  /\ e.type \in {"grabbed", "changed", "sending", "gone"}
         /\ e.screen \in Screen
         /\ e.type = "grabbed" => e.seq \in Number
         /\ e.type = "changed" => e.seq \in Number /\ e.screen \in Client
         /\ e.type = "sending" => e.data \in Data /\ e.screen \in Client
         /\ e.type = "gone" => e.screen \in Client
BY DEF ServerEvent, Screen

LEMMA NewServerEvent ==
  /\ \A s \in Screen, n \in Number :
       /\ Grabbed(s, n) \in ServerEvent /\ Grabbed(s, n).type = "grabbed"
       /\ Grabbed(s, n).screen = s /\ Grabbed(s, n).seq = n
  /\ \A c \in Client, n \in Number :
       /\ Changed(c, n) \in ServerEvent /\ Changed(c, n).type = "changed"
       /\ Changed(c, n).screen = c /\ Changed(c, n).seq = n
  /\ \A c \in Client, n \in Number, v \in Data :
       /\ Sending(c, n, v) \in ServerEvent /\ Sending(c, n, v).type = "sending"
       /\ Sending(c, n, v).screen = c /\ Sending(c, n, v).seq = n
       /\ Sending(c, n, v).data = v
BY DEF ServerEvent, Grabbed, Changed, Sending

LEMMA ClientKinds ==
  /\ \A e \in ClientEvent :
       /\ e.type \in {"grabbed", "sending"}
       /\ e \in Reports <=> e.type = "grabbed"
       /\ e \in Uploads <=> e.type = "sending"
       /\ e.type = "sending" => e.seq \in Number /\ e.data \in Data
  /\ \A c \in Client : Grabbed(c, 0) \in Reports /\ Grabbed(c, 0) \notin Uploads
  /\ \A c \in Client, n \in Number, v \in Data :
       Sending(c, n, v) \in Uploads /\ Sending(c, n, v) \notin Reports
  /\ Reports \subseteq ClientEvent /\ Uploads \subseteq ClientEvent
<1>1. 0 \in Number
  BY CopyAssumption DEF Number
<1> QED BY <1>1 DEF ClientEvent, Reports, Uploads, Grabbed, Sending

LEMMA ToClientKinds ==
  ASSUME NEW m \in ToClient
  PROVE  /\ m.type \in {"enter", "leave", "grab", "data"}
         /\ m \in MoveMessages <=> m.type \in {"enter", "leave"}
         /\ \A n : m \in Enters(n) <=> m.type = "enter" /\ m.seq = n
         /\ m \in Leaves <=> m.type = "leave"
         /\ \A n : m \in LaterEnters(n) <=> m.type = "enter" /\ m.seq > n
         /\ \A n : m \in EarlierEnters(n) <=> m.type = "enter" /\ m.seq < n
         /\ m \in TakeMessages <=> m.type \in {"grab", "data"}
         /\ m.type = "grab" => \A v : m \notin TakesOf(v)
         /\ m.type = "data" => \A v : m \in TakesOf(v) <=> m.data = v
         /\ m \notin TakeMessages => \A v : m \notin TakesOf(v)
         /\ m.type = "enter" => m.seq \in Number \ {0}
         /\ m.type = "data" => m.data \in Data
<1>1. m.type \in {"enter", "leave", "grab", "data"}
  BY DEF ToClient
<1> QED BY <1>1 DEF ToClient, MoveMessages, Enters, Leaves, LaterEnters, EarlierEnters,
                    TakeMessages, TakesOf

LEMMA NewToClient ==
  /\ \A n \in Number \ {0} :
       Enter(n) \in ToClient /\ Enter(n).type = "enter" /\ Enter(n).seq = n
  /\ Leave \in ToClient /\ Leave.type = "leave"
  /\ Grab(0) \in ToClient /\ Grab(0).type = "grab"
  /\ \A v \in Data : Put(0, v) \in ToClient /\ Put(0, v).type = "data" /\ Put(0, v).data = v
<1>1. 0 \in Number
  BY CopyAssumption DEF Number
<1> QED BY <1>1 DEF ToClient, Enter, Leave, Grab, Put

LEMMA ToServerKinds ==
  /\ \A m \in ToServer :
       /\ m.type \in {"grab", "data"} /\ m.seq \in Number
       /\ m \in GrabMessages <=> m.type = "grab"
       /\ m \in DataMessages <=> m.type = "data"
       /\ \A n : m \in LaterMessages(n) <=> m.type = "grab" /\ m.seq > n
       /\ \A n : m \in OldMessages(n) <=> m.type = "grab" /\ m.seq < n
       /\ m.type = "data" => m.data \in Data
  /\ \A n \in Number :
       Grab(n) \in ToServer /\ Grab(n).type = "grab" /\ Grab(n).seq = n
  /\ \A n \in Number, v \in Data :
       /\ Put(n, v) \in ToServer /\ Put(n, v).type = "data" /\ Put(n, v).seq = n
       /\ Put(n, v).data = v
BY DEF ToServer, GrabMessages, DataMessages, LaterMessages, OldMessages, Grab, Put

Typed == ClipboardTypeOK /\ QueueTypes /\ BoundInv

LEMMA TypesUnderway ==
  ASSUME ClipboardTypeOK, QueueTypes
  PROVE  /\ 0 \in Number /\ m_seqNum \in Number /\ m_clipboardSeqNum \in Number /\ primarySeq \in Number
         /\ \A c \in Client : seqNum[c] \in Number
         /\ \A s \in Screen : content[s] \in Data /\ AfterGrab(s) \in Data
         /\ Empty \in Data /\ m_clipboardData \in Data
         /\ Client \subseteq Screen /\ Home \in Screen
         /\ connected \union {Home} \subseteq Screen
         /\ events # << >> => Head(events) \in ServerEvent /\ Tail(events) \in Seq(ServerEvent)
         /\ \A c \in Client :
              /\ clientEvents[c] # << >> =>
                   Head(clientEvents[c]) \in ClientEvent /\ Tail(clientEvents[c]) \in Seq(ClientEvent)
              /\ toClient[c] # << >> =>
                   Head(toClient[c]) \in ToClient /\ Tail(toClient[c]) \in Seq(ToClient)
              /\ toServer[c] # << >> =>
                   Head(toServer[c]) \in ToServer /\ Tail(toServer[c]) \in Seq(ToServer)
<1>1. MaxSwitches \in Nat /\ MaxCopies \in Nat
  BY CopyAssumption
<1>2. 0 \in Number /\ m_seqNum \in Number /\ m_clipboardSeqNum \in Number /\ primarySeq \in Number
  BY <1>1 DEF ClipboardTypeOK, Number
<1>3. ASSUME NEW c \in Client
      PROVE  seqNum[c] \in Number
  <2>1. seqNum[c] \in 0 .. m_seqNum
    BY DEF ClipboardTypeOK
  <2> QED BY <2>1, <1>1, <1>2 DEF Number
<1>4. /\ \A s \in Screen : content[s] \in Data /\ AfterGrab(s) \in Data
      /\ Empty \in Data /\ m_clipboardData \in Data
      /\ Client \subseteq Screen /\ Home \in Screen
      /\ connected \union {Home} \subseteq Screen
  BY <1>1 DEF AfterGrab, ClipboardTypeOK, Empty, Data, Screen
<1>5. events # << >> => Head(events) \in ServerEvent /\ Tail(events) \in Seq(ServerEvent)
  BY Removed DEF QueueTypes
<1>6. ASSUME NEW c \in Client
      PROVE  /\ clientEvents[c] # << >> =>
                  Head(clientEvents[c]) \in ClientEvent /\ Tail(clientEvents[c]) \in Seq(ClientEvent)
             /\ toClient[c] # << >> =>
                  Head(toClient[c]) \in ToClient /\ Tail(toClient[c]) \in Seq(ToClient)
             /\ toServer[c] # << >> =>
                  Head(toServer[c]) \in ToServer /\ Tail(toServer[c]) \in Seq(ToServer)
  BY Removed DEF QueueTypes
<1> QED BY <1>2, <1>3, <1>4, <1>5, <1>6

LEMMA CopyTyped ==
  ASSUME Typed, NEW s \in Screen, Copy(s), UNCHANGED setting
  PROVE  Typed'
<1> USE DEF Typed
<1>1. ClipboardTypeOK'
  <2>1. copies + 1 \in Data
    BY CopyAssumption DEF Copy, ClipboardTypeOK, Data
  <2> QED BY <2>1 DEF Copy, ClipboardTypeOK, peerVars, cursorVars, clipVars, ownerVars
<1>2. QueueTypes' /\ BoundInv'
  BY DEF Copy, QueueTypes, BoundInv, cursorVars
<1> QED BY <1>1, <1>2

LEMMA NoticeTyped ==
  ASSUME Typed, NEW s \in Screen, Notice(s), UNCHANGED setting
  PROVE  Typed'
<1> USE DEF Typed
<1>1. ClipboardTypeOK'
  BY DEF Notice, ClipboardTypeOK, screenVars, peerVars, cursorVars, clipVars, ownerVars
<1>2. CASE s = Home
  <2> DEFINE e == Grabbed(Home, primarySeq)
  <2>1. e \in ServerEvent /\ e.type = "grabbed" /\ e.seq = primarySeq
    BY TypesUnderway, NewServerEvent
  <2>2. e \notin LaterGrabs(m_seqNum)
    <3>1. ~(primarySeq > m_seqNum)
      BY CopyAssumption DEF ClipboardTypeOK
    <3> QED BY <2>1, <3>1, ServerKinds
  <2>3. events \in Seq(ServerEvent) /\ events' = Append(events, e)
    BY <1>2 DEF Notice, QueueTypes
  <2> HIDE DEF e
  <2>4. events' \in Seq(ServerEvent) /\ NoneIn(events', LaterGrabs(m_seqNum))
    BY <2>1, <2>2, <2>3, Added DEF BoundInv
  <2> QED BY <2>4, <1>1, <1>2 DEF Notice, QueueTypes, BoundInv, cursorVars
<1>3. CASE s # Home
  <2>1. s \in Client /\ Grabbed(s, 0) \in ClientEvent
    BY <1>3, ClientKinds DEF Screen
  <2>2. clientEvents[s] \in Seq(ClientEvent)
    BY <2>1 DEF QueueTypes
  <2>3. Append(clientEvents[s], Grabbed(s, 0)) \in Seq(ClientEvent)
    BY <2>1, <2>2, Added
  <2>4. clientEvents' \in [Client -> Seq(ClientEvent)]
    BY <2>1, <2>3, <1>3 DEF Notice, QueueTypes
  <2> QED BY <2>4, <1>1, <1>3 DEF Notice, QueueTypes, BoundInv, cursorVars
<1> QED BY <1>2, <1>3

\* The queues of Delivers.
LEMMA DeliversTyped ==
  ASSUME Typed, NEW s \in Screen, NEW v \in Data, NEW q \in Seq(ServerEvent),
         Delivers(s, v, q) \/ DeliversNothing(q)
  PROVE  /\ events' \in Seq(ServerEvent)
         /\ content' \in [Screen -> Data] /\ held' \in [Screen -> BOOLEAN]
         /\ proxyClip' \in [Client -> Data]
         /\ \A Z : NoneIn(q, Z) /\ Z \intersect SendingsTo(s) = {} => NoneIn(events', Z)
<1> USE DEF Typed
<1>1. CASE DeliversNothing(q)
  BY <1>1 DEF DeliversNothing, ClipboardTypeOK, screenVars
<1>2. CASE Delivers(s, v, q) /\ s = Home
  BY <1>2 DEF Delivers, ClipboardTypeOK
<1>3. CASE Delivers(s, v, q) /\ s # Home
  <2>1. s \in Client /\ 0 \in Number
    BY <1>3, TypesUnderway DEF Screen
  <2>2. PICK e \in ServerEvent : e = Sending(s, 0, v) /\ e \in SendingsTo(s)
    BY <2>1, NewServerEvent, ServerKinds
  <2>3. events' = Append(q, e)
    BY <1>3, <2>2 DEF Delivers
  <2>4. proxyClip' \in [Client -> Data] /\ UNCHANGED screenVars
    BY <1>3, <2>1 DEF Delivers, ClipboardTypeOK
  <2> QED BY <2>2, <2>3, <2>4, Added DEF ClipboardTypeOK, screenVars
<1> QED BY <1>1, <1>2, <1>3

LEMMA SwitchTyped ==
  ASSUME Typed, NEW dst \in Screen, Switch(dst), UNCHANGED setting
  PROVE  Typed'
<1> USE DEF Typed
<1> DEFINE flushed == activeScreen = Home /\ m_clipboardOwner = Home
                        /\ content[Home] # m_clipboardData
           data == IF flushed THEN content[Home] ELSE m_clipboardData
           stale == IF flushed THEN connected ELSE dirty
<1>0. /\ dst \in (connected \union {Home}) \ {activeScreen}
      /\ m_seqNum < setting.switches
      /\ activeScreen' = dst /\ m_seqNum' = m_seqNum + 1
      /\ primarySeq' = IF dst = Home THEN m_seqNum + 1 ELSE primarySeq
      /\ toClient' = [c \in Client |->
                        IF c = activeScreen THEN Append(toClient[c], Leave)
                        ELSE IF c = dst THEN Append(toClient[c], Enter(m_seqNum + 1))
                        ELSE toClient[c]]
      /\ m_clipboardData' = data /\ dirty' = stale \ {dst}
      /\ Delivers(dst, data, events) \/ DeliversNothing(events)
      /\ UNCHANGED <<unnoticed, copies, connected, connects, m_clipboardOwner, m_clipboardSeqNum,
                     seqNum, clientActive, ownClipboard, sentClipboard, clientEvents, toServer>>
  BY DEF Switch, copyVars, peerVars, ownerVars
<1>1. data \in Data
  BY TypesUnderway
<1>2. stale \subseteq connected \union {Home}
  BY DEF ClipboardTypeOK
<1> HIDE DEF data, stale, flushed
<1>3. /\ m_seqNum \in Nat /\ m_seqNum + 1 \in 0 .. MaxSwitches /\ m_seqNum + 1 # 0
      /\ 0 .. m_seqNum \subseteq 0 .. m_seqNum + 1
  <2>1. setting.switches \in 0 .. MaxSwitches
    BY SettingAssumption DEF ClipboardTypeOK
  <2>2. m_seqNum \in 0 .. MaxSwitches /\ MaxSwitches \in Nat
    BY CopyAssumption DEF ClipboardTypeOK
  <2> QED BY <2>1, <2>2, <1>0
<1>4. /\ events' \in Seq(ServerEvent)
      /\ content' \in [Screen -> Data] /\ held' \in [Screen -> BOOLEAN]
      /\ proxyClip' \in [Client -> Data]
      /\ \A Z : NoneIn(events, Z) /\ Z \intersect SendingsTo(dst) = {} => NoneIn(events', Z)
  BY <1>0, <1>1, DeliversTyped DEF QueueTypes
<1>5. ClipboardTypeOK'
  <2>1. primarySeq' \in 0 .. m_seqNum' /\ m_clipboardSeqNum' \in 0 .. m_seqNum'
    BY <1>0, <1>3 DEF ClipboardTypeOK
  <2>2. seqNum' \in [Client -> 0 .. m_seqNum']
    BY <1>0, <1>3 DEF ClipboardTypeOK
  <2>3. activeScreen' \in connected' \union {Home} /\ dirty' \subseteq connected' \union {Home}
    BY <1>0, <1>2
  <2> QED BY <2>1, <2>2, <2>3, <1>0, <1>1, <1>3, <1>4 DEF ClipboardTypeOK
<1>6. ASSUME NEW c \in Client
      PROVE  toClient'[c] \in Seq(ToClient) /\ NoneIn(toClient'[c], LaterEnters(m_seqNum'))
  <2>1. Enter(m_seqNum + 1) \in ToClient \ LaterEnters(m_seqNum + 1)
    <3>1. m_seqNum + 1 \in Number \ {0}
      BY <1>3 DEF Number
    <3> QED BY <3>1, NewToClient, ToClientKinds, <1>3
  <2>2. Leave \in ToClient \ LaterEnters(m_seqNum + 1)
    BY NewToClient, ToClientKinds
  <2>3. toClient[c] \in Seq(ToClient)
    BY DEF QueueTypes
  <2>4. NoneIn(toClient[c], LaterEnters(m_seqNum + 1))
    <3>1. LaterEnters(m_seqNum + 1) \subseteq LaterEnters(m_seqNum)
      BY <1>3 DEF LaterEnters, ToClient, Number
    <3> QED BY <3>1, Fewer DEF BoundInv
  <2>5. toClient'[c] \in {toClient[c], Append(toClient[c], Leave),
                          Append(toClient[c], Enter(m_seqNum + 1))}
    BY <1>0
  <2> QED BY <2>1, <2>2, <2>3, <2>4, <2>5, <1>0, Added
<1>7. QueueTypes'
  <2>1. toClient' \in [Client -> Seq(ToClient)]
    BY <1>0, <1>6
  <2> QED BY <2>1, <1>0, <1>4 DEF QueueTypes
<1>8. BoundInv'
  <2>1. /\ LaterGrabs(m_seqNum + 1) \subseteq LaterGrabs(m_seqNum)
        /\ LaterMessages(m_seqNum + 1) \subseteq LaterMessages(m_seqNum)
    BY <1>3 DEF LaterGrabs, LaterMessages, Grabs, GrabMessages, ServerEvent, ToServer, Number
  <2>2. LaterGrabs(m_seqNum) \intersect SendingsTo(dst) = {}
    BY DEF LaterGrabs, Grabs, SendingsTo
  <2>3. NoneIn(events', LaterGrabs(m_seqNum + 1))
    BY <2>1, <2>2, <1>4, Fewer DEF BoundInv
  <2>4. \A c \in Client : NoneIn(toServer'[c], LaterMessages(m_seqNum + 1))
    BY <2>1, <1>0, Fewer DEF BoundInv
  <2> QED BY <2>3, <2>4, <1>6, <1>0 DEF BoundInv
<1> QED BY <1>5, <1>7, <1>8

LEMMA GrabbedTyped ==
  ASSUME Typed, handleClipboardGrabbed, UNCHANGED setting
  PROVE  Typed'
<1> USE DEF Typed
<1>1. PICK e : e = Head(events)
  OBVIOUS
<1>2. PICK q : q = Tail(events)
  OBVIOUS
<1>3. /\ e \in ServerEvent /\ q \in Seq(ServerEvent) /\ e.type = "grabbed"
      /\ e.screen \in Screen /\ e.seq \in Number
      /\ \A Z : NoneIn(events, Z) => NoneIn(q, Z) /\ e \notin Z
  BY <1>1, <1>2, TypesUnderway, Removed, ServerEventTypes DEF handleClipboardGrabbed, QueueTypes
<1>4. PICK s \in Screen, n \in Number : s = e.screen /\ n = e.seq
  BY <1>3
<1>5. n \in 0 .. m_seqNum
  <2>1. ~(n > m_seqNum)
    BY <1>3, <1>4, ServerKinds DEF BoundInv
  <2> QED BY <2>1, CopyAssumption DEF Number, ClipboardTypeOK
<1>6. NoneIn(q, LaterGrabs(m_seqNum))
  BY <1>3 DEF BoundInv
<1>7. \A d : LaterGrabs(m_seqNum) \intersect SendingsTo(d) = {}
  BY DEF LaterGrabs, Grabs, SendingsTo
<1>8. UNCHANGED <<unnoticed, copies, connected, connects, activeScreen, m_seqNum, primarySeq,
                  seqNum, clientActive, ownClipboard, sentClipboard, clientEvents, toServer>>
  BY DEF handleClipboardGrabbed, copyVars, peerVars, cursorVars, ownerVars
<1>9. CASE s # Home /\ IsOld(s, n)
  <2>1. /\ UNCHANGED <<m_clipboardOwner, m_clipboardSeqNum, m_clipboardData, dirty, toClient>>
        /\ DeliversNothing(q)
    BY <1>9, <1>1, <1>2, <1>4 DEF handleClipboardGrabbed, clipVars
  <2>2. events' = q /\ UNCHANGED <<content, held, proxyClip>>
    BY <2>1 DEF DeliversNothing, screenVars
  <2>3. ClipboardTypeOK'
    BY <1>8, <2>1, <2>2 DEF ClipboardTypeOK
  <2> QED BY <2>3, <1>8, <2>1, <2>2, <1>3, <1>6 DEF QueueTypes, BoundInv
<1>10. CASE ~(s # Home /\ IsOld(s, n))
  <2>1. /\ m_clipboardOwner' = s /\ m_clipboardSeqNum' = n
        /\ toClient' = [c \in Client |-> IF c \in connected \ {s}
                                         THEN Append(toClient[c], Grab(0)) ELSE toClient[c]]
    BY <1>10, <1>1, <1>4 DEF handleClipboardGrabbed
  <2>2. \/ /\ Shares(Home, content[Home], activeScreen)
           /\ Delivers(activeScreen, content[Home], q)
        \/ /\ m_clipboardData' = Empty /\ dirty' = (connected \union {Home}) \ {s}
           /\ Delivers(Home, AfterGrab(Home), q) \/ DeliversNothing(q)
    BY <1>10, <1>1, <1>2, <1>4 DEF handleClipboardGrabbed
  <2>3. /\ m_clipboardData' \in Data /\ dirty' \subseteq connected \union {Home}
        /\ events' \in Seq(ServerEvent)
        /\ content' \in [Screen -> Data] /\ held' \in [Screen -> BOOLEAN]
        /\ proxyClip' \in [Client -> Data]
        /\ NoneIn(events', LaterGrabs(m_seqNum))
    <3>1. /\ activeScreen \in Screen /\ Home \in Screen /\ Empty \in Data
          /\ content[Home] \in Data /\ AfterGrab(Home) \in Data
      BY TypesUnderway DEF ClipboardTypeOK
    <3>2. CASE /\ Shares(Home, content[Home], activeScreen)
               /\ Delivers(activeScreen, content[Home], q)
      BY <3>1, <3>2, <1>3, <1>6, <1>7, DeliversTyped DEF Shares
    <3>3. CASE /\ m_clipboardData' = Empty /\ dirty' = (connected \union {Home}) \ {s}
               /\ Delivers(Home, AfterGrab(Home), q) \/ DeliversNothing(q)
      BY <3>1, <3>3, <1>3, <1>6, <1>7, DeliversTyped
    <3> QED BY <3>2, <3>3, <2>2
  <2>4. ClipboardTypeOK'
    BY <2>1, <2>3, <1>5, <1>8 DEF ClipboardTypeOK
  <2>5. ASSUME NEW c \in Client
        PROVE  toClient'[c] \in Seq(ToClient) /\ NoneIn(toClient'[c], LaterEnters(m_seqNum))
    <3>1. Grab(0) \in ToClient \ LaterEnters(m_seqNum)
      BY NewToClient, ToClientKinds
    <3>2. toClient[c] \in Seq(ToClient) /\ NoneIn(toClient[c], LaterEnters(m_seqNum))
      BY DEF QueueTypes, BoundInv
    <3> QED BY <3>1, <3>2, <2>1, Added
  <2>6. QueueTypes'
    <3>1. toClient' \in [Client -> Seq(ToClient)]
      BY <2>1, <2>5
    <3> QED BY <3>1, <2>3, <1>8 DEF QueueTypes
  <2>7. BoundInv'
    BY <2>3, <2>5, <1>8 DEF BoundInv
  <2> QED BY <2>4, <2>6, <2>7
<1> QED BY <1>9, <1>10

LEMMA ChangedTyped ==
  ASSUME Typed, handleClipboardChanged, UNCHANGED setting
  PROVE  Typed'
<1> USE DEF Typed
<1>1. PICK e : e = Head(events)
  OBVIOUS
<1>2. PICK q : q = Tail(events)
  OBVIOUS
<1>3. /\ e \in ServerEvent /\ q \in Seq(ServerEvent) /\ e.type = "changed" /\ e.screen \in Client
      /\ NoneIn(q, LaterGrabs(m_seqNum))
  BY <1>1, <1>2, TypesUnderway, Removed, ServerEventTypes
     DEF handleClipboardChanged, QueueTypes, BoundInv
<1>4. PICK s \in Client : s = e.screen
  BY <1>3
<1>5. \A d : LaterGrabs(m_seqNum) \intersect SendingsTo(d) = {}
  BY DEF LaterGrabs, Grabs, SendingsTo
<1>6. /\ UNCHANGED <<unnoticed, copies, connected, connects, activeScreen, m_seqNum, primarySeq,
                     seqNum, clientActive, ownClipboard, sentClipboard, clientEvents, toClient,
                     toServer, m_clipboardOwner, m_clipboardSeqNum>>
      /\ \/ DeliversNothing(q) /\ UNCHANGED <<m_clipboardData, dirty>>
         \/ /\ Shares(s, proxyClip[s], activeScreen)
            /\ Delivers(activeScreen, proxyClip[s], q) \/ DeliversNothing(q)
  BY <1>1, <1>2, <1>4
     DEF handleClipboardChanged, copyVars, peerVars, cursorVars, ownerVars, clipVars
<1>7. activeScreen \in Screen /\ proxyClip[s] \in Data
  BY TypesUnderway DEF ClipboardTypeOK
<1>8. /\ m_clipboardData' \in Data /\ dirty' \subseteq connected \union {Home}
      /\ events' \in Seq(ServerEvent)
      /\ content' \in [Screen -> Data] /\ held' \in [Screen -> BOOLEAN]
      /\ proxyClip' \in [Client -> Data]
      /\ NoneIn(events', LaterGrabs(m_seqNum))
  <2>1. CASE DeliversNothing(q) /\ UNCHANGED <<m_clipboardData, dirty>>
    BY <2>1, <1>3, <1>5, <1>7, DeliversTyped DEF ClipboardTypeOK
  <2>2. CASE /\ Shares(s, proxyClip[s], activeScreen)
             /\ Delivers(activeScreen, proxyClip[s], q) \/ DeliversNothing(q)
    BY <2>2, <1>3, <1>5, <1>7, DeliversTyped DEF Shares
  <2> QED BY <2>1, <2>2, <1>6
<1>9. ClipboardTypeOK'
  BY <1>6, <1>8 DEF ClipboardTypeOK
<1> QED BY <1>6, <1>8, <1>9 DEF QueueTypes, BoundInv

LEMMA SendTyped ==
  ASSUME Typed, SendClipboard \/ DispatchToNobody, UNCHANGED setting
  PROVE  Typed'
<1> USE DEF Typed
<1>1. PICK e : e = Head(events)
  OBVIOUS
<1>2. /\ events' = Tail(events) /\ e \in ServerEvent /\ events' \in Seq(ServerEvent)
      /\ NoneIn(events', LaterGrabs(m_seqNum))
  <2>1. events' = Tail(events) /\ events # << >>
    BY DEF SendClipboard, DispatchToNobody, DeliversNothing
  <2>2. events \in Seq(ServerEvent) /\ NoneIn(events, LaterGrabs(m_seqNum))
    BY DEF QueueTypes, BoundInv
  <2> QED BY <1>1, <2>1, <2>2, Removed
<1>3. CASE DispatchToNobody
  <2>1. ClipboardTypeOK'
    BY <1>3 DEF DispatchToNobody, DeliversNothing, ClipboardTypeOK, screenVars, copyVars, peerVars,
                cursorVars, clipVars, ownerVars
  <2> QED BY <1>2, <1>3, <2>1
      DEF DispatchToNobody, DeliversNothing, QueueTypes, BoundInv, cursorVars
<1>4. CASE SendClipboard
  <2>1. ClipboardTypeOK'
    BY <1>4 DEF SendClipboard, ClipboardTypeOK, screenVars, copyVars, peerVars, cursorVars,
                clipVars, ownerVars
  <2>2. PICK c \in Client, v \in Data : c = e.screen /\ v = e.data
    BY <1>1, <1>2, <1>4, ServerEventTypes DEF SendClipboard
  <2>3. toClient' = [toClient EXCEPT ![c] = Append(@, Put(0, v))]
    BY <1>4, <1>1, <2>2 DEF SendClipboard
  <2>4. Put(0, v) \in ToClient \ LaterEnters(m_seqNum)
    BY NewToClient, ToClientKinds
  <2>5. toClient[c] \in Seq(ToClient) /\ NoneIn(toClient[c], LaterEnters(m_seqNum))
    BY DEF QueueTypes, BoundInv
  <2>6. /\ Append(toClient[c], Put(0, v)) \in Seq(ToClient)
        /\ NoneIn(Append(toClient[c], Put(0, v)), LaterEnters(m_seqNum))
    BY <2>4, <2>5, Added
  <2>7. toClient' \in [Client -> Seq(ToClient)]
    BY <2>3, <2>6 DEF QueueTypes
  <2>8. \A d \in Client : NoneIn(toClient'[d], LaterEnters(m_seqNum))
    BY <2>3, <2>6 DEF QueueTypes, BoundInv
  <2> QED BY <1>2, <1>4, <2>1, <2>7, <2>8 DEF SendClipboard, QueueTypes, BoundInv, cursorVars
<1> QED BY <1>3, <1>4

LEMMA ServerReceivesTyped ==
  ASSUME Typed, NEW c \in Client, ServerReceives(c), UNCHANGED setting
  PROVE  Typed'
<1> USE DEF Typed
<1>1. PICK m : m = Head(toServer[c])
  OBVIOUS
<1>2. PICK q : q = Tail(toServer[c])
  OBVIOUS
<1>3. toServer[c] # << >> /\ toServer' = [toServer EXCEPT ![c] = q]
  BY <1>2 DEF ServerReceives
<1>4. /\ m \in ToServer /\ q \in Seq(ToServer) /\ NoneIn(q, LaterMessages(m_seqNum))
      /\ m \notin LaterMessages(m_seqNum)
  BY <1>1, <1>2, <1>3, Removed DEF QueueTypes, BoundInv
<1>5. toServer' \in [Client -> Seq(ToServer)]
  BY <1>3, <1>4 DEF QueueTypes
<1>6. \A d \in Client : NoneIn(toServer'[d], LaterMessages(m_seqNum))
  BY <1>3, <1>4 DEF QueueTypes, BoundInv
<1>7. \/ m.type = "grab" /\ events' = Append(events, Grabbed(c, m.seq)) /\ UNCHANGED proxyClip
      \/ /\ m.type = "data" /\ events' = Append(events, Changed(c, m.seq))
         /\ proxyClip' = [proxyClip EXCEPT ![c] = m.data]
  BY <1>1, <1>4, ToServerKinds DEF ServerReceives
<1>8. events \in Seq(ServerEvent) /\ NoneIn(events, LaterGrabs(m_seqNum))
  BY DEF QueueTypes, BoundInv
<1>9. events' \in Seq(ServerEvent) /\ NoneIn(events', LaterGrabs(m_seqNum))
  <2>1. CASE m.type = "grab"
    <3>1. PICK e \in ServerEvent \ LaterGrabs(m_seqNum) : e = Grabbed(c, m.seq)
      <4>1. ~(m.seq > m_seqNum) /\ m.seq \in Number /\ c \in Screen
        BY <2>1, <1>4, ToServerKinds DEF Screen
      <4> QED BY <4>1, NewServerEvent, ServerKinds
    <3>2. events' = Append(events, e)
      BY <2>1, <3>1, <1>7
    <3> QED BY <3>1, <3>2, <1>8, Added
  <2>2. CASE m.type = "data"
    <3>1. PICK e \in ServerEvent \ LaterGrabs(m_seqNum) : e = Changed(c, m.seq)
      <4>1. m.seq \in Number
        BY <1>4, ToServerKinds
      <4> QED BY <4>1, NewServerEvent, ServerKinds
    <3>2. events' = Append(events, e)
      BY <2>2, <3>1, <1>7
    <3> QED BY <3>1, <3>2, <1>8, Added
  <2> QED BY <2>1, <2>2, <1>7
<1>10. proxyClip' \in [Client -> Data]
  <2>1. m.type = "data" => m.data \in Data
    BY <1>4, ToServerKinds
  <2>2. proxyClip \in [Client -> Data]
    BY DEF ClipboardTypeOK
  <2>3. CASE UNCHANGED proxyClip
    BY <2>2, <2>3
  <2>4. CASE m.type = "data" /\ proxyClip' = [proxyClip EXCEPT ![c] = m.data]
    BY <2>1, <2>2, <2>4
  <2> QED BY ONLY <1>7, <2>3, <2>4
<1>11. ClipboardTypeOK'
  BY <1>10 DEF ServerReceives, ClipboardTypeOK, screenVars, copyVars, peerVars, cursorVars, clipVars,
               ownerVars
<1> QED BY <1>5, <1>6, <1>9, <1>11 DEF ServerReceives, QueueTypes, BoundInv, cursorVars

LEMMA SendsTyped ==
  ASSUME ClipboardTypeOK, QueueTypes, NEW c \in Client, NEW q \in Seq(ClientEvent),
         sendClipboard(c, q)
  PROVE  /\ clientEvents' \in [Client -> Seq(ClientEvent)]
         /\ sentClipboard' \in [Client -> Data \union {NotSent}]
<1>1. Sending(c, seqNum[c], content[c]) \in ClientEvent /\ content[c] \in Data
  BY TypesUnderway, ClientKinds
<1>2. Append(q, Sending(c, seqNum[c], content[c])) \in Seq(ClientEvent)
  BY <1>1, Added
<1> QED BY <1>1, <1>2 DEF sendClipboard, QueueTypes, ClipboardTypeOK

LEMMA ClientGrabsTyped ==
  ASSUME Typed, NEW c \in Client, ClientGrabs(c), UNCHANGED setting
  PROVE  Typed'
<1> USE DEF Typed
<1>1. clientEvents[c] # << >> /\ Tail(clientEvents[c]) \in Seq(ClientEvent)
  BY TypesUnderway DEF ClientGrabs
<1>2. /\ clientEvents' \in [Client -> Seq(ClientEvent)]
      /\ sentClipboard' \in [Client -> Data \union {NotSent}]
  <2>1. CASE WaitsUntilLeave(c)
    BY <1>1, <2>1 DEF ClientGrabs, QueueTypes, ClipboardTypeOK
  <2>2. CASE ~WaitsUntilLeave(c)
    BY <1>1, <2>2, SendsTyped DEF ClientGrabs
  <2> QED BY <2>1, <2>2
<1>3. ClipboardTypeOK'
  BY <1>2 DEF ClientGrabs, ClipboardTypeOK, screenVars, copyVars, peerVars, cursorVars, clipVars
<1>4. /\ toServer' \in [Client -> Seq(ToServer)]
      /\ \A d \in Client : NoneIn(toServer'[d], LaterMessages(m_seqNum))
  <2>1. PICK m \in ToServer : m = Grab(seqNum[c]) /\ m \notin LaterMessages(m_seqNum)
    <3>1. seqNum[c] \in Number /\ ~(seqNum[c] > m_seqNum)
      <4>1. seqNum[c] \in 0 .. m_seqNum /\ m_seqNum \in Nat
        BY CopyAssumption DEF ClipboardTypeOK
      <4> QED BY <4>1, TypesUnderway
    <3> QED BY <3>1, ToServerKinds
  <2>2. toServer[c] \in Seq(ToServer) /\ NoneIn(toServer[c], LaterMessages(m_seqNum))
    BY DEF QueueTypes, BoundInv
  <2>3. /\ Append(toServer[c], m) \in Seq(ToServer)
        /\ NoneIn(Append(toServer[c], m), LaterMessages(m_seqNum))
    BY <2>1, <2>2, Added
  <2>4. toServer' = [toServer EXCEPT ![c] = Append(toServer[c], m)]
    BY <2>1 DEF ClientGrabs, QueueTypes
  <2> QED BY <2>3, <2>4 DEF QueueTypes, BoundInv
<1> QED BY <1>2, <1>3, <1>4 DEF ClientGrabs, QueueTypes, BoundInv, cursorVars

LEMMA ClientSendsTyped ==
  ASSUME Typed, NEW c \in Client, ClientSends(c), UNCHANGED setting
  PROVE  Typed'
<1> USE DEF Typed
<1>1. PICK e : e = Head(clientEvents[c])
  OBVIOUS
<1>2. /\ clientEvents[c] # << >> /\ e \in ClientEvent /\ e.type = "sending"
      /\ Tail(clientEvents[c]) \in Seq(ClientEvent)
  BY <1>1, TypesUnderway DEF ClientSends
<1>3. PICK m \in ToServer : m = Put(e.seq, e.data) /\ m \notin LaterMessages(m_seqNum)
  BY <1>2, ClientKinds, ToServerKinds
<1>4. toServer[c] \in Seq(ToServer) /\ NoneIn(toServer[c], LaterMessages(m_seqNum))
  BY DEF QueueTypes, BoundInv
<1>5. /\ Append(toServer[c], m) \in Seq(ToServer)
      /\ NoneIn(Append(toServer[c], m), LaterMessages(m_seqNum))
  BY <1>3, <1>4, Added
<1>6. /\ toServer' = [toServer EXCEPT ![c] = Append(toServer[c], m)]
      /\ clientEvents' = [clientEvents EXCEPT ![c] = Tail(clientEvents[c])]
  BY <1>1, <1>3 DEF ClientSends, QueueTypes
<1>7. ClipboardTypeOK'
  BY DEF ClientSends, ClipboardTypeOK, screenVars, copyVars, peerVars, cursorVars, clipVars,
         ownerVars
<1> QED BY <1>2, <1>5, <1>6, <1>7 DEF ClientSends, QueueTypes, BoundInv, cursorVars

LEMMA ReceivesTyped ==
  ASSUME Typed, NEW c \in Client, Receives(c), UNCHANGED setting
  PROVE  Typed'
<1> USE DEF Typed
<1>1. PICK m : m = Head(toClient[c])
  OBVIOUS
<1>2. PICK q : q = Tail(toClient[c])
  OBVIOUS
<1>3. toClient[c] # << >> /\ toClient' = [toClient EXCEPT ![c] = q]
  BY <1>2 DEF Receives
<1>4. /\ m \in ToClient /\ q \in Seq(ToClient) /\ NoneIn(q, LaterEnters(m_seqNum))
      /\ m \notin LaterEnters(m_seqNum)
  BY <1>1, <1>2, <1>3, Removed DEF QueueTypes, BoundInv
<1>5. \/ m.type = "enter" /\ ClientEnters(c, m.seq)
      \/ m.type = "leave" /\ ClientLeaves(c)
      \/ \E v \in Data : ClientTakes(c, v)
  <2>1. AfterGrab(c) \in Data
    BY TypesUnderway
  <2> QED BY <2>1, <1>1, <1>4, ToClientKinds DEF Receives
<1>6. UNCHANGED <<unnoticed, copies, connected, connects, activeScreen, m_seqNum, primarySeq,
                  m_clipboardOwner, m_clipboardSeqNum, m_clipboardData, dirty, proxyClip, events,
                  toServer>>
  BY DEF Receives, copyVars, peerVars, cursorVars, clipVars
<1>7. toClient' \in [Client -> Seq(ToClient)] /\ \A d \in Client : NoneIn(toClient'[d], LaterEnters(m_seqNum))
  BY <1>3, <1>4 DEF QueueTypes, BoundInv
<1>8. clientEvents' \in [Client -> Seq(ClientEvent)] /\ ClipboardTypeOK'
  <2>1. CASE m.type = "enter" /\ ClientEnters(c, m.seq)
    <3>1. m.seq \in 0 .. m_seqNum
      <4>1. m.seq \in Number /\ ~(m.seq > m_seqNum)
        BY <2>1, <1>4, ToClientKinds
      <4> QED BY <4>1, CopyAssumption DEF Number, ClipboardTypeOK
    <3> QED BY <2>1, <3>1, <1>6 DEF ClientEnters, ClipboardTypeOK, QueueTypes, screenVars
  <2>2. CASE m.type = "leave" /\ ClientLeaves(c)
    <3>1. clientEvents[c] \in Seq(ClientEvent)
      BY DEF QueueTypes
    <3>2. /\ clientEvents' \in [Client -> Seq(ClientEvent)]
          /\ sentClipboard' \in [Client -> Data \union {NotSent}]
      <4>1. sendClipboard(c, clientEvents[c]) \/ UNCHANGED <<sentClipboard, clientEvents>>
        BY <2>2 DEF ClientLeaves
      <4> QED BY <4>1, <3>1, SendsTyped DEF QueueTypes, ClipboardTypeOK
    <3> QED BY <2>2, <3>2, <1>6 DEF ClientLeaves, ClipboardTypeOK, QueueTypes, screenVars
  <2>3. ASSUME NEW v \in Data, ClientTakes(c, v)
        PROVE  clientEvents' \in [Client -> Seq(ClientEvent)] /\ ClipboardTypeOK'
    <3>1. c \in Screen
      BY DEF Screen
    <3> QED BY <2>3, <3>1, <1>6 DEF ClientTakes, ClipboardTypeOK, QueueTypes, NotSent
  <2> QED BY <2>1, <2>2, <2>3, <1>5
<1> QED BY <1>6, <1>7, <1>8 DEF QueueTypes, BoundInv

LEMMA ConnectTyped ==
  ASSUME Typed, NEW c \in Client, Connect(c), UNCHANGED setting
  PROVE  Typed'
<1> USE DEF Typed
<1>1. ClipboardTypeOK'
  <2>1. c \in Screen /\ AfterGrab(c) \in Data /\ Empty \in Data
    BY TypesUnderway
  <2>2. connects[c] + 1 \in 0 .. MaxConnects
    <3>1. connects[c] \in 0 .. MaxConnects /\ MaxConnects \in Nat /\ connects[c] < MaxConnects
      BY CopyAssumption DEF Connect, ClipboardTypeOK
    <3> QED BY <3>1
  <2>3. 0 \in 0 .. m_seqNum
    BY CopyAssumption DEF ClipboardTypeOK
  <2>4. connects' \in [Client -> 0 .. MaxConnects] /\ seqNum' \in [Client -> 0 .. m_seqNum]
    BY <2>2, <2>3 DEF Connect, ClipboardTypeOK
  <2> QED BY <2>1, <2>4 DEF Connect, NewProxy, ClipboardTypeOK, copyVars, cursorVars, NotSent
<1> QED BY <1>1 DEF Connect, QueueTypes, BoundInv, cursorVars

\* Only what belongs to c becomes an orphan.
LEMMA OrphansOf ==
  ASSUME NEW q \in Seq(ServerEvent), NEW c \in Client, NEW r,
         r = [i \in DOMAIN q |-> Orphaned(q[i], c)]
  PROVE  /\ r \in Seq(ServerEvent) /\ DOMAIN r = DOMAIN q
         /\ \A i \in DOMAIN q : /\ q[i].screen # c => r[i] = q[i]
                                /\ q[i].screen = c => r[i].type = "gone"
         /\ NoneIn(r, EventsOf(c))
         /\ \A Z : NoneIn(q, Z) /\ (\A e \in ServerEvent : e \in Z => e.type # "gone")
                     => NoneIn(r, Z)
<1>1. \A i \in DOMAIN q : q[i] \in ServerEvent
  OBVIOUS
<1>2. PICK g \in ServerEvent : g = [type |-> "gone", screen |-> c]
  BY DEF ServerEvent
<1>3. g.type = "gone" /\ g.screen = c
  BY <1>2
<1>4. \A i \in DOMAIN q : r[i] = IF q[i].screen = c THEN g ELSE q[i]
  BY <1>2 DEF Orphaned
<1>5. r \in [DOMAIN q -> ServerEvent]
  BY <1>1, <1>2 DEF Orphaned
<1>6. r \in Seq(ServerEvent) /\ DOMAIN r = DOMAIN q
  <2>1. PICK n \in Nat : DOMAIN q = 1 .. n
    OBVIOUS
  <2>2. r \in [1 .. n -> ServerEvent]
    BY <2>1, <1>5
  <2> QED BY <2>1, <2>2, IsASeq
<1>7. NoneIn(r, EventsOf(c))
  BY <1>3, <1>4, <1>6 DEF NoneIn, EventsOf
<1> QED BY <1>1, <1>3, <1>4, <1>6, <1>7 DEF NoneIn

LEMMA DisconnectTyped ==
  ASSUME Typed, NEW c \in Client, Disconnect(c), UNCHANGED setting
  PROVE  Typed'
<1> USE DEF Typed
<1>1. events' \in Seq(ServerEvent) /\ NoneIn(events', LaterGrabs(m_seqNum))
  <2>1. \A e \in ServerEvent : e \in LaterGrabs(m_seqNum) => e.type # "gone"
    BY ServerKinds
  <2> QED BY <2>1, OrphansOf DEF Disconnect, QueueTypes, BoundInv
<1>2. ClipboardTypeOK'
  <2>1. primarySeq' \in 0 .. m_seqNum
    BY CopyAssumption DEF Disconnect, ForceLeave, ClipboardTypeOK
  <2>2. activeScreen' \in connected' \union {Home}
    BY DEF Disconnect, ForceLeave, ClipboardTypeOK
  <2> QED BY <2>1, <2>2 DEF Disconnect, ClipboardTypeOK, screenVars, ownerVars
<1>3. << >> \in Seq(ClientEvent) /\ << >> \in Seq(ToClient) /\ << >> \in Seq(ToServer)
  OBVIOUS
<1>4. QueueTypes'
  BY <1>1, <1>3 DEF Disconnect, QueueTypes
<1>5. BoundInv'
  BY <1>1, EmptyQueue DEF Disconnect, BoundInv, QueueTypes
<1> QED BY <1>2, <1>4, <1>5

LEMMA StepTyped ==
  ASSUME Typed, [ClipboardNext]_clipboardVars
  PROVE  Typed'
<1>1. CASE UNCHANGED clipboardVars
  BY <1>1 DEF Typed, ClipboardTypeOK, QueueTypes, BoundInv, clipboardVars
<1>2. CASE ClipboardNext
  <2>1. CASE Idle
    BY <1>1, <2>1 DEF Idle
  <2> QED BY <1>2, <2>1, CopyTyped, NoticeTyped, SwitchTyped, GrabbedTyped, ChangedTyped, SendTyped,
             ServerReceivesTyped, ClientGrabsTyped, ClientSendsTyped, ReceivesTyped, ConnectTyped,
             DisconnectTyped DEF ClipboardNext, Step
<1> QED BY <1>1, <1>2

-----------------------------------------------------------------------------
(* Nothing of a client that is not connected is under way.                 *)

LEMMA ServedOnly ==
  ASSUME GoneInv, Typed
  PROVE  /\ \A c \in Client : clientEvents[c] # << >> \/ toClient[c] # << >> \/ toServer[c] # << >>
              \/ c \in unnoticed => c \in connected
         /\ unnoticed \subseteq connected \union {Home}
         /\ events # << >> /\ Head(events).type # "gone" =>
              Head(events).screen \in connected \union {Home}
<1>1. ASSUME events # << >>, Head(events).type # "gone", Head(events).screen \notin connected,
             Head(events).screen # Home
      PROVE  FALSE
  <2>1. PICK e \in ServerEvent : e = Head(events)
    BY <1>1, TypesUnderway DEF Typed
  <2>2. PICK c \in Client \ connected : c = e.screen
    BY <2>1, <1>1, ServerEventTypes DEF Screen
  <2>3. NoneIn(events, EventsOf(c)) /\ e \in EventsOf(c)
    BY <2>1, <2>2, <1>1, ServerKinds DEF GoneInv
  <2> QED BY <2>1, <2>3, <1>1, Removed DEF Typed, QueueTypes
<1> QED BY <1>1 DEF GoneInv, Typed, ClipboardTypeOK, Screen

\* Delivers adds data for the screen it is about, and only there.
LEMMA DeliversAdds ==
  ASSUME Typed, NEW s \in Screen, NEW v \in Data, NEW q \in Seq(ServerEvent),
         Delivers(s, v, q)
  PROVE  \/ s = Home /\ events' = q
         \/ /\ s \in Client /\ UNCHANGED <<content, held>>
            /\ proxyClip' = [proxyClip EXCEPT ![s] = v]
            /\ \E e \in SendingsOf(s, v) : e \in ServerEvent /\ events' = Append(q, e)
<1>1. CASE s = Home
  BY <1>1 DEF Delivers
<1>2. CASE s # Home
  <2>1. s \in Client /\ 0 \in Number
    BY <1>2, TypesUnderway DEF Screen, Typed
  <2>2. PICK e \in ServerEvent : e = Sending(s, 0, v) /\ e \in SendingsOf(s, v)
    BY <2>1, NewServerEvent, ServerKinds
  <2> QED BY <1>2, <2>1, <2>2 DEF Delivers, screenVars
<1> QED BY <1>1, <1>2

LEMMA GoneKept ==
  ASSUME Typed, GoneInv, ClipboardNext
  PROVE  GoneInv'
<1> USE DEF Typed
<1>0. events \in Seq(ServerEvent)
  BY DEF QueueTypes
<1> SUFFICES ASSUME NEW c \in Client, c \notin connected'
             PROVE  /\ clientEvents'[c] = << >> /\ toClient'[c] = << >> /\ toServer'[c] = << >>
                    /\ c \notin unnoticed' /\ NoneIn(events', EventsOf(c))
                    /\ ~setting'.drops => ~clientActive'[c]
  BY DEF GoneInv
<1> DEFINE Gone == /\ clientEvents[c] = << >> /\ toClient[c] = << >> /\ toServer[c] = << >>
                   /\ c \notin unnoticed /\ NoneIn(events, EventsOf(c))
                   /\ ~setting.drops => ~clientActive[c]
           Gone2 == /\ clientEvents'[c] = << >> /\ toClient'[c] = << >> /\ toServer'[c] = << >>
                    /\ c \notin unnoticed' /\ NoneIn(events', EventsOf(c))
                    /\ ~setting'.drops => ~clientActive'[c]
<1>1. UNCHANGED setting
  BY DEF ClipboardNext
<1>2. c \notin connected => Gone
  BY DEF GoneInv
<1>3. c # Home
  BY HomeAssumption
<1>4. ASSUME NEW s \in Screen, Copy(s)
      PROVE  Gone2
  BY <1>4, <1>1, <1>2, <1>3 DEF Copy, peerVars, ownerVars
<1>5. ASSUME NEW s \in Screen, Notice(s)
      PROVE  Gone2
  <2>1. c \notin connected /\ Gone
    BY <1>5, <1>2 DEF Notice, peerVars
  <2>2. s # c
    BY <2>1, <1>5 DEF Notice
  <2>3. CASE s = Home
    <3>1. PICK e \in ServerEvent : e = Grabbed(Home, primarySeq) /\ e \notin EventsOf(c)
      BY <1>3, TypesUnderway, NewServerEvent, ServerKinds
    <3>2. events' = Append(events, e)
      BY <2>3, <3>1, <1>5 DEF Notice
    <3>3. NoneIn(events', EventsOf(c))
      BY <2>1, <3>1, <3>2, <1>0, Added
    <3> QED BY <2>1, <2>3, <3>3, <1>1, <1>5 DEF Notice, ownerVars
  <2>4. CASE s # Home
    <3>1. clientEvents'[c] = clientEvents[c]
      BY <2>2, <2>4, <1>5 DEF Notice, QueueTypes
    <3> QED BY <2>1, <2>4, <3>1, <1>1, <1>5 DEF Notice, ownerVars
  <2> QED BY <2>3, <2>4
<1>6. ASSUME NEW s \in Screen, NEW v \in Data, NEW q \in Seq(ServerEvent), NoneIn(q, EventsOf(c)),
             s # c, Delivers(s, v, q) \/ DeliversNothing(q)
      PROVE  NoneIn(events', EventsOf(c))
  <2>1. EventsOf(c) \intersect SendingsTo(s) = {}
    BY <1>6 DEF EventsOf, SendingsTo
  <2> QED BY <1>6, <2>1, DeliversTyped
<1>7. ASSUME NEW dst \in Screen, Switch(dst)
      PROVE  Gone2
  <2>1. c \notin connected /\ Gone /\ c # dst /\ c # activeScreen
    BY <1>2, <1>3, <1>7 DEF Switch, peerVars, ClipboardTypeOK
  <2>2. NoneIn(events', EventsOf(c))
    <3>1. \E v \in Data : Delivers(dst, v, events) \/ DeliversNothing(events)
      BY <1>7, TypesUnderway DEF Switch
    <3> QED BY <2>1, <3>1, <1>0, <1>6
  <2>3. toClient'[c] = toClient[c]
    BY <2>1, <1>7 DEF Switch
  <2> QED BY <2>1, <2>2, <2>3, <1>1, <1>7 DEF Switch, copyVars, ownerVars
<1>8. CASE handleClipboardGrabbed
  <2>1. c \notin connected /\ Gone
    BY <1>2, <1>8 DEF handleClipboardGrabbed, peerVars
  <2>2. NoneIn(events', EventsOf(c))
    <3>1. NoneIn(Tail(events), EventsOf(c)) /\ Tail(events) \in Seq(ServerEvent)
      BY <2>1, <1>0, <1>8, Removed DEF handleClipboardGrabbed
    <3>2. activeScreen \in Screen /\ activeScreen # c /\ Home \in Screen
      BY <2>1, <1>3, TypesUnderway DEF ClipboardTypeOK
    <3>3. \E s \in {activeScreen, Home}, v \in Data :
             Delivers(s, v, Tail(events)) \/ DeliversNothing(Tail(events))
      BY <1>8, TypesUnderway DEF handleClipboardGrabbed
    <3> QED BY <3>1, <3>2, <3>3, <1>3, <1>6
  <2>3. toClient'[c] = toClient[c]
    BY <2>1, <1>8 DEF handleClipboardGrabbed
  <2> QED BY <2>1, <2>2, <2>3, <1>1, <1>8 DEF handleClipboardGrabbed, copyVars, ownerVars
<1>9. CASE handleClipboardChanged
  <2>1. c \notin connected /\ Gone
    BY <1>2, <1>9 DEF handleClipboardChanged, peerVars
  <2>2. NoneIn(events', EventsOf(c))
    <3>1. NoneIn(Tail(events), EventsOf(c)) /\ Tail(events) \in Seq(ServerEvent)
      BY <2>1, <1>0, <1>9, Removed DEF handleClipboardChanged
    <3>2. activeScreen \in Screen /\ activeScreen # c
      BY <2>1, <1>3, TypesUnderway DEF ClipboardTypeOK
    <3>3. Head(events).screen \in Client
      BY <1>9, TypesUnderway, ServerEventTypes DEF handleClipboardChanged
    <3>4. proxyClip[Head(events).screen] \in Data
      BY <3>3 DEF ClipboardTypeOK
    <3>5. \E v \in Data :
             Delivers(activeScreen, v, Tail(events)) \/ DeliversNothing(Tail(events))
      BY <1>9, <3>4 DEF handleClipboardChanged
    <3> QED BY <3>1, <3>2, <3>5, <1>6
  <2> QED BY <2>1, <2>2, <1>1, <1>9 DEF handleClipboardChanged, copyVars, ownerVars
<1>10. CASE SendClipboard
  <2>1. c \notin connected /\ Gone
    BY <1>2, <1>10 DEF SendClipboard, peerVars
  <2>2. c # Head(events).screen
    BY <2>1, <1>3, <1>10, ServedOnly DEF SendClipboard
  <2>3. toClient'[c] = toClient[c]
    BY <2>2, <1>10 DEF SendClipboard, QueueTypes
  <2>4. NoneIn(events', EventsOf(c))
    BY <2>1, <1>0, <1>10, Removed DEF SendClipboard
  <2> QED BY <2>1, <2>3, <2>4, <1>1, <1>10 DEF SendClipboard, copyVars, ownerVars
<1>11. CASE DispatchToNobody
  <2>1. c \notin connected /\ Gone
    BY <1>2, <1>11 DEF DispatchToNobody, peerVars
  <2>2. NoneIn(events', EventsOf(c))
    BY <2>1, <1>0, <1>11, Removed DEF DispatchToNobody, DeliversNothing
  <2> QED BY <2>1, <2>2, <1>1, <1>11 DEF DispatchToNobody, copyVars, ownerVars
<1>12. ASSUME NEW d \in Client, ServerReceives(d)
       PROVE  Gone2
  <2>1. c \notin connected /\ Gone
    BY <1>2, <1>12 DEF ServerReceives, peerVars
  <2>2. c # d
    BY <2>1, <1>12 DEF ServerReceives
  <2>3. toServer'[c] = toServer[c]
    BY <2>2, <1>12 DEF ServerReceives, QueueTypes
  <2>4. NoneIn(events', EventsOf(c))
    <3>1. PICK m \in ToServer : m = Head(toServer[d])
      BY <1>12, TypesUnderway DEF ServerReceives
    <3>2. m.seq \in Number /\ d \in Screen
      BY <3>1, ToServerKinds DEF Screen
    <3>3. PICK e \in ServerEvent : e \notin EventsOf(c) /\ events' = Append(events, e)
      <4>1. CASE m.type = "grab"
        <5>1. events' = Append(events, Grabbed(d, m.seq))
          BY <4>1, <3>1, <1>12 DEF ServerReceives
        <5>2. PICK e \in ServerEvent : e = Grabbed(d, m.seq) /\ e \notin EventsOf(c)
          BY <3>2, <2>2, NewServerEvent, ServerKinds
        <5> QED BY <5>1, <5>2
      <4>2. CASE m.type # "grab"
        <5>1. events' = Append(events, Changed(d, m.seq))
          BY <4>2, <3>1, <1>12 DEF ServerReceives
        <5>2. PICK e \in ServerEvent : e = Changed(d, m.seq) /\ e \notin EventsOf(c)
          BY <3>2, <2>2, NewServerEvent, ServerKinds
        <5> QED BY <5>1, <5>2
      <4> QED BY <4>1, <4>2
    <3> QED BY <3>3, <2>1, <1>0, Added
  <2> QED BY <2>1, <2>3, <2>4, <1>1, <1>12 DEF ServerReceives, copyVars, ownerVars
<1>13. ASSUME NEW d \in Client, ClientGrabs(d) \/ ClientSends(d)
       PROVE  Gone2
  <2>1. c \notin connected /\ Gone
    BY <1>2, <1>13 DEF ClientGrabs, ClientSends, peerVars
  <2>2. c # d
    BY <2>1, <1>13 DEF ClientGrabs, ClientSends
  <2>3. toServer'[c] = toServer[c] /\ clientEvents'[c] = clientEvents[c]
    BY <2>2, <1>13 DEF ClientGrabs, ClientSends, sendClipboard, QueueTypes
  <2> QED BY <2>1, <2>3, <1>1, <1>13 DEF ClientGrabs, ClientSends, copyVars, ownerVars
<1>14. ASSUME NEW d \in Client, Receives(d)
       PROVE  Gone2
  <2>1. c \notin connected /\ Gone
    BY <1>2, <1>14 DEF Receives, peerVars
  <2>2. c # d
    BY <2>1, <1>14 DEF Receives
  <2>3. toClient'[c] = toClient[c] /\ clientEvents'[c] = clientEvents[c]
          /\ clientActive'[c] = clientActive[c]
    BY <2>2, <1>14
       DEF Receives, ClientEnters, ClientLeaves, ClientTakes, sendClipboard, QueueTypes,
           ClipboardTypeOK
  <2> QED BY <2>1, <2>3, <1>1, <1>14 DEF Receives, copyVars
<1>15. ASSUME NEW d \in Client, Connect(d)
       PROVE  Gone2
  <2>1. c \notin connected /\ Gone
    BY <1>2, <1>15 DEF Connect
  <2> QED BY <2>1, <1>1, <1>15 DEF Connect, copyVars
<1>16. ASSUME NEW d \in Client, Disconnect(d)
       PROVE  Gone2
  <2>1. CASE c = d
    <3>1. NoneIn(events', EventsOf(c))
      BY <2>1, <1>0, <1>16, OrphansOf DEF Disconnect
    <3> QED BY <2>1, <3>1, <1>1, <1>16 DEF Disconnect, QueueTypes
  <2>2. CASE c # d
    <3>1. c \notin connected /\ Gone
      BY <2>2, <1>2, <1>16 DEF Disconnect
    <3>2. \A e \in ServerEvent : e \in EventsOf(c) => e.type # "gone"
      BY ServerKinds
    <3>3. NoneIn(events', EventsOf(c))
      BY <3>1, <3>2, <1>0, <1>16, OrphansOf DEF Disconnect
    <3> QED BY <2>2, <3>1, <3>3, <1>1, <1>16 DEF Disconnect, QueueTypes, ownerVars
  <2> QED BY <2>1, <2>2
<1>17. CASE Idle
  BY <1>17, <1>2 DEF Idle, clipboardVars
<1> QED BY <1>4, <1>5, <1>7, <1>8, <1>9, <1>10, <1>11, <1>12, <1>13, <1>14, <1>15, <1>16, <1>17
        DEF ClipboardNext, Step

-----------------------------------------------------------------------------
(* Where clients' cursors come and go.                                     *)

\* A handler that leaves the moves under way to a client alone.
LEMMA ComesStill ==
  ASSUME NEW c \in Client, ComesTo(c),
         UNCHANGED <<setting, activeScreen, m_seqNum>>,
         seqNum'[c] = seqNum[c], clientActive'[c] = clientActive[c],
         NoneIn(toClient[c], MoveMessages) => NoneIn(toClient'[c], MoveMessages),
         LastIn(toClient[c], MoveMessages, Enters(m_seqNum))
           => LastIn(toClient'[c], MoveMessages, Enters(m_seqNum)),
         LastIn(toClient[c], MoveMessages, Leaves)
           => LastIn(toClient'[c], MoveMessages, Leaves)
  PROVE  ComesTo(c)'
BY DEF ComesTo

LEMMA ReceivesMoves ==
  ASSUME Typed, NEW c \in Client, ComesTo(c), Receives(c), UNCHANGED setting
  PROVE  ComesTo(c)'
<1> USE DEF Typed
<1>1. PICK m : m = Head(toClient[c])
  OBVIOUS
<1>2. PICK q : q = Tail(toClient[c])
  OBVIOUS
<1>3. toClient[c] \in Seq(ToClient) /\ toClient[c] # << >> /\ toClient'[c] = q
  BY <1>2 DEF Receives, QueueTypes
<1>4. /\ m \in ToClient
      /\ NoneIn(toClient[c], MoveMessages) => NoneIn(q, MoveMessages) /\ m \notin MoveMessages
      /\ LastIn(toClient[c], MoveMessages, Enters(m_seqNum)) =>
           \/ LastIn(q, MoveMessages, Enters(m_seqNum))
           \/ m \in Enters(m_seqNum) /\ NoneIn(q, MoveMessages)
      /\ LastIn(toClient[c], MoveMessages, Leaves) =>
           \/ LastIn(q, MoveMessages, Leaves)
           \/ m \in Leaves /\ NoneIn(q, MoveMessages)
  BY <1>1, <1>2, <1>3, Removed
<1>5. UNCHANGED <<activeScreen, m_seqNum>>
  BY DEF Receives, cursorVars
<1>6. /\ m \in Enters(m_seqNum) => m.type = "enter" /\ m.seq = m_seqNum
      /\ m \in Leaves => m.type = "leave"
      /\ m \notin MoveMessages => m.type # "enter" /\ m.type # "leave"
  BY <1>4, ToClientKinds
<1>7. m.type = "enter" => seqNum'[c] = m.seq /\ clientActive'[c]
  BY <1>1 DEF Receives, ClientEnters, ClipboardTypeOK
<1>8. m.type = "leave" => ~clientActive'[c]
  BY <1>1 DEF Receives, ClientLeaves, ClipboardTypeOK
<1>9. m.type # "enter" /\ m.type # "leave" => seqNum'[c] = seqNum[c] /\ clientActive'[c] = clientActive[c]
  BY <1>1 DEF Receives, ClientTakes
<1> QED BY <1>3, <1>4, <1>5, <1>6, <1>7, <1>8, <1>9 DEF ComesTo

LEMMA SwitchMoves ==
  ASSUME Typed, MovesInv, NEW dst \in Screen, Switch(dst), UNCHANGED setting
  PROVE  MovesInv'
<1> USE DEF Typed
<1>1. activeScreen' = dst /\ m_seqNum' = m_seqNum + 1 /\ dst # activeScreen
      /\ UNCHANGED <<connected, seqNum, clientActive>>
  BY DEF Switch, peerVars, ownerVars
<1>2. m_seqNum \in Nat /\ m_seqNum + 1 > 0
  BY CopyAssumption DEF ClipboardTypeOK
<1>3. ASSUME NEW c \in connected
      PROVE  ComesTo(c)'
  <2>1. c \in Client /\ toClient[c] \in Seq(ToClient) /\ ComesTo(c)
    BY DEF ClipboardTypeOK, QueueTypes, MovesInv
  <2>2. CASE c = activeScreen
    <3>1. toClient'[c] = Append(toClient[c], Leave) /\ Leave \in ToClient /\ Leave \in Leaves
      BY <2>1, <2>2, NewToClient, ToClientKinds DEF Switch
    <3>2. LastIn(toClient'[c], MoveMessages, Leaves)
      BY <2>1, <3>1, Added
    <3> QED BY <1>1, <2>2, <3>2 DEF ComesTo
  <2>3. CASE c = dst
    <3>1. m_seqNum + 1 \in Number \ {0}
      <4>1. setting.switches \in 0 .. MaxSwitches /\ m_seqNum < setting.switches
        BY SettingAssumption DEF ClipboardTypeOK, Switch
      <4> QED BY <4>1, <1>2, CopyAssumption DEF Number
    <3>2. PICK e \in ToClient : e = Enter(m_seqNum + 1) /\ e \in Enters(m_seqNum + 1)
      BY <3>1, NewToClient, ToClientKinds
    <3>3. toClient'[c] = Append(toClient[c], e)
      BY <2>1, <2>3, <3>2, <1>1 DEF Switch
    <3>4. LastIn(toClient'[c], MoveMessages, Enters(m_seqNum + 1))
      BY <2>1, <3>2, <3>3, Added
    <3> QED BY <1>1, <2>3, <3>4 DEF ComesTo
  <2>4. CASE c # activeScreen /\ c # dst
    <3>1. toClient'[c] = toClient[c]
      BY <2>1, <2>4 DEF Switch
    <3> QED BY <1>1, <2>1, <2>4, <3>1 DEF ComesTo
  <2> QED BY <2>2, <2>3, <2>4
<1> QED BY <1>1, <1>2, <1>3 DEF MovesInv

\* What is written to a client besides enters and leaves moves nothing.
LEMMA WritesStill ==
  ASSUME Typed, NEW c \in Client, ComesTo(c),
         UNCHANGED <<setting, activeScreen, m_seqNum, seqNum, clientActive>>,
         NEW m \in ToClient \ MoveMessages,
         toClient'[c] \in {toClient[c], Append(toClient[c], m)}
  PROVE  ComesTo(c)'
<1>1. toClient[c] \in Seq(ToClient)
  BY DEF Typed, QueueTypes
<1>2. CASE toClient'[c] = toClient[c]
  BY <1>2, ComesStill
<1>3. CASE toClient'[c] = Append(toClient[c], m)
  <2>1. m \notin MoveMessages
    OBVIOUS
  <2>2. NoneIn(toClient[c], MoveMessages) => NoneIn(toClient'[c], MoveMessages)
    BY <1>1, <1>3, <2>1, Added
  <2>3. \A Y : LastIn(toClient[c], MoveMessages, Y) => LastIn(toClient'[c], MoveMessages, Y)
    BY <1>1, <1>3, <2>1, Added
  <2> QED BY <2>2, <2>3, ComesStill
<1> QED BY <1>2, <1>3

LEMMA MovesKept ==
  ASSUME Typed, GoneInv, MovesInv, ClipboardNext
  PROVE  MovesInv'
<1> USE DEF Typed
<1>1. UNCHANGED setting
  BY DEF ClipboardNext
<1>2. \A c \in connected : c \in Client /\ ComesTo(c) /\ toClient[c] \in Seq(ToClient)
  BY DEF ClipboardTypeOK, QueueTypes, MovesInv
<1>3. CASE UNCHANGED <<connected, activeScreen, m_seqNum, seqNum, clientActive, toClient>>
  BY <1>1, <1>2, <1>3, ComesStill DEF MovesInv
<1>4. Grab(0) \in ToClient \ MoveMessages /\ \A v \in Data : Put(0, v) \in ToClient \ MoveMessages
  BY NewToClient, ToClientKinds
<1>5. CASE handleClipboardGrabbed
  <2>1. UNCHANGED <<connected, activeScreen, m_seqNum, seqNum, clientActive>>
    BY <1>5 DEF handleClipboardGrabbed, peerVars, cursorVars, ownerVars
  <2>2. \A c \in Client : toClient'[c] \in {toClient[c], Append(toClient[c], Grab(0))}
    BY <1>5 DEF handleClipboardGrabbed
  <2> QED BY <2>1, <2>2, <1>1, <1>2, <1>4, WritesStill DEF MovesInv
<1>6. CASE SendClipboard
  <2>1. UNCHANGED <<connected, activeScreen, m_seqNum, seqNum, clientActive>>
    BY <1>6 DEF SendClipboard, peerVars, cursorVars, ownerVars
  <2>2. PICK v \in Data : v = Head(events).data
    BY <1>6, TypesUnderway, ServerEventTypes DEF SendClipboard
  <2>3. \A c \in Client : toClient'[c] \in {toClient[c], Append(toClient[c], Put(0, v))}
    BY <1>6, <2>2 DEF SendClipboard, QueueTypes
  <2> QED BY <2>1, <2>2, <2>3, <1>1, <1>2, <1>4, WritesStill DEF MovesInv
<1>7. ASSUME NEW c \in Client, Receives(c)
      PROVE  MovesInv'
  <2>1. UNCHANGED <<connected, activeScreen, m_seqNum>>
    BY <1>7 DEF Receives, peerVars, cursorVars
  <2>2. ASSUME NEW d \in connected
        PROVE  ComesTo(d)'
    <3>1. CASE d = c
      BY <3>1, <1>1, <1>2, <1>7, ReceivesMoves
    <3>2. CASE d # c
      <4>1. toClient'[d] = toClient[d] /\ seqNum'[d] = seqNum[d] /\ clientActive'[d] = clientActive[d]
        BY <1>2, <1>7, <2>2, <3>2
           DEF Receives, ClientEnters, ClientLeaves, ClientTakes, QueueTypes, ClipboardTypeOK
      <4> QED BY <4>1, <1>1, <1>2, <2>1, ComesStill
    <3> QED BY <3>1, <3>2
  <2> QED BY <2>1, <2>2 DEF MovesInv
<1>8. ASSUME NEW c \in Client, Connect(c)
      PROVE  MovesInv'
  <2>1. /\ connected' = connected \union {c} /\ c \notin connected
        /\ UNCHANGED <<activeScreen, m_seqNum, clientActive, toClient>>
        /\ seqNum' = [seqNum EXCEPT ![c] = 0]
    BY <1>8 DEF Connect, cursorVars
  <2>2. ComesTo(c)'
    <3>1. NoneIn(toClient'[c], MoveMessages)
      BY <2>1, EmptyQueue DEF GoneInv
    <3>2. c # activeScreen
      BY <2>1, HomeAssumption DEF ClipboardTypeOK
    <3>3. seqNum'[c] = 0
      BY <2>1 DEF ClipboardTypeOK
    <3>4. ~setting.drops => ~clientActive[c]
      BY <2>1 DEF GoneInv
    <3> QED BY <3>1, <3>2, <3>3, <3>4, <2>1, <1>1 DEF ComesTo
  <2>3. ASSUME NEW d \in connected
        PROVE  ComesTo(d)'
    <3>1. seqNum'[d] = seqNum[d]
      BY <2>1 DEF ClipboardTypeOK
    <3> QED BY <3>1, <2>1, <1>1, <1>2, ComesStill
  <2> QED BY <2>1, <2>2, <2>3 DEF MovesInv
<1>9. ASSUME NEW c \in Client, Disconnect(c)
      PROVE  MovesInv'
  <2>1. connected' = connected \ {c} /\ UNCHANGED <<m_seqNum, seqNum, clientActive>>
    BY <1>9 DEF Disconnect, ownerVars
  <2>2. activeScreen' = IF activeScreen = c THEN Home ELSE activeScreen
    BY <1>9 DEF Disconnect, ForceLeave
  <2>3. ASSUME NEW d \in connected'
        PROVE  ComesTo(d)'
    <3>1. d # c /\ d # Home /\ toClient'[d] = toClient[d]
      BY <1>2, <1>9, <2>1, <2>3, HomeAssumption DEF Disconnect, QueueTypes
    <3>2. d = activeScreen' <=> d = activeScreen
      BY <2>2, <3>1
    <3> QED BY <3>1, <3>2, <2>1, <2>3, <1>1, <1>2 DEF ComesTo
  <2> QED BY <2>1, <2>2, <2>3 DEF MovesInv
<1>10. \A dst \in Screen : Switch(dst) => MovesInv'
  BY <1>1, SwitchMoves
<1>11. \/ UNCHANGED <<connected, activeScreen, m_seqNum, seqNum, clientActive, toClient>>
       \/ handleClipboardGrabbed \/ SendClipboard \/ (\E c \in Client : Receives(c))
       \/ (\E c \in Client : Connect(c) \/ Disconnect(c)) \/ (\E dst \in Screen : Switch(dst))
  BY DEF ClipboardNext, Step, Copy, Notice, handleClipboardChanged, DispatchToNobody, ServerReceives,
         ClientGrabs, ClientSends, Idle, clipboardVars, peerVars, cursorVars, ownerVars
<1> QED BY <1>3, <1>5, <1>6, <1>7, <1>8, <1>9, <1>10, <1>11

-----------------------------------------------------------------------------
(* What a client has sent.                                                 *)

\* A screen's own clipboard is given data by the server only on the primary.
LEMMA ClientsKeepContent ==
  ASSUME Typed,
         \/ \E s \in Screen : Switch(s)
         \/ handleClipboardGrabbed \/ handleClipboardChanged
  PROVE  /\ \A c \in Client : content'[c] = content[c] /\ held'[c] = held[c]
         /\ UNCHANGED <<unnoticed, copies, connected, seqNum, clientActive, ownClipboard,
                        sentClipboard, clientEvents, toServer>>
<1>1. ASSUME NEW s, NEW v, NEW q, Delivers(s, v, q) \/ DeliversNothing(q)
      PROVE  \A c \in Client : content'[c] = content[c] /\ held'[c] = held[c]
  BY <1>1, HomeAssumption
     DEF Delivers, DeliversNothing, screenVars, Typed, ClipboardTypeOK, Screen
<1>2. CASE \E s \in Screen : Switch(s)
  <2>1. PICK s \in Screen : Switch(s)
    BY <1>2
  <2>2. \E v : Delivers(s, v, events) \/ DeliversNothing(events)
    BY <2>1 DEF Switch
  <2> QED BY <1>1, <2>1, <2>2 DEF Switch, copyVars, peerVars, ownerVars
<1>3. CASE handleClipboardGrabbed
  <2>1. \E s, v, q : Delivers(s, v, q) \/ DeliversNothing(q)
    BY <1>3 DEF handleClipboardGrabbed
  <2> QED BY <1>1, <1>3, <2>1 DEF handleClipboardGrabbed, copyVars, peerVars, ownerVars
<1>4. CASE handleClipboardChanged
  <2>1. \E s, v, q : Delivers(s, v, q) \/ DeliversNothing(q)
    BY <1>4 DEF handleClipboardChanged
  <2> QED BY <1>1, <1>4, <2>1 DEF handleClipboardChanged, copyVars, peerVars, ownerVars
<1> QED BY <1>2, <1>3, <1>4

LEMMA SentKept ==
  ASSUME Typed, SentInv, ClipboardNext
  PROVE  SentInv'
<1> USE DEF Typed
<1> DEFINE Sent(c) == c \in ownClipboard /\ ~clientActive[c] =>
                        \/ sentClipboard[c] = content[c]
                        \/ c \in unnoticed
                        \/ ~NoneIn(clientEvents[c], Reports)
<1>1. UNCHANGED setting
  BY DEF ClipboardNext
<1> SUFFICES ASSUME NoticesEveryCopy \/ ~setting.background,
                    NEW c \in Client, c \in connected', c \in connected => Sent(c)
             PROVE  Sent(c)'
  BY <1>1, StepTyped DEF SentInv, NoticesEveryCopy, ClipboardTypeOK
<1>2. c \in Screen /\ c # Home
  BY HomeAssumption DEF Screen
<1>3. clientEvents[c] \in Seq(ClientEvent)
  BY DEF QueueTypes
<1>4. ASSUME NEW s \in Screen, Copy(s)
      PROVE  Sent(c)'
  <2>1. CASE s = c /\ c \in unnoticed'
    BY <2>1
  <2>2. CASE s = c /\ c \notin unnoticed'
    <3>1. ~setting.background => clientActive[c]
      BY <2>2, <1>2, <1>4 DEF Copy
    <3>2. ~NoticesEveryCopy
      BY <2>2, <1>4 DEF Copy
    <3> QED BY <3>1, <3>2, <1>4 DEF Copy, ownerVars
  <2>3. CASE s # c
    <3>1. content'[c] = content[c] /\ (c \in unnoticed <=> c \in unnoticed')
      BY <2>3, <1>2, <1>4 DEF Copy, ClipboardTypeOK
    <3> QED BY <3>1, <1>4 DEF Copy, ownerVars, peerVars
  <2> QED BY <2>1, <2>2, <2>3
<1>5. ASSUME NEW s \in Screen, Notice(s)
      PROVE  Sent(c)'
  <2>1. UNCHANGED <<content, connected, clientActive, ownClipboard, sentClipboard>>
    BY <1>5 DEF Notice, screenVars, peerVars, ownerVars
  <2>2. CASE s = c
    <3>1. PICK e \in ClientEvent : e = Grabbed(c, 0) /\ e \in Reports
      BY ClientKinds
    <3>2. clientEvents'[c] = Append(clientEvents[c], e)
      BY <2>2, <3>1, <1>2, <1>5 DEF Notice, QueueTypes
    <3>3. ~NoneIn(clientEvents'[c], Reports)
      BY <3>1, <3>2, <1>3, Added
    <3> QED BY <3>3
  <2>3. CASE s # c
    <3>1. clientEvents'[c] = clientEvents[c] /\ (c \in unnoticed => c \in unnoticed')
      BY <2>3, <1>5 DEF Notice, QueueTypes
    <3> QED BY <3>1, <2>1
  <2> QED BY <2>2, <2>3
<1>6. CASE (\E s \in Screen : Switch(s)) \/ handleClipboardGrabbed \/ handleClipboardChanged
  <2>1. /\ content'[c] = content[c]
        /\ UNCHANGED <<unnoticed, connected, clientActive, ownClipboard, sentClipboard, clientEvents>>
    BY <1>6, ClientsKeepContent
  <2> QED BY <2>1
<1>7. ASSUME NEW d \in Client, ClientGrabs(d)
      PROVE  Sent(c)'
  <2>1. UNCHANGED <<content, connected, clientActive, unnoticed>>
    BY <1>7 DEF ClientGrabs, screenVars, peerVars, copyVars
  <2>2. CASE d = c
    <3>1. CASE WaitsUntilLeave(c)
      BY <3>1, <2>1 DEF WaitsUntilLeave
    <3>2. CASE ~WaitsUntilLeave(c)
      BY <3>2, <2>1, <2>2, <1>7 DEF ClientGrabs, sendClipboard, ClipboardTypeOK
    <3> QED BY <3>1, <3>2
  <2>3. CASE d # c
    <3>1. /\ clientEvents'[c] = clientEvents[c] /\ sentClipboard'[c] = sentClipboard[c]
          /\ c \in ownClipboard' => c \in ownClipboard
      BY <2>3, <1>7 DEF ClientGrabs, sendClipboard, ClipboardTypeOK, QueueTypes
    <3> QED BY <3>1, <2>1
  <2> QED BY <2>2, <2>3
<1>8. ASSUME NEW d \in Client, ClientSends(d)
      PROVE  Sent(c)'
  <2>1. UNCHANGED <<content, connected, clientActive, unnoticed, ownClipboard, sentClipboard>>
    BY <1>8 DEF ClientSends, screenVars, peerVars, copyVars, ownerVars
  <2>2. CASE d = c
    <3>1. PICK e \in ClientEvent : e = Head(clientEvents[c]) /\ e \notin Reports
      BY <2>2, <1>8, TypesUnderway, ClientKinds DEF ClientSends
    <3>2. clientEvents[c] # << >> /\ clientEvents'[c] = Tail(clientEvents[c])
      BY <2>2, <1>8 DEF ClientSends, QueueTypes
    <3>3. NoneIn(clientEvents'[c], Reports) => NoneIn(clientEvents[c], Reports)
      BY <3>1, <3>2, <1>3, Removed
    <3> QED BY <3>3, <2>1
  <2>3. CASE d # c
    <3>1. clientEvents'[c] = clientEvents[c]
      BY <2>3, <1>8 DEF ClientSends, QueueTypes
    <3> QED BY <3>1, <2>1
  <2> QED BY <2>2, <2>3
<1>9. ASSUME NEW d \in Client, Receives(d)
      PROVE  Sent(c)'
  <2>1. UNCHANGED <<connected, unnoticed>>
    BY <1>9 DEF Receives, peerVars, copyVars
  <2>2. CASE d # c
    <3>1. /\ clientEvents'[c] = clientEvents[c] /\ sentClipboard'[c] = sentClipboard[c]
          /\ content'[c] = content[c] /\ clientActive'[c] = clientActive[c]
          /\ c \in ownClipboard' => c \in ownClipboard
      BY <2>2, <1>2, <1>9
         DEF Receives, ClientEnters, ClientLeaves, ClientTakes, sendClipboard, screenVars,
             ClipboardTypeOK, QueueTypes
    <3> QED BY <3>1, <2>1
  <2>3. CASE d = c /\ ClientEnters(c, Head(toClient[c]).seq)
    BY <2>3 DEF ClientEnters, ClipboardTypeOK
  <2>4. CASE d = c /\ ClientLeaves(c)
    BY <2>4, <2>1 DEF ClientLeaves, sendClipboard, screenVars, ClipboardTypeOK
  <2>5. CASE d = c /\ \E v : ClientTakes(c, v)
    BY <2>5 DEF ClientTakes
  <2> QED BY <2>2, <2>3, <2>4, <2>5, <1>9 DEF Receives
<1>10. ASSUME NEW d \in Client, Connect(d)
       PROVE  Sent(c)'
  <2>1. CASE d = c
    BY <2>1, <1>10 DEF Connect
  <2>2. CASE d # c
    <3>1. content'[c] = content[c] /\ sentClipboard'[c] = sentClipboard[c] /\ c \in connected
      BY <2>2, <1>2, <1>10 DEF Connect, ClipboardTypeOK
    <3> QED BY <3>1, <1>10 DEF Connect, copyVars
  <2> QED BY <2>1, <2>2
<1>11. ASSUME NEW d \in Client, Disconnect(d)
       PROVE  Sent(c)'
  <2>1. c # d /\ c \in connected
    BY <1>11 DEF Disconnect
  <2>2. clientEvents'[c] = clientEvents[c] /\ (c \in unnoticed => c \in unnoticed')
    BY <2>1, <1>11 DEF Disconnect, QueueTypes
  <2> QED BY <2>1, <2>2, <1>11 DEF Disconnect, ownerVars, screenVars
<1>12. CASE SendClipboard \/ DispatchToNobody \/ Idle \/ \E d \in Client : ServerReceives(d)
  <2>1. UNCHANGED <<content, connected, clientActive, unnoticed, ownClipboard, sentClipboard,
                    clientEvents>>
    BY <1>12 DEF SendClipboard, DispatchToNobody, DeliversNothing, Idle, clipboardVars,
         ServerReceives, screenVars, peerVars, copyVars, ownerVars
  <2> QED BY <2>1
<1> QED BY <1>4, <1>5, <1>6, <1>7, <1>8, <1>9, <1>10, <1>11, <1>12 DEF ClipboardNext, Step

-----------------------------------------------------------------------------
(* What a step leaves alone.                                               *)
SameGrabs(p, q, c) == NoneIn(p, GrabsOf(c)) <=> NoneIn(q, GrabsOf(c))
SameChanges(p, q, c) ==
  /\ NoneIn(p, ChangesOf(c)) => NoneIn(q, ChangesOf(c))
  /\ Leads(p, GrabsOf(c), ChangesOf(c)) => Leads(q, GrabsOf(c), ChangesOf(c))
SameSendings(p, q, c) ==
  /\ NoneIn(p, SendingsTo(c)) => NoneIn(q, SendingsTo(c))
  /\ \A v : LastIn(p, SendingsTo(c), SendingsOf(c, v))
              => LastIn(q, SendingsTo(c), SendingsOf(c, v))

LEMMA TailSame ==
  ASSUME NEW q \in Seq(ServerEvent), q # << >>, NEW c
  PROVE  /\ Head(q) \notin GrabsOf(c) => SameGrabs(q, Tail(q), c) /\ SameChanges(q, Tail(q), c)
         /\ Head(q) \notin SendingsTo(c) => SameSendings(q, Tail(q), c)
<1>1. SendingsTo(c) \subseteq ServerEvent /\ \A v : SendingsOf(c, v) \subseteq SendingsTo(c)
  BY DEF SendingsTo, SendingsOf
<1>2. Head(q) \notin GrabsOf(c) => SameGrabs(q, Tail(q), c)
  BY Removed DEF SameGrabs
<1>3. Head(q) \notin GrabsOf(c) => SameChanges(q, Tail(q), c)
  BY Removed DEF SameChanges
<1>4. Head(q) \notin SendingsTo(c) => SameSendings(q, Tail(q), c)
  <2>1. NoneIn(q, SendingsTo(c)) => NoneIn(Tail(q), SendingsTo(c))
    BY Removed
  <2>2. ASSUME NEW v, Head(q) \notin SendingsTo(c), LastIn(q, SendingsTo(c), SendingsOf(c, v))
        PROVE  LastIn(Tail(q), SendingsTo(c), SendingsOf(c, v))
    <3>1. \/ LastIn(Tail(q), SendingsTo(c), SendingsOf(c, v))
          \/ Head(q) \in SendingsOf(c, v)
      BY <2>2, Removed
    <3> QED BY <3>1, <2>2, <1>1
  <2> QED BY <2>1, <2>2 DEF SameSendings
<1> QED BY <1>2, <1>3, <1>4

LEMMA AppendSame ==
  ASSUME NEW q \in Seq(ServerEvent), NEW e \in ServerEvent, NEW c
  PROVE  /\ e \notin GrabsOf(c) => SameGrabs(q, Append(q, e), c)
         /\ e \notin ChangesOf(c) => SameChanges(q, Append(q, e), c)
         /\ e \notin SendingsTo(c) => SameSendings(q, Append(q, e), c)
<1>1. e \notin GrabsOf(c) => SameGrabs(q, Append(q, e), c)
  BY Added DEF SameGrabs
<1>2. e \notin ChangesOf(c) => SameChanges(q, Append(q, e), c)
  <2>1. ASSUME e \notin ChangesOf(c)
        PROVE  /\ NoneIn(q, ChangesOf(c)) => NoneIn(Append(q, e), ChangesOf(c))
               /\ Leads(q, GrabsOf(c), ChangesOf(c)) => Leads(Append(q, e), GrabsOf(c), ChangesOf(c))
    BY <2>1, Added
  <2> QED BY <2>1 DEF SameChanges
<1>3. e \notin SendingsTo(c) => SameSendings(q, Append(q, e), c)
  <2>1. ASSUME e \notin SendingsTo(c), NEW v
        PROVE  /\ NoneIn(q, SendingsTo(c)) => NoneIn(Append(q, e), SendingsTo(c))
               /\ LastIn(q, SendingsTo(c), SendingsOf(c, v))
                    => LastIn(Append(q, e), SendingsTo(c), SendingsOf(c, v))
    BY <2>1, Added
  <2> QED BY <2>1 DEF SameSendings
<1> QED BY <1>1, <1>2, <1>3

LEMMA SameAfterBoth ==
  ASSUME NEW p, NEW q, NEW r, NEW c
  PROVE  /\ SameGrabs(p, q, c) /\ SameGrabs(q, r, c) => SameGrabs(p, r, c)
         /\ SameChanges(p, q, c) /\ SameChanges(q, r, c) => SameChanges(p, r, c)
         /\ SameSendings(p, q, c) /\ SameSendings(q, r, c) => SameSendings(p, r, c)
         /\ SameGrabs(p, p, c) /\ SameChanges(p, p, c) /\ SameSendings(p, p, c)
BY DEF SameGrabs, SameChanges, SameSendings

LEMMA DeliversSame ==
  ASSUME Typed, NEW s \in Screen, NEW v \in Data, NEW q \in Seq(ServerEvent), NEW c,
         Delivers(s, v, q) \/ DeliversNothing(q)
  PROVE  /\ SameGrabs(q, events', c) /\ SameChanges(q, events', c)
         /\ c # s => SameSendings(q, events', c)
         /\ \A Z : NoneIn(q, Z) /\ Z \subseteq Grabs => NoneIn(events', Z)
         /\ \A Z : OneIn(q, Z) /\ Z \subseteq Grabs => OneIn(events', Z)
<1>1. CASE events' = q
  BY <1>1, SameAfterBoth
<1>2. CASE events' # q
  <2>1. Delivers(s, v, q)
    BY <1>2 DEF DeliversNothing
  <2>2. PICK e \in SendingsOf(s, v) : e \in ServerEvent /\ events' = Append(q, e)
    BY <2>1, <1>2, DeliversAdds
  <2>3. e.type = "sending" /\ e.screen = s /\ e \notin Grabs
    BY <2>2, ServerKinds
  <2>4. e \notin GrabsOf(c) /\ e \notin ChangesOf(c) /\ (c # s => e \notin SendingsTo(c))
    BY <2>2, <2>3, ServerKinds
  <2>5. \A Z : NoneIn(q, Z) /\ Z \subseteq Grabs => NoneIn(events', Z)
    BY <2>2, <2>3, Added
  <2>6. \A Z : OneIn(q, Z) /\ Z \subseteq Grabs => OneIn(events', Z)
    BY <2>2, <2>3, Added
  <2> QED BY <2>2, <2>4, <2>5, <2>6, AppendSame
<1> QED BY <1>1, <1>2

\* The client and what it sends are as they were; nothing that is written to
\* it takes its clipboard or enters it with an old number.
LeavesAlone(c) ==
  /\ content'[c] = content[c] /\ held'[c] = held[c]
  /\ c \in unnoticed' <=> c \in unnoticed
  /\ seqNum'[c] = seqNum[c] /\ sentClipboard'[c] = sentClipboard[c]
  /\ c \in ownClipboard' <=> c \in ownClipboard
  /\ clientEvents'[c] = clientEvents[c] /\ toServer'[c] = toServer[c]
TakesKept(c) ==
  /\ NoneIn(toClient[c], TakeMessages) <=> NoneIn(toClient'[c], TakeMessages)
  /\ \A v : LastIn(toClient[c], TakeMessages, TakesOf(v))
              => LastIn(toClient'[c], TakeMessages, TakesOf(v))
EntersKept(c) ==
  NoneIn(toClient[c], EarlierEnters(m_clipboardSeqNum))
    => NoneIn(toClient'[c], EarlierEnters(m_clipboardSeqNum))

LEMMA NumbersFrame ==
  ASSUME NEW c \in Client, NumbersInv(c), LeavesAlone(c), EntersKept(c),
         UNCHANGED m_clipboardSeqNum
  PROVE  NumbersInv(c)'
BY DEF NumbersInv, HasCopied, Recent, LeavesAlone, EntersKept

LEMMA OwnHeldFrame ==
  ASSUME NEW c \in Client, OwnInv(c), HeldInv(c), LeavesAlone(c),
         ~NoneIn(toClient[c], TakeMessages) => ~NoneIn(toClient'[c], TakeMessages),
         SameGrabs(events, events', c), UNCHANGED m_clipboardOwner
  PROVE  OwnInv(c)' /\ HeldInv(c)'
BY DEF OwnInv, HeldInv, HasCopied, HasTold, LeavesAlone, SameGrabs

LEMMA DataFrame ==
  ASSUME NEW c \in Client, DataInv(c), LeavesAlone(c),
         SameGrabs(events, events', c), SameChanges(events, events', c),
         UNCHANGED m_clipboardOwner
  PROVE  DataInv(c)'
BY DEF DataInv, HasTold, LeavesAlone, SameGrabs, SameChanges

LEMMA CleanFrame ==
  ASSUME NEW c \in Client, CleanInv(c), LeavesAlone(c), TakesKept(c),
         SameGrabs(events, events', c), SameSendings(events, events', c),
         c \in dirty => c \in dirty',
         UNCHANGED <<m_clipboardOwner, m_clipboardData>>
  PROVE  CleanInv(c)'
BY DEF CleanInv, WillHave, HasCopied, HasTold, LeavesAlone, TakesKept, SameGrabs, SameSendings

LEMMA ClientFrame ==
  ASSUME NEW c \in Client, ClientInv(c), LeavesAlone(c), TakesKept(c), EntersKept(c),
         SameGrabs(events, events', c), SameChanges(events, events', c),
         SameSendings(events, events', c), c \in dirty => c \in dirty',
         UNCHANGED <<m_clipboardOwner, m_clipboardSeqNum, m_clipboardData>>
  PROVE  ClientInv(c)'
<1>1. NumbersInv(c) /\ OwnInv(c) /\ HeldInv(c) /\ DataInv(c) /\ CleanInv(c)
  BY DEF ClientInv
<1>2. NumbersInv(c)' /\ DataInv(c)' /\ CleanInv(c)'
  BY <1>1, NumbersFrame, DataFrame, CleanFrame
<1>3. ~NoneIn(toClient[c], TakeMessages) => ~NoneIn(toClient'[c], TakeMessages)
  BY DEF TakesKept
<1>4. OwnInv(c)' /\ HeldInv(c)'
  BY <1>1, <1>3, OwnHeldFrame
<1> QED BY <1>2, <1>4 DEF ClientInv

LEMMA SilentFrame ==
  ASSUME NEW c, Silent(c), LeavesAlone(c), SameChanges(events, events', c)
  PROVE  Silent(c)'
BY DEF Silent, LeavesAlone, SameChanges

\* What is written to a client besides grabs and data.
LEMMA MovesOnly ==
  ASSUME Typed, NEW c \in Client, NEW m \in ToClient,
         m \notin TakeMessages, m \notin EarlierEnters(m_clipboardSeqNum),
         toClient'[c] = Append(toClient[c], m)
  PROVE  TakesKept(c) /\ EntersKept(c)
<1>1. toClient[c] \in Seq(ToClient)
  BY DEF Typed, QueueTypes
<1>2. NoneIn(toClient[c], TakeMessages) <=> NoneIn(toClient'[c], TakeMessages)
  BY <1>1, Added
<1>3. \A Y : LastIn(toClient[c], TakeMessages, Y) => LastIn(toClient'[c], TakeMessages, Y)
  BY <1>1, Added
<1>4. EntersKept(c)
  <2>1. \A Z : NoneIn(toClient[c], Z) /\ m \notin Z => NoneIn(toClient'[c], Z)
    BY <1>1, Added
  <2> QED BY <2>1 DEF EntersKept
<1> QED BY <1>2, <1>3, <1>4 DEF TakesKept

LEMMA StreamSame ==
  ASSUME NEW c \in Client, toClient'[c] = toClient[c]
  PROVE  TakesKept(c) /\ EntersKept(c)
BY DEF TakesKept, EntersKept

-----------------------------------------------------------------------------
(* The stages of a grab.                                                   *)
LEMMA GrabUnique ==
  ASSUME NEW s, NEW t, GrabOf(s), GrabOf(t)
  PROVE  s = t
<1>1. \A u : GrabsOf(u) \subseteq Grabs
  BY DEF GrabsOf
<1>2. Posted(s) /\ Posted(t) => s = t
  <2> SUFFICES ASSUME Posted(s), Posted(t)
               PROVE  s = t
    OBVIOUS
  <2>1. PICK i \in DOMAIN events : events[i] \in GrabsOf(s)
    BY DEF Posted, NoneIn
  <2>2. PICK j \in DOMAIN events : events[j] \in GrabsOf(t)
    BY DEF Posted, NoneIn
  <2>3. i = j
    BY <1>1, <2>1, <2>2 DEF Posted, OneIn
  <2> QED BY <2>1, <2>2, <2>3 DEF GrabsOf
<1>3. \A q, Z : ~(NoneIn(q, Z) /\ OneIn(q, Z))
  BY DEF NoneIn, OneIn
<1>4. \A u : Posted(u) => ~NoneIn(events, Grabs)
  BY <1>3 DEF Posted
<1>5. \A u \in Client : Reported(u) => unnoticed = {} /\ NoneIn(events, Grabs) /\ NoMessages
                                     /\ ~NoneIn(clientEvents[u], Reports)
  BY <1>3 DEF Reported
<1>6. \A u \in Client : Told(u) => unnoticed = {} /\ NoneIn(events, Grabs) /\ NoReports
                                     /\ ~NoneIn(toServer[u], GrabMessages)
  BY <1>3 DEF Told
<1>7. CASE Unnoticed(s)
  BY <1>7, <1>4, <1>5, <1>6 DEF GrabOf, Unnoticed, Posted
<1>8. CASE Posted(s)
  BY <1>8, <1>2, <1>4, <1>5, <1>6 DEF GrabOf, Unnoticed, Posted
<1>9. CASE s \in Client /\ Reported(s)
  <2>1. t \in Client /\ (Reported(t) \/ Told(t))
    BY <1>9, <1>4, <1>5 DEF GrabOf, Unnoticed
  <2>2. ~NoneIn(clientEvents[t], Reports)
    BY <2>1, <1>5, <1>6, <1>9 DEF NoReports, NoMessages
  <2> QED BY <1>9, <2>1, <2>2 DEF Reported
<1>10. CASE s \in Client /\ Told(s)
  <2>1. t \in Client /\ (Reported(t) \/ Told(t))
    BY <1>10, <1>4, <1>6 DEF GrabOf, Unnoticed
  <2>2. ~NoneIn(toServer[t], GrabMessages)
    BY <2>1, <1>5, <1>6, <1>10 DEF NoReports, NoMessages
  <2> QED BY <1>10, <2>1, <2>2 DEF Told
<1> QED BY <1>7, <1>8, <1>9, <1>10 DEF GrabOf

\* What is seen of a grab says where it is.
LEMMA StageFacts ==
  ASSUME Typed, StageInv
  PROVE  /\ \A s : s \in unnoticed => Unnoticed(s)
         /\ \A c \in Client : ~NoneIn(clientEvents[c], Reports) => Reported(c)
         /\ \A c \in Client : ~NoneIn(toServer[c], GrabMessages) => Told(c)
         /\ \A s : ~NoneIn(events, GrabsOf(s)) => Posted(s)
         /\ \A s : GrabOf(s) => \A c \in connected \ {s} : Silent(c)
         /\ \A s : ~GrabOf(s) => s \notin unnoticed /\ NoneIn(events, GrabsOf(s))
         /\ \A c \in Client : ~GrabOf(c) =>
              ~HasCopied(c) /\ NoneIn(toServer[c], GrabMessages) /\ ~HasTold(c)
<1>1. \A u : GrabsOf(u) \subseteq Grabs
  BY DEF GrabsOf
<1>2. \A q, Z, Y : NoneIn(q, Z) /\ Y \subseteq Z => NoneIn(q, Y)
  BY Fewer
<1>3. ASSUME NEW s, ~NoneIn(events, GrabsOf(s))
      PROVE  Posted(s)
  <2>1. ~NoneIn(events, Grabs)
    BY <1>1, <1>2, <1>3
  <2>2. PICK t \in connected \union {Home} : Posted(t)
    BY <2>1 DEF StageInv, NoGrab, GrabOf, Unnoticed, Reported, Told
  <2> QED BY <2>2, <1>3 DEF Posted
<1>4. \A s : s \in unnoticed => Unnoticed(s)
  BY DEF StageInv, NoGrab, GrabOf, Unnoticed, Reported, Told, Posted
<1>5. ASSUME NEW c \in Client, ~NoneIn(clientEvents[c], Reports)
      PROVE  Reported(c)
  <2>1. ~NoReports
    BY <1>5 DEF NoReports
  <2>2. PICK t \in connected \union {Home} : t \in Client /\ Reported(t)
    BY <2>1 DEF StageInv, NoGrab, GrabOf, Unnoticed, Told, Posted
  <2>3. t = c
    BY <2>2, <1>5 DEF Reported
  <2> QED BY <2>2, <2>3
<1>6. ASSUME NEW c \in Client, ~NoneIn(toServer[c], GrabMessages)
      PROVE  Told(c)
  <2>1. ~NoMessages
    BY <1>6 DEF NoMessages
  <2>2. PICK t \in connected \union {Home} : t \in Client /\ Told(t)
    BY <2>1 DEF StageInv, NoGrab, GrabOf, Unnoticed, Reported, Posted
  <2>3. t = c
    BY <2>2, <1>6 DEF Told
  <2> QED BY <2>2, <2>3
<1>7. ASSUME NEW s, GrabOf(s)
      PROVE  \A c \in connected \ {s} : Silent(c)
  <2>1. ~NoGrab
    <3>1. \A q, Z : ~(NoneIn(q, Z) /\ OneIn(q, Z))
      BY DEF NoneIn, OneIn
    <3>2. ASSUME NoGrab
          PROVE  FALSE
      <4>1. ~Unnoticed(s) /\ ~Posted(s)
        BY <3>1, <3>2 DEF NoGrab, Unnoticed, Posted
      <4>2. s \in Client /\ (Reported(s) \/ Told(s))
        BY <4>1, <1>7 DEF GrabOf
      <4> QED BY <4>2, <3>1, <3>2 DEF NoGrab, Reported, Told, NoReports, NoMessages
    <3> QED BY <3>2
  <2>2. PICK t \in connected \union {Home} : GrabOf(t) /\ \A c \in connected \ {t} : Silent(c)
    BY <2>1 DEF StageInv
  <2>3. s = t
    BY <2>2, <1>7, GrabUnique
  <2> QED BY <2>2, <2>3
<1>8. \A s : ~GrabOf(s) => s \notin unnoticed /\ NoneIn(events, GrabsOf(s))
  BY <1>3, <1>4 DEF GrabOf
<1>9. \A c \in Client : ~GrabOf(c) =>
        ~HasCopied(c) /\ NoneIn(toServer[c], GrabMessages) /\ ~HasTold(c)
  BY <1>8, <1>5, <1>6 DEF GrabOf, HasCopied, HasTold
<1> QED BY <1>3, <1>4, <1>5, <1>6, <1>7, <1>8, <1>9

\* Steps that leave the grab alone.
StageKept ==
  /\ UNCHANGED unnoticed
  /\ \A c \in Client :
       /\ NoneIn(clientEvents[c], Reports) => NoneIn(clientEvents'[c], Reports)
       /\ OneIn(clientEvents[c], Reports) => OneIn(clientEvents'[c], Reports)
       /\ NoneIn(toServer[c], GrabMessages) => NoneIn(toServer'[c], GrabMessages)
       /\ OneIn(toServer[c], GrabMessages) => OneIn(toServer'[c], GrabMessages)
  /\ NoneIn(events, Grabs) => NoneIn(events', Grabs)
  /\ OneIn(events, Grabs) => OneIn(events', Grabs)
  /\ \A s \in Screen : ~NoneIn(events, GrabsOf(s)) => ~NoneIn(events', GrabsOf(s))

LEMMA StageFrame ==
  ASSUME Typed, StageInv, StageKept, connected \subseteq connected',
         NEW d, \A c \in connected \ {d} : LeavesAlone(c) /\ SameChanges(events, events', c),
         d \notin connected \/ (Silent(d) => Silent(d)'),
         \A c \in connected' \ connected : Silent(c)'
  PROVE  StageInv'
<1>1. NoGrab => NoGrab'
  BY DEF StageKept, NoGrab, NoReports, NoMessages
<1>2. ASSUME NEW s \in connected \union {Home}, GrabOf(s)
      PROVE  GrabOf(s)'
  <2>1. s \in Screen
    BY DEF Typed, ClipboardTypeOK, Screen
  <2>2. Unnoticed(s) => Unnoticed(s)'
    BY DEF StageKept, Unnoticed, NoReports, NoMessages
  <2>3. Posted(s) => Posted(s)'
    BY <2>1 DEF StageKept, Posted, NoReports, NoMessages
  <2>4. s \in Client /\ Reported(s) => Reported(s)'
    BY DEF StageKept, Reported, NoMessages
  <2>5. s \in Client /\ Told(s) => Told(s)'
    BY DEF StageKept, Told, NoReports
  <2> QED BY <1>2, <2>2, <2>3, <2>4, <2>5 DEF GrabOf
<1>3. \A c \in connected : Silent(c) => Silent(c)'
  BY SilentFrame
<1> QED BY <1>1, <1>2, <1>3 DEF StageInv

-----------------------------------------------------------------------------
(* Copies where the cursor is, once everything is told.                    *)
LEMMA QuietFacts ==
  ASSUME Typed, GoneInv, Quiet
  PROVE  /\ unnoticed = {} /\ \A Z : NoneIn(events, Z)
         /\ \A c \in Client : \A Z : /\ NoneIn(clientEvents[c], Z) /\ NoneIn(toClient[c], Z)
                               /\ NoneIn(toServer[c], Z)
         /\ \A Y, Z : Leads(events, Y, Z) /\ ~LastIn(events, Y, Z)
         /\ \A c \in Client : \A Y, Z : Leads(toServer[c], Y, Z) /\ ~LastIn(toClient[c], Y, Z)
<1>1. \A c \in Client : clientEvents[c] = << >> /\ toClient[c] = << >> /\ toServer[c] = << >>
  BY DEF GoneInv, Quiet
<1>2. events = << >> /\ unnoticed = {}
  BY DEF Quiet
<1>3. \A Y, Z : ~LastIn(<< >>, Y, Z)
  BY DEF LastIn
<1> QED BY <1>1, <1>2, <1>3, EmptyQueue

LEMMA CopyFocused ==
  ASSUME Typed, GoneInv, MovesInv, SentInv, InFocus, Focused,
         NEW s \in Screen, Copy(s), UNCHANGED setting
  PROVE  Focused'
<1> USE DEF Typed
<1>1. /\ s = activeScreen /\ (s # Home => clientActive[s]) /\ Quiet
      /\ s \in connected \union {Home}
      /\ content' = [content EXCEPT ![s] = copies + 1] /\ held' = [held EXCEPT ![s] = FALSE]
      /\ unnoticed' = IF held[s] \/ NoticesEveryCopy THEN unnoticed \union {s} ELSE unnoticed
      /\ UNCHANGED <<connected, m_clipboardOwner, m_clipboardSeqNum, m_clipboardData, dirty, events,
                     seqNum, ownClipboard, sentClipboard, clientEvents, toClient, toServer,
                     clientActive>>
  BY DEF Copy, InFocus, peerVars, clipVars, ownerVars
<1>2. /\ unnoticed = {} /\ \A Z : NoneIn(events, Z)
      /\ \A c \in Client : \A Z : /\ NoneIn(clientEvents[c], Z) /\ NoneIn(toClient[c], Z)
                            /\ NoneIn(toServer[c], Z)
      /\ \A Y, Z : Leads(events, Y, Z) /\ ~LastIn(events, Y, Z)
      /\ \A c \in Client : \A Y, Z : Leads(toServer[c], Y, Z) /\ ~LastIn(toClient[c], Y, Z)
  BY <1>1, QuietFacts
<1>3. /\ connected \subseteq Client /\ Client \subseteq Screen
      /\ content \in [Screen -> Data] /\ held \in [Screen -> BOOLEAN]
      /\ m_clipboardSeqNum \in Nat /\ m_seqNum \in Nat /\ m_clipboardSeqNum <= m_seqNum
  BY CopyAssumption DEF ClipboardTypeOK, Screen
<1>4. ASSUME NEW c \in connected, c # s
      PROVE  LeavesAlone(c) /\ Silent(c)'
  <2>1. c \in Client /\ c # activeScreen
    BY <1>1, <1>3, <1>4
  <2>2. LeavesAlone(c)
    <3>1. content'[c] = content[c] /\ held'[c] = held[c]
      BY <1>1, <1>3, <1>4
    <3> QED BY <3>1, <1>1, <1>4 DEF LeavesAlone
  <2>3. c \in ownClipboard => sentClipboard[c] = content[c]
    <3>1. c \in ownClipboard => seqNum[c] > 0
      <4>1. c \in ownClipboard => 0 < seqNum[c]
        BY <1>4 DEF Focused, ClientInv, NumbersInv
      <4>2. seqNum[c] \in Nat
        BY <2>1, CopyAssumption DEF ClipboardTypeOK
      <4> QED BY <4>1, <4>2
    <3>2. c \in ownClipboard => ~clientActive[c]
      BY <3>1, <2>1, <1>2 DEF MovesInv, ComesTo
    <3>3. ~setting.background
      BY DEF InFocus
    <3>4. NoneIn(clientEvents[c], Reports) /\ c \notin unnoticed
      BY <1>2, <2>1
    <3> QED BY <3>2, <3>3, <3>4, <1>2, <2>1 DEF SentInv
  <2>4. Silent(c)
    BY <2>3, <2>1, <1>2 DEF Silent
  <2> QED BY <2>2, <2>4, <1>1, SilentFrame, SameAfterBoth
<1>5. StageInv'
  <2>1. NoReports' /\ NoMessages' /\ NoneIn(events', Grabs)
    BY <1>1, <1>2 DEF NoReports, NoMessages
  <2>2. CASE unnoticed' = {}
    BY <2>1, <2>2 DEF StageInv, NoGrab
  <2>3. CASE unnoticed' = {s}
    BY <2>1, <2>3, <1>1, <1>4 DEF StageInv, GrabOf, Unnoticed
  <2> QED BY <2>2, <2>3, <1>1, <1>2
<1>6. HomeInv'
  <2>1. CASE s # Home
    <3>1. content'[Home] = content[Home] /\ held'[Home] = held[Home]
            /\ (Home \in unnoticed' <=> Home \in unnoticed)
      BY <2>1, <1>1, <1>3 DEF Screen
    <3> QED BY <3>1, <1>1 DEF Focused, HomeInv, HomeHasCopied
  <2>2. CASE s = Home /\ ~held[Home]
    <3>1. m_clipboardOwner = Home
      BY <2>2, <1>2 DEF Focused, HomeInv, HomeHasCopied
    <3> QED BY <3>1, <1>1 DEF HomeInv
  <2>3. CASE s = Home /\ held[Home]
    BY <2>3, <1>1 DEF HomeInv, HomeHasCopied
  <2> QED BY <2>1, <2>2, <2>3, <1>3 DEF Screen
<1>7. ASSUME NEW c \in connected
      PROVE  ClientInv(c)'
  <2>1. c \in Client /\ ClientInv(c) /\ TakesKept(c) /\ EntersKept(c)
    BY <1>1, <1>3, StreamSame DEF Focused
  <2>2. CASE c # s
    BY <2>1, <2>2, <1>1, <1>4, ClientFrame, SameAfterBoth
  <2>3. CASE c = s
    <3>1. /\ NoneIn(clientEvents'[c], Uploads) /\ NoneIn(toServer'[c], OldMessages(m_clipboardSeqNum))
          /\ NoneIn(toClient'[c], EarlierEnters(m_clipboardSeqNum))
          /\ Leads(toServer'[c], GrabMessages, DataMessages)
          /\ Leads(events', GrabsOf(c), ChangesOf(c))
          /\ ~HasTold(c) /\ ~HasCopied(c) /\ NoneIn(toClient[c], TakeMessages)
      BY <1>1, <1>2, <2>1 DEF HasTold, HasCopied
    <3>2. seqNum[c] = m_seqNum /\ m_seqNum > 0
      <4>1. c # Home
        BY <2>1, HomeAssumption
      <4> QED BY <4>1, <2>1, <2>3, <1>1, <1>2 DEF MovesInv, ComesTo
    <3>3. NumbersInv(c)'
      BY <3>1, <3>2, <1>1, <1>3 DEF NumbersInv, Recent
    <3>4. c \in ownClipboard => m_clipboardOwner = c
      BY <2>1, <3>1 DEF ClientInv, OwnInv
    <3>5. c \in unnoticed' \/ m_clipboardOwner = c
      BY <2>1, <2>3, <3>1, <1>1 DEF ClientInv, HeldInv
    <3> QED BY <3>1, <3>3, <3>4, <3>5, <1>1
            DEF ClientInv, OwnInv, HeldInv, HasCopied, DataInv, CleanInv
  <2> QED BY <2>2, <2>3
<1>8. NoneIn(events', OldGrabs(m_clipboardSeqNum'))
  BY <1>2, <1>1
<1> QED BY <1>1, <1>5, <1>6, <1>7, <1>8 DEF Focused

LEMMA NoticeFocused ==
  ASSUME Typed, GoneInv, Focused, NEW s \in Screen, Notice(s), UNCHANGED setting
  PROVE  Focused'
<1> USE DEF Typed
<1>1. /\ s \in unnoticed /\ unnoticed' = unnoticed \ {s}
      /\ UNCHANGED <<content, held, connected, m_clipboardOwner, m_clipboardSeqNum, m_clipboardData,
                     dirty, seqNum, ownClipboard, sentClipboard, toClient, toServer>>
  BY DEF Notice, screenVars, peerVars, clipVars, ownerVars
<1>2. StageInv /\ HomeInv /\ \A c \in connected : ClientInv(c)
  BY DEF Focused
<1>3. /\ s \in connected \union {Home} /\ connected \subseteq Client /\ Home \notin connected
      /\ events \in Seq(ServerEvent)
  BY <1>1, ServedOnly, HomeAssumption DEF ClipboardTypeOK, QueueTypes
<1>4. /\ Unnoticed(s) /\ \A c \in connected \ {s} : Silent(c)
      /\ unnoticed = {s} /\ NoReports /\ NoMessages /\ NoneIn(events, Grabs)
  BY <1>1, <1>2, StageFacts DEF GrabOf, Unnoticed
<1>5. CASE s = Home
  <2>1. PICK e \in ServerEvent : /\ e = Grabbed(Home, primarySeq)
                                 /\ e.type = "grabbed" /\ e.screen = Home
    BY TypesUnderway, NewServerEvent
  <2>2. events' = Append(events, e) /\ clientEvents' = clientEvents
    BY <1>5, <2>1 DEF Notice
  <2>3. /\ e \in Grabs /\ e \in GrabsOf(Home) /\ e \notin OldGrabs(m_clipboardSeqNum)
        /\ \A c \in connected : e \notin GrabsOf(c) /\ e \notin ChangesOf(c) /\ e \notin SendingsTo(c)
    BY <2>1, <1>3, ServerKinds
  <2>4. ASSUME NEW c \in connected
        PROVE  /\ LeavesAlone(c) /\ TakesKept(c) /\ EntersKept(c)
               /\ SameGrabs(events, events', c) /\ SameChanges(events, events', c)
               /\ SameSendings(events, events', c)
    <3>1. c # s /\ c \in Client
      BY <1>3, <1>5
    <3>2. LeavesAlone(c)
      BY <3>1, <1>1, <2>2 DEF LeavesAlone
    <3> QED BY <3>1, <3>2, <1>1, <1>3, <2>2, <2>3, AppendSame, StreamSame
  <2>5. StageInv'
    <3>1. OneIn(events', Grabs)
      BY <1>3, <1>4, <2>2, <2>3, Added
    <3>2. ~NoneIn(events', GrabsOf(Home))
      BY <1>3, <2>2, <2>3, Added
    <3>3. Posted(Home)'
      BY <3>1, <3>2, <1>1, <1>4, <1>5, <2>2 DEF Posted, NoReports, NoMessages
    <3>4. \A c \in connected \ {Home} : Silent(c)'
      BY <1>4, <1>5, <2>4, SilentFrame
    <3> QED BY <3>3, <3>4, <1>1 DEF StageInv, GrabOf
  <2>6. HomeInv'
    <3>1. ~NoneIn(events', GrabsOf(Home))
      BY <1>3, <2>2, <2>3, Added
    <3> QED BY <3>1 DEF HomeInv, HomeHasCopied
  <2>7. \A c \in connected : ClientInv(c)'
    BY <1>1, <1>2, <1>3, <2>4, ClientFrame
  <2>8. NoneIn(events', OldGrabs(m_clipboardSeqNum))
    BY <1>3, <2>2, <2>3, Added DEF Focused
  <2> QED BY <2>5, <2>6, <2>7, <2>8, <1>1 DEF Focused
<1>6. CASE s # Home
  <2>1. s \in Client /\ s \in connected /\ clientEvents[s] \in Seq(ClientEvent)
    BY <1>3, <1>6 DEF QueueTypes
  <2>2. PICK e \in ClientEvent : e = Grabbed(s, 0) /\ e \in Reports /\ e \notin Uploads
    BY <2>1, ClientKinds
  <2>3. /\ events' = events /\ clientEvents'[s] = Append(clientEvents[s], e)
        /\ \A c \in Client \ {s} : clientEvents'[c] = clientEvents[c]
    BY <1>6, <2>1, <2>2 DEF Notice, QueueTypes
  <2>4. /\ OneIn(clientEvents'[s], Reports) /\ ~NoneIn(clientEvents'[s], Reports)
        /\ NoneIn(clientEvents'[s], Uploads) <=> NoneIn(clientEvents[s], Uploads)
    <3>1. NoneIn(clientEvents[s], Reports)
      BY <1>4, <2>1 DEF NoReports
    <3> QED BY <3>1, <2>1, <2>2, <2>3, Added
  <2>5. ASSUME NEW c \in connected, c # s
        PROVE  /\ LeavesAlone(c) /\ TakesKept(c) /\ EntersKept(c)
               /\ SameGrabs(events, events', c) /\ SameChanges(events, events', c)
               /\ SameSendings(events, events', c)
    <3>1. c \in Client
      BY <1>3
    <3>2. LeavesAlone(c)
      BY <3>1, <1>1, <2>3, <2>5 DEF LeavesAlone
    <3> QED BY <3>1, <3>2, <1>1, <2>3, SameAfterBoth, StreamSame
  <2>6. StageInv'
    <3>1. Reported(s)'
      BY <1>1, <1>4, <2>3, <2>4 DEF Reported, NoReports, NoMessages
    <3>2. \A c \in connected \ {s} : Silent(c)'
      BY <1>4, <2>5, SilentFrame
    <3> QED BY <3>1, <3>2, <2>1, <1>1 DEF StageInv, GrabOf
  <2>7. HomeInv'
    BY <1>1, <1>2, <1>6, <2>3 DEF HomeInv, HomeHasCopied
  <2>8. ASSUME NEW c \in connected
        PROVE  ClientInv(c)'
    <3>1. CASE c # s
      BY <3>1, <1>1, <1>2, <1>3, <2>5, ClientFrame
    <3>2. CASE c = s
      <4>1. HasCopied(s) /\ HasCopied(s)'
        BY <1>1, <2>4 DEF HasCopied
      <4>2. ClientInv(s)
        BY <1>2, <2>1
      <4>3. NumbersInv(s)'
        BY <4>1, <4>2, <1>1 DEF ClientInv, NumbersInv, Recent
      <4>4. OwnInv(s)'
        BY <4>2, <1>1, <2>3 DEF ClientInv, OwnInv, HasTold
      <4>5. HeldInv(s)' /\ CleanInv(s)'
        BY <4>1 DEF HeldInv, CleanInv
      <4>6. DataInv(s)'
        BY <4>2, <1>1, <2>3, <2>4 DEF ClientInv, DataInv, HasTold
      <4> QED BY <3>2, <4>3, <4>4, <4>5, <4>6 DEF ClientInv
    <3> QED BY <3>1, <3>2
  <2> QED BY <2>3, <2>6, <2>7, <2>8, <1>1 DEF Focused
<1> QED BY <1>5, <1>6

LEMMA SwitchFocused ==
  ASSUME Typed, GoneInv, Focused, NEW dst \in Screen, Switch(dst), UNCHANGED setting
  PROVE  Focused'
<1> USE DEF Typed
<1> DEFINE flushed == activeScreen = Home /\ m_clipboardOwner = Home
                        /\ content[Home] # m_clipboardData
           data == IF flushed THEN content[Home] ELSE m_clipboardData
           stale == IF flushed THEN connected ELSE dirty
<1>0. /\ dst \in (connected \union {Home}) \ {activeScreen}
      /\ m_seqNum < setting.switches
      /\ toClient' = [c \in Client |->
                        IF c = activeScreen THEN Append(toClient[c], Leave)
                        ELSE IF c = dst THEN Append(toClient[c], Enter(m_seqNum + 1))
                        ELSE toClient[c]]
      /\ m_clipboardData' = data /\ dirty' = stale \ {dst}
      /\ IF dst \in stale THEN Delivers(dst, data, events) ELSE DeliversNothing(events)
      /\ UNCHANGED <<m_clipboardOwner, m_clipboardSeqNum>>
  BY DEF Switch
<1>1. /\ \A c \in Client : content'[c] = content[c] /\ held'[c] = held[c]
      /\ UNCHANGED <<unnoticed, connected, seqNum, ownClipboard, sentClipboard, clientEvents, toServer>>
  BY ClientsKeepContent
<1>2. data \in Data /\ events \in Seq(ServerEvent)
  BY TypesUnderway DEF QueueTypes
<1>20. flushed => m_clipboardOwner = Home
  OBVIOUS
<1>21. ~flushed => data = m_clipboardData /\ stale = dirty
  OBVIOUS
<1>22. flushed => stale = connected
  OBVIOUS
<1> HIDE DEF flushed, data, stale
<1>3. /\ \A c : SameGrabs(events, events', c) /\ SameChanges(events, events', c)
      /\ \A c : c # dst \/ dst \notin stale => SameSendings(events, events', c)
      /\ \A Z : NoneIn(events, Z) /\ Z \subseteq Grabs => NoneIn(events', Z)
      /\ \A Z : OneIn(events, Z) /\ Z \subseteq Grabs => OneIn(events', Z)
  <2>1. dst \notin stale => events' = events
    BY <1>0 DEF DeliversNothing
  <2>2. Delivers(dst, data, events) \/ DeliversNothing(events)
    BY <1>0
  <2>3. ASSUME NEW c
        PROVE  /\ SameGrabs(events, events', c) /\ SameChanges(events, events', c)
               /\ c # dst => SameSendings(events, events', c)
               /\ \A Z : NoneIn(events, Z) /\ Z \subseteq Grabs => NoneIn(events', Z)
               /\ \A Z : OneIn(events, Z) /\ Z \subseteq Grabs => OneIn(events', Z)
    BY <2>2, <1>2, DeliversSame
  <2> QED BY <2>1, <2>3, SameAfterBoth
<1>4. StageInv /\ HomeInv /\ connected \subseteq Client /\ \A c \in connected : ClientInv(c)
  BY DEF Focused, ClipboardTypeOK
<1>5. ASSUME NEW c \in connected
      PROVE  LeavesAlone(c) /\ TakesKept(c) /\ EntersKept(c)
  <2>1. c \in Client
    BY <1>4
  <2>2. LeavesAlone(c)
    BY <2>1, <1>1 DEF LeavesAlone
  <2>3. CASE c = activeScreen
    <3>1. PICK m \in ToClient : /\ m = Leave /\ m \notin TakeMessages
                                /\ m \notin EarlierEnters(m_clipboardSeqNum)
      BY NewToClient, ToClientKinds
    <3>2. toClient'[c] = Append(toClient[c], m)
      BY <3>1, <2>1, <2>3, <1>0
    <3> QED BY <3>1, <3>2, <2>1, <2>2, MovesOnly
  <2>4. CASE c # activeScreen /\ c = dst
    <3>1. m_seqNum + 1 \in Number \ {0} /\ ~(m_seqNum + 1 < m_clipboardSeqNum)
      <4>1. setting.switches \in 0 .. MaxSwitches /\ m_seqNum \in Nat /\ MaxSwitches \in Nat
        BY SettingAssumption, CopyAssumption DEF ClipboardTypeOK
      <4>2. m_clipboardSeqNum \in 0 .. m_seqNum
        BY DEF ClipboardTypeOK
      <4> QED BY <4>1, <4>2, <1>0 DEF Number
    <3>2. PICK m \in ToClient : /\ m = Enter(m_seqNum + 1) /\ m \notin TakeMessages
                                /\ m \notin EarlierEnters(m_clipboardSeqNum)
      BY <3>1, NewToClient, ToClientKinds
    <3>3. toClient'[c] = Append(toClient[c], m)
      BY <3>2, <2>1, <2>4, <1>0
    <3> QED BY <3>2, <3>3, <2>1, <2>2, MovesOnly
  <2>5. CASE c # activeScreen /\ c # dst
    BY <2>1, <2>2, <2>5, <1>0, StreamSame
  <2> QED BY <2>3, <2>4, <2>5
<1>6. StageInv'
  <2>1. StageKept
    BY <1>1, <1>3 DEF StageKept, SameGrabs
  <2>2. \A c \in connected : LeavesAlone(c) /\ SameChanges(events, events', c)
    BY <1>3, <1>5
  <2> QED BY <2>1, <2>2, <1>1, <1>4, HomeAssumption, StageFrame
<1>7. HomeInv'
  <2>1. HomeHasCopied' <=> HomeHasCopied
    BY <1>1, <1>3 DEF HomeHasCopied, SameGrabs
  <2>2. CASE dst = Home /\ dst \in stale
    <3>1. content'[Home] = data /\ held'[Home]
      BY <2>2, <1>0 DEF Delivers, ClipboardTypeOK, Screen
    <3> QED BY <3>1, <1>0 DEF HomeInv
  <2>3. CASE ~(dst = Home /\ dst \in stale)
    <3>1. content' = content /\ held' = held
      BY <2>3, <1>0 DEF Delivers, DeliversNothing, screenVars
    <3>2. CASE flushed
      BY <3>1, <3>2, <2>1, <1>0, <1>4, <1>20 DEF HomeInv
    <3>3. CASE ~flushed
      <4>1. Home \in dirty => Home \in dirty'
        BY <3>3, <2>3, <1>0, <1>21
      <4> QED BY <4>1, <3>1, <3>3, <2>1, <1>0, <1>4, <1>21 DEF HomeInv
    <3> QED BY <3>2, <3>3
  <2> QED BY <2>2, <2>3
<1>8. ASSUME NEW c \in connected
      PROVE  ClientInv(c)'
  <2>1. c \in Client /\ ClientInv(c) /\ LeavesAlone(c) /\ TakesKept(c) /\ EntersKept(c)
    BY <1>4, <1>5
  <2>2. NumbersInv(c) /\ OwnInv(c) /\ HeldInv(c) /\ DataInv(c) /\ CleanInv(c)
    BY <2>1 DEF ClientInv
  <2>3. NumbersInv(c)' /\ DataInv(c)'
    BY <2>1, <2>2, <1>0, <1>3, NumbersFrame, DataFrame
  <2>4. OwnInv(c)' /\ HeldInv(c)'
    <3>1. ~NoneIn(toClient[c], TakeMessages) => ~NoneIn(toClient'[c], TakeMessages)
      BY <2>1 DEF TakesKept
    <3> QED BY <3>1, <2>1, <2>2, <1>0, <1>3, OwnHeldFrame
  <2>5. CleanInv(c)'
    <3>1. CASE c = dst /\ dst \in stale
      <4>1. PICK e \in SendingsOf(c, data) : e \in ServerEvent /\ events' = Append(events, e)
        BY <3>1, <2>1, <1>0, <1>2, HomeAssumption, DeliversAdds
      <4>2. LastIn(events', SendingsTo(c), SendingsOf(c, data))
        BY <4>1, <1>2, Added
      <4> QED BY <4>2, <1>0 DEF CleanInv, WillHave
    <3>2. CASE c # dst /\ c \in stale
      BY <3>2, <1>0 DEF CleanInv
    <3>3. CASE c \notin stale
      <4>1. ~flushed
        BY <3>3, <1>22
      <4>2. SameSendings(events, events', c) /\ c \notin dirty /\ m_clipboardData' = m_clipboardData
        BY <4>1, <3>3, <1>0, <1>3, <1>21
      <4> QED BY <4>2, <2>1, <2>2, <1>0, <1>3, CleanFrame
    <3> QED BY <3>1, <3>2, <3>3
  <2> QED BY <2>3, <2>4, <2>5 DEF ClientInv
<1>9. NoneIn(events', OldGrabs(m_clipboardSeqNum))
  <2>1. OldGrabs(m_clipboardSeqNum) \subseteq Grabs
    BY DEF OldGrabs
  <2> QED BY <2>1, <1>3 DEF Focused
<1> QED BY <1>0, <1>1, <1>6, <1>7, <1>8, <1>9 DEF Focused

LEMMA GrabbedFocused ==
  ASSUME Typed, GoneInv, Focused, handleClipboardGrabbed, UNCHANGED setting
  PROVE  Focused'
<1> USE DEF Typed
<1>1. PICK e : e = Head(events)
  OBVIOUS
<1>2. PICK q : q = Tail(events)
  OBVIOUS
<1>3. /\ events \in Seq(ServerEvent) /\ events # << >> /\ e \in ServerEvent /\ e.type = "grabbed"
      /\ e.screen \in connected \union {Home} /\ e.seq \in Number
      /\ q \in Seq(ServerEvent)
  BY <1>1, <1>2, TypesUnderway, ServedOnly, ServerEventTypes DEF handleClipboardGrabbed, QueueTypes
<1>4. PICK s \in connected \union {Home}, n \in Number : s = e.screen /\ n = e.seq
  BY <1>3
<1>5. e \in Grabs /\ e \in GrabsOf(s)
  BY <1>3, <1>4, ServerKinds
<1>6. ~NoneIn(events, GrabsOf(s))
  BY <1>1, <1>3, <1>5, Removed
<1>7. /\ Posted(s) /\ \A c \in connected \ {s} : Silent(c)
      /\ unnoticed = {} /\ NoReports /\ NoMessages /\ OneIn(events, Grabs)
  BY <1>6, StageFacts DEF Focused, GrabOf, Posted
<1>8. NoneIn(q, Grabs)
  BY <1>1, <1>2, <1>3, <1>5, <1>7, Removed
<1>9. ~(s # Home /\ IsOld(s, n))
  <2>1. e \notin OldGrabs(m_clipboardSeqNum)
    BY <1>1, <1>3, Removed DEF Focused
  <2> QED BY <2>1, <1>3, <1>4, ServerKinds DEF IsOld
<1> DEFINE sends == s = Home /\ activeScreen # Home /\ content[Home] # Empty
<1>10. /\ m_clipboardOwner' = s /\ m_clipboardSeqNum' = n
       /\ toClient' = [c \in Client |-> IF c \in connected \ {s} THEN Append(toClient[c], Grab(0))
                                        ELSE toClient[c]]
       /\ IF sends
          THEN /\ Shares(Home, content[Home], activeScreen)
               /\ Delivers(activeScreen, content[Home], q)
          ELSE /\ m_clipboardData' = Empty
               /\ dirty' = (connected \union {Home}) \ {s}
               /\ IF s = Home THEN DeliversNothing(q) ELSE Delivers(Home, AfterGrab(Home), q)
  BY <1>1, <1>2, <1>4, <1>9 DEF handleClipboardGrabbed
<1>11. sends => s = Home /\ activeScreen # Home
  OBVIOUS
<1> HIDE DEF sends
<1>12. /\ \A c \in Client : content'[c] = content[c] /\ held'[c] = held[c]
       /\ UNCHANGED <<unnoticed, connected, seqNum, ownClipboard, sentClipboard, clientEvents, toServer>>
  BY ClientsKeepContent
<1>13. /\ connected \subseteq Client /\ Home \notin connected /\ s \in Screen /\ Home \in Screen
       /\ content[Home] \in Data /\ AfterGrab(Home) \in Data /\ activeScreen \in Screen
       /\ activeScreen \in connected \union {Home}
  BY TypesUnderway, HomeAssumption DEF ClipboardTypeOK
<1>14. /\ \A Z : NoneIn(q, Z) /\ Z \subseteq Grabs => NoneIn(events', Z)
       /\ \A c : SameChanges(q, events', c)
  <2>1. PICK t \in Screen, v \in Data : Delivers(t, v, q) \/ DeliversNothing(q)
    BY <1>10, <1>13
  <2> QED BY <2>1, <1>3, DeliversSame
<1>15. NoneIn(events', Grabs)
  BY <1>8, <1>14
<1>16. StageInv'
  BY <1>7, <1>12, <1>15 DEF StageInv, NoGrab, NoReports, NoMessages
<1>17. NoneIn(events', OldGrabs(m_clipboardSeqNum'))
  <2>1. OldGrabs(n) \subseteq Grabs
    BY DEF OldGrabs
  <2> QED BY <2>1, <1>10, <1>15, Fewer
<1>18. HomeInv'
  <2>1. CASE s = Home
    BY <2>1, <1>10 DEF HomeInv
  <2>2. CASE s # Home
    <3>1. Delivers(Home, AfterGrab(Home), q) /\ Home \in dirty'
      BY <2>2, <1>10, <1>11
    <3>2. held'[Home]
      BY <3>1, <1>13 DEF Delivers, ClipboardTypeOK
    <3> QED BY <3>1, <3>2 DEF HomeInv
  <2> QED BY <2>1, <2>2
<1>19. ASSUME NEW c \in connected
       PROVE  ClientInv(c)'
  <2>1. c \in Client /\ ClientInv(c)
    BY <1>13 DEF Focused
  <2>2. NumbersInv(c)'
    <3>1. NoneIn(toServer'[c], OldMessages(n))
      <4>1. OldMessages(n) \subseteq GrabMessages
        BY DEF OldMessages
      <4> QED BY <4>1, <2>1, <1>7, <1>12, Fewer DEF NoMessages
    <3>2. ~HasCopied(c)'
      BY <2>1, <1>7, <1>12 DEF HasCopied, NoReports
    <3> QED BY <3>1, <3>2, <2>1, <1>10, <1>12 DEF ClientInv, NumbersInv
  <2>3. ASSUME c # s
        PROVE  ~NoneIn(toClient'[c], TakeMessages)
    <3>1. PICK m \in ToClient : m = Grab(0) /\ m \in TakeMessages
      BY NewToClient, ToClientKinds
    <3>2. toClient'[c] = Append(toClient[c], m)
      BY <3>1, <2>1, <2>3, <1>10
    <3>3. toClient[c] \in Seq(ToClient)
      BY <2>1 DEF QueueTypes
    <3> QED BY <3>1, <3>2, <3>3, Added
  <2>4. OwnInv(c)'
    BY <2>1, <2>3, <1>7, <1>10, <1>12 DEF OwnInv, Silent
  <2>5. HeldInv(c)'
    BY <2>3, <1>10 DEF HeldInv
  <2>6. DataInv(c)'
    <3>1. CASE c = s
      BY <3>1, <1>10 DEF DataInv
    <3>2. CASE c # s
      <4>1. /\ NoneIn(clientEvents'[c], Uploads) /\ NoneIn(toServer'[c], DataMessages)
            /\ NoneIn(events, ChangesOf(c))
        BY <3>2, <1>7, <1>12 DEF Silent
      <4>2. NoneIn(events', ChangesOf(c))
        <5>1. NoneIn(q, ChangesOf(c))
          BY <4>1, <1>2, <1>3, Removed
        <5> QED BY <5>1, <1>14 DEF SameChanges
      <4> QED BY <4>1, <4>2 DEF DataInv, Leads, NoneIn
    <3> QED BY <3>1, <3>2
  <2>7. CleanInv(c)'
    <3>1. CASE sends /\ c = activeScreen
      <4>1. PICK x \in SendingsOf(c, content[Home]) : x \in ServerEvent /\ events' = Append(q, x)
        <5>1. Delivers(c, content[Home], q) /\ c \in Screen /\ c # Home
          BY <3>1, <1>10, <1>13
        <5> QED BY <5>1, <1>3, <1>13, DeliversAdds
      <4>2. LastIn(events', SendingsTo(c), SendingsOf(c, content[Home]))
        BY <4>1, <1>3, Added
      <4>3. m_clipboardData' = content[Home]
        BY <3>1, <1>10 DEF Shares
      <4> QED BY <4>2, <4>3 DEF CleanInv, WillHave
    <3>2. CASE sends /\ c # activeScreen
      BY <3>2, <1>10, <1>13 DEF Shares, CleanInv
    <3>3. CASE ~sends
      BY <3>3, <1>10 DEF CleanInv
    <3> QED BY <3>1, <3>2, <3>3
  <2> QED BY <2>2, <2>4, <2>5, <2>6, <2>7 DEF ClientInv
<1> QED BY <1>12, <1>16, <1>17, <1>18, <1>19 DEF Focused

LEMMA ChangedFocused ==
  ASSUME Typed, GoneInv, Focused, handleClipboardChanged, UNCHANGED setting
  PROVE  Focused'
<1> USE DEF Typed
<1>1. PICK e : e = Head(events)
  OBVIOUS
<1>2. PICK q : q = Tail(events)
  OBVIOUS
<1>3. /\ events \in Seq(ServerEvent) /\ events # << >> /\ e \in ServerEvent /\ e.type = "changed"
      /\ e.screen \in connected \union {Home} /\ e.screen \in Client /\ e.seq \in Number
      /\ q \in Seq(ServerEvent)
  BY <1>1, <1>2, TypesUnderway, ServedOnly, ServerEventTypes DEF handleClipboardChanged, QueueTypes
<1>4. PICK s \in connected : s = e.screen /\ s # Home /\ s \in Client
  BY <1>3, HomeAssumption
<1>5. /\ e \notin Grabs /\ e \in ChangesOf(s)
      /\ \A c : e \notin GrabsOf(c) /\ e \notin SendingsTo(c)
  BY <1>3, <1>4, ServerKinds
<1>6. /\ \A c \in Client : content'[c] = content[c] /\ held'[c] = held[c]
      /\ UNCHANGED <<unnoticed, connected, seqNum, ownClipboard, sentClipboard, clientEvents, toServer>>
      /\ UNCHANGED toClient
  BY ClientsKeepContent DEF handleClipboardChanged
<1>7. /\ connected \subseteq Client /\ Home \notin connected /\ Home \in Screen
      /\ activeScreen \in Screen /\ activeScreen \in connected \union {Home}
  BY TypesUnderway, HomeAssumption DEF ClipboardTypeOK
<1>8. PICK v \in Data : v = proxyClip[s]
  BY <1>4 DEF ClipboardTypeOK
<1> DEFINE old == IsOld(s, e.seq) \/ v = m_clipboardData
<1>9. old => DeliversNothing(q) /\ UNCHANGED clipVars
  BY <1>1, <1>2, <1>4, <1>8 DEF handleClipboardChanged
<1>10. ~old => /\ Shares(s, v, activeScreen)
               /\ IF activeScreen = s THEN DeliversNothing(q) ELSE Delivers(activeScreen, v, q)
               /\ UNCHANGED <<m_clipboardOwner, m_clipboardSeqNum>>
  BY <1>1, <1>2, <1>4, <1>8 DEF handleClipboardChanged
<1> HIDE DEF old
<1>11. /\ \A c : SameGrabs(events, events', c) /\ SameChanges(events, events', c)
       /\ \A c : old \/ c # activeScreen => SameSendings(events, events', c)
       /\ \A Z : NoneIn(events, Z) /\ Z \subseteq Grabs => NoneIn(events', Z)
       /\ \A Z : OneIn(events, Z) /\ Z \subseteq Grabs => OneIn(events', Z)
  <2>1. old => events' = q
    BY <1>9 DEF DeliversNothing
  <2>2. Delivers(activeScreen, v, q) \/ DeliversNothing(q)
    BY <1>9, <1>10
  <2>3. ASSUME NEW c
        PROVE  /\ SameGrabs(q, events', c) /\ SameChanges(q, events', c)
               /\ old \/ c # activeScreen => SameSendings(q, events', c)
    BY <2>1, <2>2, <1>3, <1>7, DeliversSame, SameAfterBoth
  <2>4. ASSUME NEW c
        PROVE  SameGrabs(events, q, c) /\ SameChanges(events, q, c) /\ SameSendings(events, q, c)
    BY <1>1, <1>2, <1>3, <1>5, TailSame
  <2>5. ASSUME NEW c
        PROVE  /\ SameGrabs(events, events', c) /\ SameChanges(events, events', c)
               /\ old \/ c # activeScreen => SameSendings(events, events', c)
    BY <2>3, <2>4, SameAfterBoth
  <2>6. ASSUME NEW Z, Z \subseteq Grabs
        PROVE  /\ NoneIn(events, Z) => NoneIn(events', Z)
               /\ OneIn(events, Z) => OneIn(events', Z)
    <3>1. e \notin Z
      BY <1>5, <2>6
    <3>2. /\ NoneIn(events, Z) => NoneIn(q, Z)
          /\ OneIn(events, Z) => OneIn(q, Z)
      BY <3>1, <1>1, <1>2, <1>3, Removed
    <3> QED BY <3>2, <2>2, <2>6, <1>3, <1>7, DeliversSame
  <2> QED BY <2>5, <2>6
<1>12. /\ StageInv /\ HomeInv /\ \A c \in connected : ClientInv(c)
       /\ UNCHANGED <<m_clipboardOwner, m_clipboardSeqNum>>
  BY <1>9, <1>10 DEF Focused, clipVars
<1>13. ASSUME NEW c \in connected
       PROVE  LeavesAlone(c) /\ TakesKept(c) /\ EntersKept(c)
  BY <1>6, <1>7, StreamSame DEF LeavesAlone
<1>14. StageInv'
  <2>1. StageKept
    BY <1>6, <1>11 DEF StageKept, SameGrabs
  <2>2. \A c \in connected : LeavesAlone(c) /\ SameChanges(events, events', c)
    BY <1>11, <1>13
  <2> QED BY <2>1, <2>2, <1>6, <1>7, <1>12, StageFrame
<1>15. ~old => m_clipboardOwner = s
  <2>1. m_clipboardOwner # s => Leads(events, GrabsOf(s), ChangesOf(s))
    BY <1>12 DEF ClientInv, DataInv
  <2> QED BY <2>1, <1>1, <1>3, <1>5, Removed
<1>16. HomeInv'
  <2>1. HomeHasCopied' <=> HomeHasCopied
    BY <1>6, <1>11 DEF HomeHasCopied, SameGrabs
  <2>2. CASE ~old /\ activeScreen = Home
    <3>1. Delivers(Home, v, q) /\ m_clipboardData' = v
      BY <2>2, <1>4, <1>10 DEF Shares
    <3>2. content'[Home] = v /\ held'[Home]
      BY <3>1, <1>7 DEF Delivers, ClipboardTypeOK
    <3> QED BY <3>1, <3>2 DEF HomeInv
  <2>3. CASE ~old /\ activeScreen # Home
    <3>1. content' = content /\ held' = held
      BY <2>3, <1>10 DEF Delivers, DeliversNothing, screenVars
    <3>2. Home \in dirty'
      BY <2>3, <1>4, <1>10 DEF Shares
    <3> QED BY <3>1, <3>2, <2>1, <1>12 DEF HomeInv
  <2>4. CASE old
    BY <2>4, <2>1, <1>9, <1>12 DEF HomeInv, DeliversNothing, screenVars, clipVars
  <2> QED BY <2>2, <2>3, <2>4
<1>17. ASSUME NEW c \in connected
       PROVE  ClientInv(c)'
  <2>1. c \in Client /\ ClientInv(c) /\ LeavesAlone(c) /\ TakesKept(c) /\ EntersKept(c)
    BY <1>7, <1>12, <1>13
  <2>2. CASE old
    BY <2>1, <2>2, <1>9, <1>11, ClientFrame DEF clipVars
  <2>3. CASE ~old
    <3>1. NumbersInv(c) /\ OwnInv(c) /\ HeldInv(c) /\ DataInv(c) /\ CleanInv(c)
      BY <2>1 DEF ClientInv
    <3>2. NumbersInv(c)' /\ DataInv(c)'
      BY <2>1, <3>1, <1>11, <1>12, NumbersFrame, DataFrame
    <3>3. OwnInv(c)' /\ HeldInv(c)'
      <4>1. ~NoneIn(toClient[c], TakeMessages) => ~NoneIn(toClient'[c], TakeMessages)
        BY <2>1 DEF TakesKept
      <4> QED BY <4>1, <2>1, <3>1, <1>11, <1>12, OwnHeldFrame
    <3>4. CleanInv(c)'
      <4>1. CASE c = activeScreen /\ c # s
        <5>1. PICK x \in SendingsOf(c, v) : x \in ServerEvent /\ events' = Append(q, x)
          <6>1. Delivers(c, v, q) /\ c \in Screen /\ c # Home
            BY <4>1, <2>3, <1>7, <1>10
          <6> QED BY <6>1, <1>3, DeliversAdds
        <5>2. LastIn(events', SendingsTo(c), SendingsOf(c, v))
          BY <5>1, <1>3, Added
        <5>3. m_clipboardData' = v
          BY <2>3, <1>10 DEF Shares
        <5> QED BY <5>2, <5>3 DEF CleanInv, WillHave
      <4>2. CASE c # activeScreen /\ c # s
        BY <4>2, <2>3, <1>10 DEF CleanInv, Shares
      <4>3. CASE c = s
        BY <4>3, <2>3, <1>12, <1>15 DEF CleanInv
      <4> QED BY <4>1, <4>2, <4>3
    <3> QED BY <3>2, <3>3, <3>4 DEF ClientInv
  <2> QED BY <2>2, <2>3
<1>18. NoneIn(events', OldGrabs(m_clipboardSeqNum'))
  <2>1. OldGrabs(m_clipboardSeqNum) \subseteq Grabs
    BY DEF OldGrabs
  <2> QED BY <2>1, <1>11, <1>12 DEF Focused
<1> QED BY <1>6, <1>14, <1>16, <1>17, <1>18 DEF Focused

LEMMA SendFocused ==
  ASSUME Typed, GoneInv, Focused, SendClipboard \/ DispatchToNobody, UNCHANGED setting
  PROVE  Focused'
<1> USE DEF Typed
<1>1. PICK e : e = Head(events)
  OBVIOUS
<1>2. PICK q : q = Tail(events)
  OBVIOUS
<1>3. /\ events \in Seq(ServerEvent) /\ events # << >> /\ e \in ServerEvent
      /\ e.type \in {"sending", "gone"} /\ events' = q /\ q \in Seq(ServerEvent)
  BY <1>1, <1>2, TypesUnderway DEF SendClipboard, DispatchToNobody, DeliversNothing, QueueTypes
<1>4. /\ UNCHANGED <<content, held, unnoticed, connected, m_clipboardOwner, m_clipboardSeqNum,
                     m_clipboardData, dirty, seqNum, ownClipboard, sentClipboard, clientEvents,
                     toServer>>
      /\ e.type = "sending" \/ toClient' = toClient
  BY <1>1 DEF SendClipboard, DispatchToNobody, DeliversNothing, screenVars, copyVars, peerVars,
              clipVars, ownerVars
<1>5. /\ e \notin Grabs
      /\ \A c : e \notin GrabsOf(c) /\ (e \in SendingsTo(c) <=> e.type = "sending" /\ e.screen = c)
  BY <1>3, ServerKinds
<1>6. /\ \A c : SameGrabs(events, q, c) /\ SameChanges(events, q, c)
      /\ \A c : e \notin SendingsTo(c) => SameSendings(events, q, c)
      /\ \A Z : NoneIn(events, Z) => NoneIn(q, Z)
      /\ OneIn(events, Grabs) => OneIn(q, Grabs)
  <2>1. /\ \A Z : NoneIn(events, Z) => NoneIn(q, Z)
        /\ OneIn(events, Grabs) => OneIn(q, Grabs)
    BY <1>1, <1>2, <1>3, <1>5, Removed
  <2>2. ASSUME NEW c
        PROVE  /\ SameGrabs(events, q, c) /\ SameChanges(events, q, c)
               /\ e \notin SendingsTo(c) => SameSendings(events, q, c)
    BY <1>1, <1>2, <1>3, <1>5, TailSame
  <2> QED BY <2>1, <2>2
<1>7. StageInv /\ HomeInv /\ connected \subseteq Client /\ \A c \in connected : ClientInv(c)
  BY DEF Focused, ClipboardTypeOK
<1>8. \A c \in connected : LeavesAlone(c)
  BY <1>4 DEF LeavesAlone
<1>9. StageInv'
  <2>1. StageKept
    BY <1>3, <1>4, <1>6 DEF StageKept, SameGrabs
  <2> QED BY <2>1, <1>3, <1>4, <1>6, <1>7, <1>8, HomeAssumption, StageFrame
<1>10. HomeInv'
  BY <1>3, <1>4, <1>6, <1>7 DEF HomeInv, HomeHasCopied, SameGrabs
<1>11. ASSUME NEW c \in connected
       PROVE  ClientInv(c)'
  <2>1. /\ c \in Client /\ ClientInv(c) /\ LeavesAlone(c) /\ toClient[c] \in Seq(ToClient)
        /\ SameGrabs(events, events', c) /\ SameChanges(events, events', c)
    BY <1>3, <1>6, <1>7, <1>8 DEF QueueTypes
  <2>2. CASE e \notin SendingsTo(c)
    <3>1. toClient'[c] = toClient[c]
      BY <2>1, <2>2, <1>1, <1>3, <1>4, <1>5 DEF SendClipboard, DispatchToNobody, QueueTypes
    <3>2. TakesKept(c) /\ EntersKept(c)
      BY <2>1, <3>1, StreamSame
    <3> QED BY <2>1, <2>2, <3>2, <1>3, <1>4, <1>6, ClientFrame
  <2>3. CASE e \in SendingsTo(c)
    <3>1. PICK v \in Data : v = e.data
      BY <2>3, <1>3, <1>5, ServerEventTypes
    <3>2. PICK m \in ToClient : m = Put(0, v) /\ m.type = "data" /\ m.data = v
      BY NewToClient
    <3>3. /\ m \in TakeMessages /\ m \in TakesOf(v)
          /\ m \notin EarlierEnters(m_clipboardSeqNum)
      BY <3>2, ToClientKinds
    <3>4. e.screen = c /\ e.type = "sending" /\ SendClipboard
      BY <2>3, <1>1, <1>5 DEF DispatchToNobody
    <3>5. toClient'[c] = Append(toClient[c], m)
      BY <2>1, <3>1, <3>2, <3>4, <1>1 DEF SendClipboard, QueueTypes
    <3>6. /\ LastIn(toClient'[c], TakeMessages, TakesOf(v)) /\ ~NoneIn(toClient'[c], TakeMessages)
          /\ \A Z : NoneIn(toClient[c], Z) /\ m \notin Z => NoneIn(toClient'[c], Z)
      BY <2>1, <3>3, <3>5, Added
    <3>7. EntersKept(c)
      BY <3>3, <3>6 DEF EntersKept
    <3>8. NumbersInv(c) /\ OwnInv(c) /\ HeldInv(c) /\ DataInv(c) /\ CleanInv(c)
      BY <2>1 DEF ClientInv
    <3>9. NumbersInv(c)' /\ DataInv(c)' /\ OwnInv(c)' /\ HeldInv(c)'
      BY <2>1, <3>6, <3>7, <3>8, <1>4, NumbersFrame, DataFrame, OwnHeldFrame
    <3>10. ~NoneIn(events, SendingsTo(c))
      BY <2>3, <1>1, <1>3, Removed
    <3>11. ASSUME NEW w, WillHave(c, w)
           PROVE  WillHave(c, w)'
      <4>1. LastIn(events, SendingsTo(c), SendingsOf(c, w))
        BY <3>10, <3>11 DEF WillHave
      <4>2. \/ LastIn(q, SendingsTo(c), SendingsOf(c, w))
            \/ e \in SendingsOf(c, w) /\ NoneIn(q, SendingsTo(c))
        BY <4>1, <1>1, <1>2, <1>3, Removed
      <4>3. e \in SendingsOf(c, w) => w = v
        BY <3>1, <1>3, ServerKinds
      <4> QED BY <4>2, <4>3, <3>6, <1>3 DEF WillHave
    <3>12. CleanInv(c)'
      <4>1. (HasCopied(c)' <=> HasCopied(c)) /\ (HasTold(c)' <=> HasTold(c))
        BY <2>1, <1>4 DEF HasCopied, HasTold, SameGrabs
      <4> QED BY <4>1, <3>8, <3>11, <1>4 DEF CleanInv
    <3> QED BY <3>9, <3>12 DEF ClientInv
  <2> QED BY <2>2, <2>3
<1>12. NoneIn(events', OldGrabs(m_clipboardSeqNum'))
  BY <1>3, <1>4, <1>6 DEF Focused
<1> QED BY <1>4, <1>9, <1>10, <1>11, <1>12 DEF Focused

LEMMA ServerReceivesFocused ==
  ASSUME Typed, GoneInv, Focused, NEW d \in Client, ServerReceives(d), UNCHANGED setting
  PROVE  Focused'
<1> USE DEF Typed
<1>1. PICK m : m = Head(toServer[d])
  OBVIOUS
<1>2. PICK q : q = Tail(toServer[d])
  OBVIOUS
<1>3. /\ toServer[d] \in Seq(ToServer) /\ toServer[d] # << >> /\ m \in ToServer
      /\ toServer'[d] = q /\ \A c \in Client \ {d} : toServer'[c] = toServer[c]
      /\ events \in Seq(ServerEvent)
  BY <1>1, <1>2, TypesUnderway DEF ServerReceives, QueueTypes
<1>4. UNCHANGED <<content, held, unnoticed, connected, m_clipboardOwner, m_clipboardSeqNum,
                  m_clipboardData, dirty, seqNum, ownClipboard, sentClipboard, clientEvents,
                  toClient>>
  BY DEF ServerReceives, screenVars, copyVars, peerVars, clipVars, ownerVars
<1>5. /\ StageInv /\ HomeInv /\ connected \subseteq Client /\ \A c \in connected : ClientInv(c)
      /\ d \in connected /\ d # Home /\ d \in Screen
  BY <1>3, ServedOnly, HomeAssumption DEF Focused, ClipboardTypeOK, Screen
<1>6. NumbersInv(d) /\ OwnInv(d) /\ HeldInv(d) /\ DataInv(d) /\ CleanInv(d)
  BY <1>5 DEF ClientInv
<1>7. \A c \in connected \ {d} : LeavesAlone(c)
  BY <1>3, <1>4, <1>5 DEF LeavesAlone
<1>8. /\ \A Z : NoneIn(toServer[d], Z) => NoneIn(q, Z) /\ m \notin Z
      /\ \A Z : m \notin Z /\ NoneIn(q, Z) => NoneIn(toServer[d], Z)
      /\ \A Z : OneIn(toServer[d], Z) => IF m \in Z THEN NoneIn(q, Z) ELSE OneIn(q, Z)
      /\ \A Z, Y : Leads(toServer[d], Y, Z) => m \notin Z
  BY <1>1, <1>2, <1>3, Removed
<1>9. ASSUME NEW e \in ServerEvent, events' = Append(events, e), e.screen = d,
             e.type \in {"grabbed", "changed"}
      PROVE  /\ \A c : c # d => /\ SameGrabs(events, events', c) /\ SameChanges(events, events', c)
                                /\ e \notin GrabsOf(c)
             /\ \A c : SameSendings(events, events', c)
             /\ \A c \in connected \ {d} : ClientInv(c)'
             /\ HomeInv'
  <2>1. \A c : (c # d => e \notin GrabsOf(c) /\ e \notin ChangesOf(c)) /\ e \notin SendingsTo(c)
    BY <1>9, ServerKinds
  <2>2. /\ \A c : c # d => SameGrabs(events, events', c) /\ SameChanges(events, events', c)
        /\ \A c : SameSendings(events, events', c)
    BY <2>1, <1>3, <1>9, AppendSame
  <2>3. ASSUME NEW c \in connected \ {d}
        PROVE  ClientInv(c)'
    <3>1. c \in Client /\ TakesKept(c) /\ EntersKept(c) /\ LeavesAlone(c) /\ ClientInv(c)
      BY <1>4, <1>5, <1>7, StreamSame
    <3> QED BY <3>1, <2>2, <1>4, ClientFrame
  <2>4. HomeInv'
    BY <2>2, <1>4, <1>5 DEF HomeInv, HomeHasCopied, SameGrabs
  <2> QED BY <2>1, <2>2, <2>3, <2>4
<1>10. CASE m.type = "grab"
  <2>1. m \in GrabMessages /\ m.seq \in Number /\ ~(m.seq < m_clipboardSeqNum)
    <3>1. m \notin OldMessages(m_clipboardSeqNum)
      BY <1>6, <1>8 DEF NumbersInv
    <3> QED BY <3>1, <1>3, <1>10, ToServerKinds
  <2>2. PICK e \in ServerEvent : /\ e = Grabbed(d, m.seq) /\ e.type = "grabbed" /\ e.screen = d
                                 /\ e.seq = m.seq
    BY <2>1, <1>5, NewServerEvent
  <2>3. events' = Append(events, e)
    BY <2>2, <1>1, <1>10 DEF ServerReceives
  <2>4. /\ e \in Grabs /\ e \in GrabsOf(d) /\ e \notin OldGrabs(m_clipboardSeqNum)
        /\ e \notin ChangesOf(d)
    BY <2>1, <2>2, ServerKinds
  <2>5. /\ \A c \in connected \ {d} : ClientInv(c)' /\ SameChanges(events, events', c)
        /\ HomeInv'
    BY <2>2, <2>3, <1>9
  <2>6. Told(d) /\ \A c \in connected \ {d} : Silent(c)
    <3>1. ~NoneIn(toServer[d], GrabMessages)
      BY <2>1, <1>8
    <3>2. Told(d)
      BY <3>1, <1>5, StageFacts
    <3> QED BY <3>2, <1>5, StageFacts DEF GrabOf
  <2>7. /\ NoneIn(events', OldGrabs(m_clipboardSeqNum)) /\ OneIn(events', Grabs)
        /\ ~NoneIn(events', GrabsOf(d))
        /\ Leads(events, GrabsOf(d), ChangesOf(d)) => Leads(events', GrabsOf(d), ChangesOf(d))
    <3>1. NoneIn(events, Grabs) /\ NoneIn(events, OldGrabs(m_clipboardSeqNum))
      BY <2>6 DEF Told, Focused
    <3> QED BY <3>1, <2>3, <2>4, <1>3, Added
  <2>8. StageInv'
    <3>1. NoMessages'
      <4>1. NoneIn(q, GrabMessages)
        BY <2>1, <2>6, <1>8 DEF Told
      <4> QED BY <4>1, <2>6, <1>3 DEF Told, NoMessages
    <3>2. Posted(d)'
      BY <3>1, <2>6, <2>7, <1>4 DEF Posted, Told, NoReports
    <3>3. \A c \in connected \ {d} : Silent(c)'
      BY <2>5, <2>6, <1>7, SilentFrame
    <3> QED BY <3>2, <3>3, <1>4, <1>5 DEF StageInv, GrabOf
  <2>9. ClientInv(d)'
    <3>1. HasTold(d)'
      BY <2>7 DEF HasTold
    <3>2. NumbersInv(d)'
      BY <1>3, <1>4, <1>6, <1>8 DEF NumbersInv, HasCopied, Recent
    <3>3. DataInv(d)'
      BY <3>1, <2>7, <1>4, <1>6 DEF DataInv
    <3> QED BY <3>1, <3>2, <3>3 DEF ClientInv, OwnInv, HeldInv, CleanInv
  <2> QED BY <2>5, <2>7, <2>8, <2>9, <1>4 DEF Focused
<1>11. CASE m.type # "grab"
  <2>1. m \in DataMessages /\ m \notin GrabMessages /\ m.seq \in Number
    BY <1>3, <1>11, ToServerKinds
  <2>2. PICK e \in ServerEvent : /\ e = Changed(d, m.seq) /\ e.type = "changed" /\ e.screen = d
    BY <2>1, <1>5, NewServerEvent
  <2>3. events' = Append(events, e)
    BY <2>2, <1>1, <1>11 DEF ServerReceives
  <2>4. e \notin Grabs /\ \A c : e \notin GrabsOf(c) /\ e \notin OldGrabs(m_clipboardSeqNum)
    BY <2>2, ServerKinds
  <2>5. /\ \A c \in connected \ {d} : ClientInv(c)' /\ SameChanges(events, events', c)
        /\ HomeInv' /\ SameSendings(events, events', d)
    BY <2>2, <2>3, <1>9
  <2>6. /\ \A c : SameGrabs(events, events', c)
        /\ NoneIn(events, Grabs) => NoneIn(events', Grabs)
        /\ OneIn(events, Grabs) => OneIn(events', Grabs)
        /\ NoneIn(events', OldGrabs(m_clipboardSeqNum))
    BY <2>3, <2>4, <1>3, AppendSame, Added DEF Focused
  <2>7. StageInv'
    <3>1. StageKept
      BY <2>1, <2>6, <1>3, <1>4, <1>8 DEF StageKept, SameGrabs
    <3>2. ~Silent(d)
      BY <2>1, <1>8 DEF Silent
    <3> QED BY <3>1, <3>2, <2>5, <1>4, <1>5, <1>7, StageFrame
  <2>8. HasTold(d)' <=> HasTold(d)
    BY <2>1, <2>6, <1>3, <1>8 DEF HasTold, SameGrabs
  <2>9. HasCopied(d)' <=> HasCopied(d)
    BY <1>4 DEF HasCopied
  <2>10. NumbersInv(d)'
    BY <2>9, <1>3, <1>4, <1>6, <1>8 DEF NumbersInv, Recent
  <2>11. OwnInv(d)' /\ HeldInv(d)'
    BY <2>8, <2>9, <1>4, <1>6 DEF OwnInv, HeldInv
  <2>12. DataInv(d)'
    <3> SUFFICES ASSUME m_clipboardOwner # d
                 PROVE  /\ HasTold(d)' /\ ~NoneIn(events', GrabsOf(d))
                        /\ Leads(events', GrabsOf(d), ChangesOf(d))
      BY <1>4 DEF DataInv
    <3>1. ~NoneIn(events, GrabsOf(d))
      BY <2>1, <1>6, <1>8 DEF DataInv
    <3>2. ~NoneIn(events', GrabsOf(d))
      BY <3>1, <2>6 DEF SameGrabs
    <3>3. Leads(events', GrabsOf(d), ChangesOf(d))
      <4>1. Leads(events, GrabsOf(d), ChangesOf(d))
        BY <1>6 DEF DataInv
      <4> QED BY <4>1, <3>1, <2>3, <1>3, Added
    <3> QED BY <3>2, <3>3 DEF HasTold
  <2>13. CleanInv(d)'
    BY <2>5, <2>8, <2>9, <1>4, <1>6 DEF CleanInv, WillHave, SameSendings
  <2>14. ClientInv(d)'
    BY <2>10, <2>11, <2>12, <2>13 DEF ClientInv
  <2> QED BY <2>5, <2>6, <2>7, <2>14, <1>4 DEF Focused
<1> QED BY <1>10, <1>11

\* A client's own events.
LEMMA ClientGrabsFocused ==
  ASSUME Typed, GoneInv, Focused, NEW d \in Client, ClientGrabs(d), UNCHANGED setting
  PROVE  Focused'
<1> USE DEF Typed
<1>1. PICK q : q = Tail(clientEvents[d])
  OBVIOUS
<1>2. /\ clientEvents[d] \in Seq(ClientEvent) /\ clientEvents[d] # << >> /\ q \in Seq(ClientEvent)
      /\ Head(clientEvents[d]) \in Reports
  BY <1>1, TypesUnderway, ClientKinds DEF ClientGrabs, QueueTypes
<1>3. /\ UNCHANGED <<content, held, unnoticed, connected, m_clipboardOwner, m_clipboardSeqNum,
                     m_clipboardData, dirty, seqNum, events, toClient>>
      /\ ownClipboard' = ownClipboard \union {d}
      /\ \A c \in Client \ {d} : /\ clientEvents'[c] = clientEvents[c]
                                 /\ sentClipboard'[c] = sentClipboard[c]
                                 /\ toServer'[c] = toServer[c]
  BY DEF ClientGrabs, sendClipboard, screenVars, copyVars, peerVars, clipVars, QueueTypes,
         ClipboardTypeOK
<1>4. /\ StageInv /\ HomeInv /\ connected \subseteq Client /\ \A c \in connected : ClientInv(c)
      /\ d \in connected /\ d # Home
  BY <1>2, ServedOnly, HomeAssumption DEF Focused, ClipboardTypeOK
<1>5. NumbersInv(d) /\ DataInv(d)
  BY <1>4 DEF ClientInv
<1>6. ~NoneIn(clientEvents[d], Reports)
  BY <1>2, Removed
<1>7. Reported(d) /\ \A c \in connected \ {d} : Silent(c)
  <2>1. Reported(d)
    BY <1>4, <1>6, StageFacts
  <2> QED BY <2>1, <1>4, StageFacts DEF GrabOf
<1>8. NoneIn(clientEvents'[d], Reports)
  <2>1. NoneIn(q, Reports)
    BY <1>1, <1>2, <1>7, Removed DEF Reported
  <2>2. CASE clientEvents'[d] = q
    BY <2>1, <2>2
  <2>3. CASE clientEvents'[d] # q
    <3>1. PICK e \in ClientEvent : e = Sending(d, seqNum[d], content[d]) /\ e \notin Reports
      BY TypesUnderway, ClientKinds
    <3>2. clientEvents'[d] = Append(q, e)
      BY <2>3, <3>1, <1>1 DEF ClientGrabs, sendClipboard, QueueTypes
    <3> QED BY <2>1, <3>1, <3>2, <1>2, Added
  <2> QED BY <2>2, <2>3
<1>9. Recent(d) /\ HasCopied(d)
  BY <1>5, <1>6 DEF NumbersInv, HasCopied
<1>10. PICK m \in ToServer : /\ m = Grab(seqNum[d]) /\ m \in GrabMessages /\ m \notin DataMessages
                             /\ m \notin OldMessages(m_clipboardSeqNum)
  <2>1. PICK m \in ToServer : m = Grab(seqNum[d]) /\ m.type = "grab" /\ m.seq = seqNum[d]
    BY TypesUnderway, ToServerKinds
  <2>2. m_clipboardSeqNum <= seqNum[d] /\ m_clipboardSeqNum \in Nat /\ seqNum[d] \in Nat
    BY <1>9, CopyAssumption DEF Recent, ClipboardTypeOK
  <2> QED BY <2>1, <2>2, ToServerKinds
<1>11. /\ toServer[d] \in Seq(ToServer) /\ toServer'[d] = Append(toServer[d], m)
  BY <1>10 DEF ClientGrabs, QueueTypes
<1>12. /\ OneIn(toServer'[d], GrabMessages) /\ ~NoneIn(toServer'[d], GrabMessages)
       /\ NoneIn(toServer'[d], OldMessages(m_clipboardSeqNum))
       /\ Leads(toServer[d], GrabMessages, DataMessages)
            => Leads(toServer'[d], GrabMessages, DataMessages)
  <2>1. NoneIn(toServer[d], GrabMessages) /\ NoneIn(toServer[d], OldMessages(m_clipboardSeqNum))
    BY <1>5, <1>7 DEF Reported, NoMessages, NumbersInv
  <2> QED BY <2>1, <1>10, <1>11, Added
<1>13. ASSUME NEW c \in connected, c # d
       PROVE  LeavesAlone(c) /\ ClientInv(c)' /\ Silent(c)'
  <2>1. c \in Client
    BY <1>4
  <2>2. LeavesAlone(c)
    BY <2>1, <1>3, <1>13 DEF LeavesAlone
  <2>3. TakesKept(c) /\ EntersKept(c)
    BY <2>1, <1>3, StreamSame
  <2> QED BY <2>1, <2>2, <2>3, <1>3, <1>4, <1>7, <1>13, ClientFrame, SilentFrame, SameAfterBoth
<1>14. StageInv'
  <2>1. NoReports'
    BY <1>3, <1>7, <1>8 DEF Reported, NoReports
  <2>2. Told(d)'
    BY <2>1, <1>3, <1>7, <1>12 DEF Told, Reported, NoMessages
  <2> QED BY <2>2, <1>3, <1>4, <1>13 DEF StageInv, GrabOf
<1>15. HomeInv'
  BY <1>3, <1>4 DEF HomeInv, HomeHasCopied
<1>16. ClientInv(d)'
  <2>1. HasTold(d)'
    BY <1>12 DEF HasTold
  <2>2. ~HasCopied(d)'
    BY <1>3, <1>7, <1>8 DEF HasCopied, Reported
  <2>3. NumbersInv(d)'
    BY <2>2, <1>3, <1>9, <1>12 DEF NumbersInv, Recent
  <2>4. DataInv(d)'
    BY <2>1, <1>3, <1>5, <1>12 DEF DataInv
  <2> QED BY <2>1, <2>3, <2>4 DEF ClientInv, OwnInv, HeldInv, CleanInv
<1> QED BY <1>3, <1>4, <1>13, <1>14, <1>15, <1>16 DEF Focused

LEMMA ClientSendsFocused ==
  ASSUME Typed, GoneInv, Focused, NEW d \in Client, ClientSends(d), UNCHANGED setting
  PROVE  Focused'
<1> USE DEF Typed
<1>1. PICK e : e = Head(clientEvents[d])
  OBVIOUS
<1>2. PICK q : q = Tail(clientEvents[d])
  OBVIOUS
<1>3. /\ clientEvents[d] \in Seq(ClientEvent) /\ clientEvents[d] # << >> /\ q \in Seq(ClientEvent)
      /\ e \in ClientEvent /\ e \in Uploads /\ e \notin Reports
      /\ e.seq \in Number /\ e.data \in Data
  BY <1>1, <1>2, TypesUnderway, ClientKinds DEF ClientSends, QueueTypes
<1>4. /\ UNCHANGED <<content, held, unnoticed, connected, m_clipboardOwner, m_clipboardSeqNum,
                     m_clipboardData, dirty, seqNum, events, toClient, ownClipboard, sentClipboard>>
      /\ clientEvents'[d] = q
      /\ \A c \in Client \ {d} : clientEvents'[c] = clientEvents[c] /\ toServer'[c] = toServer[c]
  BY <1>2 DEF ClientSends, screenVars, copyVars, peerVars, clipVars, ownerVars, QueueTypes
<1>5. /\ StageInv /\ HomeInv /\ connected \subseteq Client /\ \A c \in connected : ClientInv(c)
      /\ d \in connected /\ d # Home
  BY <1>3, ServedOnly, HomeAssumption DEF Focused, ClipboardTypeOK
<1>6. NumbersInv(d) /\ OwnInv(d) /\ HeldInv(d) /\ DataInv(d) /\ CleanInv(d)
  BY <1>5 DEF ClientInv
<1>7. PICK m \in ToServer : /\ m = Put(e.seq, e.data) /\ m \in DataMessages
                            /\ m \notin GrabMessages /\ m \notin OldMessages(m_clipboardSeqNum)
  BY <1>3, ToServerKinds
<1>8. toServer[d] \in Seq(ToServer) /\ toServer'[d] = Append(toServer[d], m)
  BY <1>1, <1>7 DEF ClientSends, QueueTypes
<1>9. /\ NoneIn(clientEvents[d], Reports) <=> NoneIn(q, Reports)
      /\ OneIn(clientEvents[d], Reports) => OneIn(q, Reports)
      /\ ~NoneIn(clientEvents[d], Uploads)
  BY <1>1, <1>2, <1>3, Removed
<1>10. /\ NoneIn(toServer[d], GrabMessages) <=> NoneIn(toServer'[d], GrabMessages)
       /\ OneIn(toServer[d], GrabMessages) => OneIn(toServer'[d], GrabMessages)
       /\ NoneIn(toServer[d], OldMessages(m_clipboardSeqNum))
            => NoneIn(toServer'[d], OldMessages(m_clipboardSeqNum))
       /\ Leads(toServer[d], GrabMessages, DataMessages) /\ ~NoneIn(toServer[d], GrabMessages)
            => Leads(toServer'[d], GrabMessages, DataMessages)
  BY <1>7, <1>8, Added
<1>11. ASSUME NEW c \in connected, c # d
       PROVE  LeavesAlone(c) /\ ClientInv(c)'
  <2>1. c \in Client
    BY <1>5
  <2>2. LeavesAlone(c)
    BY <2>1, <1>4, <1>11 DEF LeavesAlone
  <2>3. TakesKept(c) /\ EntersKept(c)
    BY <2>1, <1>4, StreamSame
  <2> QED BY <2>1, <2>2, <2>3, <1>4, <1>5, <1>11, ClientFrame, SameAfterBoth
<1>12. StageInv'
  <2>1. StageKept
    BY <1>4, <1>9, <1>10 DEF StageKept
  <2>2. ~Silent(d)
    BY <1>9 DEF Silent
  <2> QED BY <2>1, <2>2, <1>4, <1>5, <1>11, StageFrame, SameAfterBoth
<1>13. HomeInv'
  BY <1>4, <1>5 DEF HomeInv, HomeHasCopied
<1>14. ClientInv(d)'
  <2>1. (HasTold(d)' <=> HasTold(d)) /\ (HasCopied(d)' <=> HasCopied(d))
    BY <1>4, <1>9, <1>10 DEF HasTold, HasCopied
  <2>2. NumbersInv(d)'
    BY <2>1, <1>4, <1>6, <1>10 DEF NumbersInv, Recent
  <2>3. OwnInv(d)' /\ HeldInv(d)' /\ CleanInv(d)'
    BY <2>1, <1>4, <1>6 DEF OwnInv, HeldInv, CleanInv, WillHave
  <2>4. DataInv(d)'
    <3>1. m_clipboardOwner # d => HasTold(d)
      BY <1>6, <1>9 DEF DataInv
    <3> QED BY <3>1, <2>1, <1>4, <1>6, <1>10 DEF DataInv, HasTold
  <2> QED BY <2>2, <2>3, <2>4 DEF ClientInv
<1> QED BY <1>4, <1>5, <1>11, <1>12, <1>13, <1>14 DEF Focused

LEMMA ReceivesFocused ==
  ASSUME Typed, GoneInv, Focused, NEW d \in Client, Receives(d), UNCHANGED setting
  PROVE  Focused'
<1> USE DEF Typed
<1>1. PICK m : m = Head(toClient[d])
  OBVIOUS
<1>2. PICK q : q = Tail(toClient[d])
  OBVIOUS
<1>3. /\ toClient[d] \in Seq(ToClient) /\ toClient[d] # << >> /\ m \in ToClient
      /\ toClient'[d] = q /\ \A c \in Client \ {d} : toClient'[c] = toClient[c]
  BY <1>1, <1>2, TypesUnderway DEF Receives, QueueTypes
<1>4. /\ UNCHANGED <<unnoticed, connected, m_clipboardOwner, m_clipboardSeqNum, m_clipboardData,
                     dirty, events, toServer>>
      /\ \A s \in Screen \ {d} : content'[s] = content[s] /\ held'[s] = held[s]
      /\ \A c \in Client \ {d} : /\ seqNum'[c] = seqNum[c] /\ sentClipboard'[c] = sentClipboard[c]
                                 /\ c \in ownClipboard' <=> c \in ownClipboard
                                 /\ clientEvents'[c] = clientEvents[c]
  BY DEF Receives, copyVars, peerVars, clipVars, ClientEnters, ClientLeaves, ClientTakes,
         sendClipboard, screenVars, QueueTypes, ClipboardTypeOK
<1>5. /\ StageInv /\ HomeInv /\ connected \subseteq Client /\ \A c \in connected : ClientInv(c)
      /\ d \in connected /\ d # Home /\ Home \in Screen /\ Client \subseteq Screen
  BY <1>3, ServedOnly, HomeAssumption DEF Focused, ClipboardTypeOK, Screen
<1>6. NumbersInv(d) /\ OwnInv(d) /\ HeldInv(d) /\ DataInv(d) /\ CleanInv(d)
  BY <1>5 DEF ClientInv
<1>7. /\ \A Z : NoneIn(toClient[d], Z) => NoneIn(q, Z) /\ m \notin Z
      /\ \A Z : m \notin Z /\ NoneIn(q, Z) => NoneIn(toClient[d], Z)
      /\ \A Z, Y : LastIn(toClient[d], Z, Y) => LastIn(q, Z, Y) \/ (m \in Y /\ NoneIn(q, Z))
  BY <1>1, <1>2, <1>3, Removed
<1>8. ASSUME NEW c \in connected, c # d
      PROVE  LeavesAlone(c) /\ ClientInv(c)'
  <2>1. c \in Client /\ c \in Screen
    BY <1>5
  <2>2. LeavesAlone(c)
    BY <2>1, <1>4, <1>8 DEF LeavesAlone
  <2>3. TakesKept(c) /\ EntersKept(c)
    BY <2>1, <1>3, <1>8, StreamSame
  <2> QED BY <2>1, <2>2, <2>3, <1>4, <1>5, <1>8, ClientFrame, SameAfterBoth
<1>9. HomeInv'
  BY <1>4, <1>5 DEF HomeInv, HomeHasCopied
<1>10. HasTold(d)' <=> HasTold(d)
  BY <1>4 DEF HasTold
<1>11. SUFFICES /\ StageKept /\ (Silent(d) => Silent(d)') /\ ClientInv(d)'
  BY <1>4, <1>5, <1>8, <1>9, StageFrame, SameAfterBoth DEF Focused
<1>12. CASE m.type = "grab" \/ m.type = "data"
  <2>1. PICK v : ClientTakes(d, v) /\ m \in TakeMessages /\ \A w : m \in TakesOf(w) => w = v
    <3>1. CASE m.type = "grab"
      BY <3>1, <1>1, <1>3, ToClientKinds DEF Receives
    <3>2. CASE m.type = "data"
      BY <3>2, <1>1, <1>3, ToClientKinds DEF Receives
    <3> QED BY <3>1, <3>2, <1>12
  <2>2. /\ content'[d] = v /\ held'[d] /\ d \notin ownClipboard'
        /\ UNCHANGED <<seqNum, clientEvents>>
    BY <2>1, <1>5 DEF ClientTakes, ClipboardTypeOK
  <2>3. StageKept
    BY <2>2, <1>4 DEF StageKept
  <2>4. Silent(d) => Silent(d)'
    BY <2>2, <1>4 DEF Silent
  <2>5. HasCopied(d)' <=> HasCopied(d)
    BY <2>2, <1>4 DEF HasCopied
  <2>6. NumbersInv(d)'
    BY <2>2, <2>5, <1>3, <1>4, <1>6, <1>7 DEF NumbersInv, Recent
  <2>7. DataInv(d)'
    BY <2>2, <1>4, <1>6, <1>10 DEF DataInv
  <2>8. CleanInv(d)'
    <3>1. ASSUME NEW w, WillHave(d, w)
          PROVE  WillHave(d, w)'
      <4>1. CASE LastIn(events, SendingsTo(d), SendingsOf(d, w))
        BY <4>1, <1>4 DEF WillHave
      <4>2. CASE ~LastIn(events, SendingsTo(d), SendingsOf(d, w))
        <5>1. NoneIn(events, SendingsTo(d)) /\ LastIn(toClient[d], TakeMessages, TakesOf(w))
          BY <4>2, <3>1, <2>1, <1>7 DEF WillHave
        <5>2. LastIn(q, TakeMessages, TakesOf(w)) \/ (w = v /\ NoneIn(q, TakeMessages))
          BY <5>1, <2>1, <1>7
        <5> QED BY <5>1, <5>2, <2>2, <1>3, <1>4 DEF WillHave
      <4> QED BY <4>1, <4>2
    <3> QED BY <3>1, <2>5, <1>4, <1>6, <1>10 DEF CleanInv
  <2> QED BY <2>2, <2>3, <2>4, <2>6, <2>7, <2>8 DEF ClientInv, OwnInv, HeldInv
<1>13. ASSUME m \notin TakeMessages, content'[d] = content[d], held'[d] = held[d],
              d \in ownClipboard' <=> d \in ownClipboard,
              sentClipboard'[d] = sentClipboard[d] \/ sentClipboard'[d] = content[d],
              HasCopied(d)' <=> HasCopied(d)
       PROVE  OwnInv(d)' /\ HeldInv(d)' /\ CleanInv(d)'
  <2>1. NoneIn(toClient'[d], TakeMessages) <=> NoneIn(toClient[d], TakeMessages)
    BY <1>3, <1>7, <1>13
  <2>2. OwnInv(d)' /\ HeldInv(d)'
    BY <2>1, <1>4, <1>6, <1>10, <1>13 DEF OwnInv, HeldInv
  <2>3. ASSUME NEW w, LastIn(toClient[d], TakeMessages, TakesOf(w))
        PROVE  LastIn(toClient'[d], TakeMessages, TakesOf(w))
    <3>1. m \notin TakesOf(w)
      BY <1>3, <1>13, ToClientKinds
    <3> QED BY <3>1, <2>3, <1>3, <1>7
  <2>4. CleanInv(d)'
    BY <2>1, <2>3, <1>4, <1>6, <1>10, <1>13 DEF CleanInv, WillHave
  <2> QED BY <2>2, <2>4
<1>14. CASE m.type = "enter"
  <2>1. ClientEnters(d, m.seq) /\ m \notin TakeMessages /\ m.seq \in Number \ {0}
    BY <1>1, <1>3, <1>14, ToClientKinds DEF Receives
  <2>2. /\ content'[d] = content[d] /\ held'[d] = held[d] /\ seqNum'[d] = m.seq
        /\ UNCHANGED <<ownClipboard, sentClipboard, clientEvents>>
    BY <2>1 DEF ClientEnters, screenVars, ClipboardTypeOK
  <2>3. StageKept /\ (Silent(d) => Silent(d)')
    BY <2>2, <1>4 DEF StageKept, Silent
  <2>4. HasCopied(d)' <=> HasCopied(d)
    BY <2>2, <1>4 DEF HasCopied
  <2>5. NumbersInv(d)'
    <3>1. 0 < m.seq
      BY <2>1, CopyAssumption DEF Number
    <3>2. ASSUME Recent(d)
          PROVE  Recent(d)'
      <4>1. m \notin EarlierEnters(m_clipboardSeqNum) /\ NoneIn(q, EarlierEnters(m_clipboardSeqNum))
        BY <3>2, <1>7 DEF Recent
      <4>2. ~(m.seq < m_clipboardSeqNum)
        BY <4>1, <1>3, <1>14, ToClientKinds
      <4>3. m_clipboardSeqNum \in Nat /\ m.seq \in Nat
        BY <2>1, CopyAssumption DEF Number, ClipboardTypeOK
      <4> QED BY <3>1, <4>1, <4>2, <4>3, <2>2, <1>3, <1>4 DEF Recent
    <3> QED BY <3>1, <3>2, <2>2, <2>4, <1>4, <1>6 DEF NumbersInv
  <2>6. DataInv(d)'
    BY <2>2, <1>4, <1>6, <1>10 DEF DataInv
  <2> QED BY <2>1, <2>2, <2>3, <2>4, <2>5, <2>6, <1>13 DEF ClientInv
<1>15. CASE m.type = "leave"
  <2>1. ClientLeaves(d) /\ m \notin TakeMessages
    BY <1>1, <1>3, <1>15, ToClientKinds DEF Receives
  <2>2. content'[d] = content[d] /\ held'[d] = held[d] /\ UNCHANGED <<ownClipboard, seqNum>>
    BY <2>1 DEF ClientLeaves, screenVars
  <2> DEFINE sends == d \in ownClipboard /\ sentClipboard[d] # content[d]
  <2>3. PICK e \in ClientEvent : e = Sending(d, seqNum[d], content[d]) /\ e \notin Reports
    BY TypesUnderway, ClientKinds
  <2>4. /\ clientEvents[d] \in Seq(ClientEvent)
        /\ sends => clientEvents'[d] = Append(clientEvents[d], e) /\ sentClipboard'[d] = content[d]
        /\ ~sends => UNCHANGED <<clientEvents, sentClipboard>>
    BY <2>1, <2>3 DEF ClientLeaves, sendClipboard, QueueTypes, ClipboardTypeOK
  <2> HIDE DEF sends
  <2>5. /\ NoneIn(clientEvents'[d], Reports) <=> NoneIn(clientEvents[d], Reports)
        /\ OneIn(clientEvents[d], Reports) => OneIn(clientEvents'[d], Reports)
    <3>1. CASE sends
      <4>1. clientEvents'[d] = Append(clientEvents[d], e)
        BY <3>1, <2>4
      <4>2. clientEvents[d] \in Seq(ClientEvent) /\ e \in ClientEvent /\ e \notin Reports
        BY <2>3, <2>4
      <4>3. NoneIn(clientEvents'[d], Reports) <=> NoneIn(clientEvents[d], Reports)
        BY <4>1, <4>2, Added
      <4>4. OneIn(clientEvents[d], Reports) => OneIn(clientEvents'[d], Reports)
        BY <4>1, <4>2, Added
      <4> QED BY <4>3, <4>4
    <3>2. CASE ~sends
      BY <3>2, <2>4
    <3> QED BY <3>1, <3>2
  <2>6. StageKept
    BY <2>5, <1>4 DEF StageKept
  <2>7. Silent(d) => Silent(d)'
    BY <2>2, <2>4, <1>4 DEF Silent, sends
  <2>8. HasCopied(d)' <=> HasCopied(d)
    BY <2>5, <1>4 DEF HasCopied
  <2>9. NumbersInv(d)'
    BY <2>2, <2>8, <1>3, <1>4, <1>6, <1>7 DEF NumbersInv, Recent
  <2>10. DataInv(d)'
    <3>1. sends => m_clipboardOwner = d \/ HasTold(d)
      BY <1>6 DEF OwnInv, sends
    <3> QED BY <3>1, <2>4, <1>4, <1>6, <1>10 DEF DataInv
  <2>11. sentClipboard'[d] = sentClipboard[d] \/ sentClipboard'[d] = content[d]
    BY <2>4
  <2> QED BY <2>1, <2>2, <2>6, <2>7, <2>8, <2>9, <2>10, <2>11, <1>13 DEF ClientInv
<1> QED BY <1>3, <1>12, <1>14, <1>15, ToClientKinds

LEMMA ConnectFocused ==
  ASSUME Typed, GoneInv, Focused, NEW d \in Client, Connect(d), UNCHANGED setting
  PROVE  Focused'
<1> USE DEF Typed
<1>1. /\ d \notin connected /\ connected' = connected \union {d} /\ dirty' = dirty \union {d}
      /\ UNCHANGED <<unnoticed, m_clipboardOwner, m_clipboardSeqNum, m_clipboardData, events,
                     clientEvents, toClient, toServer>>
      /\ content' = [content EXCEPT ![d] = AfterGrab(d)] /\ held' = [held EXCEPT ![d] = TRUE]
      /\ seqNum' = [seqNum EXCEPT ![d] = 0]
      /\ ownClipboard' = ownClipboard \ {d}
      /\ sentClipboard' = [sentClipboard EXCEPT ![d] = NotSent]
  BY DEF Connect, NewProxy, copyVars
<1>2. /\ StageInv /\ HomeInv /\ connected \subseteq Client /\ \A c \in connected : ClientInv(c)
      /\ d # Home /\ Home \in Screen /\ Client \subseteq Screen
      /\ content \in [Screen -> Data] /\ held \in [Screen -> BOOLEAN]
  BY HomeAssumption DEF Focused, ClipboardTypeOK, Screen
<1>3. ASSUME NEW c \in connected
      PROVE  LeavesAlone(c) /\ ClientInv(c)'
  <2>1. c \in Client /\ c # d
    BY <1>1, <1>2
  <2>2. LeavesAlone(c)
    <3>1. content'[c] = content[c] /\ held'[c] = held[c]
      BY <2>1, <1>1, <1>2
    <3>2. seqNum'[c] = seqNum[c] /\ sentClipboard'[c] = sentClipboard[c]
      BY <2>1, <1>1 DEF ClipboardTypeOK
    <3> QED BY <2>1, <3>1, <3>2, <1>1 DEF LeavesAlone
  <2>3. TakesKept(c) /\ EntersKept(c)
    BY <2>1, <1>1, StreamSame
  <2> QED BY <2>1, <2>2, <2>3, <1>1, <1>2, ClientFrame, SameAfterBoth
<1>4. /\ clientEvents[d] = << >> /\ toClient[d] = << >> /\ toServer[d] = << >>
      /\ d \notin unnoticed /\ NoneIn(events, ChangesOf(d))
  <2>1. \A e \in ServerEvent : e \in ChangesOf(d) => e \in EventsOf(d)
    BY ServerKinds
  <2>2. ChangesOf(d) \subseteq EventsOf(d)
    BY <2>1 DEF ChangesOf
  <2> QED BY <2>2, <1>1, Fewer DEF GoneInv
<1>5. Silent(d)'
  BY <1>1, <1>4, EmptyQueue DEF Silent
<1>6. StageInv'
  <2>1. StageKept
    BY <1>1 DEF StageKept
  <2> QED BY <2>1, <1>1, <1>2, <1>3, <1>5, StageFrame, SameAfterBoth
<1>7. HomeInv'
  <2>1. content'[Home] = content[Home] /\ held'[Home] = held[Home]
    BY <1>1, <1>2
  <2> QED BY <2>1, <1>1, <1>2 DEF HomeInv, HomeHasCopied
<1>8. ClientInv(d)'
  <2>1. held'[d]
    BY <1>1, <1>2
  <2>2. ~HasCopied(d)' /\ NoneIn(toServer'[d], OldMessages(m_clipboardSeqNum))
    BY <1>1, <1>4, EmptyQueue DEF HasCopied
  <2>3. NoneIn(clientEvents'[d], Uploads) /\ Leads(toServer'[d], GrabMessages, DataMessages)
    BY <1>1, <1>4, EmptyQueue
  <2>4. Leads(events', GrabsOf(d), ChangesOf(d))
    BY <1>1, <1>4 DEF Leads, NoneIn
  <2> QED BY <2>1, <2>2, <2>3, <2>4, <1>1
          DEF ClientInv, NumbersInv, OwnInv, HeldInv, DataInv, CleanInv
<1> QED BY <1>1, <1>3, <1>6, <1>7, <1>8 DEF Focused

\* What the events of a lost client become is seen by nobody.
LEMMA OrphansSame ==
  ASSUME NEW q \in Seq(ServerEvent), NEW d \in Client, NEW r,
         r = [i \in DOMAIN q |-> Orphaned(q[i], d)]
  PROVE  /\ \A c : c # d => SameGrabs(q, r, c) /\ SameChanges(q, r, c) /\ SameSendings(q, r, c)
         /\ \A Z : NoneIn(q, Z) /\ Z \subseteq Grabs => NoneIn(r, Z)
         /\ \A s : OneIn(q, Grabs) /\ ~NoneIn(q, GrabsOf(s)) =>
              IF s = d THEN NoneIn(r, Grabs) ELSE OneIn(r, Grabs)
<1>1. /\ r \in Seq(ServerEvent) /\ DOMAIN r = DOMAIN q
      /\ \A i \in DOMAIN q : /\ q[i].screen # d => r[i] = q[i]
                             /\ q[i].screen = d => r[i].type = "gone"
      /\ \A i \in DOMAIN q : q[i] \in ServerEvent /\ r[i] \in ServerEvent
  <2>1. /\ r \in Seq(ServerEvent) /\ DOMAIN r = DOMAIN q
        /\ \A i \in DOMAIN q : /\ q[i].screen # d => r[i] = q[i]
                               /\ q[i].screen = d => r[i].type = "gone"
    BY OrphansOf
  <2>2. \A p \in Seq(ServerEvent) : \A i \in DOMAIN p : p[i] \in ServerEvent
    OBVIOUS
  <2> QED BY <2>1, <2>2
<1>2. \A e \in ServerEvent : \A c :
        /\ e \in GrabsOf(c) => e.screen = c /\ e.type # "gone"
        /\ e \in ChangesOf(c) => e.screen = c /\ e.type # "gone"
        /\ e \in SendingsTo(c) => e.screen = c /\ e.type # "gone"
        /\ \A v : e \in SendingsOf(c, v) => e.screen = c /\ e.type # "gone"
        /\ e \in Grabs => e.type # "gone" /\ e \in GrabsOf(e.screen)
  BY ServerKinds
<1>3. ASSUME NEW c, c # d
      PROVE  /\ \A i \in DOMAIN q :
                  /\ r[i] \in GrabsOf(c) <=> q[i] \in GrabsOf(c)
                  /\ r[i] \in ChangesOf(c) <=> q[i] \in ChangesOf(c)
                  /\ r[i] \in SendingsTo(c) <=> q[i] \in SendingsTo(c)
                  /\ \A v : r[i] \in SendingsOf(c, v) <=> q[i] \in SendingsOf(c, v)
  BY <1>1, <1>2, <1>3
<1>4. \A c : c # d => SameGrabs(q, r, c) /\ SameChanges(q, r, c) /\ SameSendings(q, r, c)
  BY <1>1, <1>3 DEF SameGrabs, SameChanges, SameSendings, NoneIn, Leads, LastIn
<1>5. \A i \in DOMAIN q : r[i] \in Grabs => r[i] = q[i]
  BY <1>1, <1>2
<1>6. \A Z : NoneIn(q, Z) /\ Z \subseteq Grabs => NoneIn(r, Z)
  BY <1>1, <1>5 DEF NoneIn
<1>7. ASSUME NEW s, OneIn(q, Grabs), ~NoneIn(q, GrabsOf(s))
      PROVE  IF s = d THEN NoneIn(r, Grabs) ELSE OneIn(r, Grabs)
  <2>1. PICK i \in DOMAIN q : q[i] \in GrabsOf(s)
    BY <1>7 DEF NoneIn
  <2>2. q[i] \in Grabs /\ q[i].screen = s
    BY <2>1, <1>1, <1>2 DEF GrabsOf
  <2>3. \A j \in DOMAIN q : q[j] \in Grabs => j = i
    BY <2>2, <1>7 DEF OneIn
  <2>4. \A j \in DOMAIN r : r[j] \in Grabs => j = i
    BY <2>3, <1>1, <1>5
  <2>5. CASE s = d
    <3>1. r[i] \notin Grabs
      BY <2>2, <2>5, <1>1, <1>2
    <3> QED BY <3>1, <2>4, <2>5 DEF NoneIn
  <2>6. CASE s # d
    BY <2>2, <2>4, <2>6, <1>1 DEF OneIn
  <2> QED BY <2>5, <2>6
<1> QED BY <1>4, <1>6, <1>7

LEMMA DisconnectFocused ==
  ASSUME Typed, GoneInv, Focused, NEW d \in Client, Disconnect(d), UNCHANGED setting
  PROVE  Focused'
<1> USE DEF Typed
<1>1. /\ connected' = connected \ {d} /\ dirty' = dirty \ {d} /\ unnoticed' = unnoticed \ {d}
      /\ events' = [i \in DOMAIN events |-> Orphaned(events[i], d)]
      /\ clientEvents' = [clientEvents EXCEPT ![d] = << >>]
      /\ toClient' = [toClient EXCEPT ![d] = << >>]
      /\ toServer' = [toServer EXCEPT ![d] = << >>]
      /\ UNCHANGED <<content, held, m_clipboardOwner, m_clipboardSeqNum, m_clipboardData, seqNum,
                     ownClipboard, sentClipboard>>
  BY DEF Disconnect, screenVars, ownerVars
<1>2. /\ StageInv /\ HomeInv /\ connected \subseteq Client /\ \A c \in connected : ClientInv(c)
      /\ d # Home /\ events \in Seq(ServerEvent)
  BY HomeAssumption DEF Focused, ClipboardTypeOK, QueueTypes
<1>3. /\ \A c : c # d => /\ SameGrabs(events, events', c) /\ SameChanges(events, events', c)
                         /\ SameSendings(events, events', c)
      /\ \A Z : NoneIn(events, Z) /\ Z \subseteq Grabs => NoneIn(events', Z)
      /\ \A s : OneIn(events, Grabs) /\ ~NoneIn(events, GrabsOf(s)) =>
           IF s = d THEN NoneIn(events', Grabs) ELSE OneIn(events', Grabs)
  BY <1>1, <1>2, OrphansSame
<1>4. /\ \A c \in Client \ {d} : /\ clientEvents'[c] = clientEvents[c] /\ toClient'[c] = toClient[c]
                                 /\ toServer'[c] = toServer[c]
      /\ clientEvents'[d] = << >> /\ toServer'[d] = << >>
  BY <1>1 DEF QueueTypes
<1>5. ASSUME NEW c \in connected, c # d
      PROVE  LeavesAlone(c) /\ ClientInv(c)'
  <2>1. c \in Client
    BY <1>2
  <2>2. LeavesAlone(c)
    BY <2>1, <1>1, <1>4, <1>5 DEF LeavesAlone
  <2>3. TakesKept(c) /\ EntersKept(c)
    BY <2>1, <1>4, <1>5, StreamSame
  <2> QED BY <2>1, <2>2, <2>3, <1>1, <1>2, <1>3, <1>5, ClientFrame
<1>6. HomeInv'
  BY <1>1, <1>2, <1>3 DEF HomeInv, HomeHasCopied, SameGrabs
<1>7. StageInv'
  <2>1. \A Z : NoneIn(clientEvents'[d], Z) /\ NoneIn(toServer'[d], Z)
    BY <1>4, EmptyQueue
  <2>2. (NoReports => NoReports') /\ (NoMessages => NoMessages')
    BY <2>1, <1>4 DEF NoReports, NoMessages
  <2>3. NoneIn(events, Grabs) => NoneIn(events', Grabs)
    BY <1>3
  <2>4. NoGrab => NoGrab'
    BY <2>2, <2>3, <1>1 DEF NoGrab
  <2>5. GrabOf(d) => NoGrab'
    <3>1. Unnoticed(d) => NoGrab'
      BY <2>2, <2>3, <1>1 DEF Unnoticed, NoGrab
    <3>2. Posted(d) => NoGrab'
      BY <2>2, <1>1, <1>3 DEF Posted, NoGrab
    <3>3. Reported(d) => NoGrab'
      <4>1. Reported(d) => NoReports'
        BY <2>1, <1>4 DEF Reported, NoReports
      <4> QED BY <4>1, <2>2, <2>3, <1>1 DEF Reported, NoGrab
    <3>4. Told(d) => NoGrab'
      <4>1. Told(d) => NoMessages'
        BY <2>1, <1>4 DEF Told, NoMessages
      <4> QED BY <4>1, <2>2, <2>3, <1>1 DEF Told, NoGrab
    <3> QED BY <3>1, <3>2, <3>3, <3>4 DEF GrabOf
  <2>6. ASSUME NEW s \in connected \union {Home}, s # d, GrabOf(s)
        PROVE  GrabOf(s)'
    <3>1. Unnoticed(s) => Unnoticed(s)'
      BY <2>2, <2>3, <2>6, <1>1 DEF Unnoticed
    <3>2. Posted(s) => Posted(s)'
      BY <2>2, <2>6, <1>1, <1>3 DEF Posted, SameGrabs
    <3>3. s \in Client /\ Reported(s) => Reported(s)'
      BY <2>1, <2>2, <2>3, <2>6, <1>1, <1>4 DEF Reported
    <3>4. s \in Client /\ Told(s) => Told(s)'
      BY <2>1, <2>2, <2>3, <2>6, <1>1, <1>4 DEF Told
    <3> QED BY <3>1, <3>2, <3>3, <3>4, <2>6 DEF GrabOf
  <2>7. \A c \in connected \ {d} : Silent(c) => Silent(c)'
    BY <1>3, <1>5, SilentFrame
  <2>8. CASE NoGrab
    BY <2>4, <2>8 DEF StageInv
  <2>9. CASE ~NoGrab
    <3>1. PICK s \in connected \union {Home} : GrabOf(s) /\ \A c \in connected \ {s} : Silent(c)
      BY <2>9, <1>2 DEF StageInv
    <3>2. CASE s = d
      BY <3>1, <3>2, <2>5 DEF StageInv
    <3>3. CASE s # d
      <4>1. GrabOf(s)' /\ s \in connected' \union {Home}
        BY <3>1, <3>3, <2>6, <1>1
      <4>2. \A c \in connected' \ {s} : Silent(c)'
        BY <3>1, <2>7, <1>1
      <4> QED BY <4>1, <4>2 DEF StageInv
    <3> QED BY <3>2, <3>3
  <2> QED BY <2>8, <2>9
<1>8. NoneIn(events', OldGrabs(m_clipboardSeqNum'))
  <2>1. OldGrabs(m_clipboardSeqNum) \subseteq Grabs
    BY DEF OldGrabs
  <2> QED BY <2>1, <1>1, <1>3 DEF Focused
<1> QED BY <1>1, <1>5, <1>6, <1>7, <1>8 DEF Focused

LEMMA FocusKept ==
  ASSUME Typed, GoneInv, MovesInv, SentInv, FocusInv, ClipboardNext
  PROVE  FocusInv'
<1>1. UNCHANGED setting
  BY DEF ClipboardNext
<1> SUFFICES ASSUME InFocus
             PROVE  Focused'
  BY <1>1 DEF FocusInv, InFocus
<1>2. Focused
  BY DEF FocusInv
<1>3. CASE Idle
  BY <1>2, <1>3
     DEF Idle, clipboardVars, Focused, StageInv, NoGrab, GrabOf, Unnoticed, Reported, Told, Posted,
         NoReports, NoMessages, Silent, HomeInv, HomeHasCopied, ClientInv, NumbersInv, HasCopied,
         Recent, HasTold, OwnInv, HeldInv, DataInv, CleanInv, WillHave
<1>4. \A s \in Screen : Copy(s) => Focused'
  BY <1>1, <1>2, CopyFocused
<1>5. \A s \in Screen : Notice(s) => Focused'
  BY <1>1, <1>2, NoticeFocused
<1>6. \A s \in Screen : Switch(s) => Focused'
  BY <1>1, <1>2, SwitchFocused
<1>7. handleClipboardGrabbed => Focused'
  BY <1>1, <1>2, GrabbedFocused
<1>8. handleClipboardChanged => Focused'
  BY <1>1, <1>2, ChangedFocused
<1>9. SendClipboard \/ DispatchToNobody => Focused'
  BY <1>1, <1>2, SendFocused
<1>10. \A c \in Client : ServerReceives(c) => Focused'
  BY <1>1, <1>2, ServerReceivesFocused
<1>11. \A c \in Client : ClientGrabs(c) => Focused'
  BY <1>1, <1>2, ClientGrabsFocused
<1>12. \A c \in Client : ClientSends(c) => Focused'
  BY <1>1, <1>2, ClientSendsFocused
<1>13. \A c \in Client : Receives(c) => Focused'
  BY <1>1, <1>2, ReceivesFocused
<1>14. \A c \in Client : Connect(c) => Focused'
  BY <1>1, <1>2, ConnectFocused
<1>15. \A c \in Client : Disconnect(c) => Focused'
  BY <1>1, <1>2, DisconnectFocused
<1> QED BY <1>3, <1>4, <1>5, <1>6, <1>7, <1>8, <1>9, <1>10, <1>11, <1>12, <1>13, <1>14, <1>15
        DEF ClipboardNext, Step

\* What the system keeps, whatever users do.
ClipboardInv == Typed /\ GoneInv /\ MovesInv /\ SentInv /\ FocusInv

LEMMA ClipboardStarts ==
  ASSUME ClipboardInit
  PROVE  ClipboardInv
<1>1. /\ connected = {} /\ unnoticed = {} /\ activeScreen = Home /\ m_clipboardOwner = Home
      /\ m_clipboardSeqNum = 0 /\ m_seqNum = 0 /\ primarySeq = 0 /\ copies = 0
      /\ m_clipboardData = Empty /\ dirty = {} /\ ownClipboard = {} /\ events = << >>
      /\ content = [s \in Screen |-> Empty] /\ held = [s \in Screen |-> FALSE]
      /\ \A c \in Client : /\ clientEvents[c] = << >> /\ toClient[c] = << >> /\ toServer[c] = << >>
                           /\ ~clientActive[c]
  BY DEF ClipboardInit
<1>2. ClipboardTypeOK
  <2>1. Empty \in Data /\ 0 \in 0 .. MaxSwitches /\ 0 \in 0 .. MaxConnects /\ 0 \in 0 .. 0
    BY CopyAssumption DEF Empty, Data
  <2>2. Home \in Screen /\ setting \in Settings
    BY DEF Screen, ClipboardInit
  <2>3. /\ content \in [Screen -> Data] /\ held \in [Screen -> BOOLEAN]
        /\ copies \in Data /\ m_clipboardData \in Data
    BY <2>1, <1>1 DEF Empty
  <2>4. /\ connects \in [Client -> 0 .. MaxConnects] /\ proxyClip \in [Client -> Data]
        /\ seqNum \in [Client -> 0 .. m_seqNum] /\ clientActive \in [Client -> BOOLEAN]
        /\ sentClipboard \in [Client -> Data \union {NotSent}]
    BY <2>1 DEF ClipboardInit
  <2> QED BY <2>1, <2>2, <2>3, <2>4, <1>1 DEF ClipboardTypeOK
<1>3. QueueTypes /\ BoundInv
  <2>1. /\ events \in Seq(ServerEvent)
        /\ \A c \in Client : /\ clientEvents[c] \in Seq(ClientEvent)
                             /\ toClient[c] \in Seq(ToClient) /\ toServer[c] \in Seq(ToServer)
    BY <1>1, EmptyQueue
  <2>2. QueueTypes
    BY <2>1 DEF ClipboardInit, QueueTypes
  <2> QED BY <2>2, <1>1, EmptyQueue DEF BoundInv
<1>4. GoneInv /\ MovesInv /\ SentInv
  BY <1>1, EmptyQueue DEF GoneInv, MovesInv, SentInv
<1>5. FocusInv
  <2>1. StageInv
    BY <1>1, EmptyQueue DEF StageInv, NoGrab, NoReports, NoMessages
  <2>2. HomeInv /\ NoneIn(events, OldGrabs(m_clipboardSeqNum))
    BY <1>1, EmptyQueue DEF HomeInv
  <2> QED BY <2>1, <2>2, <1>1 DEF FocusInv, Focused
<1> QED BY <1>2, <1>3, <1>4, <1>5 DEF ClipboardInv, Typed

LEMMA ClipboardKept ==
  ASSUME ClipboardInv, [ClipboardNext]_clipboardVars
  PROVE  ClipboardInv'
<1>1. CASE ClipboardNext
  BY <1>1, StepTyped, GoneKept, MovesKept, SentKept, FocusKept DEF ClipboardInv
<1>2. CASE UNCHANGED clipboardVars
  <2>1. Typed'
    BY <1>2, StepTyped DEF ClipboardInv
  <2>2. GoneInv' /\ SentInv' /\ MovesInv'
    BY <1>2 DEF ClipboardInv, clipboardVars, GoneInv, SentInv, NoticesEveryCopy, MovesInv, ComesTo
  <2>3. FocusInv'
    BY <1>2
       DEF ClipboardInv, clipboardVars, FocusInv, InFocus, Focused, StageInv, NoGrab, GrabOf,
           Unnoticed, Reported, Told, Posted, NoReports, NoMessages, Silent, HomeInv, HomeHasCopied,
           ClientInv, NumbersInv, HasCopied, Recent, HasTold, OwnInv, HeldInv, DataInv, CleanInv,
           WillHave
  <2> QED BY <2>1, <2>2, <2>3 DEF ClipboardInv
<1> QED BY <1>1, <1>2

-----------------------------------------------------------------------------
(* Where the last copy is, if every copy is noticed and no connection lost. *)

\* In q, nothing of Z is after something of Y.
After(q, Y, Z) == \A i, j \in DOMAIN q : i < j /\ q[i] \in Y => q[j] \notin Z

\* Enters come in the order of their numbers.
OrderInv ==
  \A c \in Client :
    /\ NoneIn(toClient[c], EarlierEnters(seqNum[c]))
    /\ \A n \in Number : After(toClient[c], Enters(n), EarlierEnters(n))

\* The data v, with a number that is not below n.
UploadsOf(v) == {e \in Uploads : e.data = v}
DataOf(v) == {m \in DataMessages : m.data = v}
NewUploads(v, n) == {e \in UploadsOf(v) : ~(e.seq < n)}
NewData(v, n) == {m \in DataOf(v) : ~(m.seq < n)}
NewChanges(c, n) == {e \in ChangesOf(c) : ~(e.seq < n)}
GrabsNumbered(c, n) == {e \in GrabsOf(c) : e.seq = n}
MessagesNumbered(n) == {m \in GrabMessages : m.seq = n}

\* What c sends from now on has a number that is not below n.
CountsFrom(c, n) == n <= seqNum[c] /\ NoneIn(toClient[c], EarlierEnters(n))

\* The data of c are on their way, or will be sent when the cursor leaves.
Brings(c, n) ==
  \/ ~NoneIn(clientEvents[c], NewUploads(content[c], n))
  \/ ~NoneIn(toServer[c], NewData(content[c], n))
  \/ ~NoneIn(events, NewChanges(c, n)) /\ proxyClip[c] = content[c]
  \/ c \in ownClipboard /\ clientActive[c] /\ sentClipboard[c] # content[c]

\* All the data on their way from c are what it has.
BringsNoOther(c) ==
  /\ NoneIn(clientEvents[c], Uploads \ UploadsOf(content[c]))
  /\ NoneIn(toServer[c], DataMessages \ DataOf(content[c]))
  /\ ~NoneIn(events, ChangesOf(c)) => proxyClip[c] = content[c]

\* The server has no data for s, and nothing takes the clipboard from it.
Undisturbed(s) ==
  /\ s \in connected \union {Home} /\ s \notin dirty
  /\ s # Home => NoneIn(events, SendingsTo(s)) /\ NoneIn(toClient[s], TakeMessages)

\* The last copy was made on s.
LastAt(s) ==
  /\ Undisturbed(s) /\ content[s] = copies
  /\ s = Home /\ m_clipboardOwner = Home => m_clipboardData = copies \/ activeScreen = Home
  /\ s # Home => BringsNoOther(s)

\* No grab is under way: the last copy is the owner's.
LastIsOwners ==
  /\ LastAt(m_clipboardOwner)
  /\ m_clipboardOwner # Home =>
       /\ CountsFrom(m_clipboardOwner, m_clipboardSeqNum)
       /\ m_clipboardData = copies \/ Brings(m_clipboardOwner, m_clipboardSeqNum)
  /\ activeScreen \in dirty =>
       m_clipboardData = Empty /\ m_clipboardOwner # Home /\ copies # Empty

\* What c sends is behind its grab.
BehindGrab(c) ==
  /\ ~HasTold(c) => Leads(clientEvents[c], Reports, Uploads)
  /\ NoneIn(events, GrabsOf(c)) => Leads(toServer[c], GrabMessages, DataMessages)
  /\ Leads(events, GrabsOf(c), ChangesOf(c))

\* A grab of s is under way.
LastIsOf(s) ==
  /\ LastAt(s) /\ copies # Empty /\ activeScreen \notin dirty
  /\ m_clipboardOwner # s =>
       Undisturbed(m_clipboardOwner) /\ m_clipboardData = content[m_clipboardOwner]
  /\ s = Home /\ Home \in unnoticed => activeScreen = Home
  /\ s # Home =>
       /\ BehindGrab(s)
       /\ s \in unnoticed => clientActive[s]
       /\ \A n \in Number :
            (~NoneIn(toServer[s], MessagesNumbered(n)) \/ ~NoneIn(events, GrabsNumbered(s, n)))
              => CountsFrom(s, n) /\ Brings(s, n)

LastKnown ==
  /\ NoGrab => LastIsOwners
  /\ \A s \in connected \union {Home} : GrabOf(s) => LastIsOf(s)
LastInv == CalmCopies => LastKnown


LEMMA AfterKept ==
  ASSUME NEW S, NEW q \in Seq(S)
  PROVE  /\ \A Y, Z : q # << >> /\ After(q, Y, Z) =>
              After(Tail(q), Y, Z) /\ (Head(q) \in Y => NoneIn(Tail(q), Z))
         /\ \A e \in S : \A Y, Z :
              After(q, Y, Z) /\ (e \notin Z \/ NoneIn(q, Y)) => After(Append(q, e), Y, Z)
         /\ \A Y, Z : After(<< >>, Y, Z)
<1>1. ASSUME NEW Y, NEW Z, q # << >>, After(q, Y, Z)
      PROVE  After(Tail(q), Y, Z) /\ (Head(q) \in Y => NoneIn(Tail(q), Z))
  <2>1. /\ Head(q) = q[1] /\ 1 \in DOMAIN q /\ DOMAIN Tail(q) \subseteq Nat \ {0}
        /\ \A i \in DOMAIN Tail(q) : i + 1 \in DOMAIN q /\ Tail(q)[i] = q[i + 1]
    BY <1>1, TailOf
  <2>2. ASSUME NEW i \in DOMAIN Tail(q), NEW j \in DOMAIN Tail(q), i < j, Tail(q)[i] \in Y
        PROVE  Tail(q)[j] \notin Z
    <3>1. i + 1 < j + 1 /\ q[i + 1] \in Y
      BY <2>1, <2>2
    <3> QED BY <3>1, <2>1, <1>1 DEF After
  <2>3. ASSUME Head(q) \in Y, NEW j \in DOMAIN Tail(q)
        PROVE  Tail(q)[j] \notin Z
    <3>1. 1 < j + 1
      BY <2>1
    <3> QED BY <3>1, <2>1, <2>3, <1>1 DEF After
  <2> QED BY <2>2, <2>3 DEF After, NoneIn
<1>2. ASSUME NEW e \in S, NEW Y, NEW Z, After(q, Y, Z), e \notin Z \/ NoneIn(q, Y)
      PROVE  After(Append(q, e), Y, Z)
  <2>1. PICK r : r = Append(q, e)
    OBVIOUS
  <2>2. PICK n \in Nat :
          /\ DOMAIN q = 1 .. n /\ r[n + 1] = e /\ DOMAIN r = 1 .. n + 1
          /\ \A i \in DOMAIN q : r[i] = q[i] /\ i < n + 1 /\ i \in Nat
          /\ \A i \in DOMAIN r : i \in DOMAIN q \/ i = n + 1
    BY <2>1, AppendOf
  <2>3. ASSUME NEW i \in DOMAIN r, NEW j \in DOMAIN r, i < j, r[i] \in Y
        PROVE  r[j] \notin Z
    <3>1. i \in DOMAIN q
      BY <2>2, <2>3
    <3>2. CASE j \in DOMAIN q
      BY <3>1, <3>2, <2>2, <2>3, <1>2 DEF After
    <3>3. CASE j = n + 1
      BY <3>1, <3>3, <2>2, <2>3, <1>2 DEF NoneIn
    <3> QED BY <3>2, <3>3, <2>2
  <2> QED BY <2>1, <2>3 DEF After
<1>3. \A Y, Z : After(<< >>, Y, Z)
  BY DEF After
<1> QED BY <1>1, <1>2, <1>3

\* Where nothing that enters the client is written or read.
LEMMA OrderStill ==
  ASSUME Typed, OrderInv, NEW c \in Client, seqNum'[c] = seqNum[c],
         \/ toClient'[c] = toClient[c]
         \/ \E m \in ToClient : m.type # "enter" /\ toClient'[c] = Append(toClient[c], m)
  PROVE  /\ NoneIn(toClient'[c], EarlierEnters(seqNum'[c]))
         /\ \A n \in Number : After(toClient'[c], Enters(n), EarlierEnters(n))
<1>1. /\ NoneIn(toClient[c], EarlierEnters(seqNum[c])) /\ toClient[c] \in Seq(ToClient)
      /\ \A n \in Number : After(toClient[c], Enters(n), EarlierEnters(n))
  BY DEF OrderInv, Typed, QueueTypes
<1>2. CASE toClient'[c] # toClient[c]
  <2>1. PICK m \in ToClient : m.type # "enter" /\ toClient'[c] = Append(toClient[c], m)
    BY <1>2
  <2>2. \A n : m \notin EarlierEnters(n)
    BY <2>1, ToClientKinds
  <2>3. NoneIn(toClient'[c], EarlierEnters(seqNum[c]))
    BY <2>1, <2>2, <1>1, Added
  <2>4. \A n \in Number : After(toClient'[c], Enters(n), EarlierEnters(n))
    BY <2>1, <2>2, <1>1, AfterKept
  <2> QED BY <2>3, <2>4
<1> QED BY <1>1, <1>2

LEMMA OrderKept ==
  ASSUME Typed, GoneInv, OrderInv, ClipboardNext
  PROVE  OrderInv'
<1> USE DEF Typed
<1> SUFFICES ASSUME NEW c \in Client
             PROVE  /\ NoneIn(toClient'[c], EarlierEnters(seqNum'[c]))
                    /\ \A n \in Number : After(toClient'[c], Enters(n), EarlierEnters(n))
  BY DEF OrderInv
<1>1. /\ NoneIn(toClient[c], EarlierEnters(seqNum[c])) /\ toClient[c] \in Seq(ToClient)
      /\ \A n \in Number : After(toClient[c], Enters(n), EarlierEnters(n))
      /\ NoneIn(toClient[c], LaterEnters(m_seqNum))
      /\ m_seqNum \in Nat /\ seqNum[c] \in 0 .. m_seqNum /\ Number \subseteq Nat
  BY CopyAssumption DEF OrderInv, QueueTypes, BoundInv, ClipboardTypeOK, Number
<1>2. CASE UNCHANGED <<toClient, seqNum>>
  BY <1>2, <1>1
<1>3. \A m : /\ m = Leave \/ m = Grab(0) => m \in ToClient /\ m.type # "enter"
             /\ \A v \in Data : m = Put(0, v) => m \in ToClient /\ m.type # "enter"
  BY NewToClient
<1>4. ASSUME NEW dst \in Screen, Switch(dst)
      PROVE  /\ NoneIn(toClient'[c], EarlierEnters(seqNum'[c]))
             /\ \A n \in Number : After(toClient'[c], Enters(n), EarlierEnters(n))
  <2>1. /\ seqNum' = seqNum /\ m_seqNum < setting.switches /\ dst # activeScreen
        /\ toClient' = [d \in Client |-> IF d = activeScreen THEN Append(toClient[d], Leave)
                                         ELSE IF d = dst THEN Append(toClient[d], Enter(m_seqNum + 1))
                                         ELSE toClient[d]]
    BY <1>4 DEF Switch, ownerVars
  <2>2. CASE c = activeScreen
    <3>1. toClient'[c] = Append(toClient[c], Leave)
      BY <2>1, <2>2
    <3> QED BY <3>1, <2>1, <1>3, OrderStill
  <2>3. CASE c # activeScreen /\ c # dst
    BY <2>1, <2>3, OrderStill
  <2>4. CASE c = dst
    <3>1. m_seqNum + 1 \in Number \ {0}
      <4>1. setting.switches \in 0 .. MaxSwitches /\ MaxSwitches \in Nat
        BY SettingAssumption, CopyAssumption DEF ClipboardTypeOK
      <4> QED BY <4>1, <2>1, <1>1 DEF Number
    <3>2. PICK m \in ToClient : m = Enter(m_seqNum + 1) /\ m.type = "enter" /\ m.seq = m_seqNum + 1
      BY <3>1, NewToClient
    <3>3. toClient'[c] = Append(toClient[c], m)
      BY <3>2, <2>1, <2>4
    <3>4. \A n \in Nat : n <= m_seqNum + 1 => m \notin EarlierEnters(n)
      BY <3>2, <1>1, ToClientKinds
    <3>5. NoneIn(toClient'[c], EarlierEnters(seqNum'[c]))
      <4>1. m \notin EarlierEnters(seqNum[c])
        BY <3>4, <1>1
      <4> QED BY <4>1, <3>3, <2>1, <1>1, Added
    <3>6. ASSUME NEW n \in Number
          PROVE  After(toClient'[c], Enters(n), EarlierEnters(n))
      <4>1. CASE n <= m_seqNum + 1
        <5>1. m \notin EarlierEnters(n)
          BY <4>1, <3>4, <1>1
        <5> QED BY <5>1, <3>3, <1>1, AfterKept
      <4>2. CASE n > m_seqNum + 1
        <5>1. \A x \in ToClient : x \in Enters(n) => x \in LaterEnters(m_seqNum)
          <6>1. n > m_seqNum
            BY <4>2, <1>1
          <6> QED BY <6>1, ToClientKinds
        <5>2. NoneIn(toClient[c], Enters(n))
          BY <5>1, <1>1, Fewer DEF Enters
        <5> QED BY <5>2, <3>3, <1>1, AfterKept
      <4> QED BY <4>1, <4>2, <1>1
    <3> QED BY <3>5, <3>6
  <2> QED BY <2>2, <2>3, <2>4
<1>5. CASE handleClipboardGrabbed
  <2>1. seqNum' = seqNum /\ toClient'[c] \in {toClient[c], Append(toClient[c], Grab(0))}
    BY <1>5 DEF handleClipboardGrabbed, ownerVars
  <2> QED BY <2>1, <1>3, OrderStill
<1>6. CASE SendClipboard
  <2>1. PICK v : v = Head(events).data
    OBVIOUS
  <2>2. seqNum' = seqNum /\ toClient'[c] \in {toClient[c], Append(toClient[c], Put(0, v))}
    BY <1>6, <2>1 DEF SendClipboard, ownerVars, QueueTypes
  <2>3. v \in Data
    BY <1>6, <2>1, TypesUnderway, ServerEventTypes DEF SendClipboard
  <2> QED BY <2>2, <2>3, <1>3, OrderStill
<1>7. ASSUME NEW d \in Client, Receives(d)
      PROVE  /\ NoneIn(toClient'[c], EarlierEnters(seqNum'[c]))
             /\ \A n \in Number : After(toClient'[c], Enters(n), EarlierEnters(n))
  <2>1. CASE d # c
    <3>1. toClient'[c] = toClient[c] /\ seqNum'[c] = seqNum[c]
      BY <1>7, <2>1 DEF Receives, ClientEnters, ClientLeaves, ClientTakes, QueueTypes, ClipboardTypeOK
    <3> QED BY <3>1, <1>1
  <2>2. CASE d = c
    <3>1. PICK m : m = Head(toClient[c])
      OBVIOUS
    <3>2. toClient[c] # << >> /\ toClient'[c] = Tail(toClient[c]) /\ m \in ToClient
      BY <1>7, <2>2, <3>1, TypesUnderway DEF Receives, QueueTypes
    <3>3. \A n \in Number : After(toClient'[c], Enters(n), EarlierEnters(n))
      BY <3>2, <1>1, AfterKept
    <3>4. CASE m.type = "enter"
      <4>1. seqNum'[c] = m.seq
        BY <1>7, <2>2, <3>1, <3>4 DEF Receives, ClientEnters, ClipboardTypeOK
      <4>2. m.seq \in Number /\ m \in Enters(m.seq)
        BY <3>2, <3>4, ToClientKinds
      <4> QED BY <3>1, <3>2, <3>3, <4>1, <4>2, <1>1, AfterKept
    <3>5. CASE m.type # "enter"
      <4>1. seqNum' = seqNum
        BY <1>7, <2>2, <3>1, <3>5 DEF Receives, ClientLeaves, ClientTakes
      <4>2. NoneIn(toClient'[c], EarlierEnters(seqNum[c]))
        BY <3>2, <1>1, Removed
      <4> QED BY <3>3, <4>1, <4>2
    <3> QED BY <3>4, <3>5
  <2> QED BY <2>1, <2>2
<1>8. ASSUME NEW d \in Client, Connect(d)
      PROVE  /\ NoneIn(toClient'[c], EarlierEnters(seqNum'[c]))
             /\ \A n \in Number : After(toClient'[c], Enters(n), EarlierEnters(n))
  <2>1. toClient' = toClient /\ (c # d => seqNum'[c] = seqNum[c])
    BY <1>8 DEF Connect, ClipboardTypeOK
  <2>2. c = d => toClient'[c] = << >>
    BY <1>8, <2>1 DEF Connect, GoneInv
  <2> QED BY <2>1, <2>2, <1>1, EmptyQueue, AfterKept
<1>9. ASSUME NEW d \in Client, Disconnect(d)
      PROVE  /\ NoneIn(toClient'[c], EarlierEnters(seqNum'[c]))
             /\ \A n \in Number : After(toClient'[c], Enters(n), EarlierEnters(n))
  <2>1. seqNum' = seqNum /\ toClient'[c] \in {toClient[c], << >>}
    BY <1>9 DEF Disconnect, ownerVars, QueueTypes
  <2> QED BY <2>1, <1>1, EmptyQueue, AfterKept
<1>10. CASE \/ \E s \in Screen : Copy(s) \/ Notice(s)
            \/ handleClipboardChanged \/ DispatchToNobody
            \/ \E d \in Client : ServerReceives(d) \/ ClientGrabs(d) \/ ClientSends(d)
            \/ Idle
  BY <1>10, <1>2
     DEF Copy, Notice, handleClipboardChanged, DispatchToNobody, ServerReceives, ClientGrabs,
         sendClipboard, ClientSends, Idle, clipboardVars, ownerVars
<1> QED BY <1>4, <1>5, <1>6, <1>7, <1>8, <1>9, <1>10 DEF ClipboardNext, Step


-----------------------------------------------------------------------------
(* What a step leaves alone of the last copy.                              *)
LEMMA GrabsAreOf ==
  ASSUME NEW q \in Seq(ServerEvent)
  PROVE  NoneIn(q, Grabs) <=> \A s \in Screen : NoneIn(q, GrabsOf(s))
<1>1. \A i \in DOMAIN q : q[i] \in ServerEvent
  OBVIOUS
<1>2. \A e \in ServerEvent : e \in Grabs <=> \E s \in Screen : e \in GrabsOf(s)
  BY ServerKinds, ServerEventTypes
<1> QED BY <1>1, <1>2 DEF NoneIn

\* No step between two stages of a grab.
StageSame ==
  /\ UNCHANGED unnoticed
  /\ \A c \in Client : /\ NoneIn(clientEvents[c], Reports) <=> NoneIn(clientEvents'[c], Reports)
                       /\ NoneIn(toServer[c], GrabMessages) <=> NoneIn(toServer'[c], GrabMessages)
  /\ \A s \in Screen : SameGrabs(events, events', s)

LEMMA StageBack ==
  ASSUME Typed, StageInv, events' \in Seq(ServerEvent), StageSame
  PROVE  /\ NoGrab' => NoGrab
         /\ \A s \in Screen : GrabOf(s)' => GrabOf(s)
<1>1. NoneIn(events, Grabs) <=> NoneIn(events', Grabs)
  BY GrabsAreOf DEF StageSame, SameGrabs, Typed, QueueTypes
<1>2. NoGrab' => NoGrab
  BY <1>1 DEF StageSame, NoGrab, NoReports, NoMessages
<1>3. \A q, Z : ~(NoneIn(q, Z) /\ OneIn(q, Z))
  BY DEF NoneIn, OneIn
<1>4. ASSUME NEW s \in Screen, GrabOf(s)'
      PROVE  GrabOf(s)
  <2>1. Unnoticed(s)' => GrabOf(s)
    BY StageFacts DEF StageSame, Unnoticed, GrabOf
  <2>2. Posted(s)' => GrabOf(s)
    BY StageFacts DEF StageSame, SameGrabs, Posted, GrabOf
  <2>3. s \in Client /\ Reported(s)' => GrabOf(s)
    BY <1>3, StageFacts DEF StageSame, Reported, GrabOf
  <2>4. s \in Client /\ Told(s)' => GrabOf(s)
    BY <1>3, StageFacts DEF StageSame, Told, GrabOf
  <2> QED BY <1>4, <2>1, <2>2, <2>3, <2>4 DEF GrabOf
<1> QED BY <1>2, <1>4

LEMMA OneStage == \A s, t : GrabOf(s) /\ GrabOf(t) => s = t
BY GrabUnique

LEMMA OneStageNext == (\A s, t : GrabOf(s) /\ GrabOf(t) => s = t)'
BY OneStage, PTL

LEMMA NoStage == \A s : GrabOf(s) => ~NoGrab
<1>1. \A q, Z : ~(NoneIn(q, Z) /\ OneIn(q, Z))
  BY DEF NoneIn, OneIn
<1> QED BY <1>1 DEF GrabOf, NoGrab, Unnoticed, Posted, Reported, Told, NoReports, NoMessages

LEMMA NoStageNext == (\A s : GrabOf(s) => ~NoGrab)'
BY NoStage, PTL

\* The server's queue keeps what concerns c and nothing goes to c.
EventsKept(p, q, c) ==
  /\ \A Z : Z \subseteq GrabsOf(c) \/ Z \subseteq ChangesOf(c) => (NoneIn(p, Z) <=> NoneIn(q, Z))
  /\ Leads(p, GrabsOf(c), ChangesOf(c)) => Leads(q, GrabsOf(c), ChangesOf(c))
  /\ NoneIn(p, SendingsTo(c)) => NoneIn(q, SendingsTo(c))

LEMMA EventsKeptBy ==
  ASSUME NEW q \in Seq(ServerEvent), NEW c
  PROVE  /\ EventsKept(q, q, c)
         /\ q # << >> /\ Head(q) \notin GrabsOf(c) /\ Head(q) \notin ChangesOf(c)
              => EventsKept(q, Tail(q), c)
         /\ \A e \in ServerEvent :
              e \notin GrabsOf(c) /\ e \notin ChangesOf(c) /\ e \notin SendingsTo(c)
                => EventsKept(q, Append(q, e), c)
         /\ \A r, p : EventsKept(q, r, c) /\ EventsKept(r, p, c) => EventsKept(q, p, c)
<1>1. EventsKept(q, q, c) /\ \A r, p : EventsKept(q, r, c) /\ EventsKept(r, p, c) => EventsKept(q, p, c)
  BY DEF EventsKept
<1>2. ASSUME q # << >>, Head(q) \notin GrabsOf(c), Head(q) \notin ChangesOf(c)
      PROVE  EventsKept(q, Tail(q), c)
  <2>1. \A Z : Z \subseteq GrabsOf(c) \/ Z \subseteq ChangesOf(c) => Head(q) \notin Z
    BY <1>2
  <2>2. \A Z : Head(q) \notin Z => (NoneIn(q, Z) <=> NoneIn(Tail(q), Z))
    BY <1>2, Removed
  <2>3. /\ Leads(q, GrabsOf(c), ChangesOf(c)) => Leads(Tail(q), GrabsOf(c), ChangesOf(c))
        /\ NoneIn(q, SendingsTo(c)) => NoneIn(Tail(q), SendingsTo(c))
    BY <1>2, Removed
  <2> QED BY <2>1, <2>2, <2>3 DEF EventsKept
<1>3. ASSUME NEW e \in ServerEvent, e \notin GrabsOf(c), e \notin ChangesOf(c), e \notin SendingsTo(c)
      PROVE  EventsKept(q, Append(q, e), c)
  <2>1. \A Z : Z \subseteq GrabsOf(c) \/ Z \subseteq ChangesOf(c) => e \notin Z
    BY <1>3
  <2>2. \A Z : e \notin Z => (NoneIn(q, Z) <=> NoneIn(Append(q, e), Z))
    BY Added
  <2>3. /\ Leads(q, GrabsOf(c), ChangesOf(c)) => Leads(Append(q, e), GrabsOf(c), ChangesOf(c))
        /\ NoneIn(q, SendingsTo(c)) => NoneIn(Append(q, e), SendingsTo(c))
    BY <1>3, Added
  <2> QED BY <2>1, <2>2, <2>3 DEF EventsKept
<1> QED BY <1>1, <1>2, <1>3

LEMMA DeliversKept ==
  ASSUME Typed, NEW s \in Screen, NEW v \in Data, NEW q \in Seq(ServerEvent), NEW u \in Screen,
         Delivers(s, v, q) \/ DeliversNothing(q), u # s \/ DeliversNothing(q)
  PROVE  /\ EventsKept(q, events', u) /\ content'[u] = content[u]
         /\ u \in Client => proxyClip'[u] = proxyClip[u]
<1>1. CASE DeliversNothing(q)
  BY <1>1, EventsKeptBy DEF DeliversNothing, screenVars
<1>2. CASE Delivers(s, v, q) /\ u # s /\ s = Home
  BY <1>2, EventsKeptBy DEF Delivers, Typed, ClipboardTypeOK
<1>3. CASE Delivers(s, v, q) /\ u # s /\ s # Home
  <2>1. PICK e \in SendingsOf(s, v) : e \in ServerEvent /\ events' = Append(q, e)
    BY <1>3, DeliversAdds
  <2>2. content' = content /\ proxyClip' = [proxyClip EXCEPT ![s] = v]
    BY <1>3 DEF Delivers, screenVars
  <2>3. e \notin GrabsOf(u) /\ e \notin ChangesOf(u) /\ e \notin SendingsTo(u)
    BY <2>1, <1>3, ServerKinds
  <2>4. EventsKept(q, events', u)
    BY <2>1, <2>3, EventsKeptBy
  <2> QED BY <2>2, <2>4, <1>3 DEF Typed, ClipboardTypeOK
<1> QED BY <1>1, <1>2, <1>3

\* Nothing happens to s, and nothing takes the clipboard from it.
Untouched(s) ==
  /\ content'[s] = content[s]
  /\ s \in connected' \union {Home} /\ s \notin dirty'
  /\ s # Home => /\ NoneIn(events', SendingsTo(s)) /\ NoneIn(toClient'[s], TakeMessages)
Unmoved(c) ==
  /\ seqNum'[c] = seqNum[c] /\ clientActive'[c] = clientActive[c]
  /\ sentClipboard'[c] = sentClipboard[c] /\ (c \in ownClipboard' <=> c \in ownClipboard)
  /\ clientEvents'[c] = clientEvents[c] /\ toServer'[c] = toServer[c]
  /\ c \in unnoticed' <=> c \in unnoticed
  /\ proxyClip'[c] = proxyClip[c]
  /\ EventsKept(events, events', c)
  /\ \A n \in Number : CountsFrom(c, n) => CountsFrom(c, n)'

LEMMA LastFrame ==
  ASSUME NEW c, content'[c] = content[c], Unmoved(c)
  PROVE  /\ BringsNoOther(c) => BringsNoOther(c)'
         /\ \A n : Brings(c, n) => Brings(c, n)'
         /\ BehindGrab(c) => BehindGrab(c)'
         /\ \A n : NoneIn(events, GrabsNumbered(c, n)) <=> NoneIn(events', GrabsNumbered(c, n))
<1>1. /\ \A n : GrabsNumbered(c, n) \subseteq GrabsOf(c) /\ NewChanges(c, n) \subseteq ChangesOf(c)
      /\ GrabsOf(c) \subseteq GrabsOf(c) /\ ChangesOf(c) \subseteq ChangesOf(c)
  BY DEF GrabsNumbered, NewChanges
<1>2. /\ \A n : NoneIn(events, GrabsNumbered(c, n)) <=> NoneIn(events', GrabsNumbered(c, n))
      /\ \A n : NoneIn(events, NewChanges(c, n)) <=> NoneIn(events', NewChanges(c, n))
      /\ NoneIn(events, GrabsOf(c)) <=> NoneIn(events', GrabsOf(c))
      /\ NoneIn(events, ChangesOf(c)) <=> NoneIn(events', ChangesOf(c))
      /\ Leads(events, GrabsOf(c), ChangesOf(c)) => Leads(events', GrabsOf(c), ChangesOf(c))
  BY <1>1 DEF Unmoved, EventsKept
<1>3. BringsNoOther(c) => BringsNoOther(c)'
  BY <1>2 DEF BringsNoOther, Unmoved
<1>4. \A n : Brings(c, n) => Brings(c, n)'
  BY <1>2 DEF Brings, Unmoved
<1>5. BehindGrab(c) => BehindGrab(c)'
  BY <1>2 DEF BehindGrab, HasTold, Unmoved
<1> QED BY <1>2, <1>3, <1>4, <1>5

\* The owner, where no grab is under way, in a step of others.
LEMMA OwnersFrame ==
  ASSUME Typed, LastIsOwners, Untouched(m_clipboardOwner), Unmoved(m_clipboardOwner) \/ m_clipboardOwner = Home,
         UNCHANGED <<m_clipboardOwner, m_clipboardSeqNum, copies>>,
         m_clipboardData' = m_clipboardData \/ m_clipboardData' = copies,
         m_clipboardOwner = Home => m_clipboardData' = copies \/ activeScreen' = Home,
         activeScreen' \notin dirty' \/ (activeScreen \in dirty /\ m_clipboardData' = m_clipboardData)
  PROVE  LastIsOwners'
<1>1. PICK o : o = m_clipboardOwner
  OBVIOUS
<1>2. LastAt(o) /\ Untouched(o) /\ m_clipboardOwner' = o /\ m_clipboardSeqNum \in Number
  BY <1>1, TypesUnderway DEF LastIsOwners, Typed
<1>3. Undisturbed(o)' /\ content'[o] = copies
  BY <1>2 DEF LastAt, Undisturbed, Untouched
<1>4. o # Home => /\ BringsNoOther(o)' /\ CountsFrom(o, m_clipboardSeqNum)'
                  /\ \/ m_clipboardData = copies
                     \/ Brings(o, m_clipboardSeqNum)'
  <2> SUFFICES ASSUME o # Home
               PROVE  /\ BringsNoOther(o)' /\ CountsFrom(o, m_clipboardSeqNum)'
                      /\ m_clipboardData = copies \/ Brings(o, m_clipboardSeqNum)'
    OBVIOUS
  <2>1. Unmoved(o) /\ content'[o] = content[o] /\ BringsNoOther(o)
    BY <1>1, <1>2 DEF LastAt, Untouched
  <2>2. BringsNoOther(o)' /\ \A n : Brings(o, n) => Brings(o, n)'
    BY <2>1, LastFrame
  <2>3. CountsFrom(o, m_clipboardSeqNum)
    BY <1>1 DEF LastIsOwners
  <2>4. CountsFrom(o, m_clipboardSeqNum)'
    <3>1. PICK n \in Number : n = m_clipboardSeqNum /\ n = m_clipboardSeqNum'
      BY <1>2
    <3>2. CountsFrom(o, n)'
      BY <3>1, <2>1, <2>3 DEF Unmoved
    <3> QED BY <3>1, <3>2
  <2>5. m_clipboardData = copies \/ Brings(o, m_clipboardSeqNum)
    BY <1>1 DEF LastIsOwners
  <2>6. m_clipboardSeqNum' = m_clipboardSeqNum
    OBVIOUS
  <2> QED BY <2>2, <2>4, <2>5, <2>6
<1>5. LastAt(o)'
  BY <1>1, <1>3, <1>4 DEF LastAt
<1>6. activeScreen' \in dirty' => m_clipboardData' = Empty /\ o # Home /\ copies # Empty
  BY <1>1 DEF LastIsOwners
<1> QED BY <1>1, <1>2, <1>4, <1>5, <1>6 DEF LastIsOwners


\* A grab of s, in a step that does not further it.
LEMMA GrabsFrame ==
  ASSUME Typed, NEW s, LastIsOf(s), Untouched(s), Untouched(m_clipboardOwner),
         s = Home \/ Unmoved(s), UNCHANGED <<m_clipboardOwner, copies>>,
         m_clipboardOwner # s => m_clipboardData' = m_clipboardData,
         s = Home /\ m_clipboardOwner = Home => m_clipboardData' = copies \/ activeScreen' = Home,
         s = Home /\ Home \in unnoticed' => activeScreen' = Home,
         activeScreen' \notin dirty'
  PROVE  LastIsOf(s)'
<1>1. Undisturbed(s)' /\ content'[s] = copies
  BY DEF LastIsOf, LastAt, Undisturbed, Untouched
<1>2. s # Home =>
        /\ BringsNoOther(s)' /\ BehindGrab(s)'
        /\ s \in unnoticed' => clientActive'[s]
        /\ \A n \in Number :
             (~NoneIn(toServer'[s], MessagesNumbered(n)) \/ ~NoneIn(events', GrabsNumbered(s, n)))
               => CountsFrom(s, n)' /\ Brings(s, n)'
  <2> SUFFICES ASSUME s # Home
               PROVE  /\ BringsNoOther(s)' /\ BehindGrab(s)'
                      /\ s \in unnoticed' => clientActive'[s]
                      /\ \A n \in Number :
                           (\/ ~NoneIn(toServer'[s], MessagesNumbered(n))
                            \/ ~NoneIn(events', GrabsNumbered(s, n)))
                             => CountsFrom(s, n)' /\ Brings(s, n)'
    OBVIOUS
  <2>1. Unmoved(s) /\ content'[s] = content[s] /\ BringsNoOther(s) /\ BehindGrab(s)
    BY DEF LastIsOf, LastAt, Untouched
  <2>2. /\ BringsNoOther(s)' /\ BehindGrab(s)' /\ \A n : Brings(s, n) => Brings(s, n)'
        /\ \A n : NoneIn(events, GrabsNumbered(s, n)) <=> NoneIn(events', GrabsNumbered(s, n))
    BY <2>1, LastFrame
  <2>3. s \in unnoticed' => clientActive'[s]
    BY <2>1 DEF LastIsOf, Unmoved
  <2>4. ASSUME NEW n \in Number,
               ~NoneIn(toServer'[s], MessagesNumbered(n)) \/ ~NoneIn(events', GrabsNumbered(s, n))
        PROVE  CountsFrom(s, n)' /\ Brings(s, n)'
    <3>1. toServer'[s] = toServer[s]
      BY <2>1 DEF Unmoved
    <3>2. CountsFrom(s, n) /\ Brings(s, n)
      BY <3>1, <2>2, <2>4 DEF LastIsOf
    <3> QED BY <3>2, <2>1, <2>2 DEF Unmoved
  <2> QED BY <2>2, <2>3, <2>4
<1>3. m_clipboardOwner # s =>
        Undisturbed(m_clipboardOwner)' /\ m_clipboardData' = content'[m_clipboardOwner]
  BY DEF LastIsOf, Undisturbed, Untouched
<1>4. LastAt(s)'
  BY <1>1, <1>2 DEF LastAt
<1>5. copies' # Empty
  BY DEF LastIsOf
<1> QED BY <1>2, <1>3, <1>4, <1>5 DEF LastIsOf

LEMMA CalmFacts ==
  ASSUME ClipboardInv, CalmCopies
  PROVE  /\ Typed /\ GoneInv /\ MovesInv /\ Focused /\ StageInv /\ InFocus
         /\ ~setting.drops /\ NoticesEveryCopy
         /\ connected \subseteq Client /\ Client \subseteq Screen /\ Home \in Screen
         /\ Home \notin connected /\ activeScreen \in connected \union {Home}
         /\ events \in Seq(ServerEvent)
         /\ \A c \in Client : /\ clientEvents[c] \in Seq(ClientEvent)
                              /\ toClient[c] \in Seq(ToClient) /\ toServer[c] \in Seq(ToServer)
<1>1. Typed /\ GoneInv /\ MovesInv /\ FocusInv /\ InFocus /\ ~setting.drops /\ NoticesEveryCopy
  BY DEF ClipboardInv, CalmCopies
<1>2. Focused /\ StageInv
  BY <1>1 DEF FocusInv, Focused
<1> QED BY <1>1, <1>2, HomeAssumption DEF Typed, ClipboardTypeOK, QueueTypes, Screen

\* At rest the owner is the active screen or has sent the last copy.
LEMMA RestIsShared ==
  ASSUME ClipboardInv, CalmCopies, LastKnown, Quiet
  PROVE  /\ NoGrab /\ LastIsOwners /\ activeScreen \notin dirty
         /\ m_clipboardOwner # activeScreen => m_clipboardData = copies
<1>1. /\ Typed /\ GoneInv /\ MovesInv /\ ~setting.drops /\ connected \subseteq Client
      /\ Home \notin connected /\ activeScreen \in connected \union {Home}
  BY CalmFacts
<1>2. /\ unnoticed = {} /\ \A Z : NoneIn(events, Z)
      /\ \A c \in Client : \A Z : /\ NoneIn(clientEvents[c], Z) /\ NoneIn(toClient[c], Z)
                                  /\ NoneIn(toServer[c], Z)
      /\ \A c \in Client : \A Y, Z : ~LastIn(toClient[c], Y, Z)
  BY <1>1, QuietFacts
<1>3. NoGrab
  BY <1>2 DEF NoGrab, NoReports, NoMessages
<1>4. LastIsOwners
  BY <1>3 DEF LastKnown
<1>5. /\ m_clipboardOwner \in connected \union {Home} /\ m_clipboardOwner \notin dirty
      /\ content[m_clipboardOwner] = copies
  BY <1>4 DEF LastIsOwners, LastAt, Undisturbed
<1>6. ASSUME m_clipboardOwner # activeScreen
      PROVE  m_clipboardData = copies
  <2>1. CASE m_clipboardOwner = Home
    BY <2>1, <1>4, <1>6 DEF LastIsOwners, LastAt
  <2>2. CASE m_clipboardOwner # Home
    <3>1. m_clipboardOwner \in connected /\ m_clipboardOwner \in Client
      BY <2>2, <1>1, <1>5
    <3>2. ~clientActive[m_clipboardOwner]
      BY <3>1, <1>1, <1>2, <1>6 DEF MovesInv, ComesTo
    <3>3. ~Brings(m_clipboardOwner, m_clipboardSeqNum)
      BY <3>1, <3>2, <1>2 DEF Brings
    <3> QED BY <2>2, <3>3, <1>4 DEF LastIsOwners
  <2> QED BY <2>1, <2>2
<1>7. activeScreen \notin dirty
  <2>1. CASE m_clipboardOwner = activeScreen
    BY <2>1, <1>5
  <2>2. CASE m_clipboardOwner # activeScreen
    BY <2>2, <1>4, <1>6 DEF LastIsOwners
  <2> QED BY <2>1, <2>2
<1> QED BY <1>3, <1>4, <1>6, <1>7

LEMMA CopyKnown ==
  ASSUME ClipboardInv, CalmCopies, LastKnown, NEW s \in Screen, Copy(s), UNCHANGED setting
  PROVE  LastKnown'
<1>1. /\ Typed /\ GoneInv /\ MovesInv /\ connected \subseteq Client /\ Home \notin connected
      /\ activeScreen \in connected \union {Home} /\ NoticesEveryCopy /\ InFocus
      /\ content \in [Screen -> Data] /\ copies \in Nat /\ Client \subseteq Screen
  <2>1. content \in [Screen -> Data] /\ copies \in Data
    BY CalmFacts DEF Typed, ClipboardTypeOK
  <2>2. Data \subseteq Nat
    BY CopyAssumption DEF Data
  <2> QED BY <2>1, <2>2, CalmFacts
<1>2. /\ s = activeScreen /\ (s # Home => clientActive[s]) /\ Quiet
      /\ content' = [content EXCEPT ![s] = copies + 1] /\ copies' = copies + 1
      /\ unnoticed' = unnoticed \union {s}
      /\ UNCHANGED <<connected, m_clipboardOwner, m_clipboardSeqNum, m_clipboardData, dirty, events,
                     seqNum, ownClipboard, sentClipboard, clientEvents, toClient, toServer,
                     clientActive, activeScreen>>
  BY <1>1 DEF Copy, InFocus, peerVars, clipVars, ownerVars, cursorVars
<1>3. /\ unnoticed = {} /\ \A Z : NoneIn(events, Z)
      /\ \A c \in Client : \A Z : /\ NoneIn(clientEvents[c], Z) /\ NoneIn(toClient[c], Z)
                                  /\ NoneIn(toServer[c], Z)
      /\ \A Y, Z : Leads(events, Y, Z)
      /\ \A c \in Client : \A Y, Z : Leads(toServer[c], Y, Z)
  BY <1>1, <1>2, QuietFacts
<1>4. /\ LastIsOwners /\ activeScreen \notin dirty
      /\ m_clipboardOwner # activeScreen => m_clipboardData = copies
  BY <1>2, RestIsShared
<1>5. ~NoGrab'
  BY <1>2 DEF NoGrab
<1>6. Undisturbed(s)' /\ content'[s] = copies'
  <2>1. s # Home => s \in Client
    BY <1>1, <1>2
  <2> QED BY <2>1, <1>1, <1>2, <1>3, <1>4 DEF Undisturbed
<1>7. ASSUME s # Home
      PROVE  /\ BringsNoOther(s)' /\ BehindGrab(s)' /\ clientActive'[s]
             /\ NoneIn(toServer'[s], {}) /\ \A n : NoneIn(toServer'[s], MessagesNumbered(n))
             /\ \A n : NoneIn(events', GrabsNumbered(s, n))
  <2>1. s \in Client
    BY <1>1, <1>2, <1>7
  <2>2. Leads(clientEvents'[s], Reports, Uploads)
    BY <2>1, <1>2, <1>3 DEF Leads, NoneIn
  <2> QED BY <2>1, <2>2, <1>2, <1>3, <1>7 DEF BringsNoOther, BehindGrab
<1>8. LastAt(s)'
  BY <1>2, <1>6, <1>7 DEF LastAt
<1>9. m_clipboardOwner # s =>
        Undisturbed(m_clipboardOwner)' /\ m_clipboardData = content'[m_clipboardOwner]
  <2> SUFFICES ASSUME m_clipboardOwner # s
               PROVE  /\ Undisturbed(m_clipboardOwner)'
                      /\ m_clipboardData = content'[m_clipboardOwner]
    OBVIOUS
  <2>1. Undisturbed(m_clipboardOwner) /\ content[m_clipboardOwner] = copies
    BY <1>4 DEF LastIsOwners, LastAt
  <2>2. Undisturbed(m_clipboardOwner)'
    BY <2>1, <1>2 DEF Undisturbed
  <2>3. content'[m_clipboardOwner] = copies /\ m_clipboardData = copies
    BY <2>1, <1>1, <1>2, <1>4 DEF Undisturbed
  <2> QED BY <2>2, <2>3
<1>10. copies' # Empty
  BY <1>1, <1>2 DEF Empty
<1>11. LastIsOf(s)'
  BY <1>2, <1>4, <1>7, <1>8, <1>9, <1>10 DEF LastIsOf
<1>12. \A t : GrabOf(t)' => t = s
  <2>1. NoReports' /\ NoMessages' /\ NoneIn(events', Grabs)
    BY <1>2, <1>3 DEF NoReports, NoMessages
  <2>2. GrabOf(s)'
    BY <2>1, <1>2, <1>3 DEF GrabOf, Unnoticed
  <2> QED BY <2>2, OneStageNext
<1> QED BY <1>5, <1>11, <1>12 DEF LastKnown

LEMMA NoticeKnown ==
  ASSUME ClipboardInv, CalmCopies, LastKnown, NEW s \in Screen, Notice(s), UNCHANGED setting
  PROVE  LastKnown'
<1>1. /\ Typed /\ GoneInv /\ StageInv /\ connected \subseteq Client /\ Home \notin connected
      /\ events \in Seq(ServerEvent) /\ s \in connected \union {Home}
      /\ s \in unnoticed /\ unnoticed' = unnoticed \ {s}
      /\ UNCHANGED <<content, connected, copies, m_clipboardOwner, m_clipboardSeqNum, m_clipboardData,
                     dirty, seqNum, ownClipboard, sentClipboard, toClient, toServer, activeScreen,
                     clientActive, proxyClip>>
  <2>1. Typed /\ GoneInv
    BY CalmFacts
  <2> QED BY <2>1, CalmFacts, ServedOnly
          DEF Notice, screenVars, peerVars, clipVars, ownerVars, cursorVars
<1>2. Unnoticed(s) /\ GrabOf(s) /\ unnoticed = {s} /\ NoReports /\ NoMessages /\ NoneIn(events, Grabs)
  BY <1>1, StageFacts DEF GrabOf, Unnoticed
<1>3. LastIsOf(s)
  BY <1>1, <1>2 DEF LastKnown
<1>4. LastAt(s) /\ Undisturbed(s) /\ content[s] = copies
  BY <1>3 DEF LastIsOf, LastAt
<1>5. CASE s = Home
  <2>1. PICK e \in ServerEvent : /\ e = Grabbed(Home, primarySeq)
                                 /\ e.type = "grabbed" /\ e.screen = Home
    BY <1>1, TypesUnderway, NewServerEvent DEF Typed
  <2>2. events' = Append(events, e) /\ clientEvents' = clientEvents
    BY <1>5, <2>1 DEF Notice
  <2>3. e \in Grabs /\ e \in GrabsOf(Home) /\ \A c : e \notin SendingsTo(c)
    BY <2>1, ServerKinds
  <2>4. \A c : NoneIn(events, SendingsTo(c)) => NoneIn(events', SendingsTo(c))
    BY <2>2, <2>3, <1>1, Added
  <2>5. OneIn(events', Grabs) /\ ~NoneIn(events', GrabsOf(Home))
    BY <2>2, <2>3, <1>1, <1>2, Added
  <2>6. Posted(Home)' /\ GrabOf(Home)'
    BY <2>2, <2>5, <1>1, <1>2, <1>5 DEF GrabOf, Posted, NoReports, NoMessages
  <2>7. \A t : GrabOf(t)' => t = Home
    BY <2>6, OneStageNext
  <2>8. ~NoGrab'
    BY <2>6, NoStageNext
  <2>9. \A t : Undisturbed(t) => Undisturbed(t)'
    BY <2>4, <1>1 DEF Undisturbed
  <2>10. LastAt(Home)'
    BY <2>9, <1>1, <1>4, <1>5 DEF LastAt
  <2>11. LastIsOf(Home)'
    <3>1. Home \notin unnoticed'
      BY <1>1, <1>5
    <3> QED BY <3>1, <2>9, <2>10, <1>1, <1>3, <1>5 DEF LastIsOf
  <2> QED BY <2>7, <2>8, <2>11 DEF LastKnown
<1>6. CASE s # Home
  <2>1. s \in Client /\ clientEvents[s] \in Seq(ClientEvent)
    BY <1>1, <1>6 DEF Typed, QueueTypes
  <2>2. PICK e \in ClientEvent : e = Grabbed(s, 0) /\ e \in Reports /\ e \notin Uploads
    BY <2>1, ClientKinds
  <2>3. /\ events' = events /\ clientEvents'[s] = Append(clientEvents[s], e)
        /\ \A c \in Client \ {s} : clientEvents'[c] = clientEvents[c]
    BY <1>6, <2>1, <2>2, <1>1 DEF Notice, Typed, QueueTypes
  <2>4. OneIn(clientEvents'[s], Reports)
    BY <2>1, <2>2, <2>3, <1>2, Added DEF NoReports
  <2>5. Reported(s)' /\ GrabOf(s)'
    BY <2>1, <2>3, <2>4, <1>1, <1>2 DEF GrabOf, Reported, NoReports, NoMessages
  <2>6. (\A t : GrabOf(t)' => t = s) /\ ~NoGrab'
    BY <2>5, OneStageNext, NoStageNext
  <2>7. \A t : Undisturbed(t) => Undisturbed(t)'
    BY <2>3, <1>1 DEF Undisturbed
  <2>8. \A Z : Z \subseteq Uploads => (NoneIn(clientEvents[s], Z) <=> NoneIn(clientEvents'[s], Z))
    BY <2>1, <2>2, <2>3, Added
  <2>9. BringsNoOther(s)' /\ \A n : Brings(s, n) => Brings(s, n)'
    <3>1. BringsNoOther(s)
      BY <1>4, <1>6 DEF LastAt
    <3>2. /\ Uploads \ UploadsOf(content[s]) \subseteq Uploads
          /\ \A n : NewUploads(content[s], n) \subseteq Uploads
      BY DEF NewUploads, UploadsOf
    <3>3. BringsNoOther(s)'
      BY <3>1, <3>2, <2>3, <2>8, <1>1 DEF BringsNoOther
    <3>4. \A n : Brings(s, n) => Brings(s, n)'
      BY <3>2, <2>3, <2>8, <1>1 DEF Brings
    <3> QED BY <3>3, <3>4
  <2>10. BehindGrab(s)'
    <3>1. BehindGrab(s)
      BY <1>3, <1>6 DEF LastIsOf
    <3>2. Leads(clientEvents[s], Reports, Uploads) => Leads(clientEvents'[s], Reports, Uploads)
      BY <2>1, <2>2, <2>3, Added
    <3> QED BY <3>1, <3>2, <2>3, <1>1 DEF BehindGrab, HasTold
  <2>11. LastAt(s)'
    BY <2>7, <2>9, <1>1, <1>4, <1>6 DEF LastAt
  <2>12. s \notin unnoticed'
    BY <1>1
  <2>13. \A n : CountsFrom(s, n) => CountsFrom(s, n)'
    BY <1>1 DEF CountsFrom
  <2>14. LastIsOf(s)'
    BY <2>3, <2>7, <2>9, <2>10, <2>11, <2>12, <2>13, <1>1, <1>3, <1>6 DEF LastIsOf
  <2> QED BY <2>6, <2>14 DEF LastKnown
<1> QED BY <1>5, <1>6


\* Steps that do not further a grab.
LEMMA KnownFrame ==
  ASSUME Typed, StageInv, LastKnown, events' \in Seq(ServerEvent), StageSame, connected' \subseteq Client,
         NoGrab /\ LastIsOwners => LastIsOwners',
         \A s \in connected \union {Home} : GrabOf(s) /\ LastIsOf(s) => LastIsOf(s)'
  PROVE  LastKnown'
<1>1. NoGrab' => LastIsOwners'
  BY StageBack DEF LastKnown
<1>2. ASSUME NEW s \in connected' \union {Home}, GrabOf(s)'
      PROVE  LastIsOf(s)'
  <2>1. GrabOf(s)
    BY <1>2, StageBack DEF Screen
  <2>2. PICK t \in connected \union {Home} : GrabOf(t)
    BY <2>1, NoStage DEF StageInv
  <2>3. s = t
    BY <2>1, <2>2, OneStage
  <2> QED BY <2>2, <2>3 DEF LastKnown
<1> QED BY <1>1, <1>2 DEF LastKnown

LEMMA SendKnown ==
  ASSUME ClipboardInv, CalmCopies, LastKnown, SendClipboard \/ DispatchToNobody, UNCHANGED setting
  PROVE  LastKnown'
<1>1. PICK e : e = Head(events)
  OBVIOUS
<1>2. PICK q : q = Tail(events)
  OBVIOUS
<1>3. /\ Typed /\ StageInv /\ connected \subseteq Client /\ Home \notin connected
      /\ events \in Seq(ServerEvent) /\ events # << >> /\ e \in ServerEvent
      /\ e.type \in {"sending", "gone"} /\ events' = q /\ q \in Seq(ServerEvent)
  BY <1>1, <1>2, CalmFacts, TypesUnderway
     DEF SendClipboard, DispatchToNobody, DeliversNothing, Typed
<1>4. /\ UNCHANGED <<content, unnoticed, copies, connected, m_clipboardOwner, m_clipboardSeqNum,
                     m_clipboardData, dirty, seqNum, ownClipboard, sentClipboard, clientEvents,
                     toServer, activeScreen, clientActive, proxyClip>>
  BY DEF SendClipboard, DispatchToNobody, DeliversNothing, screenVars, copyVars, peerVars,
         clipVars, ownerVars, cursorVars
<1>5. \A c : e \notin GrabsOf(c) /\ e \notin ChangesOf(c)
  BY <1>3, ServerKinds
<1>6. \A c : EventsKept(events, events', c) /\ SameGrabs(events, events', c)
  BY <1>1, <1>2, <1>3, <1>5, EventsKeptBy, TailSame
<1>7. ASSUME NEW c \in connected, NoneIn(events, SendingsTo(c))
      PROVE  toClient'[c] = toClient[c] /\ NoneIn(events', SendingsTo(c))
  <2>1. e \notin SendingsTo(c) /\ NoneIn(events', SendingsTo(c))
    BY <1>1, <1>2, <1>3, <1>7, Removed
  <2>2. e.type = "gone" \/ e.screen # c
    BY <2>1, <1>3, ServerKinds
  <2> QED BY <2>1, <2>2, <1>1, <1>3, <1>7
          DEF SendClipboard, DispatchToNobody, Typed, QueueTypes
<1>8. ASSUME NEW c, Undisturbed(c)
      PROVE  Untouched(c) /\ (c # Home => Unmoved(c))
  <2>1. c # Home => /\ toClient'[c] = toClient[c] /\ NoneIn(events', SendingsTo(c))
                    /\ NoneIn(toClient[c], TakeMessages)
    BY <1>7, <1>8 DEF Undisturbed
  <2>2. Untouched(c)
    BY <2>1, <1>4, <1>8 DEF Undisturbed, Untouched
  <2>3. c # Home => Unmoved(c)
    BY <2>1, <1>4, <1>6 DEF Unmoved, CountsFrom
  <2> QED BY <2>2, <2>3
<1>9. StageSame
  BY <1>4, <1>6 DEF StageSame
<1>10. ASSUME LastIsOwners
       PROVE  LastIsOwners'
  <2>1. Untouched(m_clipboardOwner) /\ (m_clipboardOwner # Home => Unmoved(m_clipboardOwner))
    BY <1>8, <1>10 DEF LastIsOwners, LastAt
  <2>2. m_clipboardOwner = Home => m_clipboardData' = copies \/ activeScreen' = Home
    BY <1>4, <1>10 DEF LastIsOwners, LastAt
  <2> QED BY <2>1, <2>2, <1>3, <1>4, <1>10, OwnersFrame
<1>11. ASSUME NEW s \in connected \union {Home}, LastIsOf(s)
       PROVE  LastIsOf(s)'
  <2>1. Untouched(s) /\ (s # Home => Unmoved(s)) /\ Untouched(m_clipboardOwner)
    BY <1>8, <1>11 DEF LastIsOf, LastAt
  <2>2. /\ s = Home /\ m_clipboardOwner = Home => m_clipboardData' = copies \/ activeScreen' = Home
        /\ s = Home /\ Home \in unnoticed' => activeScreen' = Home
        /\ activeScreen' \notin dirty'
    BY <1>4, <1>11 DEF LastIsOf, LastAt
  <2> QED BY <2>1, <2>2, <1>3, <1>4, <1>11, GrabsFrame
<1> QED BY <1>3, <1>4, <1>9, <1>10, <1>11, KnownFrame

LEMMA ClientSendsKnown ==
  ASSUME ClipboardInv, CalmCopies, LastKnown, NEW d \in Client, ClientSends(d), UNCHANGED setting
  PROVE  LastKnown'
<1>1. PICK e : e = Head(clientEvents[d])
  OBVIOUS
<1>2. PICK q : q = Tail(clientEvents[d])
  OBVIOUS
<1>3. /\ Typed /\ StageInv /\ connected \subseteq Client /\ Home \notin connected /\ d # Home
      /\ events \in Seq(ServerEvent)
      /\ clientEvents[d] \in Seq(ClientEvent) /\ clientEvents[d] # << >> /\ q \in Seq(ClientEvent)
      /\ e \in ClientEvent /\ e \in Uploads /\ e \notin Reports
      /\ e.seq \in Number /\ e.data \in Data
  BY <1>1, <1>2, CalmFacts, TypesUnderway, ClientKinds, HomeAssumption
     DEF ClientSends, Typed
<1>4. /\ UNCHANGED <<content, unnoticed, copies, connected, m_clipboardOwner, m_clipboardSeqNum,
                     m_clipboardData, dirty, seqNum, events, toClient, ownClipboard, sentClipboard,
                     activeScreen, clientActive, proxyClip>>
      /\ clientEvents'[d] = q
      /\ \A c \in Client \ {d} : clientEvents'[c] = clientEvents[c] /\ toServer'[c] = toServer[c]
  BY <1>2, <1>3 DEF ClientSends, screenVars, copyVars, peerVars, clipVars, ownerVars, cursorVars, Typed,
              QueueTypes
<1>5. PICK m \in ToServer : /\ m = Put(e.seq, e.data) /\ m \in DataMessages /\ m \notin GrabMessages
                            /\ m.seq = e.seq /\ m.data = e.data
  BY <1>3, ToServerKinds
<1>6. toServer[d] \in Seq(ToServer) /\ toServer'[d] = Append(toServer[d], m)
  BY <1>1, <1>3, <1>5 DEF ClientSends, Typed, QueueTypes
<1>7. /\ \A Z : NoneIn(clientEvents[d], Z) <=> e \notin Z /\ NoneIn(q, Z)
      /\ \A Y, Z : Leads(clientEvents[d], Y, Z) => e \notin Z
  BY <1>1, <1>2, <1>3, Removed
<1>8. /\ \A Z : NoneIn(toServer'[d], Z) <=> NoneIn(toServer[d], Z) /\ m \notin Z
      /\ Leads(toServer[d], GrabMessages, DataMessages) /\ ~NoneIn(toServer[d], GrabMessages)
           => Leads(toServer'[d], GrabMessages, DataMessages)
  BY <1>6, Added
<1>9. StageSame
  BY <1>3, <1>4, <1>5, <1>7, <1>8, SameAfterBoth DEF StageSame
<1>10. \A c : Undisturbed(c) => Untouched(c)
  BY <1>4 DEF Undisturbed, Untouched
<1>11. ASSUME NEW c \in connected, c # d
       PROVE  Unmoved(c)
  BY <1>3, <1>4, <1>11, EventsKeptBy DEF Unmoved, CountsFrom
<1>12. ASSUME BringsNoOther(d)
       PROVE  BringsNoOther(d)' /\ \A n : Brings(d, n) => Brings(d, n)'
  <2>1. e.data = content[d]
    BY <1>3, <1>7, <1>12 DEF BringsNoOther, UploadsOf
  <2>2. m \in DataOf(content[d]) /\ m \notin DataMessages \ DataOf(content[d])
    BY <2>1, <1>5 DEF DataOf
  <2>3. BringsNoOther(d)'
    BY <2>2, <1>4, <1>7, <1>8, <1>12 DEF BringsNoOther
  <2>4. ASSUME NEW n, e \in NewUploads(content[d], n)
        PROVE  m \in NewData(content[d], n)
    BY <2>2, <2>4, <1>5 DEF NewUploads, NewData
  <2>5. \A n : Brings(d, n) => Brings(d, n)'
    BY <2>4, <1>4, <1>7, <1>8 DEF Brings
  <2> QED BY <2>3, <2>5
<1>13. \A n : CountsFrom(d, n) => CountsFrom(d, n)'
  BY <1>4 DEF CountsFrom
<1>14. ASSUME LastIsOwners
       PROVE  LastIsOwners'
  <2>1. LastAt(m_clipboardOwner) /\ Undisturbed(m_clipboardOwner) /\ Untouched(m_clipboardOwner)
          /\ m_clipboardOwner \in connected \union {Home}
    BY <1>10, <1>14 DEF LastIsOwners, LastAt, Undisturbed
  <2>2. CASE m_clipboardOwner # d
    <3>1. m_clipboardOwner = Home => m_clipboardData' = copies \/ activeScreen' = Home
      BY <2>1, <1>4 DEF LastAt
    <3> QED BY <3>1, <2>1, <2>2, <1>3, <1>4, <1>11, <1>14, OwnersFrame DEF LastIsOwners
  <2>3. CASE m_clipboardOwner = d
    <3>1. /\ BringsNoOther(d) /\ CountsFrom(d, m_clipboardSeqNum)
          /\ m_clipboardData = copies \/ Brings(d, m_clipboardSeqNum)
      BY <2>1, <2>3, <1>3, <1>14 DEF LastIsOwners, LastAt
    <3>2. LastAt(d)'
      BY <2>1, <2>3, <3>1, <1>3, <1>4, <1>12 DEF LastAt, Undisturbed
    <3>3. CountsFrom(d, m_clipboardSeqNum)' /\ (m_clipboardData = copies \/ Brings(d, m_clipboardSeqNum)')
      BY <3>1, <1>4, <1>12 DEF CountsFrom
    <3> QED BY <2>3, <3>2, <3>3, <1>4, <1>14 DEF LastIsOwners
  <2> QED BY <2>2, <2>3
<1>15. ASSUME NEW s \in connected \union {Home}, LastIsOf(s)
       PROVE  LastIsOf(s)'
  <2>1. LastAt(s) /\ Untouched(s) /\ Untouched(m_clipboardOwner)
    <3>1. LastAt(s) /\ Undisturbed(s) /\ Undisturbed(m_clipboardOwner)
      BY <1>15 DEF LastIsOf, LastAt
    <3> QED BY <3>1, <1>10
  <2>2. CASE s # d
    <3>1. /\ s = Home /\ m_clipboardOwner = Home => m_clipboardData' = copies \/ activeScreen' = Home
          /\ s = Home /\ Home \in unnoticed' => activeScreen' = Home
          /\ activeScreen' \notin dirty'
      BY <1>4, <1>15 DEF LastIsOf, LastAt
    <3>2. s = Home \/ Unmoved(s)
      BY <2>2, <1>11
    <3> QED BY <2>1, <3>1, <3>2, <1>3, <1>4, <1>15, GrabsFrame
  <2>3. CASE s = d
    <3>1. BringsNoOther(d) /\ BehindGrab(d)
      BY <2>1, <2>3, <1>3, <1>15 DEF LastIsOf, LastAt
    <3>2. LastAt(d)'
      BY <2>1, <2>3, <3>1, <1>3, <1>4, <1>12 DEF LastAt, Undisturbed
    <3>3. HasTold(d) /\ HasTold(d)'
      BY <3>1, <1>3, <1>4, <1>5, <1>7, <1>8 DEF BehindGrab, HasTold
    <3>4. BehindGrab(d)'
      BY <3>1, <3>3, <1>4, <1>8 DEF BehindGrab, HasTold
    <3>5. \A n : m \notin MessagesNumbered(n)
      BY <1>5 DEF MessagesNumbered
    <3>6. \A n \in Number :
            (~NoneIn(toServer'[d], MessagesNumbered(n)) \/ ~NoneIn(events', GrabsNumbered(d, n)))
              => CountsFrom(d, n)' /\ Brings(d, n)'
      BY <2>3, <3>1, <3>5, <1>3, <1>4, <1>8, <1>12, <1>13, <1>15 DEF LastIsOf
    <3>7. m_clipboardOwner # d =>
            Undisturbed(m_clipboardOwner)' /\ m_clipboardData = content[m_clipboardOwner]
      BY <2>1, <2>3, <1>4, <1>15 DEF LastIsOf, Undisturbed
    <3> QED BY <2>3, <3>2, <3>4, <3>6, <3>7, <1>3, <1>4, <1>15 DEF LastIsOf
  <2> QED BY <2>2, <2>3
<1> QED BY <1>3, <1>4, <1>9, <1>14, <1>15, KnownFrame

LEMMA ConnectKnown ==
  ASSUME ClipboardInv, CalmCopies, LastKnown, NEW d \in Client, Connect(d), UNCHANGED setting
  PROVE  LastKnown'
<1>1. /\ d \notin connected /\ connected' = connected \union {d} /\ dirty' = dirty \union {d}
      /\ UNCHANGED <<unnoticed, copies, activeScreen, m_clipboardOwner, m_clipboardSeqNum,
                     m_clipboardData, events, clientEvents, toClient, toServer, clientActive>>
      /\ content' = [content EXCEPT ![d] = AfterGrab(d)]
      /\ seqNum' = [seqNum EXCEPT ![d] = 0]
      /\ ownClipboard' = ownClipboard \ {d}
      /\ sentClipboard' = [sentClipboard EXCEPT ![d] = NotSent]
      /\ proxyClip' = [proxyClip EXCEPT ![d] = Empty]
  BY DEF Connect, NewProxy, copyVars, cursorVars
<1>2. /\ Typed /\ StageInv /\ connected \subseteq Client /\ d # Home
      /\ events \in Seq(ServerEvent) /\ activeScreen \in connected \union {Home}
      /\ connected \union {Home} \subseteq Screen /\ Home \notin connected
  BY CalmFacts, HomeAssumption
<1>3. ASSUME NEW s \in connected \union {Home}
      PROVE  /\ Undisturbed(s) => Untouched(s)
             /\ s # Home => Unmoved(s)
  <2>1. s # d /\ s \in Screen
    BY <1>1, <1>2
  <2>2. content'[s] = content[s]
    BY <2>1, <1>1, <1>2 DEF Typed, ClipboardTypeOK
  <2>3. Undisturbed(s) => Untouched(s)
    BY <2>1, <2>2, <1>1 DEF Undisturbed, Untouched
  <2>4. ASSUME s # Home
        PROVE  Unmoved(s)
    <3>1. s \in Client
      BY <2>4, <1>2
    <3>2. seqNum'[s] = seqNum[s] /\ sentClipboard'[s] = sentClipboard[s] /\ proxyClip'[s] = proxyClip[s]
      BY <2>1, <3>1, <1>1, <1>2 DEF Typed, ClipboardTypeOK
    <3> QED BY <2>1, <3>2, <1>1, <1>2, EventsKeptBy DEF Unmoved, CountsFrom
  <2> QED BY <2>3, <2>4
<1>4. StageSame
  BY <1>1, SameAfterBoth DEF StageSame
<1>5. activeScreen # d
  BY <1>1, <1>2
<1>6. ASSUME LastIsOwners
      PROVE  LastIsOwners'
  <2>1. Undisturbed(m_clipboardOwner) /\ m_clipboardOwner \in connected \union {Home}
    BY <1>6 DEF LastIsOwners, LastAt, Undisturbed
  <2>2. m_clipboardOwner = Home => m_clipboardData' = copies \/ activeScreen' = Home
    BY <1>1, <1>6 DEF LastIsOwners, LastAt
  <2> QED BY <2>1, <2>2, <1>1, <1>2, <1>3, <1>5, <1>6, OwnersFrame
<1>7. ASSUME NEW s \in connected \union {Home}, LastIsOf(s)
      PROVE  LastIsOf(s)'
  <2>1. /\ Undisturbed(s) /\ Undisturbed(m_clipboardOwner)
        /\ m_clipboardOwner \in connected \union {Home}
    BY <1>7 DEF LastIsOf, LastAt, Undisturbed
  <2>2. /\ s = Home /\ m_clipboardOwner = Home => m_clipboardData' = copies \/ activeScreen' = Home
        /\ s = Home /\ Home \in unnoticed' => activeScreen' = Home
        /\ activeScreen' \notin dirty'
    BY <1>1, <1>5, <1>7 DEF LastIsOf, LastAt
  <2> QED BY <2>1, <2>2, <1>1, <1>2, <1>3, <1>7, GrabsFrame
<1> QED BY <1>1, <1>2, <1>4, <1>6, <1>7, KnownFrame


LEMMA SwitchKnown ==
  ASSUME ClipboardInv, CalmCopies, LastKnown, NEW dst \in Screen, Switch(dst), UNCHANGED setting
  PROVE  LastKnown'
<1> DEFINE flushed == activeScreen = Home /\ m_clipboardOwner = Home
                        /\ content[Home] # m_clipboardData
           data == IF flushed THEN content[Home] ELSE m_clipboardData
           stale == IF flushed THEN connected ELSE dirty
<1>0. /\ dst \in (connected \union {Home}) \ {activeScreen}
      /\ m_seqNum < setting.switches
      /\ activeScreen = Home => ReadyToLeave(Home)
      /\ toClient' = [c \in Client |->
                        IF c = activeScreen THEN Append(toClient[c], Leave)
                        ELSE IF c = dst THEN Append(toClient[c], Enter(m_seqNum + 1))
                        ELSE toClient[c]]
      /\ m_clipboardData' = data /\ dirty' = stale \ {dst} /\ activeScreen' = dst
      /\ IF dst \in stale THEN Delivers(dst, data, events) ELSE DeliversNothing(events)
      /\ UNCHANGED <<m_clipboardOwner, m_clipboardSeqNum>>
  BY DEF Switch
<1>1. /\ Typed /\ StageInv /\ NoticesEveryCopy /\ connected \subseteq Client /\ Home \notin connected
      /\ events \in Seq(ServerEvent) /\ connected \union {Home} \subseteq Screen
      /\ Client \subseteq Screen /\ Home \in Screen
  BY CalmFacts
<1>2. UNCHANGED <<unnoticed, copies, connected, seqNum, clientActive, ownClipboard, sentClipboard,
                  clientEvents, toServer>>
  BY <1>1, ClientsKeepContent
<1>3. data \in Data
  BY <1>1, TypesUnderway DEF Typed
<1>4. /\ flushed => m_clipboardOwner = Home /\ data = content[Home] /\ stale = connected
      /\ ~flushed => data = m_clipboardData /\ stale = dirty
      /\ ~flushed => \/ activeScreen # Home \/ m_clipboardOwner # Home
                     \/ m_clipboardData = content[Home]
      /\ flushed => content[Home] # m_clipboardData
  OBVIOUS
<1> HIDE DEF flushed, data, stale
<1>5. events' \in Seq(ServerEvent) /\ \A c : SameGrabs(events, events', c)
  <2>1. Delivers(dst, data, events) \/ DeliversNothing(events)
    BY <1>0
  <2>2. \A c : SameGrabs(events, events', c)
    BY <2>1, <1>1, <1>3, DeliversSame
  <2>3. events' \in Seq(ServerEvent)
    BY <2>1, <1>1, <1>3, DeliversTyped
  <2> QED BY <2>2, <2>3
<1>6. StageSame
  BY <1>2, <1>5 DEF StageSame
<1>7. ASSUME NEW u \in connected \union {Home}, u \notin stale, Undisturbed(u)
      PROVE  Untouched(u) /\ (u # Home => Unmoved(u))
  <2>1. u \in Screen /\ (u # Home => u \in Client)
    BY <1>1
  <2>2. /\ EventsKept(events, events', u) /\ content'[u] = content[u]
        /\ u \in Client => proxyClip'[u] = proxyClip[u]
    <3>1. CASE dst \in stale
      <4>1. Delivers(dst, data, events) /\ u # dst
        BY <3>1, <1>0, <1>7
      <4> QED BY <4>1, <2>1, <1>1, <1>3, DeliversKept
    <3>2. CASE dst \notin stale
      <4>1. DeliversNothing(events)
        BY <3>2, <1>0
      <4> QED BY <4>1, <2>1, <1>1, <1>3, DeliversKept
    <3> QED BY <3>1, <3>2
  <2>3. ASSUME u # Home
        PROVE  /\ NoneIn(toClient'[u], TakeMessages) /\ NoneIn(events', SendingsTo(u))
               /\ \A n \in Number : CountsFrom(u, n) => CountsFrom(u, n)'
    <3>1. /\ NoneIn(toClient[u], TakeMessages) /\ NoneIn(events, SendingsTo(u))
          /\ u \in Client /\ toClient[u] \in Seq(ToClient)
      BY <2>1, <2>3, <1>1, <1>7 DEF Undisturbed, Typed, QueueTypes
    <3>2. NoneIn(events', SendingsTo(u))
      BY <3>1, <2>2 DEF EventsKept
    <3>3. /\ m_seqNum \in Nat /\ seqNum[u] \in Nat /\ seqNum[u] <= m_seqNum /\ Number \subseteq Nat
          /\ m_seqNum + 1 \in Number \ {0}
      <4>1. m_seqNum \in 0 .. MaxSwitches /\ seqNum[u] \in 0 .. m_seqNum
        BY <3>1, <1>1 DEF Typed, ClipboardTypeOK
      <4>2. setting.switches \in 0 .. MaxSwitches /\ MaxSwitches \in Nat
        BY <1>1, SettingAssumption, CopyAssumption DEF Typed, ClipboardTypeOK
      <4> QED BY <4>1, <4>2, <1>0 DEF Number
    <3>4. CASE u = activeScreen
      <4>1. PICK m \in ToClient : m = Leave /\ m.type = "leave"
        BY NewToClient
      <4>2. toClient'[u] = Append(toClient[u], m)
        BY <4>1, <3>1, <3>4, <1>0
      <4>3. m \notin TakeMessages /\ \A n : m \notin EarlierEnters(n)
        BY <4>1, ToClientKinds
      <4>4. \A Z : NoneIn(toClient[u], Z) /\ m \notin Z => NoneIn(toClient'[u], Z)
        BY <4>2, <3>1, Added
      <4>5. NoneIn(toClient'[u], TakeMessages)
        BY <4>3, <4>4, <3>1
      <4> QED BY <4>3, <4>4, <4>5, <3>2, <1>2 DEF CountsFrom
    <3>5. CASE u # activeScreen /\ u = dst
      <4>1. PICK m \in ToClient : m = Enter(m_seqNum + 1) /\ m.type = "enter" /\ m.seq = m_seqNum + 1
        BY <3>3, NewToClient
      <4>2. toClient'[u] = Append(toClient[u], m)
        BY <4>1, <3>1, <3>5, <1>0
      <4>3. m \notin TakeMessages
        BY <4>1, ToClientKinds
      <4>4. \A Z : NoneIn(toClient[u], Z) /\ m \notin Z => NoneIn(toClient'[u], Z)
        BY <4>2, <3>1, Added
      <4>5. ASSUME NEW n \in Number, CountsFrom(u, n)
            PROVE  CountsFrom(u, n)'
        <5>1. ~(m.seq < n)
          BY <4>1, <4>5, <3>3 DEF CountsFrom
        <5>2. m \notin EarlierEnters(n)
          BY <5>1, ToClientKinds
        <5> QED BY <5>2, <4>4, <4>5, <1>2 DEF CountsFrom
      <4>6. NoneIn(toClient'[u], TakeMessages)
        BY <4>3, <4>4, <3>1
      <4> QED BY <4>5, <4>6, <3>2
    <3>6. CASE u # activeScreen /\ u # dst
      <4>1. toClient'[u] = toClient[u]
        BY <3>1, <3>6, <1>0
      <4> QED BY <4>1, <3>1, <3>2, <1>2 DEF CountsFrom
    <3> QED BY <3>4, <3>5, <3>6
  <2>4. u \notin dirty'
    BY <1>0, <1>7
  <2>5. Untouched(u)
    BY <2>2, <2>3, <2>4, <1>2, <1>7 DEF Untouched
  <2>6. u # Home => Unmoved(u)
    BY <2>1, <2>2, <2>3, <1>2 DEF Unmoved
  <2> QED BY <2>5, <2>6
<1>8. activeScreen' \notin dirty'
  BY <1>0
<1>9. ASSUME m_clipboardOwner = Home, content[Home] = copies,
             m_clipboardData = copies \/ activeScreen = Home
      PROVE  m_clipboardData' = copies
  BY <1>0, <1>4, <1>9
<1>10. ASSUME LastIsOwners
       PROVE  LastIsOwners'
  <2>1. LastAt(m_clipboardOwner) /\ Undisturbed(m_clipboardOwner)
          /\ content[m_clipboardOwner] = copies
    BY <1>10 DEF LastIsOwners, LastAt
  <2>2. m_clipboardOwner \in connected \union {Home} /\ m_clipboardOwner \notin dirty
    BY <2>1 DEF Undisturbed
  <2>3. m_clipboardOwner \notin stale
    BY <2>2, <1>1, <1>4
  <2>4. Untouched(m_clipboardOwner) /\ (m_clipboardOwner # Home => Unmoved(m_clipboardOwner))
    BY <2>1, <2>2, <2>3, <1>7
  <2>5. m_clipboardOwner = Home => m_clipboardData' = copies
    BY <2>1, <1>9 DEF LastAt
  <2>6. m_clipboardData' = m_clipboardData \/ m_clipboardData' = copies
    BY <2>5, <1>0, <1>4
  <2> QED BY <2>4, <2>5, <2>6, <1>0, <1>1, <1>2, <1>8, <1>10, OwnersFrame
<1>11. ASSUME NEW s \in connected \union {Home}, LastIsOf(s)
       PROVE  LastIsOf(s)'
  <2>1. /\ LastAt(s) /\ Undisturbed(s) /\ Undisturbed(m_clipboardOwner) /\ content[s] = copies
        /\ m_clipboardOwner # s => m_clipboardData = content[m_clipboardOwner]
        /\ s = Home /\ Home \in unnoticed => activeScreen = Home
    BY <1>11 DEF LastIsOf, LastAt
  <2>2. /\ s \notin dirty /\ m_clipboardOwner \notin dirty
        /\ m_clipboardOwner \in connected \union {Home}
    BY <2>1 DEF Undisturbed
  <2>3. m_clipboardOwner # s => ~flushed
    BY <2>1, <1>4
  <2>4. s \notin stale /\ m_clipboardOwner \notin stale
    BY <2>2, <2>3, <1>1, <1>4
  <2>5. /\ Untouched(s) /\ (s # Home => Unmoved(s)) /\ Untouched(m_clipboardOwner)
    BY <2>1, <2>2, <2>4, <1>7
  <2>6. m_clipboardOwner # s => m_clipboardData' = m_clipboardData
    BY <2>3, <1>0, <1>4
  <2>7. s = Home /\ m_clipboardOwner = Home => m_clipboardData' = copies
    BY <2>1, <1>9 DEF LastAt
  <2>8. s = Home /\ Home \in unnoticed' => activeScreen' = Home
    <3>1. activeScreen = Home => Home \notin unnoticed
      BY <1>0, <1>1 DEF ReadyToLeave, NoticesEveryCopy
    <3> QED BY <3>1, <2>1, <1>2
  <2> QED BY <2>5, <2>6, <2>7, <2>8, <1>0, <1>1, <1>2, <1>8, <1>11, GrabsFrame
<1> QED BY <1>1, <1>2, <1>5, <1>6, <1>10, <1>11, KnownFrame

LEMMA GrabbedKnown ==
  ASSUME ClipboardInv, CalmCopies, LastKnown, handleClipboardGrabbed, UNCHANGED setting
  PROVE  LastKnown'
<1>1. PICK e : e = Head(events)
  OBVIOUS
<1>2. PICK q : q = Tail(events)
  OBVIOUS
<1>3. /\ Typed /\ GoneInv /\ Focused /\ StageInv /\ events \in Seq(ServerEvent)
      /\ connected \subseteq Client /\ Home \notin connected /\ Client \subseteq Screen
      /\ Home \in Screen /\ activeScreen \in connected \union {Home}
  BY CalmFacts
<1>4. /\ events # << >> /\ e \in ServerEvent /\ e.type = "grabbed"
      /\ e.screen \in connected \union {Home} /\ e.seq \in Number /\ q \in Seq(ServerEvent)
  BY <1>1, <1>2, <1>3, TypesUnderway, ServedOnly, ServerEventTypes
     DEF handleClipboardGrabbed, Typed
<1>5. PICK s \in connected \union {Home}, n \in Number : s = e.screen /\ n = e.seq
  BY <1>4
<1>6. e \in Grabs /\ e \in GrabsOf(s) /\ e \in GrabsNumbered(s, n)
  BY <1>4, <1>5, ServerKinds DEF GrabsNumbered
<1>7. ~NoneIn(events, GrabsOf(s)) /\ ~NoneIn(events, GrabsNumbered(s, n))
  BY <1>1, <1>3, <1>4, <1>6, Removed
<1>8. Posted(s) /\ GrabOf(s)
  BY <1>3, <1>7, StageFacts DEF GrabOf
<1>9. LastIsOf(s) /\ LastAt(s) /\ Undisturbed(s) /\ content[s] = copies /\ copies # Empty
  BY <1>8 DEF LastKnown, LastIsOf, LastAt
<1>10. ~(s # Home /\ IsOld(s, n))
  <2>1. e \notin OldGrabs(m_clipboardSeqNum)
    BY <1>1, <1>3, <1>4, Removed DEF Focused
  <2> QED BY <2>1, <1>4, <1>5, ServerKinds DEF IsOld
<1> DEFINE sends == s = Home /\ activeScreen # Home /\ content[Home] # Empty
<1>11. /\ m_clipboardOwner' = s /\ m_clipboardSeqNum' = n
       /\ toClient' = [c \in Client |-> IF c \in connected \ {s} THEN Append(toClient[c], Grab(0))
                                        ELSE toClient[c]]
       /\ IF sends
          THEN /\ Shares(Home, content[Home], activeScreen)
               /\ Delivers(activeScreen, content[Home], q)
          ELSE /\ m_clipboardData' = Empty
               /\ dirty' = (connected \union {Home}) \ {s}
               /\ IF s = Home THEN DeliversNothing(q) ELSE Delivers(Home, AfterGrab(Home), q)
       /\ UNCHANGED activeScreen
  BY <1>1, <1>2, <1>5, <1>10 DEF handleClipboardGrabbed, cursorVars
<1>12. /\ sends => s = Home /\ activeScreen # Home
       /\ ~sends /\ s = Home => activeScreen = Home
  BY <1>9
<1> HIDE DEF sends
<1>13. UNCHANGED <<unnoticed, copies, connected, seqNum, clientActive, ownClipboard, sentClipboard,
                   clientEvents, toServer>>
  BY <1>3, ClientsKeepContent
<1>14. /\ content[Home] \in Data /\ AfterGrab(Home) \in Data
       /\ activeScreen \in Screen /\ s \in Screen
  BY <1>3, TypesUnderway DEF Typed
<1>15. /\ EventsKept(q, events', s) /\ content'[s] = content[s]
       /\ s \in Client => proxyClip'[s] = proxyClip[s]
       /\ \A Z : NoneIn(q, Z) /\ Z \subseteq Grabs => NoneIn(events', Z)
  <2>1. CASE sends
    <3>1. Delivers(activeScreen, content[Home], q) /\ s # activeScreen
      BY <2>1, <1>11, <1>12
    <3>2. /\ EventsKept(q, events', s) /\ content'[s] = content[s]
          /\ s \in Client => proxyClip'[s] = proxyClip[s]
      BY <3>1, <1>3, <1>4, <1>14, DeliversKept
    <3>3. \A Z : NoneIn(q, Z) /\ Z \subseteq Grabs => NoneIn(events', Z)
      BY <3>1, <1>3, <1>4, <1>14, DeliversSame
    <3> QED BY <3>2, <3>3
  <2>2. CASE ~sends /\ s = Home
    <3>1. DeliversNothing(q)
      BY <2>2, <1>11
    <3> QED BY <3>1, <1>3, <1>4, <1>14, DeliversKept, DeliversSame
  <2>3. CASE ~sends /\ s # Home
    <3>1. Delivers(Home, AfterGrab(Home), q) /\ s # Home
      BY <2>3, <1>11
    <3> QED BY <3>1, <1>3, <1>4, <1>14, DeliversKept, DeliversSame
  <2> QED BY <2>1, <2>2, <2>3
<1>16. /\ s \notin dirty'
       /\ activeScreen \in dirty' => m_clipboardData' = Empty /\ s # Home
       /\ s = Home => m_clipboardData' = copies \/ activeScreen = Home
  <2>1. CASE sends
    BY <2>1, <1>9, <1>11, <1>12 DEF Shares
  <2>2. CASE ~sends
    BY <2>2, <1>11, <1>12
  <2> QED BY <2>1, <2>2
<1>17. ASSUME s # Home
       PROVE  /\ NoneIn(events', SendingsTo(s)) /\ NoneIn(toClient'[s], TakeMessages)
              /\ BringsNoOther(s)' /\ CountsFrom(s, n)' /\ Brings(s, n)'
  <2>1. s \in Client
    BY <1>3, <1>17
  <2>2. NoneIn(events, SendingsTo(s)) /\ NoneIn(toClient[s], TakeMessages)
    BY <1>9, <1>17 DEF Undisturbed
  <2>3. NoneIn(events', SendingsTo(s))
    <3>1. NoneIn(q, SendingsTo(s))
      BY <2>2, <1>1, <1>2, <1>3, <1>4, Removed
    <3> QED BY <3>1, <1>15 DEF EventsKept
  <2>4. toClient'[s] = toClient[s]
    BY <2>1, <1>11
  <2>5. \A Z : Z \subseteq ChangesOf(s) => (NoneIn(events, Z) <=> NoneIn(events', Z))
    <3>1. ASSUME NEW Z, Z \subseteq ChangesOf(s)
          PROVE  NoneIn(events, Z) <=> NoneIn(events', Z)
      <4>1. e \notin Z
        BY <3>1, <1>4, ServerKinds
      <4>2. NoneIn(events, Z) <=> NoneIn(q, Z)
        BY <4>1, <1>1, <1>2, <1>3, <1>4, Removed
      <4>3. NoneIn(q, Z) <=> NoneIn(events', Z)
        BY <3>1, <1>15 DEF EventsKept
      <4> QED BY <4>2, <4>3
    <3> QED BY <3>1
  <2>6. ChangesOf(s) \subseteq ChangesOf(s) /\ NewChanges(s, n) \subseteq ChangesOf(s)
    BY DEF NewChanges
  <2>7. BringsNoOther(s) /\ CountsFrom(s, n) /\ Brings(s, n)
    BY <1>7, <1>9, <1>17 DEF LastAt, LastIsOf
  <2>8. BringsNoOther(s)'
    BY <2>1, <2>5, <2>6, <2>7, <1>13, <1>15 DEF BringsNoOther
  <2>9. Brings(s, n)'
    BY <2>1, <2>5, <2>6, <2>7, <1>13, <1>15 DEF Brings
  <2>10. CountsFrom(s, n)'
    BY <2>4, <2>7, <1>13 DEF CountsFrom
  <2> QED BY <2>2, <2>3, <2>4, <2>8, <2>9, <2>10
<1>18. Undisturbed(s)'
  BY <1>13, <1>16, <1>17 DEF Undisturbed
<1>19. LastAt(s)'
  BY <1>9, <1>11, <1>13, <1>15, <1>16, <1>17, <1>18 DEF LastAt
<1>20. LastIsOwners'
  <2>1. s # Home => /\ CountsFrom(s, m_clipboardSeqNum)' /\ Brings(s, m_clipboardSeqNum)'
    BY <1>11, <1>17 DEF CountsFrom, Brings
  <2> QED BY <2>1, <1>9, <1>11, <1>13, <1>16, <1>19 DEF LastIsOwners
<1>21. NoneIn(events', Grabs)
  <2>1. NoneIn(q, Grabs)
    BY <1>1, <1>2, <1>3, <1>4, <1>6, <1>8, Removed DEF Posted
  <2> QED BY <2>1, <1>15
<1>22. NoGrab'
  BY <1>8, <1>13, <1>21 DEF Posted, NoGrab, NoReports, NoMessages
<1>23. \A t : ~GrabOf(t)'
  BY <1>22, NoStageNext
<1> QED BY <1>20, <1>23 DEF LastKnown

LEMMA ChangedKnown ==
  ASSUME ClipboardInv, CalmCopies, LastKnown, handleClipboardChanged, UNCHANGED setting
  PROVE  LastKnown'
<1>1. PICK e : e = Head(events)
  OBVIOUS
<1>2. PICK q : q = Tail(events)
  OBVIOUS
<1>3. /\ Typed /\ GoneInv /\ Focused /\ StageInv /\ events \in Seq(ServerEvent)
      /\ connected \subseteq Client /\ Home \notin connected /\ Client \subseteq Screen
      /\ Home \in Screen /\ activeScreen \in connected \union {Home}
      /\ connected \union {Home} \subseteq Screen
  BY CalmFacts
<1>4. /\ events # << >> /\ e \in ServerEvent /\ e.type = "changed" /\ q \in Seq(ServerEvent)
      /\ e.screen \in connected \union {Home} /\ e.screen \in Client /\ e.seq \in Number
  BY <1>1, <1>2, <1>3, TypesUnderway, ServedOnly, ServerEventTypes
     DEF handleClipboardChanged, Typed
<1>5. PICK s \in connected : s = e.screen /\ s # Home /\ s \in Client /\ s \in Screen
  BY <1>3, <1>4, HomeAssumption
<1>6. /\ e \in ChangesOf(s) /\ ~NoneIn(events, ChangesOf(s))
      /\ \A c : e \notin GrabsOf(c) /\ (c # s => e \notin ChangesOf(c))
  <2>1. /\ e \in ChangesOf(s)
        /\ \A c : e \notin GrabsOf(c) /\ (c # s => e \notin ChangesOf(c))
    BY <1>4, <1>5, ServerKinds
  <2> QED BY <2>1, <1>1, <1>3, <1>4, Removed
<1>7. PICK v \in Data : v = proxyClip[s]
  BY <1>3, <1>5 DEF Typed, ClipboardTypeOK
<1> DEFINE old == IsOld(s, e.seq) \/ v = m_clipboardData
<1>8. old => DeliversNothing(q) /\ UNCHANGED <<m_clipboardData, dirty>>
  BY <1>1, <1>2, <1>5, <1>7 DEF handleClipboardChanged, clipVars
<1>9. ~old => /\ m_clipboardData' = v
              /\ dirty' = (connected \union {Home}) \ {s, activeScreen}
              /\ IF activeScreen = s THEN DeliversNothing(q) ELSE Delivers(activeScreen, v, q)
  BY <1>1, <1>2, <1>5, <1>7 DEF handleClipboardChanged, Shares
<1>10. /\ old => e.seq < m_clipboardSeqNum \/ m_clipboardData = v
       /\ UNCHANGED <<m_clipboardOwner, m_clipboardSeqNum, activeScreen, copies, clientActive, toClient>>
       /\ UNCHANGED <<unnoticed, connected, seqNum, ownClipboard, sentClipboard, clientEvents, toServer>>
  <2>1. old => e.seq < m_clipboardSeqNum \/ m_clipboardData = v
    BY DEF IsOld
  <2>2. UNCHANGED <<m_clipboardOwner, m_clipboardSeqNum, activeScreen, copies, clientActive, toClient>>
    BY DEF handleClipboardChanged, clipVars, cursorVars, copyVars, ownerVars
  <2>3. UNCHANGED <<unnoticed, connected, seqNum, ownClipboard, sentClipboard, clientEvents, toServer>>
    BY DEF handleClipboardChanged, copyVars, peerVars, ownerVars
  <2> QED BY <2>1, <2>2, <2>3
<1> HIDE DEF old
<1>11. ~old => m_clipboardOwner = s
  <2>1. m_clipboardOwner # s => Leads(events, GrabsOf(s), ChangesOf(s))
    BY <1>3, <1>5 DEF Focused, ClientInv, DataInv
  <2>2. m_clipboardOwner # s => FALSE
    BY <2>1, <1>1, <1>3, <1>4, <1>6, Removed
  <2> QED BY <2>2
<1>12. Delivers(activeScreen, v, q) \/ DeliversNothing(q)
  BY <1>8, <1>9
<1>13. events' \in Seq(ServerEvent) /\ StageSame
  <2>1. events' \in Seq(ServerEvent)
    BY <1>3, <1>4, <1>12, DeliversTyped
  <2>2. ASSUME NEW c \in Screen
        PROVE  SameGrabs(events, events', c)
    <3>1. SameGrabs(q, events', c)
      BY <1>3, <1>4, <1>12, DeliversSame
    <3>2. SameGrabs(events, q, c)
      BY <1>1, <1>2, <1>3, <1>4, <1>6, TailSame
    <3> QED BY <3>1, <3>2, SameAfterBoth
  <2> QED BY <2>1, <2>2, <1>10 DEF StageSame
<1>14. ASSUME NEW t \in connected \union {Home}
       PROVE  ~GrabOf(t)
  <2>1. CASE t # s
    BY <2>1, <1>3, <1>5, <1>6, StageFacts DEF Silent
  <2>2. CASE t = s /\ GrabOf(s)
    <3>1. Leads(events, GrabsOf(s), ChangesOf(s))
      BY <2>2, <1>5 DEF LastKnown, LastIsOf, BehindGrab
    <3> QED BY <3>1, <1>1, <1>3, <1>4, <1>6, Removed
  <2> QED BY <2>1, <2>2
<1>15. LastIsOwners /\ \A t \in connected' \union {Home} : ~GrabOf(t)'
  <2>1. NoGrab
    BY <1>3, <1>14 DEF StageInv
  <2>2. \A t \in connected' \union {Home} : ~GrabOf(t)'
    BY <1>3, <1>10, <1>13, <1>14, StageBack
  <2> QED BY <2>1, <2>2 DEF LastKnown
<1>16. /\ LastAt(m_clipboardOwner) /\ Undisturbed(m_clipboardOwner)
       /\ content[m_clipboardOwner] = copies /\ m_clipboardOwner \in connected \union {Home}
  BY <1>15 DEF LastIsOwners, LastAt, Undisturbed
<1>17. CASE m_clipboardOwner # s
  <2>1. events' = q /\ UNCHANGED <<m_clipboardData, dirty, content, proxyClip>>
    BY <1>8, <1>11, <1>17 DEF DeliversNothing, screenVars
  <2>2. EventsKept(events, events', m_clipboardOwner)
    BY <2>1, <1>1, <1>2, <1>3, <1>4, <1>6, <1>17, EventsKeptBy
  <2>3. Untouched(m_clipboardOwner) /\ Unmoved(m_clipboardOwner)
    BY <2>1, <2>2, <1>10, <1>16 DEF Undisturbed, Untouched, Unmoved, EventsKept, CountsFrom
  <2>4. m_clipboardOwner = Home => m_clipboardData' = copies \/ activeScreen' = Home
    BY <2>1, <1>10, <1>16 DEF LastAt
  <2> QED BY <2>1, <2>3, <2>4, <1>3, <1>10, <1>15, OwnersFrame DEF LastKnown
<1>18. CASE m_clipboardOwner = s
  <2>1. /\ Undisturbed(s) /\ content[s] = copies /\ BringsNoOther(s) /\ CountsFrom(s, m_clipboardSeqNum)
        /\ m_clipboardData = copies \/ Brings(s, m_clipboardSeqNum)
    BY <1>5, <1>15, <1>16, <1>18 DEF LastIsOwners, LastAt
  <2>2. proxyClip[s] = content[s] /\ v = copies
    BY <2>1, <1>6, <1>7 DEF BringsNoOther
  <2>3. EventsKept(q, events', s) /\ content'[s] = content[s] /\ proxyClip'[s] = proxyClip[s]
    <3>1. DeliversNothing(q) \/ (Delivers(activeScreen, v, q) /\ activeScreen # s)
      BY <1>8, <1>9
    <3> QED BY <3>1, <1>3, <1>4, <1>5, DeliversKept
  <2>4. NoneIn(events', SendingsTo(s))
    <3>1. NoneIn(events, SendingsTo(s))
      BY <2>1, <1>5 DEF Undisturbed
    <3>2. NoneIn(q, SendingsTo(s))
      BY <3>1, <1>1, <1>2, <1>3, <1>4, Removed
    <3> QED BY <3>2, <2>3 DEF EventsKept
  <2>5. s \notin dirty' /\ (~old => activeScreen \notin dirty')
    BY <2>1, <1>8, <1>9 DEF Undisturbed
  <2>6. LastAt(s)'
    BY <2>1, <2>2, <2>3, <2>4, <2>5, <1>5, <1>10 DEF LastAt, Undisturbed, BringsNoOther
  <2>7. m_clipboardData' = copies \/ Brings(s, m_clipboardSeqNum)'
    <3>1. CASE ~old \/ m_clipboardData = v
      BY <3>1, <2>2, <1>8, <1>9
    <3>2. CASE old /\ e.seq < m_clipboardSeqNum /\ m_clipboardData # v
      <4>1. Brings(s, m_clipboardSeqNum)
        BY <3>2, <2>1, <2>2
      <4>2. e \notin NewChanges(s, m_clipboardSeqNum)
        BY <3>2 DEF NewChanges
      <4>3. NoneIn(events, NewChanges(s, m_clipboardSeqNum)) \/ ~NoneIn(q, NewChanges(s, m_clipboardSeqNum))
        BY <4>2, <1>1, <1>2, <1>3, <1>4, Removed
      <4>4. NewChanges(s, m_clipboardSeqNum) \subseteq ChangesOf(s)
        BY DEF NewChanges
      <4>5. ~NoneIn(events, NewChanges(s, m_clipboardSeqNum)) => ~NoneIn(events', NewChanges(s, m_clipboardSeqNum))
        BY <4>3, <4>4, <2>3 DEF EventsKept
      <4> QED BY <4>1, <4>5, <2>3, <1>10 DEF Brings
    <3> QED BY <3>1, <3>2, <1>10
  <2>8. CountsFrom(s, m_clipboardSeqNum)'
    BY <2>1, <1>10 DEF CountsFrom
  <2>9. activeScreen' \in dirty' => m_clipboardData' = Empty /\ m_clipboardOwner' # Home /\ copies' # Empty
    BY <2>5, <1>8, <1>10, <1>15 DEF LastIsOwners
  <2> QED BY <2>6, <2>7, <2>8, <2>9, <1>10, <1>15, <1>18 DEF LastIsOwners, LastKnown
<1> QED BY <1>17, <1>18

\* What the server reads of a client.
LEMMA DataReceivedKnown ==
  ASSUME ClipboardInv, CalmCopies, LastKnown, NEW d \in Client, ServerReceives(d), UNCHANGED setting,
         Head(toServer[d]).type # "grab"
  PROVE  LastKnown'
<1>1. PICK m : m = Head(toServer[d])
  OBVIOUS
<1>2. PICK q : q = Tail(toServer[d])
  OBVIOUS
<1>3. /\ Typed /\ StageInv /\ connected \subseteq Client /\ Home \notin connected /\ d # Home
      /\ events \in Seq(ServerEvent)
      /\ toServer[d] \in Seq(ToServer) /\ toServer[d] # << >> /\ q \in Seq(ToServer)
      /\ m \in ToServer /\ m.seq \in Number
  BY <1>1, <1>2, CalmFacts, TypesUnderway, ToServerKinds, HomeAssumption DEF ServerReceives, Typed
<1>4. m \in DataMessages /\ m \notin GrabMessages /\ m.data \in Data
  BY <1>1, <1>3, ToServerKinds
<1>5. /\ UNCHANGED <<content, unnoticed, copies, connected, m_clipboardOwner, m_clipboardSeqNum,
                     m_clipboardData, dirty, seqNum, toClient, ownClipboard, sentClipboard,
                     clientEvents, activeScreen, clientActive>>
      /\ toServer'[d] = q
      /\ \A c \in Client \ {d} : toServer'[c] = toServer[c]
  BY <1>2, <1>3 DEF ServerReceives, screenVars, copyVars, peerVars, clipVars, ownerVars, cursorVars,
              Typed, QueueTypes
<1>6. PICK e \in ServerEvent : /\ e = Changed(d, m.seq) /\ e.type = "changed" /\ e.screen = d
                               /\ e.seq = m.seq
  BY <1>3, NewServerEvent
<1>7. /\ events' = Append(events, e) /\ proxyClip'[d] = m.data
      /\ \A c \in Client \ {d} : proxyClip'[c] = proxyClip[c]
  BY <1>1, <1>3, <1>6 DEF ServerReceives, Typed, ClipboardTypeOK
<1>8. /\ e \in ChangesOf(d) /\ \A c : e \notin GrabsOf(c) /\ e \notin SendingsTo(c)
      /\ \A c : c # d => e \notin ChangesOf(c)
  BY <1>6, ServerKinds
<1>9. \A Z : NoneIn(toServer[d], Z) <=> m \notin Z /\ NoneIn(q, Z)
  BY <1>1, <1>2, <1>3, Removed
<1>10. events' \in Seq(ServerEvent) /\ \A Z : NoneIn(events', Z) <=> NoneIn(events, Z) /\ e \notin Z
  BY <1>3, <1>7, Added
<1>11. StageSame
  <2>1. \A c : SameGrabs(events, events', c)
    BY <1>8, <1>10 DEF SameGrabs
  <2> QED BY <2>1, <1>4, <1>5, <1>9 DEF StageSame
<1>12. \A c : Undisturbed(c) => Untouched(c)
  BY <1>5, <1>8, <1>10 DEF Undisturbed, Untouched
<1>13. ASSUME NEW c \in connected, c # d
       PROVE  Unmoved(c)
  <2>1. EventsKept(events, events', c)
    BY <1>3, <1>7, <1>8, <1>13, EventsKeptBy
  <2> QED BY <2>1, <1>3, <1>5, <1>7, <1>13 DEF Unmoved, CountsFrom
<1>14. ASSUME BringsNoOther(d)
       PROVE  BringsNoOther(d)' /\ \A n : Brings(d, n) => Brings(d, n)'
  <2>1. m.data = content[d]
    BY <1>4, <1>9, <1>14 DEF BringsNoOther, DataOf
  <2>2. BringsNoOther(d)'
    BY <2>1, <1>5, <1>7, <1>9, <1>14 DEF BringsNoOther
  <2>3. ASSUME NEW n, m \in NewData(content[d], n)
        PROVE  e \in NewChanges(d, n)
    BY <2>3, <1>6, <1>8 DEF NewData, NewChanges
  <2>4. \A n : Brings(d, n) => Brings(d, n)'
    BY <2>1, <2>3, <1>5, <1>7, <1>9, <1>10 DEF Brings
  <2> QED BY <2>2, <2>4
<1>15. \A n : CountsFrom(d, n) => CountsFrom(d, n)'
  BY <1>5 DEF CountsFrom
<1>16. ASSUME LastIsOwners
       PROVE  LastIsOwners'
  <2>1. LastAt(m_clipboardOwner) /\ Undisturbed(m_clipboardOwner) /\ Untouched(m_clipboardOwner)
          /\ m_clipboardOwner \in connected \union {Home}
    BY <1>12, <1>16 DEF LastIsOwners, LastAt, Undisturbed
  <2>2. CASE m_clipboardOwner # d
    <3>1. m_clipboardOwner = Home => m_clipboardData' = copies \/ activeScreen' = Home
      BY <2>1, <1>5 DEF LastAt
    <3> QED BY <3>1, <2>1, <2>2, <1>3, <1>5, <1>13, <1>16, OwnersFrame DEF LastIsOwners
  <2>3. CASE m_clipboardOwner = d
    <3>1. /\ BringsNoOther(d) /\ CountsFrom(d, m_clipboardSeqNum)
          /\ m_clipboardData = copies \/ Brings(d, m_clipboardSeqNum)
      BY <2>1, <2>3, <1>3, <1>16 DEF LastIsOwners, LastAt
    <3>2. LastAt(d)'
      BY <2>1, <2>3, <3>1, <1>3, <1>5, <1>14 DEF LastAt, Undisturbed, Untouched
    <3>3. CountsFrom(d, m_clipboardSeqNum)' /\ (m_clipboardData = copies \/ Brings(d, m_clipboardSeqNum)')
      BY <3>1, <1>5, <1>14 DEF CountsFrom
    <3> QED BY <2>3, <3>2, <3>3, <1>5, <1>16 DEF LastIsOwners
  <2> QED BY <2>2, <2>3
<1>17. ASSUME NEW s \in connected \union {Home}, LastIsOf(s)
       PROVE  LastIsOf(s)'
  <2>1. LastAt(s) /\ Untouched(s) /\ Untouched(m_clipboardOwner)
    <3>1. LastAt(s) /\ Undisturbed(s) /\ Undisturbed(m_clipboardOwner)
      BY <1>17 DEF LastIsOf, LastAt
    <3> QED BY <3>1, <1>12
  <2>2. CASE s # d
    <3>1. /\ s = Home /\ m_clipboardOwner = Home => m_clipboardData' = copies \/ activeScreen' = Home
          /\ s = Home /\ Home \in unnoticed' => activeScreen' = Home
          /\ activeScreen' \notin dirty'
      BY <1>5, <1>17 DEF LastIsOf, LastAt
    <3>2. s = Home \/ Unmoved(s)
      BY <2>2, <1>13
    <3> QED BY <2>1, <3>1, <3>2, <1>3, <1>5, <1>17, GrabsFrame
  <2>3. CASE s = d
    <3>1. BringsNoOther(d) /\ BehindGrab(d)
      BY <2>1, <2>3, <1>3, <1>17 DEF LastIsOf, LastAt
    <3>2. LastAt(d)'
      BY <2>1, <2>3, <3>1, <1>3, <1>5, <1>14 DEF LastAt, Undisturbed, Untouched
    <3>3. ~NoneIn(events, GrabsOf(d))
      <4>1. \A Y : Leads(toServer[d], Y, DataMessages) => FALSE
        BY <1>1, <1>3, <1>4, Removed
      <4> QED BY <4>1, <3>1 DEF BehindGrab
    <3>4. HasTold(d)' /\ ~NoneIn(events', GrabsOf(d))
      BY <3>3, <1>10 DEF HasTold
    <3>5. Leads(events', GrabsOf(d), ChangesOf(d))
      <4>1. Leads(events, GrabsOf(d), ChangesOf(d))
        BY <3>1 DEF BehindGrab
      <4> QED BY <4>1, <3>3, <1>3, <1>7, Added
    <3>6. BehindGrab(d)'
      BY <3>4, <3>5 DEF BehindGrab
    <3>7. \A n : m \notin MessagesNumbered(n) /\ e \notin GrabsNumbered(d, n)
      BY <1>4, <1>8 DEF MessagesNumbered, GrabsNumbered
    <3>8. \A n \in Number :
            (~NoneIn(toServer'[d], MessagesNumbered(n)) \/ ~NoneIn(events', GrabsNumbered(d, n)))
              => CountsFrom(d, n)' /\ Brings(d, n)'
      BY <2>3, <3>1, <3>7, <1>3, <1>5, <1>9, <1>10, <1>14, <1>15, <1>17 DEF LastIsOf
    <3>9. m_clipboardOwner # d =>
            Undisturbed(m_clipboardOwner)' /\ m_clipboardData = content[m_clipboardOwner]
      BY <2>1, <2>3, <1>5, <1>17 DEF LastIsOf, Undisturbed, Untouched
    <3> QED BY <2>3, <3>2, <3>6, <3>8, <3>9, <1>3, <1>5, <1>17 DEF LastIsOf
  <2> QED BY <2>2, <2>3
<1> QED BY <1>3, <1>5, <1>10, <1>11, <1>16, <1>17, KnownFrame

LEMMA GrabReceivedKnown ==
  ASSUME ClipboardInv, CalmCopies, LastKnown, NEW d \in Client, ServerReceives(d), UNCHANGED setting,
         Head(toServer[d]).type = "grab"
  PROVE  LastKnown'
<1>1. PICK m : m = Head(toServer[d])
  OBVIOUS
<1>2. PICK q : q = Tail(toServer[d])
  OBVIOUS
<1>3. /\ Typed /\ GoneInv /\ StageInv /\ connected \subseteq Client /\ Home \notin connected /\ d # Home
      /\ events \in Seq(ServerEvent) /\ d \in Screen
      /\ toServer[d] \in Seq(ToServer) /\ toServer[d] # << >> /\ q \in Seq(ToServer)
      /\ m \in ToServer /\ m.seq \in Number
  BY <1>1, <1>2, CalmFacts, TypesUnderway, ToServerKinds, HomeAssumption DEF ServerReceives, Typed
<1>4. m \in GrabMessages /\ m \notin DataMessages /\ d \in connected
  <2>1. m \in GrabMessages /\ m \notin DataMessages
    BY <1>1, <1>3, ToServerKinds
  <2> QED BY <2>1, <1>3, ServedOnly
<1>5. /\ UNCHANGED <<content, unnoticed, copies, connected, m_clipboardOwner, m_clipboardSeqNum,
                     m_clipboardData, dirty, seqNum, toClient, ownClipboard, sentClipboard,
                     clientEvents, activeScreen, clientActive>>
      /\ toServer'[d] = q
      /\ \A c \in Client \ {d} : toServer'[c] = toServer[c]
  BY <1>2, <1>3 DEF ServerReceives, screenVars, copyVars, peerVars, clipVars, ownerVars, cursorVars,
              Typed, QueueTypes
<1>6. PICK e \in ServerEvent : /\ e = Grabbed(d, m.seq) /\ e.type = "grabbed" /\ e.screen = d
                               /\ e.seq = m.seq
  BY <1>3, NewServerEvent
<1>7. events' = Append(events, e) /\ proxyClip' = proxyClip
  BY <1>1, <1>6 DEF ServerReceives
<1>8. /\ e \in Grabs /\ e \in GrabsOf(d)
      /\ \A c : e \notin ChangesOf(c) /\ e \notin SendingsTo(c)
  BY <1>6, ServerKinds
<1>9. /\ \A Z : NoneIn(toServer[d], Z) <=> m \notin Z /\ NoneIn(q, Z)
      /\ \A Z : OneIn(toServer[d], Z) /\ m \in Z => NoneIn(q, Z)
  BY <1>1, <1>2, <1>3, Removed
<1>10. \A Z : NoneIn(events', Z) <=> NoneIn(events, Z) /\ e \notin Z
  BY <1>3, <1>7, Added
<1>11. Told(d) /\ GrabOf(d) /\ LastIsOf(d)
  <2>1. ~NoneIn(toServer[d], GrabMessages)
    BY <1>4, <1>9
  <2>2. Told(d)
    BY <2>1, <1>3, StageFacts
  <2> QED BY <2>2, <1>4 DEF GrabOf, LastKnown
<1>12. NoneIn(q, GrabMessages) /\ NoneIn(events, Grabs)
  BY <1>4, <1>9, <1>11 DEF Told
<1>13. GrabOf(d)'
  <2>1. NoMessages'
    BY <1>5, <1>11, <1>12 DEF NoMessages, Told
  <2>2. unnoticed' = {} /\ NoReports'
    BY <1>5, <1>11 DEF Told, NoReports
  <2>3. OneIn(events', Grabs)
    BY <1>3, <1>7, <1>8, <1>12, Added
  <2> QED BY <2>1, <2>2, <2>3, <1>8, <1>10 DEF Posted, GrabOf
<1>14. ~NoGrab' /\ \A t : GrabOf(t)' => t = d
  BY <1>13, OneStageNext, NoStageNext
<1>15. LastAt(d) /\ BringsNoOther(d) /\ BehindGrab(d)
  BY <1>3, <1>11 DEF LastIsOf, LastAt
<1>16. \A c : Undisturbed(c) => Undisturbed(c)'
  BY <1>5, <1>8, <1>10 DEF Undisturbed
<1>17. LastAt(d)'
  <2>1. BringsNoOther(d)'
    BY <1>5, <1>7, <1>8, <1>9, <1>10, <1>15 DEF BringsNoOther
  <2> QED BY <2>1, <1>3, <1>5, <1>15, <1>16 DEF LastAt
<1>18. BehindGrab(d)'
  <2>1. ~NoneIn(events', GrabsOf(d))
    BY <1>8, <1>10
  <2>2. Leads(events', GrabsOf(d), ChangesOf(d))
    <3>1. Leads(events, GrabsOf(d), ChangesOf(d))
      BY <1>15 DEF BehindGrab
    <3> QED BY <3>1, <1>3, <1>7, <1>8, Added
  <2> QED BY <2>1, <2>2 DEF BehindGrab, HasTold
<1>19. ASSUME NEW n \in Number,
              ~NoneIn(toServer'[d], MessagesNumbered(n)) \/ ~NoneIn(events', GrabsNumbered(d, n))
       PROVE  CountsFrom(d, n)' /\ Brings(d, n)'
  <2>1. NoneIn(q, MessagesNumbered(n)) /\ NoneIn(events, GrabsNumbered(d, n))
    <3>1. MessagesNumbered(n) \subseteq GrabMessages /\ GrabsNumbered(d, n) \subseteq Grabs
      BY DEF MessagesNumbered, GrabsNumbered, GrabsOf
    <3> QED BY <3>1, <1>12, Fewer
  <2>2. e \in GrabsNumbered(d, n)
    BY <2>1, <1>5, <1>10, <1>19
  <2>3. m \in MessagesNumbered(n)
    BY <2>2, <1>4, <1>6 DEF MessagesNumbered, GrabsNumbered
  <2>4. CountsFrom(d, n) /\ Brings(d, n)
    BY <2>3, <1>3, <1>9, <1>11 DEF LastIsOf
  <2>5. m \notin NewData(content[d], n)
    BY <1>4 DEF NewData, DataOf
  <2>6. Brings(d, n)'
    BY <2>4, <2>5, <1>5, <1>7, <1>9, <1>10 DEF Brings
  <2> QED BY <2>4, <2>6, <1>5 DEF CountsFrom
<1>20. LastIsOf(d)'
  <2>1. m_clipboardOwner # d =>
          Undisturbed(m_clipboardOwner)' /\ m_clipboardData = content[m_clipboardOwner]
    BY <1>5, <1>8, <1>10, <1>11 DEF LastIsOf, Undisturbed
  <2> QED BY <2>1, <1>3, <1>5, <1>11, <1>17, <1>18, <1>19 DEF LastIsOf
<1> QED BY <1>14, <1>20 DEF LastKnown

\* What the client with the grab does.
LEMMA ClientGrabsKnown ==
  ASSUME ClipboardInv, OrderInv, CalmCopies, LastKnown, NEW d \in Client, ClientGrabs(d),
         UNCHANGED setting
  PROVE  LastKnown'
<1>1. PICK e : e = Head(clientEvents[d])
  OBVIOUS
<1>2. PICK q : q = Tail(clientEvents[d])
  OBVIOUS
<1>3. /\ Typed /\ GoneInv /\ StageInv /\ connected \subseteq Client /\ Home \notin connected /\ d # Home
      /\ events \in Seq(ServerEvent) /\ d \in Screen
      /\ clientEvents[d] \in Seq(ClientEvent) /\ clientEvents[d] # << >> /\ q \in Seq(ClientEvent)
      /\ e \in ClientEvent /\ e \in Reports /\ e \notin Uploads
      /\ toServer[d] \in Seq(ToServer)
  BY <1>1, <1>2, CalmFacts, TypesUnderway, ClientKinds, HomeAssumption DEF ClientGrabs, Typed
<1>4. PICK k \in Number : k = seqNum[d]
  BY <1>3, TypesUnderway DEF Typed
<1>5. PICK v \in Data : v = content[d]
  BY <1>3, TypesUnderway DEF Typed
<1>6. /\ UNCHANGED <<content, unnoticed, copies, connected, m_clipboardOwner, m_clipboardSeqNum,
                     m_clipboardData, dirty, seqNum, events, toClient, activeScreen, clientActive,
                     proxyClip>>
      /\ ownClipboard' = ownClipboard \union {d}
      /\ \A c \in Client \ {d} : clientEvents'[c] = clientEvents[c] /\ toServer'[c] = toServer[c]
  BY <1>3 DEF ClientGrabs, sendClipboard, screenVars, copyVars, peerVars, clipVars, cursorVars, Typed,
              QueueTypes
<1>7. PICK m \in ToServer : /\ m = Grab(k) /\ m \in GrabMessages /\ m \notin DataMessages /\ m.seq = k
  BY ToServerKinds
<1>8. toServer'[d] = Append(toServer[d], m)
  BY <1>3, <1>4, <1>7 DEF ClientGrabs, Typed, QueueTypes
<1>9. PICK x \in ClientEvent : /\ x = Sending(d, k, v) /\ x \in NewUploads(v, k) /\ x \notin Reports
                               /\ x \in UploadsOf(v)
  <2>1. PICK x \in ClientEvent : x = Sending(d, k, v) /\ x \in Uploads /\ x \notin Reports
    BY ClientKinds
  <2>2. x.seq = k /\ x.data = v
    BY <2>1, NewServerEvent
  <2>3. ~(k < k)
    BY DEF Number
  <2> QED BY <2>1, <2>2, <2>3 DEF NewUploads, UploadsOf
<1>10. /\ clientActive[d] => sentClipboard'[d] = NotSent /\ clientEvents'[d] = q
       /\ ~clientActive[d] => clientEvents'[d] = Append(q, x)
  BY <1>2, <1>3, <1>4, <1>5, <1>9
     DEF ClientGrabs, WaitsUntilLeave, sendClipboard, Typed, QueueTypes, ClipboardTypeOK
<1>11. \A Z : NoneIn(clientEvents[d], Z) => NoneIn(q, Z)
  BY <1>2, <1>3, Removed
<1>12. /\ \A Z : NoneIn(Append(q, x), Z) <=> NoneIn(q, Z) /\ x \notin Z
       /\ \A Z : NoneIn(toServer'[d], Z) <=> NoneIn(toServer[d], Z) /\ m \notin Z
  BY <1>3, <1>8, Added
<1>13. Reported(d) /\ d \in connected /\ GrabOf(d) /\ LastIsOf(d)
  <2>1. ~NoneIn(clientEvents[d], Reports)
    BY <1>1, <1>3, Removed
  <2>2. Reported(d) /\ d \in connected
    BY <2>1, <1>3, StageFacts, ServedOnly
  <2> QED BY <2>2 DEF GrabOf, LastKnown
<1>14. GrabOf(d)'
  <2>1. NoneIn(q, Reports)
    BY <1>1, <1>2, <1>3, <1>13, Removed DEF Reported
  <2>2. NoReports'
    BY <2>1, <1>6, <1>9, <1>10, <1>12, <1>13 DEF NoReports, Reported
  <2>3. OneIn(toServer'[d], GrabMessages)
    BY <1>3, <1>7, <1>8, <1>13, Added DEF Reported, NoMessages
  <2> QED BY <2>2, <2>3, <1>6, <1>13 DEF GrabOf, Told, Reported, NoMessages
<1>15. ~NoGrab' /\ \A t : GrabOf(t)' => t = d
  BY <1>14, OneStageNext, NoStageNext
<1>16. LastAt(d) /\ BringsNoOther(d) /\ BehindGrab(d)
  BY <1>3, <1>13 DEF LastIsOf, LastAt
<1>17. LastAt(d)'
  <2>1. BringsNoOther(d)'
    BY <1>5, <1>6, <1>7, <1>9, <1>10, <1>11, <1>12, <1>16 DEF BringsNoOther
  <2> QED BY <2>1, <1>3, <1>6, <1>16 DEF LastAt, Undisturbed
<1>18. BehindGrab(d)'
  <2>1. HasTold(d)'
    BY <1>7, <1>12 DEF HasTold
  <2>2. NoneIn(events, GrabsOf(d)) => Leads(toServer'[d], GrabMessages, DataMessages)
    <3>1. NoneIn(events, GrabsOf(d)) => Leads(toServer[d], GrabMessages, DataMessages)
      BY <1>16 DEF BehindGrab
    <3> QED BY <3>1, <1>3, <1>7, <1>8, Added
  <2> QED BY <2>1, <2>2, <1>6, <1>16 DEF BehindGrab
<1>19. ASSUME NEW n \in Number,
              ~NoneIn(toServer'[d], MessagesNumbered(n)) \/ ~NoneIn(events', GrabsNumbered(d, n))
       PROVE  CountsFrom(d, n)' /\ Brings(d, n)'
  <2>1. NoneIn(toServer[d], MessagesNumbered(n)) /\ NoneIn(events, GrabsNumbered(d, n))
    <3>1. MessagesNumbered(n) \subseteq GrabMessages /\ GrabsNumbered(d, n) \subseteq Grabs
      BY DEF MessagesNumbered, GrabsNumbered, GrabsOf
    <3>2. NoneIn(toServer[d], GrabMessages) /\ NoneIn(events, Grabs)
      BY <1>13 DEF Reported, NoMessages
    <3> QED BY <3>1, <3>2, Fewer
  <2>2. n = k
    BY <2>1, <1>6, <1>7, <1>12, <1>19 DEF MessagesNumbered
  <2>3. CountsFrom(d, n)'
    <3>1. NoneIn(toClient[d], EarlierEnters(k)) /\ k <= k
      BY <1>4 DEF OrderInv, Number
    <3> QED BY <3>1, <2>2, <1>4, <1>6 DEF CountsFrom
  <2>4. CASE clientActive[d]
    <3>1. NotSent # v
      BY CopyAssumption DEF Data, NotSent
    <3> QED BY <3>1, <2>3, <2>4, <1>5, <1>6, <1>10 DEF Brings
  <2>5. CASE ~clientActive[d]
    <3>1. ~NoneIn(clientEvents'[d], NewUploads(v, n))
      BY <2>2, <2>5, <1>9, <1>10, <1>12
    <3> QED BY <3>1, <2>3, <1>5, <1>6 DEF Brings
  <2> QED BY <2>4, <2>5
<1>20. LastIsOf(d)'
  <2>1. m_clipboardOwner # d =>
          Undisturbed(m_clipboardOwner)' /\ m_clipboardData = content[m_clipboardOwner]
    BY <1>6, <1>13 DEF LastIsOf, Undisturbed
  <2>2. d \notin unnoticed'
    BY <1>6, <1>13 DEF Reported
  <2> QED BY <2>1, <2>2, <1>3, <1>6, <1>13, <1>17, <1>18, <1>19 DEF LastIsOf
<1> QED BY <1>15, <1>20 DEF LastKnown

LEMMA ReceivesKnown ==
  ASSUME ClipboardInv, CalmCopies, LastKnown, NEW d \in Client, Receives(d), UNCHANGED setting
  PROVE  LastKnown'
<1>1. PICK m : m = Head(toClient[d])
  OBVIOUS
<1>2. PICK q : q = Tail(toClient[d])
  OBVIOUS
<1>3. /\ Typed /\ StageInv /\ connected \subseteq Client /\ Home \notin connected /\ d # Home
      /\ events \in Seq(ServerEvent) /\ d \in Screen /\ Home \in Screen /\ Client \subseteq Screen
      /\ toClient[d] \in Seq(ToClient) /\ toClient[d] # << >> /\ m \in ToClient /\ q \in Seq(ToClient)
      /\ toClient'[d] = q /\ \A c \in Client \ {d} : toClient'[c] = toClient[c]
      /\ NoticesEveryCopy
  BY <1>1, <1>2, CalmFacts, TypesUnderway, HomeAssumption DEF Receives, Typed, QueueTypes
<1>4. /\ UNCHANGED <<unnoticed, copies, connected, m_clipboardOwner, m_clipboardSeqNum,
                     m_clipboardData, dirty, events, toServer, activeScreen, proxyClip>>
      /\ \A s \in Screen \ {d} : content'[s] = content[s]
      /\ \A c \in Client \ {d} : /\ seqNum'[c] = seqNum[c] /\ sentClipboard'[c] = sentClipboard[c]
                                 /\ c \in ownClipboard' <=> c \in ownClipboard
                                 /\ clientActive'[c] = clientActive[c]
                                 /\ clientEvents'[c] = clientEvents[c]
  BY <1>3 DEF Receives, copyVars, peerVars, cursorVars, clipVars, ClientEnters, ClientLeaves,
              ClientTakes, sendClipboard, screenVars, Typed, QueueTypes, ClipboardTypeOK
<1>5. \A Z : NoneIn(toClient[d], Z) => NoneIn(q, Z) /\ m \notin Z
  BY <1>1, <1>2, <1>3, Removed
<1> DEFINE sends == m.type = "leave" /\ d \in ownClipboard /\ sentClipboard[d] # content[d]
<1>6. PICK k \in Number : k = seqNum[d]
  BY <1>3, TypesUnderway DEF Typed
<1>7. PICK v \in Data : v = content[d]
  BY <1>3, TypesUnderway DEF Typed
<1>8. PICK x \in ClientEvent : /\ x = Sending(d, k, v) /\ x \in UploadsOf(v) /\ x \in Uploads
                               /\ x \notin Reports /\ x.seq = k
  <2>1. PICK x \in ClientEvent : x = Sending(d, k, v) /\ x \in Uploads /\ x \notin Reports
    BY ClientKinds
  <2> QED BY <2>1, NewServerEvent DEF UploadsOf
<1>9. clientEvents[d] \in Seq(ClientEvent)
  BY <1>3, CalmFacts
<1>10. /\ sends => clientEvents'[d] = Append(clientEvents[d], x) /\ d \notin unnoticed
       /\ ~sends => clientEvents'[d] = clientEvents[d]
  <2>1. CASE m.type = "leave"
    <3>1. ClientLeaves(d)
      BY <2>1, <1>1 DEF Receives
    <3> QED BY <2>1, <3>1, <1>3, <1>6, <1>7, <1>8
            DEF ClientLeaves, sendClipboard, ReadyToLeave, NoticesEveryCopy, Typed, QueueTypes
  <2>2. CASE m.type # "leave"
    BY <2>2, <1>1 DEF Receives, ClientEnters, ClientTakes
  <2> QED BY <2>1, <2>2
<1>11. ASSUME m \notin TakeMessages
       PROVE  /\ content'[d] = content[d] /\ ownClipboard' = ownClipboard
              /\ m.type = "enter" => /\ seqNum'[d] = m.seq /\ clientActive'[d]
                                     /\ UNCHANGED sentClipboard
              /\ m.type = "leave" => seqNum'[d] = seqNum[d]
              /\ m.type \in {"enter", "leave"}
  <2>1. m.type \in {"enter", "leave"}
    BY <1>3, <1>11, ToClientKinds
  <2>2. CASE m.type = "enter"
    <3>1. ClientEnters(d, m.seq)
      BY <2>2, <1>1 DEF Receives
    <3> QED BY <2>2, <3>1, <1>3 DEF ClientEnters, screenVars, Typed, ClipboardTypeOK
  <2>3. CASE m.type = "leave"
    <3>1. ClientLeaves(d)
      BY <2>3, <1>1 DEF Receives
    <3> QED BY <2>3, <3>1, <1>3 DEF ClientLeaves, screenVars
  <2> QED BY <2>1, <2>2, <2>3
<1> HIDE DEF sends
<1>12. \A Z : NoneIn(Append(clientEvents[d], x), Z) <=> NoneIn(clientEvents[d], Z) /\ x \notin Z
  BY <1>8, <1>9, Added
<1>13. StageSame
  BY <1>4, <1>8, <1>10, <1>12 DEF StageSame, SameGrabs
<1>14. ASSUME NEW c, Undisturbed(c)
       PROVE  Untouched(c)
  <2>1. c \in connected \union {Home} /\ c \notin dirty
          /\ (c # Home => NoneIn(events, SendingsTo(c)) /\ NoneIn(toClient[c], TakeMessages))
    BY <1>14 DEF Undisturbed
  <2>2. CASE c = d
    <3>1. m \notin TakeMessages /\ NoneIn(q, TakeMessages)
      BY <2>1, <2>2, <1>3, <1>5
    <3> QED BY <2>1, <2>2, <3>1, <1>3, <1>4, <1>11 DEF Untouched
  <2>3. CASE c # d
    BY <2>1, <2>3, <1>3, <1>4 DEF Untouched
  <2> QED BY <2>2, <2>3
<1>15. ASSUME NEW c \in connected, c # d
       PROVE  Unmoved(c)
  <2>1. EventsKept(events, events', c)
    BY <1>3, <1>4, EventsKeptBy
  <2> QED BY <2>1, <1>3, <1>4, <1>15 DEF Unmoved, CountsFrom
<1>16. ASSUME Undisturbed(d), BringsNoOther(d)
       PROVE  /\ BringsNoOther(d)'
              /\ \A n \in Number : CountsFrom(d, n) => CountsFrom(d, n)' /\ (Brings(d, n) => Brings(d, n)')
  <2>1. m \notin TakeMessages /\ content'[d] = content[d]
    BY <1>3, <1>5, <1>11, <1>16 DEF Undisturbed
  <2>2. BringsNoOther(d)'
    BY <2>1, <1>4, <1>7, <1>8, <1>10, <1>12, <1>16 DEF BringsNoOther
  <2>3. ASSUME NEW n \in Number, CountsFrom(d, n)
        PROVE  CountsFrom(d, n)'
    <3>1. n <= seqNum[d] /\ NoneIn(q, EarlierEnters(n)) /\ m \notin EarlierEnters(n)
      BY <2>3, <1>5 DEF CountsFrom
    <3>2. CASE m.type = "enter"
      <4>1. ~(m.seq < n) /\ m.seq \in Number
        BY <3>1, <3>2, <1>3, ToClientKinds
      <4>2. n <= m.seq
        BY <4>1, CopyAssumption DEF Number
      <4> QED BY <3>1, <3>2, <4>2, <2>1, <1>3, <1>11 DEF CountsFrom
    <3>3. CASE m.type = "leave"
      BY <3>1, <3>3, <2>1, <1>3, <1>11 DEF CountsFrom
    <3> QED BY <3>2, <3>3, <2>1, <1>11
  <2>4. ASSUME NEW n \in Number, CountsFrom(d, n), Brings(d, n)
        PROVE  Brings(d, n)'
    <3>1. CASE sends
      <4>1. ~(x.seq < n)
        BY <2>4, <1>6, <1>8, CopyAssumption DEF CountsFrom, Number
      <4>2. x \in NewUploads(v, n)
        BY <4>1, <1>8 DEF NewUploads
      <4> QED BY <3>1, <4>2, <2>1, <1>7, <1>10, <1>12 DEF Brings
    <3>2. CASE ~sends /\ m.type = "leave"
      BY <3>2, <2>1, <2>4, <1>4, <1>10 DEF Brings, sends
    <3>3. CASE ~sends /\ m.type = "enter"
      BY <3>3, <2>1, <2>4, <1>4, <1>10, <1>11 DEF Brings
    <3> QED BY <3>1, <3>2, <3>3, <2>1, <1>11
  <2> QED BY <2>2, <2>3, <2>4
<1>17. ASSUME LastIsOwners
       PROVE  LastIsOwners'
  <2>1. LastAt(m_clipboardOwner) /\ Undisturbed(m_clipboardOwner) /\ Untouched(m_clipboardOwner)
          /\ m_clipboardOwner \in connected \union {Home} /\ m_clipboardSeqNum \in Number
    BY <1>3, <1>14, <1>17, TypesUnderway DEF LastIsOwners, LastAt, Undisturbed, Typed
  <2>2. CASE m_clipboardOwner # d
    <3>1. m_clipboardOwner = Home => m_clipboardData' = copies \/ activeScreen' = Home
      BY <2>1, <1>4 DEF LastAt
    <3>2. m_clipboardOwner = Home \/ Unmoved(m_clipboardOwner)
      BY <2>1, <2>2, <1>15
    <3> QED BY <3>1, <3>2, <2>1, <1>3, <1>4, <1>17, OwnersFrame DEF LastIsOwners
  <2>3. CASE m_clipboardOwner = d
    <3>1. /\ Undisturbed(d) /\ BringsNoOther(d) /\ CountsFrom(d, m_clipboardSeqNum)
          /\ m_clipboardData = copies \/ Brings(d, m_clipboardSeqNum)
      BY <2>1, <2>3, <1>3, <1>17 DEF LastIsOwners, LastAt
    <3>2. /\ BringsNoOther(d)' /\ CountsFrom(d, m_clipboardSeqNum)'
          /\ m_clipboardData = copies \/ Brings(d, m_clipboardSeqNum)'
      <4>1. PICK n \in Number : n = m_clipboardSeqNum
        BY <2>1
      <4>2. BringsNoOther(d)' /\ CountsFrom(d, n)' /\ (m_clipboardData = copies \/ Brings(d, n)')
        BY <3>1, <4>1, <1>16
      <4> QED BY <4>1, <4>2, <1>4 DEF CountsFrom, Brings
    <3>3. LastAt(d)'
      BY <2>1, <2>3, <3>2, <1>3, <1>4 DEF LastAt, Undisturbed, Untouched
    <3> QED BY <2>3, <3>2, <3>3, <1>4, <1>17 DEF LastIsOwners
  <2> QED BY <2>2, <2>3
<1>18. ASSUME NEW s \in connected \union {Home}, GrabOf(s), LastIsOf(s)
       PROVE  LastIsOf(s)'
  <2>1. LastAt(s) /\ Undisturbed(s) /\ Untouched(s) /\ Untouched(m_clipboardOwner)
    <3>1. LastAt(s) /\ Undisturbed(s) /\ Undisturbed(m_clipboardOwner)
      BY <1>18 DEF LastIsOf, LastAt
    <3> QED BY <3>1, <1>14
  <2>2. CASE s # d
    <3>1. /\ s = Home /\ m_clipboardOwner = Home => m_clipboardData' = copies \/ activeScreen' = Home
          /\ s = Home /\ Home \in unnoticed' => activeScreen' = Home
          /\ activeScreen' \notin dirty'
      BY <1>4, <1>18 DEF LastIsOf, LastAt
    <3>2. s = Home \/ Unmoved(s)
      BY <2>2, <1>15
    <3> QED BY <2>1, <3>1, <3>2, <1>3, <1>4, <1>18, GrabsFrame
  <2>3. CASE s = d
    <3>1. BringsNoOther(d) /\ BehindGrab(d) /\ Undisturbed(d)
      BY <2>1, <2>3, <1>3, <1>18 DEF LastIsOf, LastAt
    <3>2. LastAt(d)'
      BY <2>1, <2>3, <3>1, <1>3, <1>4, <1>16 DEF LastAt, Undisturbed, Untouched
    <3>3. BehindGrab(d)'
      <4>1. HasTold(d)' <=> HasTold(d)
        BY <1>4 DEF HasTold
      <4>2. ASSUME ~HasTold(d)
            PROVE  Leads(clientEvents'[d], Reports, Uploads)
        <5>1. Leads(clientEvents[d], Reports, Uploads)
          BY <4>2, <3>1 DEF BehindGrab
        <5>2. CASE sends
          <6>1. ~Unnoticed(d) /\ ~Posted(d) /\ ~Told(d)
            <7>1. \A p, Z : ~(NoneIn(p, Z) /\ OneIn(p, Z))
              BY DEF NoneIn, OneIn
            <7> QED BY <7>1, <5>2, <4>2, <1>10 DEF Unnoticed, Posted, Told, HasTold
          <6>2. ~NoneIn(clientEvents[d], Reports)
            <7>1. \A p, Z : ~(NoneIn(p, Z) /\ OneIn(p, Z))
              BY DEF NoneIn, OneIn
            <7>2. Reported(d)
              BY <6>1, <2>3, <1>18 DEF GrabOf
            <7>3. OneIn(clientEvents[d], Reports)
              BY <7>2 DEF Reported
            <7> QED BY <7>1, <7>3
          <6>3. clientEvents'[d] = Append(clientEvents[d], x)
            BY <5>2, <1>10
          <6> QED BY <5>1, <6>2, <6>3, <1>8, <1>9, Added
        <5>3. CASE ~sends
          BY <5>1, <5>3, <1>10
        <5> QED BY <5>2, <5>3
      <4> QED BY <4>1, <4>2, <3>1, <1>4 DEF BehindGrab
    <3>4. d \in unnoticed' => clientActive'[d]
      <4>1. d \in unnoticed => clientActive[d] /\ m.type # "leave"
        <5>1. m.type = "leave" => ReadyToLeave(d)
          BY <1>1 DEF Receives, ClientLeaves
        <5>2. m.type = "leave" => d \notin unnoticed
          BY <5>1, <1>3 DEF ReadyToLeave, NoticesEveryCopy
        <5> QED BY <5>2, <2>3, <1>3, <1>18 DEF LastIsOf
      <4>2. m \notin TakeMessages
        BY <3>1, <1>3, <1>5 DEF Undisturbed
      <4> QED BY <4>1, <4>2, <1>4, <1>11
    <3>5. \A n \in Number :
            (~NoneIn(toServer'[d], MessagesNumbered(n)) \/ ~NoneIn(events', GrabsNumbered(d, n)))
              => CountsFrom(d, n)' /\ Brings(d, n)'
      BY <2>3, <3>1, <1>3, <1>4, <1>16, <1>18 DEF LastIsOf
    <3>6. m_clipboardOwner # d =>
            Undisturbed(m_clipboardOwner)' /\ m_clipboardData = content'[m_clipboardOwner]
      BY <2>1, <2>3, <1>4, <1>18 DEF LastIsOf, Undisturbed, Untouched
    <3> QED BY <2>3, <3>2, <3>3, <3>4, <3>5, <3>6, <1>3, <1>4, <1>18 DEF LastIsOf
  <2> QED BY <2>2, <2>3
<1> QED BY <1>3, <1>4, <1>13, <1>17, <1>18, KnownFrame

-----------------------------------------------------------------------------
(* What follows for the server and the screens.                            *)

LEMMA CleanHaveTheData ==
  ASSUME ClipboardInv
  PROVE  CleanScreensHaveTheData
<1> SUFFICES ASSUME InFocus, NEW s \in (connected \union {Home}) \ dirty,
                    Settled(s), s # m_clipboardOwner
             PROVE  content[s] = m_clipboardData
  BY DEF CleanScreensHaveTheData
<1>1. Focused /\ connected \subseteq Client /\ Home \notin connected /\ s \notin unnoticed
  BY HomeAssumption
     DEF ClipboardInv, FocusInv, Typed, ClipboardTypeOK, Settled
<1>2. NoneIn(events, GrabsOf(s)) /\ NoneIn(events, SendingsTo(s))
  <2>1. \A i \in DOMAIN events :
          events[i] \in ServerEvent /\ (events[i].type = "gone" \/ events[i].screen # s)
    <3>1. events \in Seq(ServerEvent)
      BY DEF ClipboardInv, Typed, QueueTypes
    <3>2. DOMAIN events = 1 .. Len(events) /\ \A i \in DOMAIN events : events[i] \in ServerEvent
      BY <3>1
    <3> QED BY <3>2 DEF Settled
  <2>2. \A e \in ServerEvent : e.type = "gone" \/ e.screen # s
          => e \notin GrabsOf(s) /\ e \notin SendingsTo(s)
    BY ServerKinds
  <2> QED BY <2>1, <2>2 DEF NoneIn
<1>3. CASE s = Home
  BY <1>1, <1>2, <1>3 DEF Focused, HomeInv, HomeHasCopied
<1>4. CASE s # Home
  <2>1. s \in connected /\ s \in Client /\ CleanInv(s)
    BY <1>1, <1>4 DEF Focused, ClientInv
  <2>2. clientEvents[s] = << >> /\ toClient[s] = << >> /\ toServer[s] = << >>
    BY <2>1 DEF Settled
  <2>3. ~HasCopied(s) /\ ~HasTold(s)
    BY <1>1, <1>2, <2>2, EmptyQueue DEF HasCopied, HasTold
  <2>4. WillHave(s, m_clipboardData)
    BY <2>1, <2>3 DEF CleanInv
  <2>5. \A Y, Z : ~LastIn(<< >>, Y, Z)
    BY DEF LastIn
  <2>6. ~LastIn(events, SendingsTo(s), SendingsOf(s, m_clipboardData))
    <3>1. SendingsOf(s, m_clipboardData) \subseteq SendingsTo(s)
      BY DEF SendingsOf
    <3> QED BY <3>1, <1>2 DEF LastIn, NoneIn
  <2> QED BY <2>2, <2>4, <2>5, <2>6 DEF WillHave
<1> QED BY <1>3, <1>4

LEMMA OwnersAreExpected ==
  ASSUME ClipboardInv
  PROVE  ExpectedClientInFocus
<1> SUFFICES ASSUME InFocus, events # << >>, Head(events).type = "changed"
             PROVE  Head(events).screen = m_clipboardOwner
  BY DEF ExpectedClientInFocus
<1>1. PICK e \in ServerEvent : e = Head(events)
  BY TypesUnderway DEF ClipboardInv, Typed
<1>2. e.screen \in connected
  <2>1. e.screen \in connected \union {Home}
    BY <1>1, ServedOnly DEF ClipboardInv
  <2>2. e.screen # Home
    BY <1>1, ServerEventTypes, HomeAssumption
  <2> QED BY <2>1, <2>2
<1>3. e \in ChangesOf(e.screen)
  BY <1>1, ServerKinds
<1>4. m_clipboardOwner # e.screen => Leads(events, GrabsOf(e.screen), ChangesOf(e.screen))
  BY <1>2 DEF ClipboardInv, FocusInv, Focused, ClientInv, DataInv
<1>5. events \in Seq(ServerEvent)
  BY DEF ClipboardInv, Typed, QueueTypes
<1> QED BY <1>1, <1>3, <1>4, <1>5, Removed

LEMMA InactiveHaveSent ==
  ASSUME ClipboardInv
  PROVE  InactiveOwnersHaveSent
<1> SUFFICES ASSUME NEW c \in connected \ {activeScreen}, NoticesEveryCopy, ~setting.drops,
                    Quiet, c \in ownClipboard
             PROVE  sentClipboard[c] = content[c]
  BY DEF InactiveOwnersHaveSent
<1>1. Typed /\ GoneInv /\ MovesInv /\ SentInv /\ c \in Client
  BY DEF ClipboardInv, Typed, ClipboardTypeOK
<1>2. /\ unnoticed = {} /\ NoneIn(clientEvents[c], Reports)
      /\ \A Y, Z : ~LastIn(toClient[c], Y, Z)
  BY <1>1, QuietFacts
<1>3. ~clientActive[c]
  BY <1>1, <1>2 DEF MovesInv, ComesTo
<1> QED BY <1>1, <1>2, <1>3 DEF SentInv

-----------------------------------------------------------------------------
(* The last copy arrives.                                                  *)

LEMMA LastKept ==
  ASSUME ClipboardInv, OrderInv, LastInv, [ClipboardNext]_clipboardVars
  PROVE  LastInv'
<1>1. UNCHANGED setting
  BY DEF ClipboardNext, clipboardVars
<1> SUFFICES ASSUME CalmCopies, LastKnown
             PROVE  LastKnown'
  BY <1>1 DEF LastInv, CalmCopies, InFocus, NoticesEveryCopy
<1>2. UNCHANGED clipboardVars => LastKnown'
  BY DEF clipboardVars, LastKnown, NoGrab, GrabOf, Unnoticed, Reported, Told, Posted, NoReports,
         NoMessages, LastIsOwners, LastIsOf, LastAt, Undisturbed, BringsNoOther, CountsFrom, Brings,
         BehindGrab, HasTold
<1>3. \A s \in Screen : Copy(s) => LastKnown'
  BY <1>1, CopyKnown
<1>4. \A s \in Screen : Notice(s) => LastKnown'
  BY <1>1, NoticeKnown
<1>5. \A s \in Screen : Switch(s) => LastKnown'
  BY <1>1, SwitchKnown
<1>6. handleClipboardGrabbed => LastKnown'
  BY <1>1, GrabbedKnown
<1>7. handleClipboardChanged => LastKnown'
  BY <1>1, ChangedKnown
<1>8. SendClipboard \/ DispatchToNobody => LastKnown'
  BY <1>1, SendKnown
<1>9. \A c \in Client : ServerReceives(c) => LastKnown'
  BY <1>1, DataReceivedKnown, GrabReceivedKnown
<1>10. \A c \in Client : ClientGrabs(c) => LastKnown'
  BY <1>1, ClientGrabsKnown
<1>11. \A c \in Client : ClientSends(c) => LastKnown'
  BY <1>1, ClientSendsKnown
<1>12. \A c \in Client : Receives(c) => LastKnown'
  BY <1>1, ReceivesKnown
<1>13. \A c \in Client : Connect(c) => LastKnown'
  BY <1>1, ConnectKnown
<1>14. \A c \in Client : ~Disconnect(c)
  BY DEF CalmCopies, Disconnect
<1> QED BY <1>2, <1>3, <1>4, <1>5, <1>6, <1>7, <1>8, <1>9, <1>10, <1>11, <1>12, <1>13, <1>14
        DEF ClipboardNext, Step, Idle

\* What the system keeps of the last copy.
CopiesInv == ClipboardInv /\ OrderInv /\ LastInv

LEMMA CopiesStart ==
  ASSUME ClipboardInit
  PROVE  CopiesInv
<1>1. /\ connected = {} /\ unnoticed = {} /\ activeScreen = Home /\ m_clipboardOwner = Home
      /\ copies = 0 /\ dirty = {} /\ events = << >> /\ content[Home] = 0
      /\ \A c \in Client : /\ clientEvents[c] = << >> /\ toClient[c] = << >> /\ toServer[c] = << >>
  BY DEF ClipboardInit, Screen, Empty
<1>2. OrderInv
  BY <1>1, EmptyQueue, AfterKept DEF OrderInv
<1>3. NoGrab
  BY <1>1, EmptyQueue DEF NoGrab, NoReports, NoMessages
<1>4. LastIsOwners
  BY <1>1 DEF LastIsOwners, LastAt, Undisturbed
<1>5. \A s : ~GrabOf(s)
  BY <1>3, NoStage
<1> QED BY <1>2, <1>4, <1>5, ClipboardStarts DEF CopiesInv, LastInv, LastKnown

LEMMA CopiesKept ==
  ASSUME CopiesInv, [ClipboardNext]_clipboardVars
  PROVE  CopiesInv'
<1>1. ClipboardInv' /\ LastInv'
  BY ClipboardKept, LastKept DEF CopiesInv
<1>2. CASE ClipboardNext
  BY <1>1, <1>2, OrderKept DEF CopiesInv, ClipboardInv
<1>3. CASE UNCHANGED clipboardVars
  BY <1>1, <1>3 DEF CopiesInv, clipboardVars, OrderInv
<1> QED BY <1>2, <1>3

LEMMA CopiesArrive ==
  ASSUME CopiesInv
  PROVE  CopiesAreShared
<1>1. ClipboardInv /\ LastInv
  BY DEF CopiesInv
<1>2. ASSUME CalmCopies, Quiet
      PROVE  /\ content[activeScreen] = copies
             /\ activeScreen # m_clipboardOwner => content[activeScreen] = m_clipboardData
  <2>1. /\ LastIsOwners /\ activeScreen \notin dirty
        /\ m_clipboardOwner # activeScreen => m_clipboardData = copies
    BY <1>1, <1>2, RestIsShared DEF LastInv
  <2>2. CASE m_clipboardOwner = activeScreen
    BY <2>1, <2>2 DEF LastIsOwners, LastAt
  <2>3. CASE m_clipboardOwner # activeScreen
    <3>1. /\ activeScreen \in connected \union {Home} /\ InFocus
      BY <1>1, <1>2, CalmFacts
    <3>2. Settled(activeScreen)
      BY <1>2 DEF Quiet, Settled
    <3>3. content[activeScreen] = m_clipboardData
      BY <3>1, <3>2, <2>1, <2>3, <1>1, CleanHaveTheData DEF CleanScreensHaveTheData
    <3> QED BY <3>3, <2>1, <2>3
  <2> QED BY <2>2, <2>3
<1>3. LastCopyIsShared /\ ActiveHasTheData
  BY <1>2 DEF LastCopyIsShared, ActiveHasTheData
<1> QED BY <1>1, <1>3, OwnersAreExpected, InactiveHaveSent DEF CopiesAreShared

-----------------------------------------------------------------------------
(* What is proved of it.                                                   *)

\* For any clients, copies, switches and circumstances: every variable has its
\* type, the active screen is served, only served screens are dirty, and no
\* number runs ahead of the server's (Server, ClientProxy, Client, ServerProxy).
THEOREM ClipboardIsAlwaysTyped == ClipboardSpec => []ClipboardTypeOK
<1>1. ClipboardInv => ClipboardTypeOK
  BY DEF ClipboardInv, Typed
<1> QED BY <1>1, ClipboardStarts, ClipboardKept, PTL DEF ClipboardSpec

\* For any clients, while users copy where the cursor is and wait, on every
\* platform and whatever connections are lost: a screen the server thinks clean
\* has the shared data as soon as nothing is under way to it, so that entering it
\* need not send them (ClientProxy1_0::setClipboard, setDirty).
THEOREM CleanScreensAlwaysHaveTheData == ClipboardSpec => []CleanScreensHaveTheData
BY CleanHaveTheData, ClipboardStarts, ClipboardKept, PTL DEF ClipboardSpec

\* In the same circumstances, data that the server accepts come from the owner, as
\* onClipboardChanged asserts: a client's data are behind its grab.
THEOREM ExpectedClientAlwaysInFocus == ClipboardSpec => []ExpectedClientInFocus
BY OwnersAreExpected, ClipboardStarts, ClipboardKept, PTL DEF ClipboardSpec

\* Where every copy is noticed, also a copy where the cursor is not: once nothing
\* is under way, a client that owns the clipboard and has not the cursor has sent
\* what it has (Client::handleClipboardGrabbed, Client::leave).
THEOREM InactiveOwnersHaveAlwaysSent == ClipboardSpec => []InactiveOwnersHaveSent
BY InactiveHaveSent, ClipboardStarts, ClipboardKept, PTL DEF ClipboardSpec

\* While users copy where the cursor is and wait, every copy is noticed and no
\* connection is lost: once nothing is under way, the screen with the cursor has
\* what was copied last, on whatever screen, and whatever else is promised of it
\* (switchScreen, onClipboardChanged, Client::handleClipboardGrabbed).
THEOREM CopiesAreAlwaysShared == ClipboardSpec => []CopiesAreShared
BY CopiesArrive, CopiesStart, CopiesKept, PTL DEF ClipboardSpec
=============================================================================
