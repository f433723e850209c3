------------------------- MODULE Connections_proofs -------------------------
(***************************************************************************)
(* Theorems about what connects clients to the server.  ClientAdmission,   *)
(* for any number of peers, plain and TLS: a proxy has one owner, who      *)
(* hears of its end, no event finds the handler of what has been deleted,  *)
(* and nobody is forgotten.  ClientConnection, for any servers and         *)
(* addresses: a client always has a way on.                                *)
(***************************************************************************)
EXTENDS ClientAdmission, ClientConnection, FiniteSetTheorems, SequenceTheorems,
        WellFoundedInduction, TLAPS

(***************************************************************************)
(* Queues: what is in them, what is in them once, what comes before what.  *)
(***************************************************************************)
Occurs(q, x) == \E i \in 1 .. Len(q) : q[i] = x
Once(q, x) == \A i, j \in 1 .. Len(q) : q[i] = x /\ q[j] = x => i = j
Precedes(q, x, y) == \A i, j \in 1 .. Len(q) : q[i] = x /\ q[j] = y => i < j

LEMMA ShortQueues ==
  /\ \A x : ~Occurs(<< >>, x)
  /\ \A e, x : Occurs(<<e>>, x) <=> x = e
  /\ \A e, f, x : Occurs(<<e, f>>, x) <=> x = e \/ x = f
  /\ \A x : Once(<< >>, x) /\ \A e : Once(<<e>>, x)
  /\ \A e, f, x : e # f => Once(<<e, f>>, x)
<1>1. \A x : ~Occurs(<< >>, x)
  BY DEF Occurs
<1>2. \A e, x : Occurs(<<e>>, x) <=> x = e
  BY DEF Occurs
<1>3. ASSUME NEW e, NEW f, NEW x PROVE Occurs(<<e, f>>, x) <=> x = e \/ x = f
  <2>1. Len(<<e, f>>) = 2 /\ <<e, f>>[1] = e /\ <<e, f>>[2] = f
    OBVIOUS
  <2>2. 1 .. 2 = {1, 2}
    OBVIOUS
  <2>3. QED  BY <2>1, <2>2 DEF Occurs
<1>4. \A x : Once(<< >>, x) /\ \A e : Once(<<e>>, x)
  BY DEF Once
<1>5. ASSUME NEW e, NEW f, NEW x, e # f PROVE Once(<<e, f>>, x)
  <2>1. Len(<<e, f>>) = 2 /\ <<e, f>>[1] = e /\ <<e, f>>[2] = f
    OBVIOUS
  <2>2. 1 .. 2 = {1, 2}
    OBVIOUS
  <2>3. QED  BY <2>1, <2>2, <1>5 DEF Once
<1>6. QED  BY <1>1, <1>2, <1>3, <1>4, <1>5

LEMMA TailQueue ==
  ASSUME NEW S, NEW q \in Seq(S), q # << >>
  PROVE  /\ Tail(q) \in Seq(S)
         /\ Occurs(q, Head(q))
         /\ \A x : Occurs(Tail(q), x) => Occurs(q, x)
         /\ \A x : Occurs(q, x) /\ x # Head(q) => Occurs(Tail(q), x)
         /\ Once(q, Head(q)) => ~Occurs(Tail(q), Head(q))
         /\ \A x : Once(q, x) => Once(Tail(q), x)
         /\ \A x, y : Precedes(q, x, y) => Precedes(Tail(q), x, y)
         /\ \A x : Precedes(q, x, Head(q)) => ~Occurs(Tail(q), x)
<1> DEFINE t == Tail(q)  n == Len(q)
<1>1. /\ n \in Nat \ {0} /\ t \in Seq(S) /\ Len(t) = n - 1 /\ Head(q) = q[1]
      /\ \A i \in 1 .. n - 1 : t[i] = q[i + 1] /\ i + 1 \in 1 .. n
      /\ \A i \in 2 .. n : q[i] = t[i - 1] /\ i - 1 \in 1 .. n - 1
  OBVIOUS
<1> HIDE DEF t, n
<1>2. /\ Occurs(q, Head(q)) <=> \E i \in 1 .. n : q[i] = q[1]
      /\ \A x : Occurs(q, x) <=> \E i \in 1 .. n : q[i] = x
      /\ \A x : Occurs(t, x) <=> \E i \in 1 .. n - 1 : t[i] = x
  BY <1>1 DEF Occurs, n
<1>3. 1 \in 1 .. n /\ \A i \in 1 .. n : i = 1 \/ i \in 2 .. n
  BY <1>1
<1>4. Occurs(q, Head(q))
  BY <1>2, <1>3
<1>5. \A x : Occurs(t, x) => Occurs(q, x)
  BY <1>1, <1>2
<1>6. \A x : Occurs(q, x) /\ x # Head(q) => Occurs(t, x)
  BY <1>1, <1>2, <1>3
<1>7. ASSUME Once(q, Head(q)), Occurs(t, Head(q)) PROVE FALSE
  <2>1. PICK i \in 1 .. n - 1 : t[i] = Head(q)
    BY <1>2, <1>7
  <2>2. q[i + 1] = q[1] /\ i + 1 \in 1 .. n
    BY <1>1, <2>1
  <2>3. i + 1 = 1
    BY <1>1, <1>3, <1>7, <2>2 DEF Once, n
  <2>4. i \in Nat /\ i >= 1
    BY <1>1
  <2>5. QED  BY <2>3, <2>4
<1>8. ASSUME NEW x, Once(q, x) PROVE Once(t, x)
  <2>1. ASSUME NEW i \in 1 .. n - 1, NEW j \in 1 .. n - 1, t[i] = x, t[j] = x PROVE i = j
    <3>1. q[i + 1] = x /\ q[j + 1] = x /\ i + 1 \in 1 .. n /\ j + 1 \in 1 .. n
      BY <1>1, <2>1
    <3>2. i + 1 = j + 1
      BY <1>8, <3>1 DEF Once, n
    <3>3. i \in Nat /\ j \in Nat
      BY <1>1
    <3>4. QED  BY <3>2, <3>3
  <2>2. QED  BY <1>1, <2>1 DEF Once
<1>9. ASSUME NEW x, NEW y, Precedes(q, x, y) PROVE Precedes(t, x, y)
  <2>1. ASSUME NEW i \in 1 .. n - 1, NEW j \in 1 .. n - 1, t[i] = x, t[j] = y PROVE i < j
    <3>1. q[i + 1] = x /\ q[j + 1] = y /\ i + 1 \in 1 .. n /\ j + 1 \in 1 .. n
      BY <1>1, <2>1
    <3>2. i + 1 < j + 1
      BY <1>9, <3>1 DEF Precedes, n
    <3>3. i \in Nat /\ j \in Nat
      BY <1>1
    <3>4. QED  BY <3>2, <3>3
  <2>2. QED  BY <1>1, <2>1 DEF Precedes
<1>10. ASSUME NEW x, Precedes(q, x, Head(q)), Occurs(t, x) PROVE FALSE
  <2>1. PICK i \in 1 .. n - 1 : t[i] = x
    BY <1>2, <1>10
  <2>2. q[i + 1] = x /\ i + 1 \in 1 .. n
    BY <1>1, <2>1
  <2>3. i + 1 < 1
    BY <1>1, <1>3, <1>10, <2>2 DEF Precedes, n
  <2>4. i \in Nat /\ i >= 1
    BY <1>1
  <2>5. QED  BY <2>3, <2>4
<1>11. QED  BY <1>1, <1>4, <1>5, <1>6, <1>7, <1>8, <1>9, <1>10 DEF t

LEMMA JoinedQueues ==
  ASSUME NEW S, NEW q \in Seq(S), NEW p \in Seq(S)
  PROVE  /\ q \o p \in Seq(S)
         /\ \A x : Occurs(q \o p, x) <=> Occurs(q, x) \/ Occurs(p, x)
         /\ \A x : Once(q, x) /\ Once(p, x) /\ ~(Occurs(q, x) /\ Occurs(p, x))
              => Once(q \o p, x)
         /\ \A x, y :
              Precedes(q, x, y) /\ Precedes(p, x, y) /\ ~(Occurs(q, y) /\ Occurs(p, x))
                => Precedes(q \o p, x, y)
<1> DEFINE r == q \o p  n == Len(q)  m == Len(p)
<1>1. /\ n \in Nat /\ m \in Nat /\ r \in Seq(S) /\ Len(r) = n + m
      /\ \A i \in 1 .. n : r[i] = q[i] /\ i \in 1 .. n + m
      /\ \A i \in 1 .. m : r[n + i] = p[i] /\ n + i \in 1 .. n + m
  OBVIOUS
<1> HIDE DEF r
<1>2. ASSUME NEW i \in 1 .. n + m, i \notin 1 .. n
      PROVE  i - n \in 1 .. m /\ r[i] = p[i - n]
  <2>1. i \in Nat /\ i > n
    BY <1>1, <1>2
  <2>2. i - n \in 1 .. m /\ n + (i - n) = i
    BY <1>1, <2>1
  <2>3. QED  BY <1>1, <2>2
<1> HIDE DEF n, m
<1>3. \A x : Occurs(r, x) <=> Occurs(q, x) \/ Occurs(p, x)
  <2>1. \A x : Occurs(r, x) => Occurs(q, x) \/ Occurs(p, x)
    BY <1>1, <1>2 DEF Occurs, n, m
  <2>2. \A x : Occurs(q, x) => Occurs(r, x)
    BY <1>1 DEF Occurs, n
  <2>3. ASSUME NEW x, Occurs(p, x) PROVE Occurs(r, x)
    <3>1. PICK i \in 1 .. m : p[i] = x
      BY <2>3 DEF Occurs, m
    <3>2. r[n + i] = x /\ n + i \in 1 .. n + m
      BY <1>1, <3>1
    <3>3. QED  BY <1>1, <3>2 DEF Occurs
  <2>4. QED  BY <2>1, <2>2, <2>3
<1>4. ASSUME NEW x, Once(q, x), Once(p, x), ~(Occurs(q, x) /\ Occurs(p, x))
      PROVE  Once(r, x)
  <2>1. ASSUME NEW i \in 1 .. n + m, NEW j \in 1 .. n + m, r[i] = x, r[j] = x PROVE i = j
    <3>1. CASE i \in 1 .. n /\ j \in 1 .. n
      BY <1>1, <1>4, <2>1, <3>1 DEF Once, n
    <3>2. CASE i \notin 1 .. n /\ j \notin 1 .. n
      <4>1. i - n = j - n
        BY <1>2, <1>4, <2>1, <3>2 DEF Once, m
      <4>2. i \in Int /\ j \in Int /\ n \in Int
        BY <1>1
      <4>3. QED  BY <4>1, <4>2
    <3>3. CASE i \in 1 .. n /\ j \notin 1 .. n
      BY <1>1, <1>2, <1>4, <2>1, <3>3 DEF Occurs, n, m
    <3>4. CASE i \notin 1 .. n /\ j \in 1 .. n
      BY <1>1, <1>2, <1>4, <2>1, <3>4 DEF Occurs, n, m
    <3>5. QED  BY <3>1, <3>2, <3>3, <3>4
  <2>2. QED  BY <1>1, <2>1 DEF Once
<1>5. ASSUME NEW x, NEW y, Precedes(q, x, y), Precedes(p, x, y),
             ~(Occurs(q, y) /\ Occurs(p, x))
      PROVE  Precedes(r, x, y)
  <2>1. ASSUME NEW i \in 1 .. n + m, NEW j \in 1 .. n + m, r[i] = x, r[j] = y PROVE i < j
    <3>1. i \in Nat /\ j \in Nat /\ n \in Nat
      BY <1>1
    <3>2. CASE i \in 1 .. n /\ j \in 1 .. n
      BY <1>1, <1>5, <2>1, <3>2 DEF Precedes, n
    <3>3. CASE i \notin 1 .. n /\ j \notin 1 .. n
      <4>1. i - n < j - n
        BY <1>2, <1>5, <2>1, <3>3 DEF Precedes, m
      <4>2. QED  BY <3>1, <4>1
    <3>4. CASE i \in 1 .. n /\ j \notin 1 .. n
      BY <3>1, <3>4
    <3>5. CASE i \notin 1 .. n /\ j \in 1 .. n
      BY <1>1, <1>2, <1>5, <2>1, <3>5 DEF Occurs, n, m
    <3>6. QED  BY <3>2, <3>3, <3>4, <3>5
  <2>2. QED  BY <1>1, <2>1 DEF Precedes
<1>6. QED  BY <1>1, <1>3, <1>4, <1>5 DEF r

(***************************************************************************)
(* What is always true of a peer.                                          *)
(***************************************************************************)
\* It is being accepted ...
Early(c) ==
  \/ c \in accepting
  \/ \E type \in {"connecting", "accepted", "refused"} : IsQueued(type, c)
\* ... and then there is nothing of it.
NotYet(c) ==
  /\ c \notin m_newClients /\ proxy[c] = "none"
  /\ streamHandler[c] = "nobody" /\ proxyHandler[c] = "nobody"
  /\ \A type \in {"ready", "disconnected", "success", "failure"} : ~IsQueued(type, c)

\* It is accepted once.
Accepted(c) ==
  /\ Early(c) \/ peerAt[c] = "away" => NotYet(c)
  /\ Early(c) => peerAt[c] # "away"
  /\ \A type \in {"connecting", "accepted", "refused"} :
       /\ Once(serverEvents, <<type, c>>)
       /\ IsQueued(type, c) =>
            /\ c \notin accepting
            /\ \A other \in {"connecting", "accepted", "refused"} \ {type} :
                 ~IsQueued(other, c)

\* Who handles its stream is alive.
Handled(c) ==
  /\ streamHandler[c] = "unknown" =>
       /\ c \in m_stream /\ proxy[c] = "none" /\ proxyHandler[c] = "nobody"
       /\ \A type \in {"ready", "disconnected", "success", "failure"} : ~IsQueued(type, c)
  /\ streamHandler[c] = "proxy" => proxy[c] \in {"asks", "known"}
  /\ IsQueued("success", c) =>
       streamHandler[c] # "unknown" /\ (c \in m_proxy => c \in m_ready)
  /\ IsQueued("failure", c) => streamHandler[c] = "nobody" /\ c \notin m_proxy

\* What its proxy has posted, it has posted in this order.
Told(c) ==
  /\ IsQueued("ready", c) => proxy[c] \in {"known", "gone", "deleted"}
  /\ IsQueued("disconnected", c) => proxy[c] \in {"gone", "deleted"}
  /\ c \in m_ready => proxy[c] \in {"known", "gone"}
  /\ Once(serverEvents, <<"disconnected", c>>)
  /\ Precedes(serverEvents, <<"ready", c>>, <<"disconnected", c>>)
  /\ (IsQueued("ready", c) \/ IsQueued("disconnected", c)) /\ proxyHandler[c] = "unknown"
       => c \in m_proxy

\* Its proxy has one owner.
Owned(c) ==
  /\ proxy[c] \in {"asks", "known", "gone"} =>
       \/ c \in m_proxy /\ c \notin Waiting \union served /\ proxyHandler[c] = "unknown"
       \/ c \in Waiting \ (m_proxy \union served) /\ proxyHandler[c] = "listener"
       \/ c \in served \ (m_proxy \union Waiting) /\ proxyHandler[c] = "server"
  /\ c \in m_proxy => proxy[c] \in {"asks", "known", "gone"}
  /\ c \in Waiting \union served => proxy[c] \in {"known", "gone"} /\ c \notin m_newClients

\* It is not forgotten.
Minded(c) ==
  /\ c \in m_newClients =>
       c \in unknownTimer \/ IsQueued("success", c) \/ IsQueued("failure", c)
  /\ proxy[c] = "known" => c \in m_heartbeatTimer
  /\ proxy[c] = "gone" => IsQueued("disconnected", c)

PeerInv(c) ==
  Accepted(c) /\ Handled(c) /\ Told(c) /\ Owned(c) /\ Minded(c)

WaitsOnce ==
  \A i, j \in 1 .. Len(m_waitingClients) :
    m_waitingClients[i] = m_waitingClients[j] => i = j
Calls(q) == {i \in 1 .. Len(q) : q[i][1] = "admitted"}

AdmissionInv ==
  /\ AdmissionTypeOK /\ WaitsOnce
  /\ Len(m_waitingClients) <= Cardinality(Calls(serverEvents))
  /\ \A c \in Peer : PeerInv(c)

(***************************************************************************)
(* What a step does to the queue: of c's events one of the types "drop"    *)
(* goes and those of the types "add" come; there is no other.              *)
(***************************************************************************)
QueueStep(c, drop, add) ==
  /\ serverEvents' \in Seq(ServerEvent)
  /\ \A d, t : d # c \/ t \notin drop \union add => (IsQueued(t, d)' <=> IsQueued(t, d))
  /\ \A t \in drop : IsQueued(t, c)
  /\ \A t \in add : IsQueued(t, c)'
  /\ \A t \in drop \ add :
       /\ IsQueued(t, c)' => IsQueued(t, c)
       /\ Once(serverEvents, <<t, c>>) => ~IsQueued(t, c)'
  /\ \A d, t : Once(serverEvents, <<t, d>>) /\ (d # c \/ t \notin add \/ ~IsQueued(t, c))
       => Once(serverEvents', <<t, d>>)
  /\ \A d, t, u :
       /\ Precedes(serverEvents, <<t, d>>, <<u, d>>)
       /\ d # c \/ t \notin add \/ u \notin add
       /\ d # c \/ t \notin add \/ ~IsQueued(u, c)
       => Precedes(serverEvents', <<t, d>>, <<u, d>>)
  /\ \A t, u : /\ u \in drop /\ t \notin add
               /\ Precedes(serverEvents, <<t, c>>, <<u, c>>)
               => ~IsQueued(t, c)'

LEMMA QueuedOccurs ==
  \A t, d : /\ IsQueued(t, d) <=> Occurs(serverEvents, <<t, d>>)
            /\ IsQueued(t, d)' <=> Occurs(serverEvents', <<t, d>>)
BY DEF IsQueued, Occurs

LEMMA NothingPosted ==
  ASSUME NEW type, NEW c, Handles(type, c, << >>), serverEvents \in Seq(ServerEvent)
  PROVE  QueueStep(c, {type}, {})
<1> DEFINE q == serverEvents  r == serverEvents'
<1>1. q # << >> /\ Head(q) = <<type, c>> /\ r = Tail(q)
  <2>1. q # << >> /\ Tail(q) \in Seq(ServerEvent) /\ r = Tail(q) \o << >>
    BY DEF Handles
  <2>2. QED  BY <2>1 DEF Handles
<1>2. /\ r \in Seq(ServerEvent)
      /\ Occurs(q, <<type, c>>)
      /\ \A x : Occurs(r, x) => Occurs(q, x)
      /\ \A x : Occurs(q, x) /\ x # <<type, c>> => Occurs(r, x)
      /\ Once(q, <<type, c>>) => ~Occurs(r, <<type, c>>)
      /\ \A x : Once(q, x) => Once(r, x)
      /\ \A x, y : Precedes(q, x, y) => Precedes(r, x, y)
      /\ \A x : Precedes(q, x, <<type, c>>) => ~Occurs(r, x)
  <2> HIDE DEF q, r
  <2>1. q \in Seq(ServerEvent)
    BY DEF q
  <2>2. /\ r \in Seq(ServerEvent)
        /\ Occurs(q, Head(q))
        /\ \A x : Occurs(r, x) => Occurs(q, x)
        /\ \A x : Occurs(q, x) /\ x # Head(q) => Occurs(r, x)
        /\ Once(q, Head(q)) => ~Occurs(r, Head(q))
        /\ \A x : Once(q, x) => Once(r, x)
        /\ \A x, y : Precedes(q, x, y) => Precedes(r, x, y)
        /\ \A x : Precedes(q, x, Head(q)) => ~Occurs(r, x)
    BY ONLY <1>1, <2>1, TailQueue
  <2>3. QED  BY ONLY <1>1, <2>2
<1> HIDE DEF q, r
<1>3. \A t, d : (IsQueued(t, d) <=> Occurs(q, <<t, d>>))
             /\ (IsQueued(t, d)' <=> Occurs(r, <<t, d>>))
  BY QueuedOccurs DEF q, r
<1>4. \A d, t : d # c \/ t # type => <<t, d>> # <<type, c>>
  OBVIOUS
<1>5. QED  BY <1>2, <1>3, <1>4 DEF QueueStep, q, r

\* Events of c are posted, each of them once.
LEMMA SomePosted ==
  ASSUME NEW type, NEW add, NEW c, NEW p \in Seq(ServerEvent), type \notin add,
         Handles(type, c, p), serverEvents \in Seq(ServerEvent),
         \A x : Occurs(p, x) <=> \E t \in add : x = <<t, c>>,
         \A x : Once(p, x)
  PROVE  QueueStep(c, {type}, add)
<1> DEFINE q == serverEvents  r == serverEvents'
<1>1. q # << >> /\ Head(q) = <<type, c>> /\ r = Tail(q) \o p
  BY DEF Handles
<1>2. /\ Tail(q) \in Seq(ServerEvent)
      /\ Occurs(q, <<type, c>>)
      /\ \A x : Occurs(Tail(q), x) => Occurs(q, x)
      /\ \A x : Occurs(q, x) /\ x # <<type, c>> => Occurs(Tail(q), x)
      /\ Once(q, <<type, c>>) => ~Occurs(Tail(q), <<type, c>>)
      /\ \A x : Once(q, x) => Once(Tail(q), x)
      /\ \A x, y : Precedes(q, x, y) => Precedes(Tail(q), x, y)
      /\ \A x : Precedes(q, x, <<type, c>>) => ~Occurs(Tail(q), x)
  <2> HIDE DEF q, r
  <2>1. q \in Seq(ServerEvent)
    BY DEF q
  <2>2. /\ Tail(q) \in Seq(ServerEvent)
        /\ Occurs(q, Head(q))
        /\ \A x : Occurs(Tail(q), x) => Occurs(q, x)
        /\ \A x : Occurs(q, x) /\ x # Head(q) => Occurs(Tail(q), x)
        /\ Once(q, Head(q)) => ~Occurs(Tail(q), Head(q))
        /\ \A x : Once(q, x) => Once(Tail(q), x)
        /\ \A x, y : Precedes(q, x, y) => Precedes(Tail(q), x, y)
        /\ \A x : Precedes(q, x, Head(q)) => ~Occurs(Tail(q), x)
    BY ONLY <1>1, <2>1, TailQueue
  <2>3. QED  BY ONLY <1>1, <2>2
<1> HIDE DEF q, r
<1>3. /\ r \in Seq(ServerEvent)
      /\ \A x : Occurs(r, x) <=> Occurs(Tail(q), x) \/ Occurs(p, x)
      /\ \A x : Once(Tail(q), x) /\ ~(Occurs(Tail(q), x) /\ Occurs(p, x)) => Once(r, x)
      /\ \A x, y : /\ Precedes(Tail(q), x, y) /\ Precedes(p, x, y)
                   /\ ~(Occurs(Tail(q), y) /\ Occurs(p, x))
                   => Precedes(r, x, y)
  BY <1>1, <1>2, JoinedQueues
<1>4. \A x, y : ~Occurs(p, x) \/ ~Occurs(p, y) => Precedes(p, x, y)
  BY DEF Precedes, Occurs
<1>5. \A t, d : (IsQueued(t, d) <=> Occurs(q, <<t, d>>))
             /\ (IsQueued(t, d)' <=> Occurs(r, <<t, d>>))
  BY QueuedOccurs DEF q, r
<1>6. \A d, t : /\ Occurs(p, <<t, d>>) <=> t \in add /\ d = c
                /\ <<t, d>> = <<type, c>> <=> t = type /\ d = c
  OBVIOUS
<1>7. /\ \A d, t : d # c \/ t \notin {type} \union add => (IsQueued(t, d)' <=> IsQueued(t, d))
      /\ IsQueued(type, c) /\ \A t \in add : IsQueued(t, c)'
      /\ Once(q, <<type, c>>) => ~IsQueued(type, c)'
      /\ \A t, u : /\ u = type /\ t \notin add /\ Precedes(q, <<t, c>>, <<u, c>>)
                   => ~IsQueued(t, c)'
  BY <1>2, <1>3, <1>5, <1>6
<1>8. \A d, t : Once(q, <<t, d>>) /\ (d # c \/ t \notin add \/ ~IsQueued(t, c))
                  => Once(r, <<t, d>>)
  BY <1>2, <1>3, <1>5, <1>6
<1>9. ASSUME NEW d, NEW t, NEW u, Precedes(q, <<t, d>>, <<u, d>>),
             d # c \/ t \notin add \/ u \notin add, d # c \/ t \notin add \/ ~IsQueued(u, c)
      PROVE  Precedes(r, <<t, d>>, <<u, d>>)
  <2>1. Precedes(Tail(q), <<t, d>>, <<u, d>>) /\ Precedes(p, <<t, d>>, <<u, d>>)
    BY <1>2, <1>4, <1>6, <1>9
  <2>2. ~(Occurs(Tail(q), <<u, d>>) /\ Occurs(p, <<t, d>>))
    BY <1>2, <1>5, <1>6, <1>9
  <2>3. QED  BY <1>3, <2>1, <2>2
<1>10. QED  BY <1>3, <1>7, <1>8, <1>9 DEF QueueStep, q, r

LEMMA OnePosted ==
  ASSUME NEW type, NEW new, NEW c, <<new, c>> \in ServerEvent, type # new,
         Handles(type, c, << <<new, c>> >>), serverEvents \in Seq(ServerEvent)
  PROVE  QueueStep(c, {type}, {new})
<1> DEFINE p == << <<new, c>> >>
<1>1. p \in Seq(ServerEvent)
  OBVIOUS
<1>2. (\A x : Occurs(p, x) <=> x = <<new, c>>) /\ (\A x : Once(p, x))
  BY ShortQueues
<1>3. Handles(type, c, p) /\ type \notin {new}
  OBVIOUS
<1> HIDE DEF p
<1>4. QED  BY <1>1, <1>2, <1>3, SomePosted

LEMMA Posted ==
  ASSUME NEW new, NEW c, <<new, c>> \in ServerEvent, serverEvents \in Seq(ServerEvent),
         serverEvents' = Append(serverEvents, <<new, c>>)
  PROVE  QueueStep(c, {}, {new})
<1> DEFINE q == serverEvents  r == serverEvents'  p == << <<new, c>> >>
<1>1. r = q \o p
  OBVIOUS
<1>2. q \in Seq(ServerEvent) /\ p \in Seq(ServerEvent)
  OBVIOUS
<1>3. (\A x : Occurs(p, x) <=> x = <<new, c>>) /\ (\A x : Once(p, x))
  BY ShortQueues
<1> HIDE DEF q, r, p
<1>4. /\ r \in Seq(ServerEvent)
      /\ \A x : Occurs(r, x) <=> Occurs(q, x) \/ x = <<new, c>>
      /\ \A x : Once(q, x) /\ ~(Occurs(q, x) /\ x = <<new, c>>) => Once(r, x)
      /\ \A x, y : /\ Precedes(q, x, y) /\ Precedes(p, x, y)
                   /\ ~(Occurs(q, y) /\ x = <<new, c>>)
                   => Precedes(r, x, y)
  BY <1>1, <1>2, <1>3, JoinedQueues
<1>5. \A x, y : x # <<new, c>> \/ y # <<new, c>> => Precedes(p, x, y)
  <2>1. Len(p) = 1 /\ p[1] = <<new, c>>
    BY DEF p
  <2>2. QED  BY <2>1 DEF Precedes
<1>6. \A t, d : (IsQueued(t, d) <=> Occurs(q, <<t, d>>))
             /\ (IsQueued(t, d)' <=> Occurs(r, <<t, d>>))
  BY QueuedOccurs DEF q, r
<1>7. \A d, t, u : /\ (d # c \/ t # u) => <<t, d>> # <<u, c>>
                   /\ <<t, d>> = <<u, c>> => t = u /\ d = c
  OBVIOUS
<1>8. /\ \A d, t : d # c \/ t # new => (IsQueued(t, d)' <=> IsQueued(t, d))
      /\ IsQueued(new, c)'
  BY <1>4, <1>6, <1>7
<1>9. \A d, t : Once(q, <<t, d>>) /\ (d # c \/ t # new \/ ~IsQueued(t, c))
                  => Once(r, <<t, d>>)
  BY <1>4, <1>6, <1>7
<1>10. ASSUME NEW d, NEW t, NEW u, Precedes(q, <<t, d>>, <<u, d>>),
              d # c \/ t # new \/ u # new, d # c \/ t # new \/ ~IsQueued(u, c)
       PROVE  Precedes(r, <<t, d>>, <<u, d>>)
  <2>1. Precedes(p, <<t, d>>, <<u, d>>)
    BY <1>5, <1>7, <1>10
  <2>2. ~(Occurs(q, <<u, d>>) /\ <<t, d>> = <<new, c>>)
    BY <1>6, <1>7, <1>10
  <2>3. QED  BY <1>4, <1>10, <2>1, <2>2
<1>11. QED  BY <1>4, <1>8, <1>9, <1>10 DEF QueueStep, q, r

\* A timer expires: nothing was queued.
LEMMA Expired ==
  ASSUME NEW new, NEW c, <<new, c>> \in ServerEvent, Expires(<< <<new, c>> >>)
  PROVE  /\ QueueStep(c, {}, {new})
         /\ \A t, d : ~IsQueued(t, d)
<1>1. serverEvents = << >> /\ serverEvents' = << <<new, c>> >>
  BY DEF Expires
<1>2. serverEvents \in Seq(ServerEvent) /\ serverEvents' = Append(serverEvents, <<new, c>>)
  BY <1>1
<1>3. QueueStep(c, {}, {new})
  BY <1>2, Posted
<1>4. \A t, d : ~IsQueued(t, d)
  BY <1>1 DEF IsQueued
<1>5. QED  BY <1>3, <1>4

(***************************************************************************)
(* A step of one peer's leaves the others as they are.                     *)
(***************************************************************************)
PeerEvents ==
  {"connecting", "accepted", "refused", "ready", "disconnected", "success", "failure"}
QueueSame(d) ==
  /\ \A t \in PeerEvents :
       /\ IsQueued(t, d)' <=> IsQueued(t, d)
       /\ Once(serverEvents, <<t, d>>) => Once(serverEvents', <<t, d>>)
  /\ Precedes(serverEvents, <<"ready", d>>, <<"disconnected", d>>)
       => Precedes(serverEvents', <<"ready", d>>, <<"disconnected", d>>)
StateSame(d) ==
  /\ d \in accepting' <=> d \in accepting
  /\ d \in m_newClients' <=> d \in m_newClients
  /\ d \in m_stream' <=> d \in m_stream
  /\ d \in m_proxy' <=> d \in m_proxy
  /\ d \in m_ready' <=> d \in m_ready
  /\ d \in unknownTimer' <=> d \in unknownTimer
  /\ d \in m_heartbeatTimer' <=> d \in m_heartbeatTimer
  /\ d \in served' <=> d \in served
  /\ proxy'[d] = proxy[d]
  /\ streamHandler'[d] = streamHandler[d] /\ proxyHandler'[d] = proxyHandler[d]
  /\ peerAt'[d] = "away" <=> peerAt[d] = "away"
WaitingSame(d) == d \in Waiting' <=> d \in Waiting

LEMMA SamePeer ==
  ASSUME NEW d, PeerInv(d), QueueSame(d), StateSame(d), WaitingSame(d)
  PROVE  PeerInv(d)'
<1>1. Accepted(d)'
  BY DEF PeerInv, Accepted, NotYet, Early, QueueSame, StateSame, PeerEvents
<1>2. Handled(d)'
  BY DEF PeerInv, Handled, QueueSame, StateSame, PeerEvents
<1>3. Told(d)'
  BY DEF PeerInv, Told, QueueSame, StateSame, PeerEvents
<1>4. Owned(d)'
  BY DEF PeerInv, Owned, StateSame, WaitingSame
<1>5. Minded(d)'
  BY DEF PeerInv, Minded, QueueSame, StateSame, PeerEvents
<1>6. QED  BY <1>1, <1>2, <1>3, <1>4, <1>5 DEF PeerInv

LEMMA OthersQueue ==
  ASSUME NEW c, NEW drop, NEW add, QueueStep(c, drop, add)
  PROVE  /\ \A d : d # c => QueueSame(d)
         /\ (drop \union add) \intersect PeerEvents = {} => QueueSame(c)
BY DEF QueueStep, QueueSame, PeerEvents

LEMMA WaitingStays == m_waitingClients' = m_waitingClients => Waiting' = Waiting
BY DEF Waiting

\* Who waits, as clients come and go: nobody waits twice.
LEMMA WaitingGrows ==
  ASSUME NEW c \in Peer, m_waitingClients \in Seq(Peer), c \notin Waiting, WaitsOnce,
         m_waitingClients' = Append(m_waitingClients, c)
  PROVE  /\ m_waitingClients' \in Seq(Peer) /\ Waiting' = Waiting \union {c}
         /\ WaitsOnce' /\ Len(m_waitingClients') = Len(m_waitingClients) + 1
<1> DEFINE w == m_waitingClients  v == m_waitingClients'  n == Len(w)
<1>1. /\ n \in Nat /\ v \in Seq(Peer) /\ Len(v) = n + 1
      /\ \A i \in 1 .. n : v[i] = w[i]
      /\ v[n + 1] = c
  OBVIOUS
<1>2. \A i \in 1 .. n + 1 : i \in 1 .. n \/ i = n + 1
  BY <1>1
<1>3. n + 1 \in 1 .. n + 1 /\ \A i \in 1 .. n : i \in 1 .. n + 1
  BY <1>1
<1> HIDE DEF n, v
<1>4. Waiting' = {v[i] : i \in 1 .. n + 1} /\ Waiting = {w[i] : i \in 1 .. n}
  BY <1>1 DEF Waiting, n, v
<1>5. Waiting' = Waiting \union {c}
  BY <1>1, <1>2, <1>3, <1>4
<1>6. \A i \in 1 .. n : w[i] # c
  BY <1>4
<1>7. WaitsOnce'
  <2>1. \A i, j \in 1 .. n + 1 : v[i] = v[j] => i = j
    BY <1>1, <1>2, <1>6 DEF WaitsOnce, n
  <2>2. QED  BY <1>1, <2>1 DEF WaitsOnce, v
<1>8. QED  BY <1>1, <1>5, <1>7 DEF n, v

LEMMA HeadLeaves ==
  ASSUME m_waitingClients \in Seq(Peer), m_waitingClients # << >>, WaitsOnce,
         m_waitingClients' = Tail(m_waitingClients)
  PROVE  /\ m_waitingClients' \in Seq(Peer) /\ Head(m_waitingClients) \in Peer \intersect Waiting
         /\ Waiting' = Waiting \ {Head(m_waitingClients)}
         /\ WaitsOnce' /\ Len(m_waitingClients') = Len(m_waitingClients) - 1
<1> DEFINE w == m_waitingClients  v == m_waitingClients'  n == Len(w)
<1>1. /\ n \in Nat \ {0} /\ v \in Seq(Peer) /\ Len(v) = n - 1 /\ Head(w) = w[1]
      /\ w[1] \in Peer
      /\ \A i \in 1 .. n - 1 : v[i] = w[i + 1] /\ i + 1 \in 1 .. n
      /\ \A i \in 2 .. n : w[i] = v[i - 1] /\ i - 1 \in 1 .. n - 1
  OBVIOUS
<1>2. 1 \in 1 .. n /\ (\A i \in 1 .. n : i = 1 \/ i \in 2 .. n)
      /\ \A i \in 1 .. n - 1 : i + 1 # 1
  BY <1>1
<1> HIDE DEF n, v
<1>3. Waiting' = {v[i] : i \in 1 .. n - 1} /\ Waiting = {w[i] : i \in 1 .. n}
  BY <1>1 DEF Waiting, n, v
<1>4. \A i, j \in 1 .. n : w[i] = w[j] => i = j
  BY DEF WaitsOnce, n
<1>5. Waiting' = Waiting \ {w[1]}
  <2>1. \A i \in 1 .. n - 1 : w[i + 1] \in Waiting /\ v[i] = w[i + 1] /\ w[i + 1] # w[1]
    BY ONLY <1>1, <1>2, <1>3, <1>4
  <2>2. Waiting' \subseteq Waiting \ {w[1]}
    BY ONLY <2>1, <1>3
  <2>3. ASSUME NEW x \in Waiting \ {w[1]}
        PROVE  x \in Waiting'
    <3>1. PICK i \in 2 .. n : x = w[i]
      BY ONLY <2>3, <1>2, <1>3
    <3>2. x = v[i - 1] /\ i - 1 \in 1 .. n - 1
      BY ONLY <3>1, <1>1
    <3> QED BY ONLY <3>2, <1>3
  <2> QED BY ONLY <2>2, <2>3
<1>6. WaitsOnce'
  <2>1. ASSUME NEW i \in 1 .. n - 1, NEW j \in 1 .. n - 1, v[i] = v[j] PROVE i = j
    <3>1. i + 1 = j + 1
      BY <1>1, <1>4, <2>1
    <3>2. i \in Int /\ j \in Int
      BY <1>1
    <3>3. QED  BY <3>1, <3>2
  <2>2. QED  BY <1>1, <2>1 DEF WaitsOnce, v
<1>7. w[1] \in Waiting
  BY <1>2, <1>3
<1>8. QED  BY <1>1, <1>5, <1>6, <1>7 DEF n, v

LEMMA OneLeaves ==
  ASSUME m_waitingClients \in Seq(Peer), WaitsOnce, NEW k \in 1 .. Len(m_waitingClients),
         m_waitingClients' = [j \in 1 .. Len(m_waitingClients) - 1 |->
                                m_waitingClients[IF j < k THEN j ELSE j + 1]]
  PROVE  /\ m_waitingClients' \in Seq(Peer) /\ m_waitingClients[k] \in Waiting
         /\ Waiting' = Waiting \ {m_waitingClients[k]}
         /\ WaitsOnce' /\ Len(m_waitingClients') = Len(m_waitingClients) - 1
<1> DEFINE w == m_waitingClients  v == m_waitingClients'  n == Len(w)
<1>1. n \in Nat /\ k \in Nat /\ 1 <= k /\ k <= n
  OBVIOUS
<1>2. \A i \in 1 .. n - 1 : w[IF i < k THEN i ELSE i + 1] \in Peer
  BY <1>1
<1>3. n - 1 \in Nat /\ v = [i \in 1 .. n - 1 |-> w[IF i < k THEN i ELSE i + 1]]
  BY <1>1
<1> HIDE DEF n, v
<1>4. v \in Seq(Peer) /\ Len(v) = n - 1
  BY <1>2, <1>3
<1>5. /\ \A i \in 1 .. k - 1 : v[i] = w[i]
      /\ \A i \in k .. n - 1 : v[i] = w[i + 1]
  BY <1>1, <1>3
<1>6. \A i \in 1 .. n - 1 : i \in 1 .. k - 1 \/ i \in k .. n - 1
  BY <1>1
<1>7. /\ \A i \in 1 .. k - 1 : i \in 1 .. n - 1 /\ i \in 1 .. n /\ i # k
      /\ \A i \in k .. n - 1 : i \in 1 .. n - 1 /\ i + 1 \in 1 .. n /\ i + 1 # k
      /\ \A i \in 1 .. n : i \in 1 .. k - 1 \/ i = k \/ (i - 1 \in k .. n - 1 /\ (i - 1) + 1 = i)
      /\ k \in 1 .. n
  BY <1>1
<1>8. Waiting' = {v[i] : i \in 1 .. n - 1} /\ Waiting = {w[i] : i \in 1 .. n}
  BY <1>4 DEF Waiting, n, v
<1>9. \A i, j \in 1 .. n : w[i] = w[j] => i = j
  BY DEF WaitsOnce, n
<1>10. Waiting' = Waiting \ {w[k]}
  <2>1. ASSUME NEW i \in 1 .. n - 1 PROVE v[i] \in Waiting \ {w[k]}
    BY <1>5, <1>6, <1>7, <1>8, <1>9
  <2>2. ASSUME NEW i \in 1 .. n, i # k PROVE w[i] \in Waiting'
    BY <1>5, <1>7, <1>8, <2>2
  <2>3. QED  BY <1>8, <2>1, <2>2
<1>11. WaitsOnce'
  <2>1. ASSUME NEW i \in 1 .. n - 1, NEW j \in 1 .. n - 1, v[i] = v[j] PROVE i = j
    <3>1. i \in Int /\ j \in Int /\ k \in Int
      BY <1>1
    <3>2. CASE i \in 1 .. k - 1 /\ j \in 1 .. k - 1
      BY <1>5, <1>7, <1>9, <2>1, <3>2
    <3>3. CASE i \in k .. n - 1 /\ j \in k .. n - 1
      <4>1. i + 1 = j + 1
        BY <1>5, <1>7, <1>9, <2>1, <3>3
      <4>2. QED  BY <3>1, <4>1
    <3>4. CASE i \in 1 .. k - 1 /\ j \in k .. n - 1
      <4>1. i = j + 1
        BY <1>5, <1>7, <1>9, <2>1, <3>4
      <4>2. QED  BY <3>1, <3>4, <4>1
    <3>5. CASE i \in k .. n - 1 /\ j \in 1 .. k - 1
      <4>1. i + 1 = j
        BY <1>5, <1>7, <1>9, <2>1, <3>5
      <4>2. QED  BY <3>1, <3>5, <4>1
    <3>6. QED  BY <1>6, <3>2, <3>3, <3>4, <3>5
  <2>2. QED  BY <1>4, <2>1 DEF WaitsOnce, v
<1>12. QED  BY <1>4, <1>7, <1>8, <1>10, <1>11 DEF n, v

\* A step keeps what is always true.
Keeps == AdmissionTypeOK' /\ \A d \in Peer : PeerInv(d)'

LEMMA OneStep ==
  ASSUME NEW c \in Peer, AdmissionTypeOK', PeerInv(c)', \A d \in Peer : PeerInv(d),
         \A d \in Peer \ {c} : QueueSame(d) /\ StateSame(d) /\ WaitingSame(d)
  PROVE  Keeps
BY SamePeer DEF Keeps

(***************************************************************************)
(* The listener, up to the ClientProxyUnknown.                             *)
(***************************************************************************)
(***************************************************************************)
(* The listener, up to the ClientProxyUnknown.                             *)
(***************************************************************************)
LEMMA HandleClientConnectingKeeps ==
  ASSUME AdmissionInv, NEW c \in Peer, handleClientConnecting(c)
  PROVE  Keeps
<1>1. serverEvents \in Seq(ServerEvent)
  BY DEF AdmissionInv, AdmissionTypeOK
<1>2. \/ c \in accepting' /\ QueueStep(c, {"connecting"}, {})
      \/ accepting' = accepting /\ QueueStep(c, {"connecting"}, {"accepted"})
      \/ accepting' = accepting /\ QueueStep(c, {"connecting"}, {"hangUp", "accepted"})
  <2>1. CASE secure /\ Handles("connecting", c, << >>)
             /\ accepting' = accepting \union {c}
    BY <1>1, <2>1, NothingPosted
  <2>2. CASE ~secure /\ Handles("connecting", c, << <<"accepted", c>> >>)
             /\ accepting' = accepting
    BY <1>1, <2>2, OnePosted DEF ServerEvent
  <2>3. CASE ~secure /\ Handles("connecting", c, << <<"hangUp", c>>, <<"accepted", c>> >>)
             /\ accepting' = accepting
    <3>1. << <<"hangUp", c>>, <<"accepted", c>> >> \in Seq(ServerEvent)
      BY DEF ServerEvent
    <3>2. /\ \A x : Occurs(<< <<"hangUp", c>>, <<"accepted", c>> >>, x)
                    <=> \E t \in {"hangUp", "accepted"} : x = <<t, c>>
          /\ \A x : Once(<< <<"hangUp", c>>, <<"accepted", c>> >>, x)
      BY ShortQueues
    <3>3. QED  BY <1>1, <2>3, <3>1, <3>2, SomePosted
  <2>4. QED  BY <2>1, <2>2, <2>3 DEF handleClientConnecting
<1>3. c \notin accepting /\ peerAt[c] # "away"
  BY <1>2 DEF AdmissionInv, AdmissionTypeOK, PeerInv, Accepted, NotYet, Early, Handled,
     Told, Owned, QueueStep, handleClientConnecting
<1>4. AdmissionTypeOK'
  BY <1>2, <1>3 DEF AdmissionInv, AdmissionTypeOK, QueueStep, handleClientConnecting,
     unknownVars, proxyVars, admittedVars, handlerVars
<1>5. Waiting' = Waiting
  BY WaitingStays DEF handleClientConnecting, unknownVars, proxyVars, admittedVars,
     handlerVars
<1>6. \A d \in Peer \ {c} : QueueSame(d) /\ StateSame(d) /\ WaitingSame(d)
  BY <1>2, <1>5, OthersQueue DEF AdmissionInv, AdmissionTypeOK, StateSame, WaitingSame,
     handleClientConnecting, unknownVars, proxyVars, admittedVars, handlerVars
<1>7. /\ (peerAt'[c] = "away" <=> peerAt[c] = "away")
      /\ m_newClients' = m_newClients /\ m_stream' = m_stream /\ m_proxy' = m_proxy
      /\ m_ready' = m_ready /\ unknownTimer' = unknownTimer /\ m_heartbeatTimer' = m_heartbeatTimer
      /\ served' = served /\ proxy' = proxy /\ streamHandler' = streamHandler
      /\ proxyHandler' = proxyHandler
  BY <1>2, <1>3 DEF AdmissionInv, AdmissionTypeOK, handleClientConnecting, unknownVars,
     proxyVars, admittedVars, handlerVars
<1>8. PeerInv(c)'
  <2>1. PeerInv(c) /\ m_ready \subseteq m_proxy /\ m_proxy \subseteq m_newClients
    BY DEF AdmissionInv, AdmissionTypeOK
  <2>2. Accepted(c)'
    BY <1>2, <1>7, <2>1 DEF PeerInv, Accepted, NotYet, Early, QueueStep
  <2>3. Handled(c)'
    BY <1>2, <1>7, <2>1 DEF PeerInv, Handled, QueueStep
  <2>4. Told(c)'
    BY <1>2, <1>7, <2>1 DEF PeerInv, Told, QueueStep
  <2>5. Owned(c)'
    BY <1>5, <1>7, <2>1 DEF PeerInv, Owned
  <2>6. Minded(c)'
    BY <1>2, <1>7, <2>1 DEF PeerInv, Minded, QueueStep
  <2>7. QED  BY <2>2, <2>3, <2>4, <2>5, <2>6 DEF PeerInv
<1>9. QED  BY <1>4, <1>6, <1>8, OneStep DEF AdmissionInv

LEMMA ServiceAcceptKeeps ==
  ASSUME AdmissionInv, NEW c \in Peer, serviceAccept(c)
  PROVE  Keeps
<1>1. \E t \in {"accepted", "refused"} : QueueStep(c, {}, {t})
  BY Posted DEF AdmissionInv, AdmissionTypeOK, ServerEvent, serviceAccept
<1>2. AdmissionTypeOK'
  BY <1>1 DEF AdmissionInv, AdmissionTypeOK, QueueStep, serviceAccept, unknownVars,
     proxyVars, admittedVars, handlerVars
<1>3. Waiting' = Waiting
  BY WaitingStays DEF serviceAccept, unknownVars, proxyVars, admittedVars, handlerVars
<1>4. \A d \in Peer \ {c} : QueueSame(d) /\ StateSame(d) /\ WaitingSame(d)
  BY <1>1, <1>3, OthersQueue DEF AdmissionInv, AdmissionTypeOK, StateSame, WaitingSame,
     serviceAccept, unknownVars, proxyVars, admittedVars, handlerVars
<1>5. /\ c \in accepting /\ c \notin accepting'
      /\ m_newClients' = m_newClients /\ m_stream' = m_stream /\ m_proxy' = m_proxy
      /\ m_ready' = m_ready /\ unknownTimer' = unknownTimer /\ m_heartbeatTimer' = m_heartbeatTimer
      /\ served' = served /\ proxy' = proxy /\ streamHandler' = streamHandler
      /\ proxyHandler' = proxyHandler /\ peerAt' = peerAt
  BY <1>1 DEF AdmissionInv, AdmissionTypeOK, serviceAccept, unknownVars, proxyVars,
     admittedVars, handlerVars
<1>6. PeerInv(c)'
  <2>1. PeerInv(c) /\ m_ready \subseteq m_proxy /\ m_proxy \subseteq m_newClients
    BY DEF AdmissionInv, AdmissionTypeOK
  <2>2. Accepted(c)'
    BY <1>1, <1>5, <2>1 DEF PeerInv, Accepted, NotYet, Early, QueueStep
  <2>3. Handled(c)'
    BY <1>1, <1>5, <2>1 DEF PeerInv, Handled, QueueStep
  <2>4. Told(c)'
    BY <1>1, <1>5, <2>1 DEF PeerInv, Told, QueueStep
  <2>5. Owned(c)'
    BY <1>3, <1>5, <2>1 DEF PeerInv, Owned
  <2>6. Minded(c)'
    BY <1>1, <1>5, <2>1 DEF PeerInv, Minded, QueueStep
  <2>7. QED  BY <2>2, <2>3, <2>4, <2>5, <2>6 DEF PeerInv
<1>7. QED  BY <1>2, <1>4, <1>6, OneStep DEF AdmissionInv

LEMMA HandleRefusedKeeps ==
  ASSUME AdmissionInv, NEW c \in Peer, handleRefused(c)
  PROVE  Keeps
<1>1. QueueStep(c, {"refused"}, {})
  BY NothingPosted DEF AdmissionInv, AdmissionTypeOK, handleRefused
<1>2. c \notin accepting
  BY <1>1 DEF AdmissionInv, AdmissionTypeOK, PeerInv, Accepted, NotYet, Early, Handled,
     Told, Owned, QueueStep, handleRefused
<1>3. AdmissionTypeOK'
  BY <1>1, <1>2 DEF AdmissionInv, AdmissionTypeOK, QueueStep, handleRefused,
     unknownVars, proxyVars, admittedVars, handlerVars
<1>4. Waiting' = Waiting
  BY WaitingStays DEF handleRefused, unknownVars, proxyVars, admittedVars, handlerVars
<1>5. \A d \in Peer \ {c} : QueueSame(d) /\ StateSame(d) /\ WaitingSame(d)
  BY <1>1, <1>4, OthersQueue DEF AdmissionInv, AdmissionTypeOK, StateSame, WaitingSame,
     handleRefused, unknownVars, proxyVars, admittedVars, handlerVars
<1>6. /\ peerAt'[c] = "left"
      /\ accepting' = accepting /\ m_newClients' = m_newClients /\ m_stream' = m_stream
      /\ m_proxy' = m_proxy /\ m_ready' = m_ready /\ unknownTimer' = unknownTimer
      /\ m_heartbeatTimer' = m_heartbeatTimer /\ served' = served /\ proxy' = proxy
      /\ streamHandler' = streamHandler /\ proxyHandler' = proxyHandler
  BY <1>1, <1>2 DEF AdmissionInv, AdmissionTypeOK, handleRefused, unknownVars,
     proxyVars, admittedVars, handlerVars
<1>7. PeerInv(c)'
  <2>1. PeerInv(c) /\ m_ready \subseteq m_proxy /\ m_proxy \subseteq m_newClients
    BY DEF AdmissionInv, AdmissionTypeOK
  <2>2. Accepted(c)'
    BY <1>1, <1>6, <2>1 DEF PeerInv, Accepted, NotYet, Early, QueueStep
  <2>3. Handled(c)'
    BY <1>1, <1>6, <2>1 DEF PeerInv, Handled, QueueStep
  <2>4. Told(c)'
    BY <1>1, <1>6, <2>1 DEF PeerInv, Told, QueueStep
  <2>5. Owned(c)'
    BY <1>4, <1>6, <2>1 DEF PeerInv, Owned
  <2>6. Minded(c)'
    BY <1>1, <1>6, <2>1 DEF PeerInv, Minded, QueueStep
  <2>7. QED  BY <2>2, <2>3, <2>4, <2>5, <2>6 DEF PeerInv
<1>8. QED  BY <1>3, <1>5, <1>7, OneStep DEF AdmissionInv

LEMMA HandleClientAcceptedKeeps ==
  ASSUME AdmissionInv, NEW c \in Peer, handleClientAccepted(c)
  PROVE  Keeps
<1>1. QueueStep(c, {"accepted"}, {})
  BY NothingPosted DEF AdmissionInv, AdmissionTypeOK, handleClientAccepted
<1>2. AdmissionTypeOK'
  BY <1>1 DEF AdmissionInv, AdmissionTypeOK, QueueStep, handleClientAccepted, proxyVars,
     admittedVars, socketVars, StreamGoesTo
<1>3. Waiting' = Waiting
  BY WaitingStays DEF handleClientAccepted, proxyVars, admittedVars, socketVars,
     StreamGoesTo
<1>4. \A d \in Peer \ {c} : QueueSame(d) /\ StateSame(d) /\ WaitingSame(d)
  BY <1>1, <1>3, OthersQueue DEF AdmissionInv, AdmissionTypeOK, StateSame, WaitingSame,
     handleClientAccepted, proxyVars, admittedVars, socketVars, StreamGoesTo
<1>5. /\ c \in m_newClients' /\ c \in m_stream' /\ c \in unknownTimer'
      /\ streamHandler'[c] = "unknown" /\ (peerAt'[c] = "away" <=> peerAt[c] = "away")
      /\ accepting' = accepting /\ m_proxy' = m_proxy /\ m_ready' = m_ready
      /\ m_heartbeatTimer' = m_heartbeatTimer /\ served' = served /\ proxy' = proxy
      /\ proxyHandler' = proxyHandler
  BY <1>1 DEF AdmissionInv, AdmissionTypeOK, handleClientAccepted, proxyVars,
     admittedVars, socketVars, StreamGoesTo
<1>6. PeerInv(c)'
  <2>1. PeerInv(c) /\ m_ready \subseteq m_proxy /\ m_proxy \subseteq m_newClients
    BY DEF AdmissionInv, AdmissionTypeOK
  <2>2. Accepted(c)'
    BY <1>1, <1>5, <2>1 DEF PeerInv, Accepted, NotYet, Early, QueueStep
  <2>3. Handled(c)'
    BY <1>1, <1>5, <2>1 DEF PeerInv, Handled, Accepted, NotYet, Early, QueueStep
  <2>4. Told(c)'
    BY <1>1, <1>5, <2>1 DEF PeerInv, Told, QueueStep
  <2>5. Owned(c)'
    BY <1>1, <1>3, <1>5, <2>1 DEF PeerInv, Owned, Accepted, NotYet, Early, QueueStep
  <2>6. Minded(c)'
    BY <1>1, <1>5, <2>1 DEF PeerInv, Minded, QueueStep
  <2>7. QED  BY <2>2, <2>3, <2>4, <2>5, <2>6 DEF PeerInv
<1>7. QED  BY <1>2, <1>4, <1>6, OneStep DEF AdmissionInv

(***************************************************************************)
(* ClientProxyUnknown.                                                     *)
(***************************************************************************)
LEMMA HandleTimeoutKeeps ==
  ASSUME AdmissionInv, NEW c \in Peer, handleTimeout(c)
  PROVE  Keeps
<1>1. QueueStep(c, {}, {"failure"}) /\ \A t, d : ~IsQueued(t, d)
  BY Expired DEF ServerEvent, handleTimeout, Failure
<1>2. AdmissionTypeOK'
  BY <1>1 DEF AdmissionInv, AdmissionTypeOK, QueueStep, handleTimeout, sendFailure,
     Unready, socketVars, admittedVars, StreamGoesTo
<1>3. Waiting' = Waiting
  BY WaitingStays DEF handleTimeout, sendFailure, Unready, socketVars, admittedVars,
     StreamGoesTo
<1>4. \A d \in Peer \ {c} : QueueSame(d) /\ StateSame(d) /\ WaitingSame(d)
  BY <1>1, <1>3, OthersQueue DEF AdmissionInv, AdmissionTypeOK, StateSame, WaitingSame,
     handleTimeout, sendFailure, Unready, socketVars, admittedVars, StreamGoesTo
<1>5. /\ c \in m_newClients
      /\ c \notin m_proxy' /\ c \notin m_ready' /\ c \notin unknownTimer'
      /\ c \notin m_heartbeatTimer' /\ streamHandler'[c] = "nobody"
      /\ proxy'[c] = IF c \in m_proxy THEN "deleted" ELSE proxy[c]
      /\ accepting' = accepting /\ m_newClients' = m_newClients /\ m_stream' = m_stream
      /\ served' = served /\ proxyHandler' = proxyHandler /\ peerAt' = peerAt
  BY <1>1 DEF AdmissionInv, AdmissionTypeOK, handleTimeout, sendFailure, Unready,
     socketVars, admittedVars, StreamGoesTo
<1>6. PeerInv(c)'
  <2>1. PeerInv(c) /\ m_ready \subseteq m_proxy /\ m_proxy \subseteq m_newClients
    BY DEF AdmissionInv, AdmissionTypeOK
  <2>2. Accepted(c)'
    BY <1>1, <1>5, <2>1 DEF PeerInv, Accepted, NotYet, Early, QueueStep
  <2>3. Handled(c)'
    BY <1>5 DEF PeerInv, Handled
  <2>4. Told(c)'
    BY <1>1, <1>5, <2>1 DEF PeerInv, Told, QueueStep
  <2>5. Owned(c)'
    BY <1>3, <1>5, <2>1 DEF PeerInv, Owned
  <2>6. Minded(c)'
    BY <1>1, <1>5, <2>1 DEF PeerInv, Minded, Owned, QueueStep
  <2>7. QED  BY <2>2, <2>3, <2>4, <2>5, <2>6 DEF PeerInv
<1>7. QED  BY <1>2, <1>4, <1>6, OneStep DEF AdmissionInv

LEMMA HandleHangUpKeeps ==
  ASSUME AdmissionInv, NEW c \in Peer, handleHangUp(c)
  PROVE  Keeps
<1>1. QueueStep(c, {"hangUp"}, {"failure"})
  BY OnePosted DEF AdmissionInv, AdmissionTypeOK, ServerEvent, handleHangUp, Failure
<1>2. AdmissionTypeOK'
  BY <1>1 DEF AdmissionInv, AdmissionTypeOK, QueueStep, handleHangUp, sendFailure,
     Unready, socketVars, admittedVars, StreamGoesTo
<1>3. Waiting' = Waiting
  BY WaitingStays DEF handleHangUp, sendFailure, Unready, socketVars, admittedVars,
     StreamGoesTo
<1>4. \A d \in Peer \ {c} : QueueSame(d) /\ StateSame(d) /\ WaitingSame(d)
  BY <1>1, <1>3, OthersQueue DEF AdmissionInv, AdmissionTypeOK, StateSame, WaitingSame,
     handleHangUp, sendFailure, Unready, socketVars, admittedVars, StreamGoesTo
<1>5. /\ streamHandler[c] = "unknown"
      /\ c \notin m_proxy' /\ c \notin m_ready' /\ c \notin unknownTimer'
      /\ c \notin m_heartbeatTimer' /\ streamHandler'[c] = "nobody"
      /\ proxy'[c] = IF c \in m_proxy THEN "deleted" ELSE proxy[c]
      /\ accepting' = accepting /\ m_newClients' = m_newClients /\ m_stream' = m_stream
      /\ served' = served /\ proxyHandler' = proxyHandler /\ peerAt' = peerAt
  BY <1>1 DEF AdmissionInv, AdmissionTypeOK, handleHangUp, sendFailure, Unready,
     socketVars, admittedVars, StreamGoesTo
<1>6. PeerInv(c)'
  <2>1. PeerInv(c) /\ m_ready \subseteq m_proxy /\ m_proxy \subseteq m_newClients
    BY DEF AdmissionInv, AdmissionTypeOK
  <2>2. Accepted(c)'
    BY <1>1, <1>5, <2>1 DEF PeerInv, Accepted, NotYet, Early, QueueStep
  <2>3. Handled(c)'
    BY <1>5 DEF PeerInv, Handled
  <2>4. Told(c)'
    BY <1>1, <1>5, <2>1 DEF PeerInv, Told, Handled, QueueStep
  <2>5. Owned(c)'
    BY <1>3, <1>5, <2>1 DEF PeerInv, Owned
  <2>6. Minded(c)'
    BY <1>1, <1>5, <2>1 DEF PeerInv, Minded, Handled, QueueStep
  <2>7. QED  BY <2>2, <2>3, <2>4, <2>5, <2>6 DEF PeerInv
<1>7. QED  BY <1>2, <1>4, <1>6, OneStep DEF AdmissionInv

LEMMA HandleBadHelloKeeps ==
  ASSUME AdmissionInv, NEW c \in Peer, handleBadHello(c)
  PROVE  Keeps
<1>1. QueueStep(c, {"input"}, {"failure"})
  BY OnePosted DEF AdmissionInv, AdmissionTypeOK, ServerEvent, handleBadHello, Failure
<1>2. AdmissionTypeOK'
  BY <1>1 DEF AdmissionInv, AdmissionTypeOK, QueueStep, handleBadHello, sendFailure,
     Unready, socketVars, admittedVars, StreamGoesTo
<1>3. Waiting' = Waiting
  BY WaitingStays DEF handleBadHello, sendFailure, Unready, socketVars, admittedVars,
     StreamGoesTo
<1>4. \A d \in Peer \ {c} : QueueSame(d) /\ StateSame(d) /\ WaitingSame(d)
  BY <1>1, <1>3, OthersQueue DEF AdmissionInv, AdmissionTypeOK, StateSame, WaitingSame,
     handleBadHello, sendFailure, Unready, socketVars, admittedVars, StreamGoesTo
<1>5. /\ streamHandler[c] = "unknown"
      /\ c \notin m_proxy' /\ c \notin m_ready' /\ c \notin unknownTimer'
      /\ c \notin m_heartbeatTimer' /\ streamHandler'[c] = "nobody"
      /\ proxy'[c] = IF c \in m_proxy THEN "deleted" ELSE proxy[c]
      /\ accepting' = accepting /\ m_newClients' = m_newClients /\ m_stream' = m_stream
      /\ served' = served /\ proxyHandler' = proxyHandler /\ peerAt' = peerAt
  BY <1>1 DEF AdmissionInv, AdmissionTypeOK, handleBadHello, sendFailure, Unready,
     socketVars, admittedVars, StreamGoesTo
<1>6. PeerInv(c)'
  <2>1. PeerInv(c) /\ m_ready \subseteq m_proxy /\ m_proxy \subseteq m_newClients
    BY DEF AdmissionInv, AdmissionTypeOK
  <2>2. Accepted(c)'
    BY <1>1, <1>5, <2>1 DEF PeerInv, Accepted, NotYet, Early, QueueStep
  <2>3. Handled(c)'
    BY <1>5 DEF PeerInv, Handled
  <2>4. Told(c)'
    BY <1>1, <1>5, <2>1 DEF PeerInv, Told, Handled, QueueStep
  <2>5. Owned(c)'
    BY <1>3, <1>5, <2>1 DEF PeerInv, Owned
  <2>6. Minded(c)'
    BY <1>1, <1>5, <2>1 DEF PeerInv, Minded, Handled, QueueStep
  <2>7. QED  BY <2>2, <2>3, <2>4, <2>5, <2>6 DEF PeerInv
<1>7. QED  BY <1>2, <1>4, <1>6, OneStep DEF AdmissionInv

LEMMA HandleHelloBackKeeps ==
  ASSUME AdmissionInv, NEW c \in Peer, handleHelloBack(c)
  PROVE  Keeps
<1>1. QueueStep(c, {"input"}, {})
  BY NothingPosted DEF AdmissionInv, AdmissionTypeOK, handleHelloBack
<1>2. c \in m_stream /\ c \notin m_heartbeatTimer
  BY <1>1 DEF AdmissionInv, AdmissionTypeOK, PeerInv, Accepted, NotYet, Early, Handled,
     Told, Owned, QueueStep, handleHelloBack
<1>3. AdmissionTypeOK'
  BY <1>1, <1>2 DEF AdmissionInv, AdmissionTypeOK, QueueStep, handleHelloBack,
     socketVars, admittedVars, KeepsTimer, StreamGoesTo, ProxyGoesTo
<1>4. Waiting' = Waiting
  BY WaitingStays DEF handleHelloBack, socketVars, admittedVars, KeepsTimer,
     StreamGoesTo, ProxyGoesTo
<1>5. \A d \in Peer \ {c} : QueueSame(d) /\ StateSame(d) /\ WaitingSame(d)
  BY <1>1, <1>4, OthersQueue DEF AdmissionInv, AdmissionTypeOK, StateSame, WaitingSame,
     handleHelloBack, socketVars, admittedVars, KeepsTimer, StreamGoesTo, ProxyGoesTo
<1>6. /\ streamHandler[c] = "unknown" /\ c \in m_proxy' /\ proxy'[c] = "asks"
      /\ streamHandler'[c] = "proxy" /\ proxyHandler'[c] = "unknown"
      /\ (peerAt'[c] = "away" <=> peerAt[c] = "away")
      /\ accepting' = accepting /\ m_newClients' = m_newClients /\ m_ready' = m_ready
      /\ unknownTimer' = unknownTimer /\ m_heartbeatTimer' = m_heartbeatTimer /\ served' = served
  BY <1>1, <1>2 DEF AdmissionInv, AdmissionTypeOK, handleHelloBack, socketVars,
     admittedVars, KeepsTimer, StreamGoesTo, ProxyGoesTo
<1>7. PeerInv(c)'
  <2>1. PeerInv(c) /\ m_ready \subseteq m_proxy /\ m_proxy \subseteq m_newClients
    BY DEF AdmissionInv, AdmissionTypeOK
  <2>2. Accepted(c)'
    BY <1>1, <1>6, <2>1 DEF PeerInv, Accepted, NotYet, Early, QueueStep
  <2>3. Handled(c)'
    BY <1>1, <1>6, <2>1 DEF PeerInv, Handled, QueueStep
  <2>4. Told(c)'
    BY <1>1, <1>6, <2>1 DEF PeerInv, Told, Handled, QueueStep
  <2>5. Owned(c)'
    BY <1>4, <1>6, <2>1 DEF PeerInv, Owned, Handled, QueueStep
  <2>6. Minded(c)'
    BY <1>1, <1>6, <2>1 DEF PeerInv, Minded, QueueStep
  <2>7. QED  BY <2>2, <2>3, <2>4, <2>5, <2>6 DEF PeerInv
<1>8. QED  BY <1>3, <1>5, <1>7, OneStep DEF AdmissionInv

LEMMA HandleProxyReadyKeeps ==
  ASSUME AdmissionInv, NEW c \in Peer, handleProxyReady(c)
  PROVE  Keeps
<1>1. QueueStep(c, {"ready"}, {"success"})
  BY OnePosted DEF AdmissionInv, AdmissionTypeOK, ServerEvent, handleProxyReady
<1>2. c \in m_proxy
  BY <1>1 DEF AdmissionInv, AdmissionTypeOK, PeerInv, Accepted, NotYet, Early, Handled,
     Told, Owned, QueueStep, handleProxyReady
<1>3. AdmissionTypeOK'
  BY <1>1, <1>2 DEF AdmissionInv, AdmissionTypeOK, QueueStep, handleProxyReady,
     socketVars, proxyVars, admittedVars, handlerVars
<1>4. Waiting' = Waiting
  BY WaitingStays DEF handleProxyReady, socketVars, proxyVars, admittedVars, handlerVars
<1>5. \A d \in Peer \ {c} : QueueSame(d) /\ StateSame(d) /\ WaitingSame(d)
  BY <1>1, <1>4, OthersQueue DEF AdmissionInv, AdmissionTypeOK, StateSame, WaitingSame,
     handleProxyReady, socketVars, proxyVars, admittedVars, handlerVars
<1>6. /\ proxyHandler[c] = "unknown" /\ c \in m_ready'
      /\ accepting' = accepting /\ m_newClients' = m_newClients /\ m_stream' = m_stream
      /\ m_proxy' = m_proxy /\ m_heartbeatTimer' = m_heartbeatTimer /\ served' = served
      /\ proxy' = proxy /\ streamHandler' = streamHandler /\ proxyHandler' = proxyHandler
      /\ peerAt' = peerAt
  BY <1>1, <1>2 DEF AdmissionInv, AdmissionTypeOK, handleProxyReady, socketVars,
     proxyVars, admittedVars, handlerVars
<1>7. PeerInv(c)'
  <2>1. PeerInv(c) /\ m_ready \subseteq m_proxy /\ m_proxy \subseteq m_newClients
    BY DEF AdmissionInv, AdmissionTypeOK
  <2>2. Accepted(c)'
    BY <1>1, <1>6, <2>1 DEF PeerInv, Accepted, NotYet, Early, QueueStep
  <2>3. Handled(c)'
    BY <1>1, <1>6, <2>1 DEF PeerInv, Handled, QueueStep
  <2>4. Told(c)'
    BY <1>1, <1>6, <2>1 DEF PeerInv, Told, Owned, QueueStep
  <2>5. Owned(c)'
    BY <1>4, <1>6, <2>1 DEF PeerInv, Owned
  <2>6. Minded(c)'
    BY <1>1, <1>6, <2>1 DEF PeerInv, Minded, QueueStep
  <2>7. QED  BY <2>2, <2>3, <2>4, <2>5, <2>6 DEF PeerInv
<1>8. QED  BY <1>3, <1>5, <1>7, OneStep DEF AdmissionInv

LEMMA HandleProxyLostKeeps ==
  ASSUME AdmissionInv, NEW c \in Peer, handleProxyLost(c)
  PROVE  Keeps
<1>1. QueueStep(c, {"disconnected"}, {"failure"})
  BY OnePosted DEF AdmissionInv, AdmissionTypeOK, ServerEvent, handleProxyLost, Failure
<1>2. AdmissionTypeOK'
  BY <1>1 DEF AdmissionInv, AdmissionTypeOK, QueueStep, handleProxyLost, sendFailure,
     Unready, socketVars, admittedVars, StreamGoesTo
<1>3. Waiting' = Waiting
  BY WaitingStays DEF handleProxyLost, sendFailure, Unready, socketVars, admittedVars,
     StreamGoesTo
<1>4. \A d \in Peer \ {c} : QueueSame(d) /\ StateSame(d) /\ WaitingSame(d)
  BY <1>1, <1>3, OthersQueue DEF AdmissionInv, AdmissionTypeOK, StateSame, WaitingSame,
     handleProxyLost, sendFailure, Unready, socketVars, admittedVars, StreamGoesTo
<1>5. /\ proxyHandler[c] = "unknown" /\ c \in m_newClients
      /\ c \notin m_proxy' /\ c \notin m_ready' /\ c \notin unknownTimer'
      /\ c \notin m_heartbeatTimer' /\ streamHandler'[c] = "nobody"
      /\ proxy'[c] = IF c \in m_proxy THEN "deleted" ELSE proxy[c]
      /\ accepting' = accepting /\ m_newClients' = m_newClients /\ m_stream' = m_stream
      /\ served' = served /\ proxyHandler' = proxyHandler /\ peerAt' = peerAt
  BY <1>1 DEF AdmissionInv, AdmissionTypeOK, handleProxyLost, sendFailure, Unready,
     socketVars, admittedVars, StreamGoesTo
<1>6. PeerInv(c)'
  <2>1. PeerInv(c) /\ m_ready \subseteq m_proxy /\ m_proxy \subseteq m_newClients
    BY DEF AdmissionInv, AdmissionTypeOK
  <2>2. Accepted(c)'
    BY <1>1, <1>5, <2>1 DEF PeerInv, Accepted, NotYet, Early, QueueStep
  <2>3. Handled(c)'
    BY <1>5 DEF PeerInv, Handled
  <2>4. Told(c)'
    BY <1>1, <1>5, <2>1 DEF PeerInv, Told, QueueStep
  <2>5. Owned(c)'
    BY <1>3, <1>5, <2>1 DEF PeerInv, Owned
  <2>6. Minded(c)'
    BY <1>1, <1>5, <2>1 DEF PeerInv, Minded, Told, QueueStep
  <2>7. QED  BY <2>2, <2>3, <2>4, <2>5, <2>6 DEF PeerInv
<1>7. QED  BY <1>2, <1>4, <1>6, OneStep DEF AdmissionInv

(***************************************************************************)
(* ClientProxy1_0.                                                         *)
(***************************************************************************)
LEMMA HandleInfoKeeps ==
  ASSUME AdmissionInv, NEW c \in Peer, handleInfo(c)
  PROVE  Keeps
<1>1. QueueStep(c, {"input"}, {"ready"})
  BY OnePosted DEF AdmissionInv, AdmissionTypeOK, ServerEvent, handleInfo
<1>2. AdmissionTypeOK'
  BY <1>1 DEF AdmissionInv, AdmissionTypeOK, QueueStep, handleInfo, socketVars,
     unknownVars, admittedVars, handlerVars
<1>3. Waiting' = Waiting
  BY WaitingStays DEF handleInfo, socketVars, unknownVars, admittedVars, handlerVars
<1>4. \A d \in Peer \ {c} : QueueSame(d) /\ StateSame(d) /\ WaitingSame(d)
  BY <1>1, <1>3, OthersQueue DEF AdmissionInv, AdmissionTypeOK, StateSame, WaitingSame,
     handleInfo, socketVars, unknownVars, admittedVars, handlerVars
<1>5. /\ streamHandler[c] = "proxy" /\ proxy'[c] = "known" /\ c \in m_heartbeatTimer'
      /\ accepting' = accepting /\ m_newClients' = m_newClients /\ m_stream' = m_stream
      /\ m_proxy' = m_proxy /\ m_ready' = m_ready /\ unknownTimer' = unknownTimer
      /\ served' = served /\ streamHandler' = streamHandler /\ proxyHandler' = proxyHandler
      /\ peerAt' = peerAt
  BY <1>1 DEF AdmissionInv, AdmissionTypeOK, handleInfo, socketVars, unknownVars,
     admittedVars, handlerVars
<1>6. PeerInv(c)'
  <2>1. PeerInv(c) /\ m_ready \subseteq m_proxy /\ m_proxy \subseteq m_newClients
    BY DEF AdmissionInv, AdmissionTypeOK
  <2>2. Accepted(c)'
    BY <1>1, <1>5, <2>1 DEF PeerInv, Accepted, NotYet, Early, QueueStep
  <2>3. Handled(c)'
    BY <1>1, <1>5, <2>1 DEF PeerInv, Handled, QueueStep
  <2>4. Told(c)'
    BY <1>1, <1>5, <2>1 DEF PeerInv, Told, Handled, Owned, QueueStep
  <2>5. Owned(c)'
    BY <1>3, <1>5, <2>1 DEF PeerInv, Owned, Handled, QueueStep
  <2>6. Minded(c)'
    BY <1>1, <1>5, <2>1 DEF PeerInv, Minded, QueueStep
  <2>7. QED  BY <2>2, <2>3, <2>4, <2>5, <2>6 DEF PeerInv
<1>7. QED  BY <1>2, <1>4, <1>6, OneStep DEF AdmissionInv

LEMMA HandleBadInfoKeeps ==
  ASSUME AdmissionInv, NEW c \in Peer, handleBadInfo(c)
  PROVE  Keeps
<1>1. QueueStep(c, {"input"}, {"disconnected"})
  BY OnePosted DEF AdmissionInv, AdmissionTypeOK, ServerEvent, handleBadInfo, Disconnected
<1>2. AdmissionTypeOK'
  BY <1>1 DEF AdmissionInv, AdmissionTypeOK, QueueStep, handleBadInfo, disconnect,
     socketVars, unknownVars, admittedVars, StreamGoesTo
<1>3. Waiting' = Waiting
  BY WaitingStays DEF handleBadInfo, disconnect, socketVars, unknownVars, admittedVars,
     StreamGoesTo
<1>4. \A d \in Peer \ {c} : QueueSame(d) /\ StateSame(d) /\ WaitingSame(d)
  BY <1>1, <1>3, OthersQueue DEF AdmissionInv, AdmissionTypeOK, StateSame, WaitingSame,
     handleBadInfo, disconnect, socketVars, unknownVars, admittedVars, StreamGoesTo
<1>5. /\ streamHandler[c] = "proxy"
      /\ proxy'[c] = "gone" /\ streamHandler'[c] = "nobody"
      /\ accepting' = accepting /\ m_newClients' = m_newClients /\ m_stream' = m_stream
      /\ m_proxy' = m_proxy /\ m_ready' = m_ready /\ unknownTimer' = unknownTimer
      /\ served' = served /\ proxyHandler' = proxyHandler /\ peerAt' = peerAt
  BY <1>1 DEF AdmissionInv, AdmissionTypeOK, handleBadInfo, disconnect, socketVars,
     unknownVars, admittedVars, StreamGoesTo
<1>6. PeerInv(c)'
  <2>1. PeerInv(c) /\ m_ready \subseteq m_proxy /\ m_proxy \subseteq m_newClients
    BY DEF AdmissionInv, AdmissionTypeOK
  <2>2. Accepted(c)'
    BY <1>1, <1>5, <2>1 DEF PeerInv, Accepted, NotYet, Early, QueueStep
  <2>3. Handled(c)'
    BY <1>1, <1>5, <2>1 DEF PeerInv, Handled, QueueStep
  <2>4. Told(c)'
    BY <1>1, <1>5, <2>1 DEF PeerInv, Told, Handled, Owned, QueueStep
  <2>5. Owned(c)'
    BY <1>3, <1>5, <2>1 DEF PeerInv, Owned, Handled, QueueStep
  <2>6. Minded(c)'
    BY <1>1, <1>5, <2>1 DEF PeerInv, Minded, QueueStep
  <2>7. QED  BY <2>2, <2>3, <2>4, <2>5, <2>6 DEF PeerInv
<1>7. QED  BY <1>2, <1>4, <1>6, OneStep DEF AdmissionInv

LEMMA HandleProxyHangUpKeeps ==
  ASSUME AdmissionInv, NEW c \in Peer, handleProxyHangUp(c)
  PROVE  Keeps
<1>1. QueueStep(c, {"hangUp"}, {"disconnected"})
  BY OnePosted DEF AdmissionInv, AdmissionTypeOK, ServerEvent, handleProxyHangUp,
     Disconnected
<1>2. AdmissionTypeOK'
  BY <1>1 DEF AdmissionInv, AdmissionTypeOK, QueueStep, handleProxyHangUp, disconnect,
     socketVars, unknownVars, admittedVars, StreamGoesTo
<1>3. Waiting' = Waiting
  BY WaitingStays DEF handleProxyHangUp, disconnect, socketVars, unknownVars,
     admittedVars, StreamGoesTo
<1>4. \A d \in Peer \ {c} : QueueSame(d) /\ StateSame(d) /\ WaitingSame(d)
  BY <1>1, <1>3, OthersQueue DEF AdmissionInv, AdmissionTypeOK, StateSame, WaitingSame,
     handleProxyHangUp, disconnect, socketVars, unknownVars, admittedVars, StreamGoesTo
<1>5. /\ streamHandler[c] = "proxy"
      /\ proxy'[c] = "gone" /\ streamHandler'[c] = "nobody"
      /\ accepting' = accepting /\ m_newClients' = m_newClients /\ m_stream' = m_stream
      /\ m_proxy' = m_proxy /\ m_ready' = m_ready /\ unknownTimer' = unknownTimer
      /\ served' = served /\ proxyHandler' = proxyHandler /\ peerAt' = peerAt
  BY <1>1 DEF AdmissionInv, AdmissionTypeOK, handleProxyHangUp, disconnect, socketVars,
     unknownVars, admittedVars, StreamGoesTo
<1>6. PeerInv(c)'
  <2>1. PeerInv(c) /\ m_ready \subseteq m_proxy /\ m_proxy \subseteq m_newClients
    BY DEF AdmissionInv, AdmissionTypeOK
  <2>2. Accepted(c)'
    BY <1>1, <1>5, <2>1 DEF PeerInv, Accepted, NotYet, Early, QueueStep
  <2>3. Handled(c)'
    BY <1>1, <1>5, <2>1 DEF PeerInv, Handled, QueueStep
  <2>4. Told(c)'
    BY <1>1, <1>5, <2>1 DEF PeerInv, Told, Handled, Owned, QueueStep
  <2>5. Owned(c)'
    BY <1>3, <1>5, <2>1 DEF PeerInv, Owned, Handled, QueueStep
  <2>6. Minded(c)'
    BY <1>1, <1>5, <2>1 DEF PeerInv, Minded, QueueStep
  <2>7. QED  BY <2>2, <2>3, <2>4, <2>5, <2>6 DEF PeerInv
<1>7. QED  BY <1>2, <1>4, <1>6, OneStep DEF AdmissionInv

LEMMA HandleFlatlineKeeps ==
  ASSUME AdmissionInv, NEW c \in Peer, handleFlatline(c)
  PROVE  Keeps
<1>1. QueueStep(c, {}, {"disconnected"}) /\ \A t, d : ~IsQueued(t, d)
  BY Expired DEF ServerEvent, handleFlatline, Disconnected
<1>2. AdmissionTypeOK'
  BY <1>1 DEF AdmissionInv, AdmissionTypeOK, QueueStep, handleFlatline, disconnect,
     socketVars, unknownVars, admittedVars, StreamGoesTo
<1>3. Waiting' = Waiting
  BY WaitingStays DEF handleFlatline, disconnect, socketVars, unknownVars, admittedVars,
     StreamGoesTo
<1>4. \A d \in Peer \ {c} : QueueSame(d) /\ StateSame(d) /\ WaitingSame(d)
  BY <1>1, <1>3, OthersQueue DEF AdmissionInv, AdmissionTypeOK, StateSame, WaitingSame,
     handleFlatline, disconnect, socketVars, unknownVars, admittedVars, StreamGoesTo
<1>5. /\ proxy[c] = "known"
      /\ proxy'[c] = "gone" /\ streamHandler'[c] = "nobody"
      /\ accepting' = accepting /\ m_newClients' = m_newClients /\ m_stream' = m_stream
      /\ m_proxy' = m_proxy /\ m_ready' = m_ready /\ unknownTimer' = unknownTimer
      /\ served' = served /\ proxyHandler' = proxyHandler /\ peerAt' = peerAt
  BY <1>1 DEF AdmissionInv, AdmissionTypeOK, handleFlatline, disconnect, socketVars,
     unknownVars, admittedVars, StreamGoesTo
<1>6. PeerInv(c)'
  <2>1. PeerInv(c) /\ m_ready \subseteq m_proxy /\ m_proxy \subseteq m_newClients
    BY DEF AdmissionInv, AdmissionTypeOK
  <2>2. Accepted(c)'
    BY <1>1, <1>5, <2>1 DEF PeerInv, Accepted, NotYet, Early, QueueStep
  <2>3. Handled(c)'
    BY <1>1, <1>5 DEF PeerInv, Handled, QueueStep
  <2>4. Told(c)'
    BY <1>1, <1>5, <2>1 DEF PeerInv, Told, Owned, QueueStep
  <2>5. Owned(c)'
    BY <1>3, <1>5, <2>1 DEF PeerInv, Owned
  <2>6. Minded(c)'
    BY <1>1, <1>5, <2>1 DEF PeerInv, Minded, QueueStep
  <2>7. QED  BY <2>2, <2>3, <2>4, <2>5, <2>6 DEF PeerInv
<1>7. QED  BY <1>2, <1>4, <1>6, OneStep DEF AdmissionInv

(***************************************************************************)
(* The listener, from the ClientProxyUnknown on.                           *)
(***************************************************************************)
LEMMA HandleFailureKeeps ==
  ASSUME AdmissionInv, NEW c \in Peer, handleFailure(c)
  PROVE  Keeps
<1>1. QueueStep(c, {"failure"}, {})
  BY NothingPosted DEF AdmissionInv, AdmissionTypeOK, handleFailure
<1>2. c \notin accepting /\ peerAt[c] # "away"
  BY <1>1 DEF AdmissionInv, AdmissionTypeOK, PeerInv, Accepted, NotYet, Early, Handled,
     Told, Owned, QueueStep, handleFailure
<1>3. AdmissionTypeOK'
  BY <1>1, <1>2 DEF AdmissionInv, AdmissionTypeOK, QueueStep, handleFailure,
     removeUnknownClient, proxyVars, admittedVars, handlerVars
<1>4. Waiting' = Waiting
  BY WaitingStays DEF handleFailure, removeUnknownClient, proxyVars, admittedVars,
     handlerVars
<1>5. \A d \in Peer \ {c} : QueueSame(d) /\ StateSame(d) /\ WaitingSame(d)
  BY <1>1, <1>4, OthersQueue DEF AdmissionInv, AdmissionTypeOK, StateSame, WaitingSame,
     handleFailure, removeUnknownClient, proxyVars, admittedVars, handlerVars
<1>6. /\ c \in m_newClients
      /\ c \notin m_newClients' /\ c \notin m_stream' /\ c \notin m_proxy'
      /\ c \notin m_ready' /\ c \notin unknownTimer'
      /\ (peerAt'[c] = "away" <=> peerAt[c] = "away")
      /\ accepting' = accepting /\ m_heartbeatTimer' = m_heartbeatTimer /\ served' = served
      /\ proxy' = proxy /\ streamHandler' = streamHandler /\ proxyHandler' = proxyHandler
  BY <1>1, <1>2 DEF AdmissionInv, AdmissionTypeOK, handleFailure, removeUnknownClient,
     proxyVars, admittedVars, handlerVars
<1>7. PeerInv(c)'
  <2>1. PeerInv(c) /\ m_ready \subseteq m_proxy /\ m_proxy \subseteq m_newClients
    BY DEF AdmissionInv, AdmissionTypeOK
  <2>2. Accepted(c)'
    BY <1>1, <1>6, <2>1 DEF PeerInv, Accepted, NotYet, Early, QueueStep
  <2>3. Handled(c)'
    BY <1>1, <1>6, <2>1 DEF PeerInv, Handled, QueueStep
  <2>4. Told(c)'
    BY <1>1, <1>6, <2>1 DEF PeerInv, Told, Handled, QueueStep
  <2>5. Owned(c)'
    BY <1>1, <1>4, <1>6, <2>1 DEF PeerInv, Owned, Handled, QueueStep
  <2>6. Minded(c)'
    BY <1>1, <1>6, <2>1 DEF PeerInv, Minded, QueueStep
  <2>7. QED  BY <2>2, <2>3, <2>4, <2>5, <2>6 DEF PeerInv
<1>8. QED  BY <1>3, <1>5, <1>7, OneStep DEF AdmissionInv

LEMMA HandleLateSuccessKeeps ==
  ASSUME AdmissionInv, NEW c \in Peer, handleLateSuccess(c)
  PROVE  Keeps
<1>1. QueueStep(c, {"success"}, {})
  BY NothingPosted DEF AdmissionInv, AdmissionTypeOK, handleLateSuccess
<1>2. AdmissionTypeOK'
  BY <1>1 DEF AdmissionInv, AdmissionTypeOK, QueueStep, handleLateSuccess,
     removeUnknownClient, socketVars, proxyVars, admittedVars, handlerVars
<1>3. Waiting' = Waiting
  BY WaitingStays DEF handleLateSuccess, removeUnknownClient, socketVars, proxyVars,
     admittedVars, handlerVars
<1>4. \A d \in Peer \ {c} : QueueSame(d) /\ StateSame(d) /\ WaitingSame(d)
  BY <1>1, <1>3, OthersQueue DEF AdmissionInv, AdmissionTypeOK, StateSame, WaitingSame,
     handleLateSuccess, removeUnknownClient, socketVars, proxyVars, admittedVars, handlerVars
<1>5. /\ c \in m_newClients /\ c \notin m_ready
      /\ c \notin m_newClients' /\ c \notin m_stream' /\ c \notin m_proxy'
      /\ c \notin m_ready' /\ c \notin unknownTimer'
      /\ accepting' = accepting /\ m_heartbeatTimer' = m_heartbeatTimer /\ served' = served
      /\ proxy' = proxy /\ streamHandler' = streamHandler /\ proxyHandler' = proxyHandler
      /\ peerAt' = peerAt
  BY <1>1 DEF AdmissionInv, AdmissionTypeOK, handleLateSuccess, removeUnknownClient,
     socketVars, proxyVars, admittedVars, handlerVars
<1>6. PeerInv(c)'
  <2>1. PeerInv(c) /\ m_ready \subseteq m_proxy /\ m_proxy \subseteq m_newClients
    BY DEF AdmissionInv, AdmissionTypeOK
  <2>2. Accepted(c)'
    BY <1>1, <1>5, <2>1 DEF PeerInv, Accepted, NotYet, Early, QueueStep
  <2>3. Handled(c)'
    BY <1>1, <1>5, <2>1 DEF PeerInv, Handled, QueueStep
  <2>4. Told(c)'
    BY <1>1, <1>5, <2>1 DEF PeerInv, Told, Handled, QueueStep
  <2>5. Owned(c)'
    BY <1>1, <1>3, <1>5, <2>1 DEF PeerInv, Owned, Handled, QueueStep
  <2>6. Minded(c)'
    BY <1>1, <1>5, <2>1 DEF PeerInv, Minded, QueueStep
  <2>7. QED  BY <2>2, <2>3, <2>4, <2>5, <2>6 DEF PeerInv
<1>7. QED  BY <1>2, <1>4, <1>6, OneStep DEF AdmissionInv

LEMMA HandleLostByServerKeeps ==
  ASSUME AdmissionInv, NEW c \in Peer, handleLostByServer(c)
  PROVE  Keeps
<1>1. QueueStep(c, {"disconnected"}, {})
  BY NothingPosted DEF AdmissionInv, AdmissionTypeOK, handleLostByServer
<1>2. AdmissionTypeOK'
  BY <1>1 DEF AdmissionInv, AdmissionTypeOK, QueueStep, handleLostByServer, socketVars,
     unknownVars, ProxyGoesTo
<1>3. Waiting' = Waiting
  BY WaitingStays DEF handleLostByServer, socketVars, unknownVars, ProxyGoesTo
<1>4. \A d \in Peer \ {c} : QueueSame(d) /\ StateSame(d) /\ WaitingSame(d)
  BY <1>1, <1>3, OthersQueue DEF AdmissionInv, AdmissionTypeOK, StateSame, WaitingSame,
     handleLostByServer, socketVars, unknownVars, ProxyGoesTo
<1>5. /\ proxyHandler[c] = "server" /\ c \notin served'
      /\ proxyHandler'[c] = "nobody" /\ proxy'[c] = "deleted"
      /\ accepting' = accepting /\ m_newClients' = m_newClients /\ m_stream' = m_stream
      /\ m_proxy' = m_proxy /\ m_ready' = m_ready /\ unknownTimer' = unknownTimer
      /\ streamHandler' = streamHandler /\ peerAt' = peerAt
  BY <1>1 DEF AdmissionInv, AdmissionTypeOK, handleLostByServer, socketVars,
     unknownVars, ProxyGoesTo
<1>6. PeerInv(c)'
  <2>1. PeerInv(c) /\ m_ready \subseteq m_proxy /\ m_proxy \subseteq m_newClients
    BY DEF AdmissionInv, AdmissionTypeOK
  <2>2. Accepted(c)'
    BY <1>1, <1>5, <2>1 DEF PeerInv, Accepted, NotYet, Early, QueueStep
  <2>3. Handled(c)'
    BY <1>1, <1>5, <2>1 DEF PeerInv, Handled, Told, QueueStep
  <2>4. Told(c)'
    BY <1>1, <1>5, <2>1 DEF PeerInv, Told, Owned, QueueStep
  <2>5. Owned(c)'
    BY <1>3, <1>5, <2>1 DEF PeerInv, Owned
  <2>6. Minded(c)'
    BY <1>1, <1>5, <2>1 DEF PeerInv, Minded, QueueStep
  <2>7. QED  BY <2>2, <2>3, <2>4, <2>5, <2>6 DEF PeerInv
<1>7. QED  BY <1>2, <1>4, <1>6, OneStep DEF AdmissionInv

LEMMA HandleSuccessKeeps ==
  ASSUME AdmissionInv, NEW c \in Peer, handleSuccess(c)
  PROVE  Keeps
<1>1. QueueStep(c, {"success"}, {"admitted"})
  BY OnePosted DEF AdmissionInv, AdmissionTypeOK, ServerEvent, handleSuccess, Announcement
<1>2. c \notin Waiting \union served
  BY <1>1 DEF AdmissionInv, AdmissionTypeOK, PeerInv, Accepted, NotYet, Early, Handled,
     Told, Owned, QueueStep, handleSuccess
<1>3. AdmissionTypeOK'
  BY <1>1, <1>2 DEF AdmissionInv, AdmissionTypeOK, QueueStep, handleSuccess, socketVars,
     proxyVars, removeUnknownClient, WatchesQueue, ProxyGoesTo
<1>4. Waiting' = Waiting \union {c}
  BY <1>2, WaitingGrows DEF AdmissionInv, AdmissionTypeOK, handleSuccess
<1>5. \A d \in Peer \ {c} : QueueSame(d) /\ StateSame(d) /\ WaitingSame(d)
  BY <1>1, <1>4, OthersQueue DEF AdmissionInv, AdmissionTypeOK, StateSame, WaitingSame,
     handleSuccess, socketVars, proxyVars, removeUnknownClient, WatchesQueue, ProxyGoesTo
<1>6. /\ c \in m_ready /\ proxyHandler'[c] = "listener"
      /\ c \notin m_newClients' /\ c \notin m_stream' /\ c \notin m_proxy'
      /\ c \notin m_ready' /\ c \notin unknownTimer'
      /\ accepting' = accepting /\ m_heartbeatTimer' = m_heartbeatTimer /\ served' = served
      /\ proxy' = proxy /\ streamHandler' = streamHandler /\ peerAt' = peerAt
  BY <1>1, <1>2 DEF AdmissionInv, AdmissionTypeOK, handleSuccess, socketVars, proxyVars,
     removeUnknownClient, WatchesQueue, ProxyGoesTo
<1>7. PeerInv(c)'
  <2>1. PeerInv(c) /\ m_ready \subseteq m_proxy /\ m_proxy \subseteq m_newClients
    BY DEF AdmissionInv, AdmissionTypeOK
  <2>2. Accepted(c)'
    BY <1>1, <1>6, <2>1 DEF PeerInv, Accepted, NotYet, Early, QueueStep
  <2>3. Handled(c)'
    BY <1>1, <1>6, <2>1 DEF PeerInv, Handled, QueueStep
  <2>4. Told(c)'
    BY <1>1, <1>6, <2>1 DEF PeerInv, Told, QueueStep
  <2>5. Owned(c)'
    BY <1>4, <1>6, <2>1 DEF PeerInv, Owned, Told, QueueStep
  <2>6. Minded(c)'
    BY <1>1, <1>6, <2>1 DEF PeerInv, Minded, QueueStep
  <2>7. QED  BY <2>2, <2>3, <2>4, <2>5, <2>6 DEF PeerInv
<1>8. QED  BY <1>3, <1>5, <1>7, OneStep DEF AdmissionInv

LEMMA HandleLostInQueueKeeps ==
  ASSUME AdmissionInv, NEW c \in Peer, handleLostInQueue(c)
  PROVE  Keeps
<1>1. QueueStep(c, {"disconnected"}, {})
  BY NothingPosted DEF AdmissionInv, AdmissionTypeOK, handleLostInQueue
<1>2. m_waitingClients' \in Seq(Peer) /\ c \in Waiting /\ Waiting' = Waiting \ {c}
  <2>1. PICK i \in 1 .. Len(m_waitingClients) :
          /\ m_waitingClients[i] = c
          /\ m_waitingClients' = [j \in 1 .. Len(m_waitingClients) - 1 |->
                                    m_waitingClients[IF j < i THEN j ELSE j + 1]]
    BY DEF handleLostInQueue
  <2>2. QED  BY <2>1, OneLeaves DEF AdmissionInv, AdmissionTypeOK
<1>3. AdmissionTypeOK'
  BY <1>1, <1>2 DEF AdmissionInv, AdmissionTypeOK, QueueStep, handleLostInQueue,
     socketVars, unknownVars, ProxyGoesTo
<1>4. Waiting' = Waiting \ {c}
  BY <1>2
<1>5. \A d \in Peer \ {c} : QueueSame(d) /\ StateSame(d) /\ WaitingSame(d)
  BY <1>1, <1>4, OthersQueue DEF AdmissionInv, AdmissionTypeOK, StateSame, WaitingSame,
     handleLostInQueue, socketVars, unknownVars, ProxyGoesTo
<1>6. /\ proxyHandler[c] = "listener" /\ c \in Waiting
      /\ proxyHandler'[c] = "nobody" /\ proxy'[c] = "deleted"
      /\ accepting' = accepting /\ m_newClients' = m_newClients /\ m_stream' = m_stream
      /\ m_proxy' = m_proxy /\ m_ready' = m_ready /\ unknownTimer' = unknownTimer
      /\ served' = served /\ streamHandler' = streamHandler /\ peerAt' = peerAt
  BY <1>1, <1>2 DEF AdmissionInv, AdmissionTypeOK, handleLostInQueue, socketVars,
     unknownVars, ProxyGoesTo
<1>7. PeerInv(c)'
  <2>1. PeerInv(c) /\ m_ready \subseteq m_proxy /\ m_proxy \subseteq m_newClients
    BY DEF AdmissionInv, AdmissionTypeOK
  <2>2. Accepted(c)'
    BY <1>1, <1>6, <2>1 DEF PeerInv, Accepted, NotYet, Early, QueueStep
  <2>3. Handled(c)'
    BY <1>1, <1>6, <2>1 DEF PeerInv, Handled, Told, QueueStep
  <2>4. Told(c)'
    BY <1>1, <1>6, <2>1 DEF PeerInv, Told, Owned, QueueStep
  <2>5. Owned(c)'
    BY <1>4, <1>6, <2>1 DEF PeerInv, Owned
  <2>6. Minded(c)'
    BY <1>1, <1>6, <2>1 DEF PeerInv, Minded, QueueStep
  <2>7. QED  BY <2>2, <2>3, <2>4, <2>5, <2>6 DEF PeerInv
<1>8. QED  BY <1>3, <1>5, <1>7, OneStep DEF AdmissionInv

LEMMA HandleAdmittedKeeps ==
  ASSUME AdmissionInv, NEW c \in Peer, handleAdmitted(c)
  PROVE  Keeps
<1>1. PICK h : h = Head(m_waitingClients)
  OBVIOUS
<1>2. QueueStep(c, {"admitted"}, {})
  BY NothingPosted DEF AdmissionInv, AdmissionTypeOK, handleAdmitted
<1>3. \A d : QueueSame(d)
  BY <1>2, OthersQueue DEF PeerEvents
<1>4. m_waitingClients' \in Seq(Peer) /\ h \in Peer \intersect Waiting
      /\ Waiting' = Waiting \ {h}
  BY <1>1, HeadLeaves DEF AdmissionInv, AdmissionTypeOK, handleAdmitted
<1>5. PeerInv(h)
  BY <1>4 DEF AdmissionInv
<1>6. proxy[h] \in {"known", "gone"}
  BY <1>4, <1>5 DEF PeerInv, Owned
<1>7. /\ proxyHandler' = [proxyHandler EXCEPT ![h] = "server"]
      /\ served' = served \union {h}
      /\ m_heartbeatTimer' \in {m_heartbeatTimer, m_heartbeatTimer \union {h}}
  BY <1>1 DEF handleAdmitted, ProxyGoesTo
<1>8. AdmissionTypeOK'
  BY <1>2, <1>4, <1>6, <1>7 DEF AdmissionInv, AdmissionTypeOK, QueueStep, handleAdmitted,
     socketVars, unknownVars
<1>9. \A d \in Peer \ {h} : QueueSame(d) /\ StateSame(d) /\ WaitingSame(d)
  BY <1>3, <1>4, <1>7 DEF AdmissionInv, AdmissionTypeOK, StateSame, WaitingSame,
     handleAdmitted, socketVars, unknownVars
<1>10. /\ proxyHandler'[h] = "server" /\ h \in served'
       /\ h \in m_heartbeatTimer => h \in m_heartbeatTimer'
       /\ accepting' = accepting /\ m_newClients' = m_newClients
       /\ m_stream' = m_stream /\ m_proxy' = m_proxy /\ m_ready' = m_ready
       /\ unknownTimer' = unknownTimer /\ proxy' = proxy
       /\ streamHandler' = streamHandler /\ peerAt' = peerAt
  BY <1>4, <1>7 DEF AdmissionInv, AdmissionTypeOK, handleAdmitted, socketVars, unknownVars
<1>11. PeerInv(h)'
  <2>1. QueueSame(h) /\ h \in Waiting /\ h \notin Waiting'
    BY <1>3, <1>4
  <2>2. Accepted(h)'
    BY <1>5, <1>6, <1>10, <2>1 DEF PeerInv, Accepted, NotYet, Early, QueueSame, PeerEvents
  <2>3. Handled(h)'
    BY <1>5, <1>6, <1>10, <2>1 DEF PeerInv, Owned, Handled, QueueSame, PeerEvents
  <2>4. Told(h)'
    BY <1>5, <1>6, <1>10, <2>1 DEF PeerInv, Owned, Told, QueueSame, PeerEvents
  <2>5. Owned(h)'
    BY <1>5, <1>6, <1>10, <2>1 DEF PeerInv, Owned
  <2>6. Minded(h)'
    BY <1>5, <1>6, <1>10, <2>1 DEF PeerInv, Owned, Minded, QueueSame, PeerEvents
  <2>7. QED  BY <2>2, <2>3, <2>4, <2>5, <2>6 DEF PeerInv
<1>12. QED  BY <1>4, <1>8, <1>9, <1>11, OneStep DEF AdmissionInv

LEMMA HandleNothingKeeps ==
  ASSUME AdmissionInv, NEW c \in Peer, handleNothing(c)
  PROVE  Keeps
<1>1. PICK t \in {"input", "hangUp", "ready", "disconnected", "success", "failure", "admitted"} :
        /\ Handles(t, c, << >>)
        /\ t \in {"ready", "disconnected"} => proxyHandler[c] = "nobody"
        /\ t \in {"success", "failure"} => c \notin m_newClients
  BY DEF handleNothing
<1>2. QueueStep(c, {t}, {})
  BY <1>1, NothingPosted DEF AdmissionInv, AdmissionTypeOK
<1>3. AdmissionTypeOK'
  BY <1>2 DEF AdmissionInv, AdmissionTypeOK, QueueStep, handleNothing, socketVars,
     unknownVars, proxyVars, admittedVars, handlerVars
<1>4. Waiting' = Waiting
  BY WaitingStays DEF handleNothing, admittedVars
<1>5. \A d \in Peer : StateSame(d) /\ WaitingSame(d)
  BY <1>4 DEF StateSame, WaitingSame, handleNothing, socketVars, unknownVars, proxyVars,
     admittedVars, handlerVars
<1>6. \A d \in Peer \ {c} : QueueSame(d)
  BY <1>2, OthersQueue
<1>7. PeerInv(c)'
  <2>1. PeerInv(c) /\ StateSame(c) /\ WaitingSame(c)
    BY <1>5 DEF AdmissionInv
  <2>2. Accepted(c)'
    BY <1>1, <1>2, <2>1 DEF PeerInv, Accepted, NotYet, Early, QueueStep, StateSame
  <2>3. Handled(c)'
    BY <1>1, <1>2, <2>1 DEF PeerInv, Handled, QueueStep, StateSame
  <2>4. Told(c)'
    BY <1>1, <1>2, <2>1 DEF PeerInv, Told, QueueStep, StateSame
  <2>5. Owned(c)'
    BY <2>1 DEF PeerInv, Owned, StateSame, WaitingSame
  <2>6. Minded(c)'
    BY <1>1, <1>2, <2>1 DEF PeerInv, Owned, Minded, QueueStep, StateSame
  <2>7. QED  BY <2>2, <2>3, <2>4, <2>5, <2>6 DEF PeerInv
<1>8. QED  BY <1>3, <1>5, <1>6, <1>7, OneStep DEF AdmissionInv

(***************************************************************************)
(* The peers.                                                              *)
(***************************************************************************)
LEMMA PeerConnectsKeeps ==
  ASSUME AdmissionInv, NEW c \in Peer, PeerConnects(c)
  PROVE  Keeps
<1>1. QueueStep(c, {}, {"connecting"})
  BY Posted DEF AdmissionInv, AdmissionTypeOK, ServerEvent, PeerConnects
<1>2. AdmissionTypeOK'
  BY <1>1 DEF AdmissionInv, AdmissionTypeOK, QueueStep, PeerConnects, socketVars,
     unknownVars, proxyVars, admittedVars, handlerVars
<1>3. Waiting' = Waiting
  BY WaitingStays DEF PeerConnects, socketVars, unknownVars, proxyVars, admittedVars,
     handlerVars
<1>4. \A d \in Peer \ {c} : QueueSame(d) /\ StateSame(d) /\ WaitingSame(d)
  BY <1>1, <1>3, OthersQueue DEF AdmissionInv, AdmissionTypeOK, StateSame, WaitingSame,
     PeerConnects, socketVars, unknownVars, proxyVars, admittedVars, handlerVars
<1>5. /\ peerAt[c] = "away" /\ peerAt'[c] = "silent"
      /\ accepting' = accepting /\ m_newClients' = m_newClients /\ m_stream' = m_stream
      /\ m_proxy' = m_proxy /\ m_ready' = m_ready /\ unknownTimer' = unknownTimer
      /\ m_heartbeatTimer' = m_heartbeatTimer /\ served' = served /\ proxy' = proxy
      /\ streamHandler' = streamHandler /\ proxyHandler' = proxyHandler
  BY <1>1 DEF AdmissionInv, AdmissionTypeOK, PeerConnects, socketVars, unknownVars,
     proxyVars, admittedVars, handlerVars
<1>6. PeerInv(c)'
  <2>1. PeerInv(c) /\ m_ready \subseteq m_proxy /\ m_proxy \subseteq m_newClients
    BY DEF AdmissionInv, AdmissionTypeOK
  <2>2. Accepted(c)'
    BY <1>1, <1>5, <2>1 DEF PeerInv, Accepted, NotYet, Early, QueueStep
  <2>3. Handled(c)'
    BY <1>1, <1>5, <2>1 DEF PeerInv, Handled, QueueStep
  <2>4. Told(c)'
    BY <1>1, <1>5, <2>1 DEF PeerInv, Told, QueueStep
  <2>5. Owned(c)'
    BY <1>3, <1>5, <2>1 DEF PeerInv, Owned
  <2>6. Minded(c)'
    BY <1>1, <1>5, <2>1 DEF PeerInv, Minded, QueueStep
  <2>7. QED  BY <2>2, <2>3, <2>4, <2>5, <2>6 DEF PeerInv
<1>7. QED  BY <1>2, <1>4, <1>6, OneStep DEF AdmissionInv

LEMMA PeerAnswersKeeps ==
  ASSUME AdmissionInv, NEW c \in Peer, PeerAnswers(c)
  PROVE  Keeps
<1>1. QueueStep(c, {}, {"input"})
  BY Posted DEF AdmissionInv, AdmissionTypeOK, ServerEvent, PeerAnswers
<1>2. AdmissionTypeOK'
  BY <1>1 DEF AdmissionInv, AdmissionTypeOK, QueueStep, PeerAnswers, socketVars,
     unknownVars,
     proxyVars, admittedVars, handlerVars
<1>3. \A d : QueueSame(d)
  BY <1>1, OthersQueue DEF PeerEvents
<1>4. Waiting' = Waiting
  BY WaitingStays DEF PeerAnswers, admittedVars
<1>5. \A d \in Peer : StateSame(d) /\ WaitingSame(d)
  BY <1>4 DEF AdmissionInv, AdmissionTypeOK, StateSame, WaitingSame, PeerAnswers,
     socketVars,
     unknownVars, proxyVars, admittedVars, handlerVars
<1>6. QED  BY <1>2, <1>3, <1>5, SamePeer DEF AdmissionInv, Keeps

LEMMA PeerHangsUpKeeps ==
  ASSUME AdmissionInv, NEW c \in Peer, PeerHangsUp(c)
  PROVE  Keeps
<1>1. QueueStep(c, {}, {"hangUp"})
  BY Posted DEF AdmissionInv, AdmissionTypeOK, ServerEvent, PeerHangsUp
<1>2. AdmissionTypeOK'
  BY <1>1 DEF AdmissionInv, AdmissionTypeOK, QueueStep, PeerHangsUp, socketVars,
     unknownVars,
     proxyVars, admittedVars, handlerVars
<1>3. \A d : QueueSame(d)
  BY <1>1, OthersQueue DEF PeerEvents
<1>4. Waiting' = Waiting
  BY WaitingStays DEF PeerHangsUp, admittedVars
<1>5. \A d \in Peer : StateSame(d) /\ WaitingSame(d)
  BY <1>4 DEF AdmissionInv, AdmissionTypeOK, StateSame, WaitingSame, PeerHangsUp,
     socketVars,
     unknownVars, proxyVars, admittedVars, handlerVars
<1>6. QED  BY <1>2, <1>3, <1>5, SamePeer DEF AdmissionInv, Keeps

(***************************************************************************)
(* The server is called as often as clients wait.                          *)
(***************************************************************************)
LEMMA CallsOfJoined ==
  ASSUME NEW q \in Seq(ServerEvent), NEW p \in Seq(ServerEvent)
  PROVE  /\ IsFiniteSet(Calls(q)) /\ Cardinality(Calls(q)) \in Nat
         /\ Cardinality(Calls(q \o p)) = Cardinality(Calls(q)) + Cardinality(Calls(p))
<1> DEFINE r == q \o p  n == Len(q)  m == Len(p)
           f == [i \in Calls(p) |-> n + i]  moved == {n + i : i \in Calls(p)}
<1>1. /\ n \in Nat /\ m \in Nat /\ Len(r) = n + m
      /\ \A i \in 1 .. n : r[i] = q[i] /\ i \in 1 .. n + m
      /\ \A i \in 1 .. m : r[n + i] = p[i] /\ n + i \in 1 .. n + m
  OBVIOUS
<1>2. IsFiniteSet(Calls(q)) /\ IsFiniteSet(Calls(p))
  <2>1. IsFiniteSet(1 .. n) /\ IsFiniteSet(1 .. m)
    BY <1>1, FS_Interval
  <2>2. Calls(q) \subseteq 1 .. n /\ Calls(p) \subseteq 1 .. m
    BY DEF Calls
  <2>3. QED  BY <2>1, <2>2, FS_Subset
<1>3. ExistsBijection(Calls(p), moved)
  <2>1. Calls(p) \subseteq Nat
    BY DEF Calls
  <2>2. \A i, j \in Calls(p) : n + i = n + j => i = j
    BY <1>1, <2>1
  <2>3. f \in Bijection(Calls(p), moved)
    BY <2>2 DEF Bijection, Injection, IsInjective, Surjection
  <2>4. QED  BY <2>3 DEF ExistsBijection
<1>4. IsFiniteSet(moved) /\ Cardinality(moved) = Cardinality(Calls(p))
  BY <1>2, <1>3, FS_Bijection
<1> HIDE DEF r
<1>5. ASSUME NEW i \in 1 .. n + m, i \notin 1 .. n
      PROVE  i - n \in 1 .. m /\ n + (i - n) = i
  <2>1. i \in Nat /\ i > n
    BY <1>1, <1>5
  <2>2. QED  BY <1>1, <2>1
<1>6. Calls(q) \intersect moved = {}
  <2>1. \A i \in Calls(p) : n + i \notin 1 .. n
    BY <1>1 DEF Calls
  <2>2. QED  BY <2>1 DEF Calls
<1>7. Calls(r) = Calls(q) \union moved
  <2>1. ASSUME NEW i \in Calls(r) PROVE i \in Calls(q) \union moved
    <3>1. i \in 1 .. n + m /\ r[i][1] = "admitted"
      BY <1>1, <2>1 DEF Calls
    <3>2. CASE i \in 1 .. n
      BY <1>1, <3>1, <3>2 DEF Calls
    <3>3. CASE i \notin 1 .. n
      <4>1. i - n \in 1 .. m /\ n + (i - n) = i
        BY <1>5, <3>1, <3>3
      <4>2. p[i - n][1] = "admitted"
        BY <1>1, <3>1, <4>1
      <4>3. i - n \in Calls(p)
        BY <4>1, <4>2 DEF Calls
      <4>4. QED  BY <4>1, <4>3
    <3>4. QED  BY <3>2, <3>3
  <2>2. ASSUME NEW i \in Calls(q) PROVE i \in Calls(r)
    BY <1>1, <2>2 DEF Calls
  <2>3. ASSUME NEW i \in Calls(p) PROVE n + i \in Calls(r)
    <3>1. i \in 1 .. m /\ p[i][1] = "admitted"
      BY <2>3 DEF Calls
    <3>2. QED  BY <1>1, <3>1 DEF Calls
  <2>4. QED  BY <2>1, <2>2, <2>3
<1>8. /\ Cardinality(Calls(q)) \in Nat /\ Cardinality(Calls(p)) \in Nat
  BY <1>2, FS_CardinalityType
<1>9. Cardinality(Calls(r)) = Cardinality(Calls(q)) + Cardinality(moved) - 0
  <2> HIDE DEF moved
  <2>1. QED  BY <1>2, <1>4, <1>6, <1>7, FS_Union, FS_EmptySet
<1>10. QED  BY <1>2, <1>4, <1>8, <1>9 DEF r

LEMMA CallsOfOne ==
  ASSUME NEW e
  PROVE  Cardinality(Calls(<<e>>)) = IF e[1] = "admitted" THEN 1 ELSE 0
<1>1. Calls(<<e>>) = IF e[1] = "admitted" THEN {1} ELSE {}
  BY DEF Calls
<1>2. QED  BY <1>1, FS_Singleton, FS_EmptySet

LEMMA CallsHandled ==
  ASSUME NEW type, NEW c, NEW p \in Seq(ServerEvent), Handles(type, c, p),
         serverEvents \in Seq(ServerEvent)
  PROVE  /\ Cardinality(Calls(serverEvents)) \in Nat
         /\ Cardinality(Calls(p)) \in Nat
         /\ Cardinality(Calls(serverEvents'))
              = Cardinality(Calls(serverEvents)) - (IF type = "admitted" THEN 1 ELSE 0)
                  + Cardinality(Calls(p))
<1> DEFINE q == serverEvents  t == Tail(q)  e == << <<type, c>> >>
<1>1. /\ t \in Seq(ServerEvent) /\ e \in Seq(ServerEvent) /\ q = e \o t
      /\ serverEvents' = t \o p
  <2>1. q \in Seq(ServerEvent) /\ q # << >> /\ q[1] = <<type, c>> /\ serverEvents' = t \o p
    BY DEF Handles
  <2>2. q \in Seq(ServerEvent) /\ q # << >>
    BY DEF Handles
  <2>3. /\ q[1] \in ServerEvent /\ t \in Seq(ServerEvent) /\ Len(t) = Len(q) - 1
        /\ Len(q) \in Nat \ {0} /\ \A i \in 1 .. Len(t) : t[i] = q[i + 1]
    BY ONLY <2>2, HeadTailProperties
  <2>4. e \in Seq(ServerEvent) /\ Len(e) = 1 /\ e[1] = q[1]
    BY <2>1, <2>3
  <2>5. /\ e \o t \in Seq(ServerEvent) /\ Len(e \o t) = Len(e) + Len(t)
        /\ \A i \in 1 .. Len(e) + Len(t) :
             (e \o t)[i] = IF i <= Len(e) THEN e[i] ELSE t[i - Len(e)]
    <3> HIDE DEF t, e
    <3>1. QED  BY <2>3, <2>4, ConcatProperties
  <2> HIDE DEF q, t, e
  <2>6. Len(e \o t) = Len(q)
    BY <2>3, <2>4, <2>5
  <2>7. ASSUME NEW i \in 1 .. Len(q) PROVE (e \o t)[i] = q[i]
    <3>1. CASE i = 1
      BY <2>3, <2>4, <2>5, <3>1
    <3>2. CASE i # 1
      <4>1. i - 1 \in 1 .. Len(t) /\ (i - 1) + 1 = i /\ ~(i <= 1)
        BY <2>3, <3>2
      <4>2. QED  BY <2>3, <2>4, <2>5, <2>6, <4>1
    <3>3. QED  BY <3>1, <3>2
  <2>8. q = e \o t
    BY <2>1, <2>5, <2>6, <2>7, SeqEqual
  <2>9. QED  BY <2>1, <2>3, <2>4, <2>8
<1>2. Cardinality(Calls(e)) = IF type = "admitted" THEN 1 ELSE 0
  BY CallsOfOne
<1>3. Cardinality(Calls(t)) \in Nat /\ Cardinality(Calls(p)) \in Nat
      /\ Cardinality(Calls(q)) \in Nat
  <2> HIDE DEF t, e
  <2>1. QED  BY <1>1, CallsOfJoined
<1> HIDE DEF q, t, e
<1>4. /\ Cardinality(Calls(q)) = Cardinality(Calls(e)) + Cardinality(Calls(t))
      /\ Cardinality(Calls(serverEvents')) = Cardinality(Calls(t)) + Cardinality(Calls(p))
  BY <1>1, CallsOfJoined
<1>5. QED  BY <1>2, <1>3, <1>4 DEF q

CalledEnough == Len(m_waitingClients) <= Cardinality(Calls(serverEvents))

\* A step that lets the list be and handles no call.
LEMMA CallsStay ==
  ASSUME AdmissionTypeOK, CalledEnough, m_waitingClients' = m_waitingClients,
         NEW p \in Seq(ServerEvent),
         \/ serverEvents' = serverEvents \o p
         \/ \E type, c : type # "admitted" /\ Handles(type, c, p)
  PROVE  CalledEnough'
<1>1. Len(m_waitingClients) \in Nat /\ serverEvents \in Seq(ServerEvent)
  BY DEF AdmissionTypeOK
<1>2. Cardinality(Calls(serverEvents)) \in Nat
  BY <1>1, CallsOfJoined
<1>3. Cardinality(Calls(serverEvents')) >= Cardinality(Calls(serverEvents))
      /\ Cardinality(Calls(serverEvents')) \in Nat
  <2>1. CASE serverEvents' = serverEvents \o p
    <3>1. Cardinality(Calls(serverEvents \o p))
            = Cardinality(Calls(serverEvents)) + Cardinality(Calls(p))
      BY <1>1, CallsOfJoined
    <3>2. Cardinality(Calls(p)) \in Nat
      BY CallsOfJoined
    <3>3. QED  BY <1>2, <2>1, <3>1, <3>2
  <2>2. ASSUME NEW type, NEW c, type # "admitted", Handles(type, c, p)
        PROVE  Cardinality(Calls(serverEvents')) >= Cardinality(Calls(serverEvents))
               /\ Cardinality(Calls(serverEvents')) \in Nat
    <3>1. /\ Cardinality(Calls(p)) \in Nat
          /\ Cardinality(Calls(serverEvents'))
               = Cardinality(Calls(serverEvents)) - 0 + Cardinality(Calls(p))
      BY <1>1, <2>2, CallsHandled
    <3>2. QED  BY <1>2, <3>1
  <2>3. QED  BY <2>1, <2>2
<1>4. QED  BY <1>1, <1>2, <1>3 DEF CalledEnough

LEMMA WaitStep ==
  ASSUME AdmissionInv, NEW c \in Peer, Loop(c) \/ Timers(c) \/ serviceAccept(c) \/ PeerStep(c)
  PROVE  WaitsOnce' /\ CalledEnough'
<1>1. /\ AdmissionTypeOK /\ WaitsOnce /\ CalledEnough /\ serverEvents \in Seq(ServerEvent)
      /\ m_waitingClients \in Seq(Peer)
  BY DEF AdmissionInv, AdmissionTypeOK, CalledEnough
<1>2. Len(m_waitingClients) \in Nat /\ Cardinality(Calls(serverEvents)) \in Nat
  BY <1>1, CallsOfJoined
<1>3. /\ << >> \in Seq(ServerEvent)
      /\ \A t, d : <<t, d>> \in ServerEvent => << <<t, d>> >> \in Seq(ServerEvent)
  OBVIOUS
<1>4. /\ Cardinality(Calls(<< >>)) = 0
      /\ Cardinality(Calls(<< <<"admitted", c>> >>)) = 1
  <2>1. Calls(<< >>) = {}
    BY DEF Calls
  <2>2. Cardinality(Calls(<< >>)) = 0
    BY <2>1, FS_EmptySet
  <2>3. <<"admitted", c>>[1] = "admitted"
    OBVIOUS
  <2>4. Cardinality(Calls(<< <<"admitted", c>> >>)) = 1
    BY <2>3, CallsOfOne
  <2>5. QED  BY <2>2, <2>4
<1>5. CASE handleSuccess(c)
  <2>1. c \notin Waiting
    BY <1>5 DEF AdmissionInv, PeerInv, Owned, handleSuccess
  <2>2. m_waitingClients' = Append(m_waitingClients, c)
        /\ Handles("success", c, << <<"admitted", c>> >>)
    BY <1>5 DEF handleSuccess, Announcement
  <2>3. WaitsOnce' /\ Len(m_waitingClients') = Len(m_waitingClients) + 1
    BY <1>1, <2>1, <2>2, WaitingGrows
  <2>4. Cardinality(Calls(serverEvents')) = Cardinality(Calls(serverEvents)) - 0 + 1
    BY <1>1, <1>3, <1>4, <2>2, CallsHandled DEF ServerEvent
  <2>5. QED  BY <1>1, <1>2, <2>3, <2>4 DEF CalledEnough
<1>6. CASE handleAdmitted(c)
  <2>1. m_waitingClients' = Tail(m_waitingClients) /\ m_waitingClients # << >>
        /\ Handles("admitted", c, << >>)
    BY <1>6 DEF handleAdmitted
  <2>2. WaitsOnce' /\ Len(m_waitingClients') = Len(m_waitingClients) - 1
    BY <1>1, <2>1, HeadLeaves
  <2>3. Cardinality(Calls(serverEvents')) = Cardinality(Calls(serverEvents)) - 1 + 0
    BY <1>1, <1>3, <1>4, <2>1, CallsHandled
  <2>4. QED  BY <1>1, <1>2, <2>2, <2>3 DEF CalledEnough
<1>7. CASE handleLostInQueue(c)
  <2>1. PICK i \in 1 .. Len(m_waitingClients) :
          m_waitingClients' = [j \in 1 .. Len(m_waitingClients) - 1 |->
                                 m_waitingClients[IF j < i THEN j ELSE j + 1]]
    BY <1>7 DEF handleLostInQueue
  <2>2. WaitsOnce' /\ Len(m_waitingClients') = Len(m_waitingClients) - 1
    BY <1>1, <2>1, OneLeaves
  <2>3. Cardinality(Calls(serverEvents')) = Cardinality(Calls(serverEvents)) - 0 + 0
    BY <1>1, <1>3, <1>4, <1>7, CallsHandled DEF handleLostInQueue
  <2>4. QED  BY <1>1, <1>2, <2>2, <2>3 DEF CalledEnough
<1>8. CASE handleNothing(c) /\ Handles("admitted", c, << >>) /\ m_waitingClients = << >>
  <2>1. m_waitingClients' = << >>
    BY <1>8 DEF handleNothing, admittedVars
  <2>2. Cardinality(Calls(serverEvents')) = Cardinality(Calls(serverEvents)) - 1 + 0
        /\ Cardinality(Calls(serverEvents')) \in Nat
    <3>1. Cardinality(Calls(serverEvents')) = Cardinality(Calls(serverEvents)) - 1 + 0
      BY <1>1, <1>3, <1>4, <1>8, CallsHandled
    <3>2. serverEvents' \in Seq(ServerEvent)
      BY <1>1, <1>8, NothingPosted DEF QueueStep
    <3>3. QED  BY <1>3, <3>1, <3>2, CallsOfJoined
  <2>3. QED  BY <2>1, <2>2 DEF CalledEnough, WaitsOnce
<1>9. ASSUME NEW p \in Seq(ServerEvent), m_waitingClients' = m_waitingClients,
             \/ serverEvents' = serverEvents \o p
             \/ \E t, d : t # "admitted" /\ Handles(t, d, p)
      PROVE  WaitsOnce' /\ CalledEnough'
  BY <1>1, <1>9, CallsStay DEF WaitsOnce
<1>10. /\ \A t, d : serverEvents' = Append(serverEvents, <<t, d>>) /\ <<t, d>> \in ServerEvent
            => \E p \in Seq(ServerEvent) : serverEvents' = serverEvents \o p
       /\ \A t, d : Expires(<< <<t, d>> >>) /\ <<t, d>> \in ServerEvent
            => \E p \in Seq(ServerEvent) : serverEvents' = serverEvents \o p
  <2>1. ASSUME NEW t, NEW d, serverEvents' = Append(serverEvents, <<t, d>>),
               <<t, d>> \in ServerEvent
        PROVE  \E p \in Seq(ServerEvent) : serverEvents' = serverEvents \o p
    BY <1>1, <1>3, <2>1, AppendIsConcat
  <2>2. ASSUME NEW t, NEW d, Expires(<< <<t, d>> >>), <<t, d>> \in ServerEvent
        PROVE  \E p \in Seq(ServerEvent) : serverEvents' = serverEvents \o p
    BY <1>3, <2>2, ConcatEmptySeq DEF Expires
  <2>3. QED  BY <2>1, <2>2
<1>11. CASE Timers(c) \/ serviceAccept(c) \/ PeerStep(c)
  BY <1>9, <1>10, <1>11 DEF Timers, handleTimeout, handleFlatline, sendFailure,
     disconnect,
     Failure, Disconnected, serviceAccept, PeerStep, PeerConnects, PeerAnswers, PeerHangsUp,
     ServerEvent, admittedVars
<1>12. CASE \/ handleClientConnecting(c) \/ handleRefused(c) \/ handleClientAccepted(c)
            \/ handleHangUp(c) \/ handleBadHello(c) \/ handleHelloBack(c)
            \/ handleProxyReady(c) \/ handleProxyLost(c)
            \/ handleInfo(c) \/ handleBadInfo(c) \/ handleProxyHangUp(c)
            \/ handleFailure(c) \/ handleLateSuccess(c) \/ handleLostByServer(c)
  <2>1. \/ \E t : t # "admitted" /\ Handles(t, c, << >>)
        \/ \E t : /\ t # "admitted"
                  /\ \E new \in {"accepted", "failure", "success", "ready", "disconnected"} :
                       Handles(t, c, << <<new, c>> >>)
        \/ Handles("connecting", c, << <<"hangUp", c>>, <<"accepted", c>> >>)
    <3>1. CASE handleClientConnecting(c)
      BY <3>1 DEF handleClientConnecting
    <3>2. CASE \/ handleRefused(c) \/ handleClientAccepted(c) \/ handleHelloBack(c)
               \/ handleFailure(c) \/ handleLateSuccess(c) \/ handleLostByServer(c)
      BY <3>2 DEF handleRefused, handleClientAccepted, handleHelloBack, handleFailure,
         handleLateSuccess, handleLostByServer
    <3>3. CASE \/ handleHangUp(c) \/ handleBadHello(c) \/ handleProxyReady(c)
               \/ handleProxyLost(c)
      BY <3>3 DEF handleHangUp, handleBadHello, handleProxyReady, handleProxyLost, Failure
    <3>4. CASE handleInfo(c) \/ handleBadInfo(c) \/ handleProxyHangUp(c)
      BY <3>4 DEF handleInfo, handleBadInfo, handleProxyHangUp, Disconnected
    <3>5. QED  BY <1>12, <3>1, <3>2, <3>3, <3>4
  <2>2. << <<"hangUp", c>>, <<"accepted", c>> >> \in Seq(ServerEvent)
    BY DEF ServerEvent
  <2>3. \A new \in {"accepted", "failure", "success", "ready", "disconnected"} :
          << <<new, c>> >> \in Seq(ServerEvent)
    BY <1>3 DEF ServerEvent
  <2>4. \E p \in Seq(ServerEvent) : \E t, d : t # "admitted" /\ Handles(t, d, p)
    <3>1. "connecting" # "admitted"
      OBVIOUS
    <3>2. QED  BY <1>3, <2>1, <2>2, <2>3, <3>1, Zenon
  <2>5. m_waitingClients' = m_waitingClients
    BY <1>12 DEF handleClientConnecting, handleRefused, handleClientAccepted,
       handleHangUp, handleBadHello, handleHelloBack, handleProxyReady, handleProxyLost,
       handleInfo, handleBadInfo, handleProxyHangUp, handleFailure, handleLateSuccess,
       handleLostByServer, sendFailure, disconnect, admittedVars
  <2>6. QED  BY <1>9, <2>5, <2>4
<1>13. CASE handleNothing(c) /\ ~(Handles("admitted", c, << >>) /\ m_waitingClients = << >>)
  <2>1. \E t, d : t # "admitted" /\ Handles(t, d, << >>)
    BY <1>13 DEF handleNothing
  <2>2. m_waitingClients' = m_waitingClients
    BY <1>13 DEF handleNothing, admittedVars
  <2>3. QED  BY <1>3, <1>9, <2>1, <2>2
<1>14. QED
  BY <1>5, <1>6, <1>7, <1>8, <1>11, <1>12, <1>13 DEF Loop

(***************************************************************************)
(* The theorems.                                                           *)
(***************************************************************************)
LEMMA AdmissionStarts == AdmissionInit => AdmissionInv
<1> SUFFICES ASSUME AdmissionInit PROVE AdmissionInv
  OBVIOUS
<1>1. AdmissionTypeOK
  <2>1. secure \in BOOLEAN /\ crashed \in BOOLEAN
    BY DEF AdmissionInit
  <2>2. serverEvents = << >> /\ m_waitingClients = << >>
    BY DEF AdmissionInit
  <2>3. << >> \in Seq(ServerEvent) /\ << >> \in Seq(Peer)
    OBVIOUS
  <2>4. /\ proxy \in [Peer -> {"none", "asks", "known", "gone", "deleted"}]
        /\ streamHandler \in [Peer -> {"nobody", "unknown", "proxy"}]
        /\ proxyHandler \in [Peer -> {"nobody", "unknown", "listener", "server"}]
    BY DEF AdmissionInit
  <2>5. /\ inbox \in [Peer -> {"nothing", "good", "bad"}]
        /\ peerAt \in [Peer -> {"away", "silent", "told", "answered", "asked", "done",
                                "left"}]
    BY DEF AdmissionInit
  <2>6. /\ accepting = {} /\ m_clientSockets = {} /\ m_newClients = {} /\ m_stream = {}
        /\ m_proxy = {} /\ m_ready = {} /\ unknownTimer = {} /\ m_heartbeatTimer = {}
        /\ served = {}
    BY DEF AdmissionInit
  <2>7. QED  BY <2>1, <2>4, <2>5, <2>6, <2>2, <2>3 DEF AdmissionTypeOK
<1>2. \A t, c : ~IsQueued(t, c)
  BY DEF AdmissionInit, IsQueued
<1>3. Waiting = {} /\ WaitsOnce
  BY DEF AdmissionInit, Waiting, WaitsOnce
<1>4. Len(m_waitingClients) <= Cardinality(Calls(serverEvents))
  <2>1. Calls(serverEvents) = {}
    BY DEF AdmissionInit, Calls
  <2>2. Len(m_waitingClients) = 0
    BY DEF AdmissionInit
  <2>3. QED  BY <2>1, <2>2, FS_EmptySet
<1>5. \A x, y : Once(serverEvents, x) /\ Precedes(serverEvents, x, y)
  BY DEF AdmissionInit, Once, Precedes
<1>6. ASSUME NEW c \in Peer PROVE PeerInv(c)
  BY <1>2, <1>3, <1>5 DEF AdmissionInit, PeerInv, Accepted, NotYet, Early, Handled, Told,
     Owned, Minded
<1>7. QED  BY <1>1, <1>3, <1>4, <1>6 DEF AdmissionInv

LEMMA AdmissionGoesOn == AdmissionInv /\ [AdmissionNext]_admissionVars => AdmissionInv'
<1> SUFFICES ASSUME AdmissionInv, [AdmissionNext]_admissionVars PROVE AdmissionInv'
  OBVIOUS
<1>1. ASSUME NEW c \in Peer, Loop(c) \/ Timers(c) \/ serviceAccept(c) \/ PeerStep(c)
      PROVE  AdmissionInv'
  <2>1. Keeps
    <3>1. CASE Loop(c)
      BY <3>1, HandleClientConnectingKeeps, HandleRefusedKeeps, HandleClientAcceptedKeeps,
         HandleHangUpKeeps, HandleBadHelloKeeps, HandleHelloBackKeeps,
         HandleProxyReadyKeeps, HandleProxyLostKeeps, HandleInfoKeeps, HandleBadInfoKeeps,
         HandleProxyHangUpKeeps, HandleFailureKeeps, HandleSuccessKeeps,
         HandleLateSuccessKeeps, HandleAdmittedKeeps, HandleLostInQueueKeeps,
         HandleLostByServerKeeps, HandleNothingKeeps DEF Loop
    <3>2. CASE Timers(c)
      BY <3>2, HandleTimeoutKeeps, HandleFlatlineKeeps DEF Timers
    <3>3. CASE serviceAccept(c)
      BY <3>3, ServiceAcceptKeeps
    <3>4. CASE PeerStep(c)
      BY <3>4, PeerConnectsKeeps, PeerAnswersKeeps, PeerHangsUpKeeps DEF PeerStep
    <3>5. QED  BY <1>1, <3>1, <3>2, <3>3, <3>4
  <2>2. WaitsOnce' /\ CalledEnough'
    BY <1>1, WaitStep
  <2>3. QED  BY <2>1, <2>2 DEF Keeps, CalledEnough, AdmissionInv
<1>2. CASE UNCHANGED admissionVars
  <2>1. \A d : QueueSame(d) /\ StateSame(d) /\ WaitingSame(d)
    BY <1>2 DEF admissionVars, socketVars, unknownVars, proxyVars, admittedVars,
       handlerVars, QueueSame, StateSame, WaitingSame, IsQueued, Waiting
  <2>2. AdmissionTypeOK'
    BY <1>2 DEF AdmissionInv, AdmissionTypeOK, admissionVars, socketVars, unknownVars,
       proxyVars, admittedVars, handlerVars
  <2>3. Keeps
    BY <2>1, <2>2, SamePeer DEF AdmissionInv, Keeps
  <2>4. WaitsOnce' /\ CalledEnough'
    BY <1>2 DEF AdmissionInv, CalledEnough, WaitsOnce, admissionVars, admittedVars
  <2>5. QED  BY <2>3, <2>4 DEF Keeps, CalledEnough, AdmissionInv
<1>3. QED  BY <1>1, <1>2 DEF AdmissionNext

LEMMA WaitingOnceCounts ==
  ASSUME m_waitingClients \in Seq(Peer), WaitsOnce
  PROVE  Cardinality(Waiting) = Len(m_waitingClients)
<1> DEFINE w == m_waitingClients  n == Len(w)
<1>1. n \in Nat /\ w \in [1 .. n -> Peer] /\ Waiting = {w[i] : i \in 1 .. n}
  BY DEF Waiting
<1>2. w \in Bijection(1 .. n, Waiting)
  <2>1. w = [i \in 1 .. n |-> w[i]]
    BY <1>1
  <2>2. w \in [1 .. n -> Waiting]
    BY <1>1, <2>1
  <2>3. QED  BY <1>1, <2>2 DEF WaitsOnce, Bijection, Injection, IsInjective, Surjection
<1>3. ExistsBijection(1 .. n, Waiting)
  BY <1>2 DEF ExistsBijection
<1>4. IsFiniteSet(1 .. n) /\ Cardinality(1 .. n) = n
  <2>1. 1 \in Int /\ n \in Int
    BY <1>1
  <2>2. QED  BY <1>1, <2>1, FS_Interval
<1>5. QED  BY <1>3, <1>4, FS_Bijection

LEMMA AdmissionInvSuffices == AdmissionInv => ProxiesHaveOneOwner
<1> SUFFICES ASSUME AdmissionInv PROVE ProxiesHaveOneOwner
  OBVIOUS
<1>1. Waiting \subseteq Peer
  BY DEF AdmissionInv, AdmissionTypeOK, Waiting
<1>2. Cardinality(Waiting) = Len(m_waitingClients)
  BY WaitingOnceCounts DEF AdmissionInv, AdmissionTypeOK
<1>3. OwnersHearOfTheEnd
  BY <1>1, <1>2 DEF AdmissionInv, AdmissionTypeOK, PeerInv, Owned, OwnersHearOfTheEnd
<1>4. NoHandlerOfTheDead
  BY DEF AdmissionInv, PeerInv, Told, Handled, NoHandlerOfTheDead
<1>5. NobodyIsForgotten
  BY DEF AdmissionInv, PeerInv, Minded, NobodyIsForgotten, Calls
<1>6. QED  BY <1>3, <1>4, <1>5 DEF AdmissionInv, ProxiesHaveOneOwner

\* A proxy has one owner as long as it lives, who hears of its end; no event that
\* is queued finds the handler of what has been deleted; a client that shakes hands
\* is under a timer or about to be seen to, and the server is called as often as
\* clients wait (ClientListener, ClientProxyUnknown, ClientProxy1_0).
THEOREM ProxiesAlwaysHaveOneOwner == AdmissionSpec => []ProxiesHaveOneOwner
<1>1. AdmissionInit => AdmissionInv
  BY AdmissionStarts
<1>2. AdmissionInv /\ [AdmissionNext]_admissionVars => AdmissionInv'
  BY AdmissionGoesOn
<1>3. AdmissionInv => ProxiesHaveOneOwner
  BY AdmissionInvSuffices
<1>4. QED  BY <1>1, <1>2, <1>3, PTL DEF AdmissionSpec

-----------------------------------------------------------------------------
(***************************************************************************)
(* ClientConnection.  What waits for the stream fits the stage the client  *)
(* is at, and there is one such event at most.                             *)
(***************************************************************************)
LoopEvent == StreamEvent \union AppEvent
Farewells == {"close", "refuse", "hangUp", "closeRequested", "refuseRequested", "failRequested"}
StageEvents(c) ==
  {e \in StreamEvent :
     \/ c = "connecting" /\ e \in {"connected", "connectionFailed"}
     \/ c = "hello" /\ e \in {"hello", "badHello", "hangUp"}
     \/ c = "handshake" /\ e \in Farewells \union {"options"}
     \/ c = "ready" /\ e \in Farewells}

Waits(q, S) == \E i \in 1 .. Len(q) : q[i] \in S
ForNobody(q) == \A i \in 1 .. Len(q) : q[i] \notin StreamEvent
OfStage(q, c) ==
  /\ \A i, j \in 1 .. Len(q) : q[i] \in StreamEvent /\ q[j] \in StreamEvent => i = j
  /\ \A i \in 1 .. Len(q) : q[i] \in StreamEvent => q[i] \in StageEvents(c)

\* A client without a connection has lost it last, and it was told so.
StageInv ==
  /\ conn # "none" => ~m_suspended
  /\ conn \in {"connecting", "hello"} => m_timer
  /\ m_keepAliveAlarmTimer => conn \in {"handshake", "ready"}
  /\ conn \in {"handshake", "ready"} => m_keepAliveAlarmTimer \/ Queued({"failRequested"})
  /\ OfStage(clientEvents, conn)
  /\ conn = "none" /\ clientEvents # << >> => clientEvents[Len(clientEvents)] \in Loss
  /\ conn = "none" /\ clientEvents = << >> =>
       m_restartTimer \/ (m_suspended /\ m_connectOnResume)

ConnectionInv == ConnectionTypeOK /\ StageInv

LEMMA EventKinds ==
  /\ Loss \subseteq AppEvent /\ Loss \subseteq LoopEvent
  /\ \A e \in AppEvent : e \notin StreamEvent
  /\ "clientConnected" \in AppEvent /\ "clientConnected" \notin Loss
BY DEF Loss, AppEvent, LoopEvent, StreamEvent

\* The first event is taken.
LEMMA EventTaken ==
  ASSUME NEW q \in Seq(LoopEvent), q # << >>, NEW c, OfStage(q, c)
  PROVE  /\ Tail(q) \in Seq(LoopEvent) /\ Head(q) \in LoopEvent
         /\ OfStage(Tail(q), c)
         /\ Head(q) \in StreamEvent => ForNobody(Tail(q)) /\ Head(q) \in StageEvents(c)
         /\ Tail(q) # << >> => Tail(q)[Len(Tail(q))] = q[Len(q)]
         /\ Tail(q) = << >> => q[Len(q)] = Head(q)
         /\ \A S : Head(q) \notin S /\ Waits(q, S) => Waits(Tail(q), S)
<1>1. PICK t : t = Tail(q)
  OBVIOUS
<1>2. /\ t \in Seq(LoopEvent) /\ Len(t) = Len(q) - 1 /\ Head(q) = q[1]
      /\ \A i \in 1 .. Len(t) : t[i] = q[i + 1]
  BY <1>1
<1>3. /\ Len(q) \in Nat \ {0} /\ Len(t) \in Nat /\ 1 \in 1 .. Len(q) /\ q[1] \in LoopEvent
      /\ t = << >> <=> Len(t) = 0
  BY <1>2
<1>4. \A i \in 1 .. Len(t) : i + 1 \in 1 .. Len(q) /\ i + 1 # 1
  BY ONLY <1>2, <1>3
<1>5. \A i \in 1 .. Len(q) : i = 1 \/ (i - 1 \in 1 .. Len(t) /\ (i - 1) + 1 = i)
  BY ONLY <1>2, <1>3
<1>6. OfStage(t, c)
  <2>1. \A i, j \in 1 .. Len(t) : t[i] \in StreamEvent /\ t[j] \in StreamEvent => i = j
    <3>1. \A i, j \in 1 .. Len(t) : i + 1 = j + 1 => i = j
      BY ONLY <1>3
    <3> QED BY <1>2, <1>4, <3>1 DEF OfStage
  <2>2. \A i \in 1 .. Len(t) : t[i] \in StreamEvent => t[i] \in StageEvents(c)
    BY <1>2, <1>4 DEF OfStage
  <2> QED BY <2>1, <2>2 DEF OfStage
<1>7. Head(q) \in StreamEvent => ForNobody(t) /\ Head(q) \in StageEvents(c)
  BY <1>2, <1>3, <1>4 DEF OfStage, ForNobody
<1>8. /\ t # << >> => t[Len(t)] = q[Len(q)]
      /\ t = << >> => q[Len(q)] = Head(q)
  <2>1. Len(t) # 0 => Len(t) \in 1 .. Len(t) /\ Len(t) + 1 = Len(q)
    BY ONLY <1>2, <1>3
  <2>2. Len(t) = 0 => Len(q) = 1
    BY ONLY <1>2, <1>3
  <2> QED BY <2>1, <2>2, <1>2, <1>3
<1>9. ASSUME NEW S, Head(q) \notin S, Waits(q, S)
      PROVE  Waits(t, S)
  <2>1. PICK i \in 1 .. Len(q) : q[i] \in S
    BY <1>9 DEF Waits
  <2>2. i - 1 \in 1 .. Len(t) /\ (i - 1) + 1 = i
    BY <2>1, <1>2, <1>5, <1>9
  <2>3. t[i - 1] = q[i]
    BY <2>2, <1>2
  <2> QED BY <2>1, <2>2, <2>3 DEF Waits
<1> QED BY <1>1, <1>2, <1>3, <1>6, <1>7, <1>8, <1>9, Zenon

\* An event is added behind the others.
LEMMA EventPosted ==
  ASSUME NEW q \in Seq(LoopEvent), NEW e \in LoopEvent, NEW c, OfStage(q, c),
         e \in StreamEvent => ForNobody(q) /\ e \in StageEvents(c)
  PROVE  /\ Append(q, e) \in Seq(LoopEvent) /\ OfStage(Append(q, e), c)
         /\ Append(q, e) # << >> /\ Append(q, e)[Len(Append(q, e))] = e
         /\ \A S : Waits(Append(q, e), S) <=> Waits(q, S) \/ e \in S
<1>1. PICK t : t = Append(q, e)
  OBVIOUS
<1>2. /\ t \in Seq(LoopEvent) /\ Len(t) = Len(q) + 1 /\ t[Len(q) + 1] = e
      /\ \A i \in 1 .. Len(q) : t[i] = q[i]
      /\ Len(q) \in Nat
  BY <1>1
<1>3. /\ \A i \in 1 .. Len(t) : i \in 1 .. Len(q) \/ i = Len(q) + 1
      /\ \A i \in 1 .. Len(q) : i \in 1 .. Len(t)
      /\ Len(q) + 1 \in 1 .. Len(t) /\ Len(t) # 0
  BY ONLY <1>2
<1>4. OfStage(t, c)
  <2>1. ASSUME NEW i \in 1 .. Len(t), NEW j \in 1 .. Len(t),
               t[i] \in StreamEvent, t[j] \in StreamEvent
        PROVE  i = j
    <3>1. CASE e \in StreamEvent
      <4>1. i = Len(q) + 1 /\ j = Len(q) + 1
        BY <2>1, <3>1, <1>2, <1>3 DEF ForNobody
      <4> QED BY ONLY <4>1
    <3>2. CASE e \notin StreamEvent
      BY <2>1, <3>2, <1>2, <1>3 DEF OfStage
    <3> QED BY <3>1, <3>2
  <2>2. \A i \in 1 .. Len(t) : t[i] \in StreamEvent => t[i] \in StageEvents(c)
    BY <1>2, <1>3 DEF OfStage
  <2> QED BY <2>1, <2>2 DEF OfStage
<1>5. t # << >> /\ t[Len(t)] = e
  BY <1>2, <1>3
<1>6. \A S : Waits(t, S) <=> Waits(q, S) \/ e \in S
  BY <1>2, <1>3 DEF Waits
<1> QED BY <1>1, <1>2, <1>4, <1>5, <1>6, Zenon

LEMMA NobodysEvents ==
  ASSUME NEW q, NEW c, ForNobody(q)
  PROVE  OfStage(q, c)
BY DEF ForNobody, OfStage

LEMMA OneOfStage ==
  ASSUME NEW q, NEW c, OfStage(q, c)
  PROVE  /\ ~Waits(q, StreamEvent) => ForNobody(q)
         /\ q # << >> /\ q \in Seq(LoopEvent) /\ Head(q) \in StreamEvent =>
              \A e \in StreamEvent : Waits(q, {e}) => e = Head(q)
<1>1. ~Waits(q, StreamEvent) => ForNobody(q)
  BY DEF Waits, ForNobody
<1>2. ASSUME q # << >>, q \in Seq(LoopEvent), Head(q) \in StreamEvent,
             NEW e \in StreamEvent, NEW i \in 1 .. Len(q), q[i] = e
      PROVE  e = Head(q)
  <2>1. 1 \in 1 .. Len(q) /\ Head(q) = q[1]
    BY <1>2
  <2>2. i = 1
    BY <1>2, <2>1 DEF OfStage
  <2> QED BY <1>2, <2>1, <2>2
<1> QED BY <1>1, <1>2 DEF Waits

(***************************************************************************)
(* ForApp gives events for the application only.  The least number of a    *)
(* set stands for induction.                                               *)
(***************************************************************************)
LEMMA LeastNumber ==
  ASSUME NEW T \in SUBSET Nat, T # {}
  PROVE  \E x \in T : \A y \in T : x <= y
<1> DEFINE R == {p \in Nat \X Nat : p[1] < p[2]}
<1>1. IsWellFoundedOn(OpToRel(<, Nat), Nat)
  BY NatLessThanWellFounded
<1>2. OpToRel(<, Nat) = R
  BY DEF OpToRel
<1>3. IsWellFoundedOn(R, Nat)
  BY <1>1, <1>2
<1> HIDE DEF R
<1>4. PICK x \in T : \A y \in T : ~ (<<y, x>> \in R)
  BY <1>3, WFMin
<1>5. ASSUME NEW y \in T, y < x
      PROVE  FALSE
  <2>1. <<y, x>> \in R
    BY <1>5 DEF R
  <2> QED BY <1>4, <2>1
<1>6. \A y \in T : x <= y
  <2>1. \A y \in T : y \in Nat /\ x \in Nat /\ ~(y < x)
    BY <1>5
  <2> QED BY <2>1
<1> QED BY <1>6

\* The equation of the function that ForApp applies, up to n.
NextKept(q, s, i) == IF q[i] \in AppEvent THEN Append(s, q[i]) ELSE s
Keeping(q, n, f) == [i \in 0 .. n |-> IF i = 0 THEN << >> ELSE NextKept(q, f[i - 1], i)]

LEMMA KeptByEquation ==
  ASSUME NEW q
  PROVE  ForApp(q) = (CHOOSE f : f = Keeping(q, Len(q), f))[Len(q)]
BY Zenon DEF ForApp, Keeping, NextKept

LEMMA KeepingExists ==
  ASSUME NEW q, NEW n \in Nat
  PROVE  \E f : f = Keeping(q, n, f)
<1> DEFINE Wrong == {m \in Nat : ~ \E f : f = Keeping(q, m, f)}
<1>1. ASSUME NEW m \in Nat, NEW f, f = Keeping(q, m, f)
      PROVE  \E g : g = Keeping(q, m + 1, g)
  <2> DEFINE g == [i \in 0 .. m + 1 |-> IF i <= m THEN f[i] ELSE NextKept(q, f[m], i)]
  <2>1. ASSUME NEW i \in 0 .. m
        PROVE  f[i] = IF i = 0 THEN << >> ELSE NextKept(q, f[i - 1], i)
    <3>1. Keeping(q, m, f)[i] = IF i = 0 THEN << >> ELSE NextKept(q, f[i - 1], i)
      BY Zenon DEF Keeping
    <3> QED BY <1>1, <3>1, Zenon
  <2>2. ASSUME NEW i \in 0 .. m + 1
        PROVE  g[i] = IF i = 0 THEN << >> ELSE NextKept(q, g[i - 1], i)
    <3>1. CASE i <= m
      <4>1. i \in 0 .. m /\ (i # 0 => i - 1 \in 0 .. m + 1 /\ i - 1 <= m)
        BY ONLY <3>1, m \in Nat, i \in 0 .. m + 1
      <4>2. g[i] = f[i]
        BY <3>1, Zenon
      <4>3. i # 0 => g[i - 1] = f[i - 1]
        BY <4>1, Zenon
      <4> QED BY <4>1, <4>2, <4>3, <2>1, Zenon
    <3>2. CASE ~(i <= m)
      <4>1. i - 1 = m /\ i # 0 /\ m \in 0 .. m + 1 /\ m <= m
        BY ONLY <3>2, m \in Nat, i \in 0 .. m + 1
      <4>2. g[i] = NextKept(q, f[m], i)
        BY <3>2, Zenon
      <4>3. g[i - 1] = f[m]
        BY <4>1, Zenon
      <4> QED BY <4>1, <4>2, <4>3, Zenon
    <3> QED BY <3>1, <3>2
  <2>3. g = [i \in 0 .. m + 1 |-> g[i]]
    BY Zenon
  <2> HIDE DEF g
  <2>4. g = Keeping(q, m + 1, g)
    BY <2>2, <2>3, Zenon DEF Keeping
  <2> QED BY <2>4
<1>2. \E f : f = Keeping(q, 0, f)
  <2> DEFINE f == [i \in 0 .. 0 |-> << >>]
  <2>1. \A i : i \in 0 .. 0 <=> i = 0
    OBVIOUS
  <2>2. f = Keeping(q, 0, f)
    BY <2>1, Zenon DEF Keeping
  <2> QED BY <2>2, Zenon
<1>3. ASSUME NEW x \in Wrong, \A y \in Wrong : x <= y
      PROVE  FALSE
  <2>1. x \in Nat /\ x # 0
    BY <1>2, Zenon
  <2>2. x - 1 \in Nat /\ (x - 1) + 1 = x /\ ~(x <= x - 1)
    BY ONLY <2>1
  <2>3. \E f : f = Keeping(q, x - 1, f)
    BY <1>3, <2>2, Zenon
  <2>4. PICK m \in Nat : m = x - 1 /\ m + 1 = x
    BY ONLY <2>2
  <2>5. \E f : f = Keeping(q, x, f)
    BY <1>1, <2>3, <2>4, Zenon
  <2> QED BY <2>5, Zenon
<1>4. Wrong \in SUBSET Nat
  OBVIOUS
<1> HIDE DEF Wrong
<1>5. Wrong = {}
  BY <1>3, <1>4, LeastNumber
<1> QED BY <1>5 DEF Wrong

LEMMA KeptForApp ==
  ASSUME NEW q \in Seq(LoopEvent)
  PROVE  ForApp(q) \in Seq(AppEvent)
<1>1. PICK n \in Nat : n = Len(q)
  OBVIOUS
<1> DEFINE f == CHOOSE f : f = Keeping(q, n, f)
<1>2. f = Keeping(q, n, f)
  BY KeepingExists, Zenon
<1>3. ForApp(q) = f[n]
  BY <1>1, KeptByEquation, Zenon
<1> HIDE DEF f
<1> DEFINE Wrong == {i \in 0 .. n : f[i] \notin Seq(AppEvent)}
<1>4. ASSUME NEW i \in 0 .. n
      PROVE  f[i] = IF i = 0 THEN << >> ELSE NextKept(q, f[i - 1], i)
  <2>1. Keeping(q, n, f)[i] = IF i = 0 THEN << >> ELSE NextKept(q, f[i - 1], i)
    BY Zenon DEF Keeping
  <2> QED BY <1>2, <2>1, Zenon
<1>5. ASSUME NEW x \in Wrong, \A y \in Wrong : x <= y
      PROVE  FALSE
  <2>1. x \in 0 .. n /\ f[x] \notin Seq(AppEvent)
    OBVIOUS
  <2>2. CASE x = 0
    <3>1. f[x] = << >>
      BY <1>4, <2>1, <2>2, Zenon
    <3>2. << >> \in Seq(AppEvent)
      OBVIOUS
    <3> QED BY <2>1, <3>1, <3>2, Zenon
  <2>3. CASE x # 0
    <3>1. x - 1 \in 0 .. n /\ ~(x <= x - 1)
      BY ONLY <2>1, <2>3, n \in Nat
    <3>2. f[x - 1] \in Seq(AppEvent)
      BY <1>5, <3>1
    <3>3. f[x] = NextKept(q, f[x - 1], x)
      BY <1>4, <2>1, <2>3, Zenon
    <3>4. PICK s \in Seq(AppEvent) : s = f[x - 1]
      BY <3>2
    <3>5. NextKept(q, s, x) \in Seq(AppEvent)
      <4>1. CASE q[x] \in AppEvent
        <5>1. Append(s, q[x]) \in Seq(AppEvent)
          BY ONLY <4>1, s \in Seq(AppEvent)
        <5> QED BY ONLY <4>1, <5>1, Zenon DEF NextKept
      <4>2. CASE q[x] \notin AppEvent
        BY ONLY <4>2, s \in Seq(AppEvent), Zenon DEF NextKept
      <4> QED BY <4>1, <4>2
    <3> QED BY ONLY <2>1, <3>3, <3>4, <3>5, Zenon
  <2> QED BY <2>2, <2>3
<1>6. Wrong \in SUBSET Nat
  OBVIOUS
<1>7. n \in 0 .. n
  BY <1>1
<1> HIDE DEF Wrong
<1>8. Wrong = {}
  BY <1>5, <1>6, LeastNumber
<1>9. f[n] \in Seq(AppEvent)
  BY <1>7, <1>8 DEF Wrong
<1> QED BY <1>3, <1>9, Zenon

-----------------------------------------------------------------------------
LEMMA StagesOfEvents ==
  ASSUME NEW c
  PROVE  /\ StageEvents(c) \subseteq StreamEvent
         /\ "connected" \in StageEvents(c) => c = "connecting"
         /\ "hello" \in StageEvents(c) => c = "hello"
         /\ "options" \in StageEvents(c) => c = "handshake"
         /\ c = "connecting" => {"connected", "connectionFailed"} \subseteq StageEvents(c)
         /\ c = "hello" => {"hello", "badHello", "hangUp"} \subseteq StageEvents(c)
         /\ c = "handshake" => "options" \in StageEvents(c)
         /\ c \in {"handshake", "ready"} <=> "failRequested" \in StageEvents(c)
         /\ c \in {"handshake", "ready"} => Farewells \subseteq StageEvents(c)
         /\ "close" \in StageEvents(c) => c \in {"handshake", "ready"}
         /\ "refuse" \in StageEvents(c) => c \in {"handshake", "ready"}
BY DEF StageEvents, Farewells, StreamEvent

LEMMA FarewellsAre ==
  /\ \A e \in {"connected", "connectionFailed", "hello", "badHello", "options"} : e \in StreamEvent
  /\ \A e \in {"close", "refuse", "hangUp", "closeRequested", "refuseRequested", "failRequested"} :
       e \in StreamEvent /\ e \in Farewells
BY DEF Farewells, StreamEvent

\* The connection is lost: the application is told, and will try again.
LEMMA LosingKeeps ==
  ASSUME ConnectionInv, NEW q \in Seq(LoopEvent), NEW kind \in Loss, CleanUp(q, kind),
         UNCHANGED <<reachable, serverVars, appVars>>,
         troubles' \in 0 .. MaxTroubles, m_suspended' \in BOOLEAN, m_connectOnResume' \in BOOLEAN
  PROVE  ConnectionInv'
<1>1. /\ conn' = "none" /\ m_timer' = FALSE /\ m_keepAliveAlarmTimer' = FALSE /\ target' = target
      /\ clientEvents' = Append(ForApp(q), kind)
  BY DEF CleanUp
<1>2. ForApp(q) \in Seq(LoopEvent) /\ ForNobody(ForApp(q)) /\ kind \in LoopEvent /\ kind \notin StreamEvent
  <2>1. PICK s \in Seq(AppEvent) : s = ForApp(q)
    BY KeptForApp
  <2>2. s \in Seq(LoopEvent)
    BY DEF LoopEvent
  <2>3. ForNobody(s)
    BY EventKinds DEF ForNobody
  <2> QED BY <2>1, <2>2, <2>3, EventKinds
<1>3. OfStage(ForApp(q), "none")
  BY <1>2, NobodysEvents
<1>4. /\ clientEvents' \in Seq(LoopEvent) /\ OfStage(clientEvents', "none") /\ clientEvents' # << >>
      /\ clientEvents'[Len(clientEvents')] = kind
  BY <1>1, <1>2, <1>3, EventPosted, Zenon
<1>5. StageInv'
  BY <1>1, <1>4 DEF StageInv, Loss
<1>6. ConnectionTypeOK'
  BY <1>1, <1>4 DEF ConnectionInv, ConnectionTypeOK, LoopEvent, serverVars, appVars
<1> QED BY <1>5, <1>6 DEF ConnectionInv

\* The first event of the queue.
LEMMA FirstEvent ==
  ASSUME ConnectionInv, NEW kind, Takes(kind)
  PROVE  /\ Tail(clientEvents) \in Seq(LoopEvent) /\ OfStage(Tail(clientEvents), conn)
         /\ kind \in StreamEvent =>
              ForNobody(Tail(clientEvents)) /\ kind \in StageEvents(conn)
         /\ kind \in StreamEvent /\ kind # "failRequested" /\ conn \in {"handshake", "ready"} =>
              m_keepAliveAlarmTimer
         /\ kind \notin StreamEvent =>
              /\ conn = "none" /\ Tail(clientEvents) = << >> => kind \in Loss
              /\ conn = "none" /\ Tail(clientEvents) # << >> =>
                   Tail(clientEvents)[Len(Tail(clientEvents))] \in Loss
              /\ conn \in {"handshake", "ready"} =>
                   m_keepAliveAlarmTimer \/ Waits(Tail(clientEvents), {"failRequested"})
<1>1. PICK q \in Seq(LoopEvent) : q = clientEvents
  BY DEF ConnectionInv, ConnectionTypeOK, LoopEvent
<1>2. /\ q # << >> /\ Head(q) = kind /\ OfStage(q, conn)
  BY <1>1 DEF Takes, ConnectionInv, StageInv
<1>3. /\ Tail(q) \in Seq(LoopEvent) /\ OfStage(Tail(q), conn)
      /\ kind \in StreamEvent => ForNobody(Tail(q)) /\ kind \in StageEvents(conn)
      /\ Tail(q) # << >> => Tail(q)[Len(Tail(q))] = q[Len(q)]
      /\ Tail(q) = << >> => q[Len(q)] = kind
      /\ \A S : kind \notin S /\ Waits(q, S) => Waits(Tail(q), S)
  BY <1>2, EventTaken, Zenon
<1>4. kind \in StreamEvent => \A e \in StreamEvent : Waits(q, {e}) => e = kind
  BY <1>2, OneOfStage
<1>5. conn \in {"handshake", "ready"} => m_keepAliveAlarmTimer \/ Waits(q, {"failRequested"})
  BY <1>1 DEF ConnectionInv, StageInv, Queued, Waits
<1>6. conn = "none" => q[Len(q)] \in Loss
  BY <1>1, <1>2 DEF ConnectionInv, StageInv
<1>7. "failRequested" \in StreamEvent
  BY FarewellsAre
<1>8. kind \in StreamEvent /\ kind # "failRequested" /\ conn \in {"handshake", "ready"} =>
        m_keepAliveAlarmTimer
  BY <1>4, <1>5, <1>7
<1>9. kind \notin StreamEvent /\ conn \in {"handshake", "ready"} =>
        m_keepAliveAlarmTimer \/ Waits(Tail(q), {"failRequested"})
  BY <1>3, <1>5, <1>7
<1> QED BY <1>1, <1>3, <1>6, <1>8, <1>9, Zenon

LEMMA ConnectionStarts == ConnectionInit => ConnectionInv
<1> SUFFICES ASSUME ConnectionInit PROVE ConnectionInv
  OBVIOUS
<1>1. 0 \in Server /\ <<0, 0>> \in Address
  <2>1. Len(Addresses) \in Nat \ {0} /\ \A s \in Server : CountOf(s) \in Nat \ {0}
    BY AddressesAssumption DEF Server, CountOf
  <2>2. 0 \in Server
    BY <2>1 DEF Server
  <2>3. 0 \in 0 .. CountOf(0) - 1
    BY <2>1, <2>2
  <2> QED BY <2>2, <2>3 DEF Address
<1>2. ConnectionTypeOK
  <2>1. 0 \in {a[2] : a \in Address}
    BY <1>1
  <2>2. troubles \in 0 .. MaxTroubles
    BY AddressesAssumption DEF ConnectionInit
  <2>3. m_resolvedAddressesCount \in {0} \union {CountOf(s) : s \in Server}
    BY <1>1 DEF ConnectionInit
  <2>4. clientEvents \in Seq(StreamEvent \union AppEvent)
    <3>1. PICK e, S : e = "clientFailed" /\ S = StreamEvent \union AppEvent /\ e \in S
      BY DEF AppEvent
    <3>2. clientEvents = << >> \/ clientEvents = <<e>>
      BY <3>1 DEF ConnectionInit
    <3>3. << >> \in Seq(S) /\ <<e>> \in Seq(S)
      BY ONLY <3>1
    <3> QED BY <3>1, <3>2, <3>3, Zenon
  <2> QED BY <1>1, <2>1, <2>2, <2>3, <2>4 DEF ConnectionInit, ConnectionTypeOK
<1>3. StageInv
  <2>1. CASE conn = "connecting" /\ clientEvents = << >>
    BY <2>1 DEF ConnectionInit, StageInv, OfStage
  <2>2. CASE conn = "none" /\ clientEvents = <<"clientFailed">>
    <3>1. OfStage(clientEvents, conn)
      BY <2>2 DEF OfStage, StreamEvent
    <3>2. Len(clientEvents) = 1 /\ clientEvents[1] \in Loss /\ clientEvents # << >>
      BY <2>2 DEF Loss
    <3> QED BY <2>2, <3>1, <3>2 DEF ConnectionInit, StageInv
  <2> QED BY <2>1, <2>2 DEF ConnectionInit
<1> QED BY <1>2, <1>3 DEF ConnectionInv

(***************************************************************************)
(* The client's handlers.                                                  *)
(***************************************************************************)
LEMMA QueueTyped ==
  ASSUME ConnectionInv
  PROVE  clientEvents \in Seq(LoopEvent)
BY DEF ConnectionInv, ConnectionTypeOK, LoopEvent

LEMMA ConnectedKeeps ==
  ASSUME ConnectionInv, handleConnected
  PROVE  ConnectionInv'
<1>1. /\ Takes("connected") /\ clientEvents' = Tail(clientEvents) /\ conn' = "hello"
      /\ UNCHANGED <<envVars, suspendVars, target, m_timer, m_keepAliveAlarmTimer,
                     serverVars, appVars>>
  BY DEF handleConnected
<1>2. "connected" \in StreamEvent
  BY FarewellsAre
<1>3. clientEvents' \in Seq(LoopEvent) /\ ForNobody(clientEvents') /\ conn = "connecting"
  BY <1>1, <1>2, FirstEvent, StagesOfEvents
<1>4. OfStage(clientEvents', "hello")
  BY <1>3, NobodysEvents
<1>5. StageInv'
  BY <1>1, <1>3, <1>4 DEF ConnectionInv, StageInv, suspendVars
<1>6. ConnectionTypeOK'
  BY <1>1, <1>3 DEF ConnectionInv, ConnectionTypeOK, LoopEvent, envVars, suspendVars, serverVars, appVars
<1> QED BY <1>5, <1>6 DEF ConnectionInv

LEMMA HelloKeeps ==
  ASSUME ConnectionInv, handleHello
  PROVE  ConnectionInv'
<1>1. /\ Takes("hello") /\ clientEvents' = Tail(clientEvents) /\ conn' = "handshake"
      /\ m_timer' = FALSE /\ m_keepAliveAlarmTimer' = TRUE
      /\ UNCHANGED <<envVars, suspendVars, target, serverVars, appVars>>
  BY DEF handleHello, SetsAlarm
<1>2. "hello" \in StreamEvent
  BY FarewellsAre
<1>3. clientEvents' \in Seq(LoopEvent) /\ ForNobody(clientEvents') /\ conn = "hello"
  BY <1>1, <1>2, FirstEvent, StagesOfEvents
<1>4. OfStage(clientEvents', "handshake")
  BY <1>3, NobodysEvents
<1>5. StageInv'
  BY <1>1, <1>3, <1>4 DEF ConnectionInv, StageInv, suspendVars
<1>6. ConnectionTypeOK'
  BY <1>1, <1>3 DEF ConnectionInv, ConnectionTypeOK, LoopEvent, envVars, suspendVars, serverVars, appVars
<1> QED BY <1>5, <1>6 DEF ConnectionInv

LEMMA OptionsKeep ==
  ASSUME ConnectionInv, handleOptions
  PROVE  ConnectionInv'
<1>1. /\ Takes("options") /\ clientEvents' = Append(Tail(clientEvents), "clientConnected")
      /\ conn' = "ready"
      /\ UNCHANGED <<envVars, suspendVars, target, m_timer, m_keepAliveAlarmTimer,
                     serverVars, appVars>>
  BY DEF handleOptions, Posts
<1>2. "options" \in StreamEvent /\ "options" # "failRequested"
  BY FarewellsAre
<1>3. /\ Tail(clientEvents) \in Seq(LoopEvent) /\ ForNobody(Tail(clientEvents))
      /\ conn = "handshake" /\ m_keepAliveAlarmTimer
  BY <1>1, <1>2, FirstEvent, StagesOfEvents
<1>4. OfStage(Tail(clientEvents), "ready")
  BY <1>3, NobodysEvents
<1>5. "clientConnected" \in LoopEvent /\ "clientConnected" \notin StreamEvent
  BY EventKinds DEF LoopEvent
<1>6. clientEvents' \in Seq(LoopEvent) /\ OfStage(clientEvents', "ready")
  BY <1>1, <1>3, <1>4, <1>5, EventPosted, Zenon
<1>7. StageInv'
  BY <1>1, <1>3, <1>6 DEF ConnectionInv, StageInv, suspendVars
<1>8. ConnectionTypeOK'
  BY <1>1, <1>6 DEF ConnectionInv, ConnectionTypeOK, LoopEvent, envVars, suspendVars, serverVars, appVars
<1> QED BY <1>7, <1>8 DEF ConnectionInv

LEMMA FarewellKeeps ==
  ASSUME ConnectionInv, handleFarewell
  PROVE  ConnectionInv'
<1>1. PICK kind \in {"close", "refuse"}, e \in {"closeRequested", "refuseRequested"} :
        Takes(kind) /\ clientEvents' = Append(Tail(clientEvents), e)
  BY DEF handleFarewell, Posts
<1>2. UNCHANGED <<envVars, suspendVars, streamVars, serverVars, appVars>>
  BY DEF handleFarewell
<1>3. kind \in StreamEvent /\ kind # "failRequested" /\ e \in StreamEvent /\ e \in Farewells
      /\ e \in LoopEvent
  BY FarewellsAre DEF LoopEvent
<1>4. /\ Tail(clientEvents) \in Seq(LoopEvent) /\ ForNobody(Tail(clientEvents))
      /\ OfStage(Tail(clientEvents), conn) /\ kind \in StageEvents(conn)
  BY <1>1, <1>3, FirstEvent
<1>5. conn \in {"handshake", "ready"} /\ e \in StageEvents(conn)
  BY <1>3, <1>4, StagesOfEvents
<1>6. m_keepAliveAlarmTimer
  BY <1>1, <1>3, <1>5, FirstEvent
<1>7. clientEvents' \in Seq(LoopEvent) /\ OfStage(clientEvents', conn)
  BY <1>1, <1>3, <1>4, <1>5, EventPosted, Zenon
<1>8. StageInv'
  BY <1>2, <1>5, <1>6, <1>7 DEF ConnectionInv, StageInv, suspendVars, streamVars
<1>9. ConnectionTypeOK'
  BY <1>2, <1>7 DEF ConnectionInv, ConnectionTypeOK, LoopEvent, envVars, suspendVars, streamVars,
                    serverVars, appVars
<1> QED BY <1>8, <1>9 DEF ConnectionInv

LEMMA AlarmKeeps ==
  ASSUME ConnectionInv, handleKeepAliveAlarm
  PROVE  ConnectionInv'
<1>1. /\ m_keepAliveAlarmTimer /\ troubles < MaxTroubles /\ troubles' = troubles + 1
      /\ m_keepAliveAlarmTimer' = FALSE
      /\ clientEvents' = << "failRequested" >>
      /\ UNCHANGED <<reachable, suspendVars, conn, target, m_timer, serverVars, appVars>>
  BY DEF handleKeepAliveAlarm
<1>2. conn \in {"handshake", "ready"} /\ "failRequested" \in StageEvents(conn)
      /\ "failRequested" \in LoopEvent
  BY <1>1, StagesOfEvents, FarewellsAre DEF ConnectionInv, StageInv, LoopEvent
<1>3. /\ << "failRequested" >> \in Seq(LoopEvent) /\ OfStage(<< "failRequested" >>, conn)
      /\ \E i \in 1 .. Len(<< "failRequested" >>) : << "failRequested" >>[i] = "failRequested"
  <2>1. PICK q : q = << "failRequested" >>
    OBVIOUS
  <2>2. q \in Seq(LoopEvent) /\ Len(q) = 1 /\ q[1] = "failRequested"
    BY <1>2, <2>1
  <2>3. \A i : i \in 1 .. Len(q) <=> i = 1
    BY ONLY <2>2
  <2>4. OfStage(q, conn)
    BY ONLY <1>2, <2>2, <2>3 DEF OfStage
  <2> QED BY ONLY <2>1, <2>2, <2>3, <2>4
<1>4. troubles' \in 0 .. MaxTroubles
  BY <1>1, AddressesAssumption DEF ConnectionInv, ConnectionTypeOK
<1>5. StageInv'
  BY <1>1, <1>2, <1>3 DEF ConnectionInv, StageInv, suspendVars, Queued
<1>6. ConnectionTypeOK'
  BY <1>1, <1>3, <1>4 DEF ConnectionInv, ConnectionTypeOK, LoopEvent, suspendVars, serverVars, appVars
<1> QED BY <1>5, <1>6 DEF ConnectionInv

\* Every way to lose a connection.
LEMMA LossesKeep ==
  ASSUME ConnectionInv,
         handleConnectionFailed \/ handleConnectTimeout \/ handleDisconnected \/ handleSuspend
  PROVE  ConnectionInv'
<1>1. /\ troubles \in 0 .. MaxTroubles /\ MaxTroubles \in Nat
      /\ m_suspended \in BOOLEAN /\ m_connectOnResume \in BOOLEAN
      /\ clientEvents \in Seq(LoopEvent)
  BY QueueTyped, AddressesAssumption DEF ConnectionInv, ConnectionTypeOK
<1>2. \A kind : Takes(kind) => Tail(clientEvents) \in Seq(LoopEvent)
  BY FirstEvent
<1>3. {"clientFailed", "clientDisconnected", "clientRefused"} = Loss
  BY DEF Loss
<1>4. CASE handleConnectionFailed
  <2>1. /\ CleanUp(Tail(clientEvents), "clientFailed") /\ Tail(clientEvents) \in Seq(LoopEvent)
        /\ UNCHANGED <<reachable, serverVars, appVars, troubles, m_suspended, m_connectOnResume>>
    BY <1>2, <1>4 DEF handleConnectionFailed, envVars, suspendVars
  <2> QED BY <1>1, <1>3, <2>1, LosingKeeps
<1>5. CASE handleConnectTimeout
  <2>1. /\ CleanUp(clientEvents, "clientFailed")
        /\ UNCHANGED <<reachable, serverVars, appVars, m_suspended, m_connectOnResume>>
        /\ (troubles < MaxTroubles /\ troubles' = troubles + 1) \/ troubles' = troubles
    BY <1>5 DEF handleConnectTimeout, suspendVars
  <2>2. troubles' \in 0 .. MaxTroubles
    BY <1>1, <2>1
  <2> QED BY <1>1, <1>3, <2>1, <2>2, LosingKeeps
<1>6. CASE handleDisconnected
  <2>1. /\ UNCHANGED <<reachable, serverVars, appVars, troubles, m_suspended>>
        /\ m_connectOnResume' \in BOOLEAN
    BY <1>1, <1>6 DEF handleDisconnected, envVars
  <2>2. PICK kind \in Loss : CleanUp(Tail(clientEvents), kind) /\ Tail(clientEvents) \in Seq(LoopEvent)
    BY <1>2, <1>3, <1>6 DEF handleDisconnected
  <2> QED BY <1>1, <2>1, <2>2, LosingKeeps
<1>7. CASE handleSuspend
  <2>1. /\ CleanUp(clientEvents, "clientDisconnected")
        /\ UNCHANGED <<reachable, serverVars, appVars>>
        /\ m_suspended' \in BOOLEAN /\ m_connectOnResume' \in BOOLEAN
        /\ troubles < MaxTroubles /\ troubles' = troubles + 1
    BY <1>7 DEF handleSuspend
  <2>2. troubles' \in 0 .. MaxTroubles
    BY <1>1, <2>1
  <2> QED BY <1>1, <1>3, <2>1, <2>2, LosingKeeps
<1> QED BY <1>4, <1>5, <1>6, <1>7

\* The indices that are used are those of addresses.
LEMMA AddressesAre ==
  /\ Len(Addresses) \in Nat \ {0} /\ 0 \in Server
  /\ \A s \in Server : /\ s \in Nat /\ CountOf(s) \in Nat \ {0}
                       /\ (s + 1) % Len(Addresses) \in Server
                       /\ \A i \in Nat : i < CountOf(s) => <<s, i>> \in Address
  /\ \A k \in {a[2] : a \in Address} : k \in Nat
<1>1. /\ Len(Addresses) \in Nat \ {0}
      /\ \A s \in Server : s \in Nat /\ s + 1 \in 1 .. Len(Addresses)
  BY AddressesAssumption DEF Server
<1>2. \A s \in Server : CountOf(s) \in Nat \ {0}
  BY <1>1, AddressesAssumption DEF CountOf
<1>3. \A s \in Server : (s + 1) % Len(Addresses) \in Server
  <2>1. PICK n \in Nat \ {0} : n = Len(Addresses)
    BY <1>1
  <2>2. \A s \in Nat : (s + 1) % n \in 0 .. n - 1
    BY ONLY n \in Nat \ {0}
  <2> QED BY <1>1, <2>1, <2>2 DEF Server
<1>4. ASSUME NEW s \in Server, NEW i \in Nat, i < CountOf(s)
      PROVE  <<s, i>> \in Address
  <2>1. PICK n \in Nat \ {0} : n = CountOf(s)
    BY <1>2
  <2>2. i \in 0 .. n - 1
    BY ONLY <1>4, <2>1, i \in Nat
  <2> QED BY <2>1, <2>2 DEF Address
<1>5. \A a \in Address : a[2] \in Nat
  <2>1. SUFFICES ASSUME NEW a \in Address PROVE a[2] \in Nat
    OBVIOUS
  <2>2. PICK s \in Server : \E i \in 0 .. CountOf(s) - 1 : a = <<s, i>>
    BY DEF Address
  <2>3. PICK i \in 0 .. CountOf(s) - 1 : a = <<s, i>>
    BY <2>2
  <2>4. i \in Nat
    BY <1>2
  <2> QED BY <2>3, <2>4
<1>6. 0 \in Server
  BY <1>1 DEF Server
<1> QED BY <1>1, <1>2, <1>3, <1>4, <1>5, <1>6

LEMMA AddressWithin ==
  ASSUME NEW s \in Server, NEW k \in {a[2] : a \in Address}
  PROVE  <<s, IF k < CountOf(s) THEN k ELSE CountOf(s) - 1>> \in Address
<1>1. PICK n \in Nat \ {0} : n = CountOf(s)
  BY AddressesAre
<1>2. k \in Nat
  BY AddressesAre
<1>3. PICK i \in Nat : i = (IF k < n THEN k ELSE n - 1) /\ i < n
  <2>1. CASE k < n
    BY ONLY <2>1, <1>2
  <2>2. CASE ~(k < n)
    <3>1. n - 1 \in Nat /\ n - 1 < n
      BY ONLY n \in Nat \ {0}
    <3> QED BY ONLY <2>2, <3>1
  <2> QED BY <2>1, <2>2
<1>4. <<s, i>> \in Address
  BY <1>1, <1>3, AddressesAre
<1> QED BY <1>1, <1>3, <1>4, Zenon

\* An attempt leads to a connection, or the application is told that there is none.
LEMMA AttemptKeeps ==
  ASSUME ConnectionInv, conn = "none",
         NEW s \in Server, NEW k \in {a[2] : a \in Address}, Attempt(s, k),
         m_suspended' = FALSE, m_connectOnResume' \in BOOLEAN, m_restartTimer' \in BOOLEAN,
         m_serverAddress' \in Server,
         UNCHANGED <<reachable, m_currentServerIndex, m_lastServerAddressIndex>>
  PROVE  ConnectionInv'
<1>1. /\ clientEvents \in Seq(LoopEvent) /\ OfStage(clientEvents, "none")
      /\ ~m_keepAliveAlarmTimer
  BY QueueTyped DEF ConnectionInv, StageInv
<1>2. CASE /\ conn' = "connecting" /\ m_timer' = TRUE
           /\ m_resolvedAddressesCount' = CountOf(s)
           /\ target' = <<s, IF k < CountOf(s) THEN k ELSE CountOf(s) - 1>>
           /\ UNCHANGED <<m_keepAliveAlarmTimer, clientEvents, troubles>>
  <2>1. target' \in Address
    BY <1>2, AddressWithin
  <2>2. OfStage(clientEvents', "connecting")
    BY <1>1, <1>2 DEF OfStage, StageEvents
  <2>3. StageInv'
    BY <1>1, <1>2, <2>2 DEF StageInv
  <2>4. ConnectionTypeOK'
    BY <1>2, <2>1 DEF ConnectionInv, ConnectionTypeOK
  <2> QED BY <2>3, <2>4 DEF ConnectionInv
<1>3. CASE /\ troubles < MaxTroubles /\ troubles' = troubles + 1
           /\ clientEvents' = Append(clientEvents, "clientFailed")
           /\ m_resolvedAddressesCount' \in {m_resolvedAddressesCount, CountOf(s)}
           /\ UNCHANGED streamVars
  <2>1. "clientFailed" \in Loss /\ "clientFailed" \in LoopEvent /\ "clientFailed" \notin StreamEvent
    BY EventKinds DEF Loss
  <2>2. /\ clientEvents' \in Seq(LoopEvent) /\ OfStage(clientEvents', "none")
        /\ clientEvents' # << >> /\ clientEvents'[Len(clientEvents')] = "clientFailed"
    BY <1>1, <1>3, <2>1, EventPosted, Zenon
  <2>3. troubles' \in 0 .. MaxTroubles
    BY <1>3, AddressesAssumption DEF ConnectionInv, ConnectionTypeOK
  <2>4. StageInv'
    BY <1>1, <1>3, <2>1, <2>2 DEF StageInv, streamVars
  <2>5. ConnectionTypeOK'
    BY <1>3, <2>2, <2>3 DEF ConnectionInv, ConnectionTypeOK, LoopEvent, streamVars
  <2> QED BY <2>4, <2>5 DEF ConnectionInv
<1> QED BY <1>2, <1>3 DEF Attempt

LEMMA ResumeKeeps ==
  ASSUME ConnectionInv, handleResume
  PROVE  ConnectionInv'
<1>1. /\ m_suspended /\ m_suspended' = FALSE /\ m_connectOnResume' = FALSE
      /\ UNCHANGED <<reachable, m_serverAddress, appVars>>
  BY DEF handleResume
<1>2. conn = "none" /\ ~m_keepAliveAlarmTimer
  BY <1>1 DEF ConnectionInv, StageInv
<1>3. CASE m_connectOnResume
  <2>1. Attempt(m_serverAddress, 0)
    BY <1>2, <1>3 DEF handleResume
  <2>2. PICK s \in Server, k \in {0} : s = m_serverAddress
    BY DEF ConnectionInv, ConnectionTypeOK
  <2>3. k \in {a[2] : a \in Address}
    <3>1. 0 < CountOf(s)
      <4>1. CountOf(s) \in Nat \ {0}
        BY AddressesAre
      <4> QED BY ONLY <4>1
    <3>2. <<s, 0>> \in Address
      BY <3>1, AddressesAre
    <3> QED BY <2>2, <3>2
  <2>4. m_restartTimer' \in BOOLEAN /\ m_serverAddress' \in Server
    BY <1>1 DEF ConnectionInv, ConnectionTypeOK, appVars
  <2> QED BY <1>1, <1>2, <2>1, <2>2, <2>3, <2>4, AttemptKeeps DEF appVars
<1>4. CASE ~m_connectOnResume
  <2>1. UNCHANGED <<streamVars, m_resolvedAddressesCount, clientEvents, troubles>>
    BY <1>4 DEF handleResume
  <2>2. StageInv'
    BY <1>1, <1>2, <1>4, <2>1 DEF ConnectionInv, StageInv, streamVars, appVars
  <2>3. ConnectionTypeOK'
    BY <1>1, <2>1 DEF ConnectionInv, ConnectionTypeOK, streamVars, appVars
  <2> QED BY <2>2, <2>3 DEF ConnectionInv
<1> QED BY <1>3, <1>4

\* The application's handlers.  After the last event of a client that has lost its
\* connection the restart timer runs.
LEMMA AppEventKeeps ==
  ASSUME ConnectionInv, NEW kind \in AppEvent, Takes(kind), clientEvents' = Tail(clientEvents),
         kind \in Loss => m_restartTimer' = TRUE,
         UNCHANGED <<envVars, suspendVars, streamVars, serverVars>>,
         m_restartTimer' \in BOOLEAN, m_currentServerIndex' \in Server,
         m_lastServerAddressIndex' \in {a[2] : a \in Address}
  PROVE  ConnectionInv'
<1>1. kind \notin StreamEvent
  BY EventKinds
<1>2. /\ clientEvents' \in Seq(LoopEvent) /\ OfStage(clientEvents', conn)
      /\ conn = "none" /\ clientEvents' = << >> => kind \in Loss
      /\ conn = "none" /\ clientEvents' # << >> => clientEvents'[Len(clientEvents')] \in Loss
      /\ conn \in {"handshake", "ready"} =>
           m_keepAliveAlarmTimer \/ Waits(clientEvents', {"failRequested"})
  BY <1>1, FirstEvent, Zenon
<1>3. StageInv'
  BY <1>2 DEF ConnectionInv, StageInv, suspendVars, streamVars, Waits, Queued, Loss
<1>4. ConnectionTypeOK'
  BY <1>2 DEF ConnectionInv, ConnectionTypeOK, LoopEvent, envVars, suspendVars, streamVars, serverVars
<1> QED BY <1>3, <1>4 DEF ConnectionInv

LEMMA AppKeeps ==
  ASSUME ConnectionInv, handleClientConnected \/ handleClientFailed \/ handleClientLost
  PROVE  ConnectionInv'
<1>1. /\ m_currentServerIndex \in Server /\ m_lastServerAddressIndex \in {a[2] : a \in Address}
      /\ 0 \in {a[2] : a \in Address}
  <2>1. 0 \in Server /\ 0 \in Nat /\ CountOf(0) \in Nat \ {0}
    BY AddressesAre
  <2>2. 0 < CountOf(0)
    BY ONLY <2>1
  <2>3. <<0, 0>> \in Address
    BY <2>1, <2>2, AddressesAre
  <2> QED BY <2>3 DEF ConnectionInv, ConnectionTypeOK
<1>2. CASE handleClientConnected
  <2>1. "clientConnected" \in AppEvent /\ "clientConnected" \notin Loss /\ 0 \in Server
    BY EventKinds, AddressesAre
  <2> QED BY <1>1, <1>2, <2>1, AppEventKeeps DEF handleClientConnected
<1>3. CASE handleClientFailed
  <2>1. /\ Takes("clientFailed") /\ clientEvents' = Tail(clientEvents) /\ m_restartTimer' = TRUE
        /\ UNCHANGED <<envVars, suspendVars, streamVars, serverVars>>
    BY <1>3 DEF handleClientFailed
  <2>2. /\ m_currentServerIndex' \in Server
        /\ m_lastServerAddressIndex' \in {a[2] : a \in Address}
    <3>1. PICK k \in Nat : k = m_lastServerAddressIndex
      BY <1>1, AddressesAre
    <3>2. CASE k + 1 < m_resolvedAddressesCount
      <4>1. /\ m_lastServerAddressIndex' = k + 1 /\ m_currentServerIndex' = m_currentServerIndex
        BY <1>3, <3>1, <3>2 DEF handleClientFailed
      <4>2. PICK s \in Server : m_resolvedAddressesCount = CountOf(s)
        BY <3>2 DEF ConnectionInv, ConnectionTypeOK
      <4>3. <<s, k + 1>> \in Address
        BY <3>2, <4>2, AddressesAre
      <4> QED BY <1>1, <4>1, <4>3
    <3>3. CASE ~(k + 1 < m_resolvedAddressesCount)
      <4>1. m_lastServerAddressIndex' = 0 /\ m_currentServerIndex' = NextServer
        BY <1>3, <3>1, <3>3 DEF handleClientFailed, FirstAddress
      <4>2. NextServer \in Server
        BY <1>1, AddressesAre DEF NextServer
      <4> QED BY <1>1, <4>1, <4>2
    <3> QED BY <3>2, <3>3
  <2>3. "clientFailed" \in AppEvent
    BY DEF AppEvent
  <2> QED BY <2>1, <2>2, <2>3, AppEventKeeps
<1>4. CASE handleClientLost
  <2>1. PICK kind \in {"clientRefused", "clientDisconnected"} : Takes(kind)
    BY <1>4 DEF handleClientLost
  <2>2. kind \in AppEvent
    BY DEF AppEvent
  <2>3. /\ clientEvents' = Tail(clientEvents) /\ m_restartTimer' = TRUE
        /\ UNCHANGED <<envVars, suspendVars, streamVars, serverVars,
                       m_currentServerIndex, m_lastServerAddressIndex>>
    BY <1>4 DEF handleClientLost, Restarts
  <2> QED BY <1>1, <2>1, <2>2, <2>3, AppEventKeeps
<1> QED BY <1>2, <1>3, <1>4

LEMMA RestartKeeps ==
  ASSUME ConnectionInv, handleClientRestart
  PROVE  ConnectionInv'
<1>1. /\ m_restartTimer' = FALSE /\ m_serverAddress' = m_currentServerIndex
      /\ clientEvents = << >>
      /\ UNCHANGED <<reachable, m_currentServerIndex, m_lastServerAddressIndex>>
      /\ connect(m_currentServerIndex, m_lastServerAddressIndex)
  BY DEF handleClientRestart
<1>2. PICK s \in Server, k \in {a[2] : a \in Address} :
        s = m_currentServerIndex /\ k = m_lastServerAddressIndex
  BY DEF ConnectionInv, ConnectionTypeOK
<1>3. CASE /\ conn # "none"
           /\ UNCHANGED <<suspendVars, streamVars, m_resolvedAddressesCount, clientEvents, troubles>>
  <2>1. StageInv'
    BY <1>1, <1>3 DEF ConnectionInv, StageInv, suspendVars, streamVars, Queued
  <2>2. ConnectionTypeOK'
    BY <1>1, <1>2, <1>3 DEF ConnectionInv, ConnectionTypeOK, suspendVars, streamVars
  <2> QED BY <2>1, <2>2 DEF ConnectionInv
<1>4. CASE /\ conn = "none" /\ m_suspended /\ m_connectOnResume' = TRUE
           /\ UNCHANGED <<m_suspended, streamVars, m_resolvedAddressesCount, clientEvents, troubles>>
  <2>1. StageInv'
    BY <1>1, <1>4 DEF ConnectionInv, StageInv, streamVars
  <2>2. ConnectionTypeOK'
    BY <1>1, <1>2, <1>4 DEF ConnectionInv, ConnectionTypeOK, streamVars
  <2> QED BY <2>1, <2>2 DEF ConnectionInv
<1>5. CASE conn = "none" /\ ~m_suspended /\ Attempt(s, k) /\ UNCHANGED suspendVars
  <2>1. m_suspended' = FALSE /\ m_connectOnResume' \in BOOLEAN
    BY <1>5 DEF ConnectionInv, ConnectionTypeOK, suspendVars
  <2> QED BY <1>1, <1>2, <1>5, <2>1, AttemptKeeps
<1> QED BY <1>1, <1>2, <1>3, <1>4, <1>5 DEF connect

(***************************************************************************)
(* The server and the network.                                             *)
(***************************************************************************)
LEMMA ArrivalKeeps ==
  ASSUME ConnectionInv, NEW kind \in StageEvents(conn), Arrives(kind), conn # "none",
         troubles' \in 0 .. MaxTroubles
  PROVE  ConnectionInv'
<1>1. /\ ~Queued(StreamEvent) /\ clientEvents' = Append(clientEvents, kind)
      /\ UNCHANGED <<reachable, suspendVars, streamVars, serverVars, appVars>>
  BY DEF Arrives
<1>2. clientEvents \in Seq(LoopEvent) /\ OfStage(clientEvents, conn)
  BY QueueTyped DEF ConnectionInv, StageInv
<1>3. ForNobody(clientEvents)
  BY <1>1, <1>2, OneOfStage DEF Queued, Waits
<1>4. kind \in LoopEvent
  BY StagesOfEvents DEF LoopEvent
<1>5. /\ clientEvents' \in Seq(LoopEvent) /\ OfStage(clientEvents', conn)
  BY <1>1, <1>2, <1>3, <1>4, EventPosted, Zenon
<1>6. conn \in {"handshake", "ready"} => m_keepAliveAlarmTimer
  <2>1. "failRequested" \in StreamEvent
    BY FarewellsAre
  <2> QED BY <1>1, <2>1 DEF ConnectionInv, StageInv, Queued
<1>7. StageInv'
  BY <1>1, <1>5, <1>6 DEF ConnectionInv, StageInv, suspendVars, streamVars
<1>8. ConnectionTypeOK'
  BY <1>1, <1>5 DEF ConnectionInv, ConnectionTypeOK, LoopEvent, suspendVars, streamVars, serverVars, appVars
<1> QED BY <1>7, <1>8 DEF ConnectionInv

LEMMA NetworkKeeps ==
  ASSUME ConnectionInv, ServerAnswers \/ ConnectFails \/ Trouble
  PROVE  ConnectionInv'
<1>1. troubles' \in 0 .. MaxTroubles
  <2>1. troubles \in 0 .. MaxTroubles /\ MaxTroubles \in Nat
    BY AddressesAssumption DEF ConnectionInv, ConnectionTypeOK
  <2>2. troubles' = troubles \/ (troubles < MaxTroubles /\ troubles' = troubles + 1)
    BY DEF ServerAnswers, ConnectFails, Trouble
  <2> QED BY <2>1, <2>2
<1>2. PICK kind : kind \in StageEvents(conn) /\ Arrives(kind) /\ conn # "none"
  <2>1. CASE conn = "connecting"
    <3>1. Arrives("connected") \/ Arrives("connectionFailed")
      BY <2>1 DEF ServerAnswers, ConnectFails, Trouble
    <3> QED BY <2>1, <3>1, StagesOfEvents
  <2>2. CASE conn = "hello"
    <3>1. Arrives("hello") \/ Arrives("badHello") \/ Arrives("hangUp")
      BY <2>2 DEF ServerAnswers, ConnectFails, Trouble
    <3> QED BY <2>2, <3>1, StagesOfEvents
  <2>3. CASE conn \in {"handshake", "ready"}
    <3>1. \/ conn = "handshake" /\ Arrives("options")
          \/ Arrives("hangUp") \/ Arrives("close") \/ Arrives("refuse")
      BY <2>3 DEF ServerAnswers, ConnectFails, Trouble
    <3> QED BY <2>3, <3>1, StagesOfEvents, FarewellsAre
  <2>4. conn \in {"connecting", "hello", "handshake", "ready"}
    BY DEF ServerAnswers, ConnectFails, Trouble
  <2> QED BY <2>1, <2>2, <2>3, <2>4
<1> QED BY <1>1, <1>2, ArrivalKeeps

LEMMA ConnectionGoesOn == ConnectionInv /\ [ConnectionNext]_connectionVars => ConnectionInv'
<1> SUFFICES ASSUME ConnectionInv, [ConnectionNext]_connectionVars PROVE ConnectionInv'
  OBVIOUS
<1>1. CASE Handler
  BY <1>1, ConnectedKeeps, LossesKeep, HelloKeeps, OptionsKeep, FarewellKeeps, AppKeeps DEF Handler
<1>2. CASE handleConnectTimeout \/ handleSuspend
  BY <1>2, LossesKeep
<1>3. CASE handleKeepAliveAlarm \/ handleClientRestart \/ handleResume
  BY <1>3, AlarmKeeps, RestartKeeps, ResumeKeeps
<1>4. CASE ServerAnswers \/ ConnectFails \/ Trouble
  BY <1>4, NetworkKeeps
<1>5. CASE UNCHANGED connectionVars
  <2>1. /\ UNCHANGED <<reachable, troubles, clientEvents, m_suspended, m_connectOnResume>>
        /\ UNCHANGED <<conn, target, m_timer, m_keepAliveAlarmTimer, m_serverAddress>>
        /\ UNCHANGED <<m_resolvedAddressesCount, m_currentServerIndex,
                       m_lastServerAddressIndex, m_restartTimer>>
    BY <1>5 DEF connectionVars, envVars, suspendVars, streamVars, serverVars, appVars
  <2>2. StageInv'
    BY <2>1 DEF ConnectionInv, StageInv, Queued
  <2>3. ConnectionTypeOK'
    BY <2>1 DEF ConnectionInv, ConnectionTypeOK
  <2> QED BY <2>2, <2>3 DEF ConnectionInv
<1> QED BY <1>1, <1>2, <1>3, <1>4, <1>5 DEF ConnectionNext

\* Every variable of a client's search for a server has its type: whatever is tried
\* next is an address of a server that is configured (handleClientFailed, connect).
THEOREM ConnectionTypeCorrect == ConnectionSpec => []ConnectionTypeOK
<1>1. ConnectionInv => ConnectionTypeOK
  BY DEF ConnectionInv
<1> QED BY <1>1, ConnectionStarts, ConnectionGoesOn, PTL DEF ConnectionSpec

\* However a connection fails or ends, and whenever the machine is suspended, the
\* client has arranged for its next attempt (ClientApp's handlers, Client::cleanup,
\* handleSuspend and handleResume).
THEOREM ClientIsNeverStuck == ConnectionSpec => []NeverStuck
<1>1. ConnectionInv => NeverStuck
  <2> SUFFICES ASSUME ConnectionInv PROVE NeverStuck
    OBVIOUS
  <2>1. conn = "none" /\ clientEvents # << >> => Queued(Loss)
    <3>1. clientEvents # << >> => Len(clientEvents) \in 1 .. Len(clientEvents)
      BY QueueTyped
    <3> QED BY <3>1 DEF ConnectionInv, StageInv, Queued
  <2>2. conn \in {"handshake", "ready"} => m_keepAliveAlarmTimer \/ Queued(StreamEvent)
    <3>1. "failRequested" \in StreamEvent
      BY FarewellsAre
    <3> QED BY <3>1 DEF ConnectionInv, StageInv, Queued
  <2> QED BY <2>1, <2>2 DEF ConnectionInv, StageInv, NeverStuck
<1> QED BY <1>1, ConnectionStarts, ConnectionGoesOn, PTL DEF ConnectionSpec
=============================================================================
